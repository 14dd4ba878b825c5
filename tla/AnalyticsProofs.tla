--------------------------- MODULE AnalyticsProofs ----------------------------
(***************************************************************************)
(* Proofs about the analytics that sum over sets of stocks, each for any   *)
(* value of its constants: the books, analyses and optimizer answers of    *)
(* portfolios, and the scores of the universe.  They rest on a small       *)
(* library about sums, whose lemmas argue by a smallest counterexample.    *)
(* At the end, the workspace the components run in side by side.           *)
(***************************************************************************)
EXTENDS MCWorkspace, JobsAndEventsProofs, Functions, WellFoundedInduction, TLAPS

-----------------------------------------------------------------------------
(* Sums over finite sets *)

(* A set of subsets of a finite set has one that is in it and none of whose  *)
(* subsets without one more element is: a smallest counterexample.           *)
LEMMA SmallestOne ==
    ASSUME NEW S, IsFiniteSet(S), NEW Bad, Bad \subseteq SUBSET S, Bad # {}
    PROVE  \E b \in Bad : \A c \in Bad : ~(c \subseteq b /\ c # b)
<1>1. IsWellFoundedOn(StrictSubsetOrdering(S), FiniteSubsetsOf(S))
  BY FS_StrictSubsetOrderingWellFounded
<1>2. Bad \subseteq FiniteSubsetsOf(S)
  BY FS_Subset DEF FiniteSubsetsOf
<1>3. PICK b \in Bad : \A c \in Bad : <<c, b>> \notin StrictSubsetOrdering(S)
  BY <1>1, <1>2, WFMin
<1>4. ASSUME NEW c \in Bad, c \subseteq b, c # b PROVE FALSE
  <2>1. <<c, b>> \in StrictSubsetOrdering(S)
    BY <1>4 DEF StrictSubsetOrdering
  <2>2. QED
    BY <1>3, <2>1
<1>5. QED
  BY <1>4

-----------------------------------------------------------------------------
Picked(s) == CHOOSE x \in s : TRUE

(* The partial sums of f over the subsets of T. *)
Sums(f, T, g) ==
    g = [s \in SUBSET T |-> IF s = {} THEN 0 ELSE f[Picked(s)] + g[s \ {Picked(s)}]]

LEMMA PickedIsIn == ASSUME NEW s, s # {} PROVE Picked(s) \in s
BY DEF Picked

LEMMA SumsAgree ==
    ASSUME NEW f, NEW S, NEW T, IsFiniteSet(S), S \subseteq T, NEW g, NEW h,
           Sums(f, S, g), Sums(f, T, h)
    PROVE  g[S] = h[S]
<1> DEFINE Bad == {s \in SUBSET S : g[s] # h[s]}
<1> SUFFICES ASSUME S \in Bad PROVE FALSE
  OBVIOUS
<1>1. \A s \in SUBSET S :
          /\ g[s] = IF s = {} THEN 0 ELSE f[Picked(s)] + g[s \ {Picked(s)}]
          /\ h[s] = IF s = {} THEN 0 ELSE f[Picked(s)] + h[s \ {Picked(s)}]
  <2>1. \A s \in SUBSET S : g[s] = IF s = {} THEN 0 ELSE f[Picked(s)] + g[s \ {Picked(s)}]
    BY Zenon DEF Sums
  <2>2. \A s \in SUBSET T : h[s] = IF s = {} THEN 0 ELSE f[Picked(s)] + h[s \ {Picked(s)}]
    BY Zenon DEF Sums
  <2>3. QED
    BY <2>1, <2>2
<1>4. PICK b \in Bad : \A c \in Bad : ~(c \subseteq b /\ c # b)
  <2>1. Bad \subseteq SUBSET S /\ Bad # {}
    OBVIOUS
  <2> HIDE DEF Bad
  <2>2. QED
    BY <2>1, SmallestOne
<1>5. b \in SUBSET S /\ g[b] # h[b]
  OBVIOUS
<1>6. b # {}
  BY <1>1, <1>5
<1>7. Picked(b) \in b
  BY <1>6, PickedIsIn
<1>8. b \ {Picked(b)} \in SUBSET S /\ b \ {Picked(b)} \subseteq b /\ b \ {Picked(b)} # b
  BY <1>5, <1>7
<1>9. g[b \ {Picked(b)}] = h[b \ {Picked(b)}]
  BY <1>4, <1>8
<1>10. g[b] = f[Picked(b)] + g[b \ {Picked(b)}] /\ h[b] = f[Picked(b)] + h[b \ {Picked(b)}]
  BY <1>1, <1>5, <1>6, Zenon
<1>11. QED
  BY <1>5, <1>9, <1>10, Zenon

LEMMA SumsExist ==
    ASSUME NEW f, NEW S, IsFiniteSet(S)
    PROVE  \E g : Sums(f, S, g)
<1> DEFINE Bad == {T \in SUBSET S : ~\E g : Sums(f, T, g)}
<1> SUFFICES ASSUME S \in Bad PROVE FALSE
  OBVIOUS
<1>3. PICK b \in Bad : \A c \in Bad : ~(c \subseteq b /\ c # b)
  <2>1. Bad \subseteq SUBSET S /\ Bad # {}
    OBVIOUS
  <2> HIDE DEF Bad
  <2>2. QED
    BY <2>1, SmallestOne
<1> DEFINE G(t) == CHOOSE g : Sums(f, t, g)
           h == [s \in SUBSET b |-> IF s = {} THEN 0
                                    ELSE f[Picked(s)] + G(s \ {Picked(s)})[s \ {Picked(s)}]]
<1>4. \A t \in SUBSET b : t # b => Sums(f, t, G(t))
  <2> TAKE t \in SUBSET b
  <2> HAVE t # b
  <2>1. t \in SUBSET S /\ t \subseteq b
    OBVIOUS
  <2>2. \E g : Sums(f, t, g)
    BY <1>3, <2>1
  <2>3. QED
    BY <2>2
<1>5. \A s \in SUBSET b : s # {} => s \ {Picked(s)} \in SUBSET b /\ s \ {Picked(s)} # b
  BY PickedIsIn
<1>6. \A t \in SUBSET b : IsFiniteSet(t)
  BY FS_Subset
<1>7. \A t \in SUBSET b : t # b => h[t] = G(t)[t]
  <2> TAKE t \in SUBSET b
  <2> HAVE t # b
  <2> DEFINE u == t \ {Picked(t)}
  <2>1. G(t)[t] = IF t = {} THEN 0 ELSE f[Picked(t)] + G(t)[u]
    <3> DEFINE g == G(t)
    <3>1. Sums(f, t, g)
      BY <1>4
    <3> HIDE DEF g
    <3>2. g[t] = IF t = {} THEN 0 ELSE f[Picked(t)] + g[t \ {Picked(t)}]
      BY <3>1, Zenon DEF Sums
    <3>3. QED
      BY <3>2, Zenon DEF g
  <2>2. h[t] = IF t = {} THEN 0 ELSE f[Picked(t)] + G(u)[u]
    BY Zenon
  <2>3. CASE t = {}
    BY <2>1, <2>2, <2>3, Zenon
  <2>4. CASE t # {}
    <3>1. u \in SUBSET b /\ u # b /\ u \subseteq t
      BY <1>5, <2>4
    <3>2. Sums(f, u, G(u)) /\ Sums(f, t, G(t)) /\ IsFiniteSet(u)
      BY <1>4, <1>6, <3>1
    <3>3. G(u)[u] = G(t)[u]
      <4> HIDE DEF G, u
      <4>1. QED
        BY <3>1, <3>2, SumsAgree
    <3>4. QED
      BY <2>1, <2>2, <2>4, <3>3, Zenon
  <2>5. QED
    BY <2>3, <2>4
<1>8. Sums(f, b, h)
  <2>1. \A s \in SUBSET b : s # {} => G(s \ {Picked(s)})[s \ {Picked(s)}] = h[s \ {Picked(s)}]
    <3> TAKE s \in SUBSET b
    <3> HAVE s # {}
    <3> DEFINE u == s \ {Picked(s)}
    <3>1. u \in SUBSET b /\ u # b
      BY <1>5
    <3> HIDE DEF h, G, u
    <3>2. G(u)[u] = h[u]
      BY <1>7, <3>1, Zenon
    <3>3. QED
      BY <3>2, Zenon DEF u
  <2>2. h = [s \in SUBSET b |-> IF s = {} THEN 0 ELSE f[Picked(s)] + G(s \ {Picked(s)})[s \ {Picked(s)}]]
    BY Zenon
  <2> HIDE DEF h, G
  <2>3. \A s \in SUBSET b :
           (IF s = {} THEN 0 ELSE f[Picked(s)] + G(s \ {Picked(s)})[s \ {Picked(s)}])
           = (IF s = {} THEN 0 ELSE f[Picked(s)] + h[s \ {Picked(s)}])
    BY <2>1, Zenon
  <2>4. h = [s \in SUBSET b |-> IF s = {} THEN 0 ELSE f[Picked(s)] + h[s \ {Picked(s)}]]
    BY <2>2, <2>3, Zenon
  <2>5. QED
    BY <2>4 DEF Sums
<1>9. QED
  BY <1>3, <1>8

LEMMA SumIsSums ==
    ASSUME NEW f, NEW S, IsFiniteSet(S)
    PROVE  \E g : Sums(f, S, g) /\ SumFunctionOnSet(f, S) = g[S]
<1> DEFINE g == CHOOSE g : Sums(f, S, g)
<1>1. Sums(f, S, g)
  BY SumsExist
<1>2. SumFunctionOnSet(f, S) = g[S]
  BY Zenon DEF SumFunctionOnSet, FoldFunctionOnSet, MapThenFoldSet, Sums, Picked
<1>3. QED
  BY <1>1, <1>2

LEMMA SumEmpty == ASSUME NEW f PROVE SumFunctionOnSet(f, {}) = 0
<1>1. PICK g : Sums(f, {}, g) /\ SumFunctionOnSet(f, {}) = g[{}]
  BY SumIsSums, FS_EmptySet
<1>2. QED
  BY <1>1 DEF Sums

LEMMA SumPicked ==
    ASSUME NEW f, NEW S, IsFiniteSet(S), S # {}
    PROVE  SumFunctionOnSet(f, S) = f[Picked(S)] + SumFunctionOnSet(f, S \ {Picked(S)})
<1> DEFINE U == S \ {Picked(S)}
<1>1. IsFiniteSet(U) /\ U \subseteq S
  BY FS_Subset
<1>2. PICK g : Sums(f, S, g) /\ SumFunctionOnSet(f, S) = g[S]
  BY SumIsSums
<1> HIDE DEF U
<1>3. PICK h : Sums(f, U, h) /\ SumFunctionOnSet(f, U) = h[U]
  BY <1>1, SumIsSums
<1>4. h[U] = g[U]
  BY <1>1, <1>2, <1>3, SumsAgree
<1>5. g[S] = f[Picked(S)] + g[S \ {Picked(S)}]
  BY <1>2, Zenon DEF Sums
<1>6. QED
  BY <1>2, <1>3, <1>4, <1>5, Zenon DEF U

-----------------------------------------------------------------------------
(* A column of integers over S. *)
Column(f, S) == \A s \in S : f[s] \in Int

LEMMA SumIsInt ==
    ASSUME NEW f, NEW S, IsFiniteSet(S), Column(f, S)
    PROVE  SumFunctionOnSet(f, S) \in Int
<1> DEFINE Bad == {T \in SUBSET S : SumFunctionOnSet(f, T) \notin Int}
<1> SUFFICES ASSUME S \in Bad PROVE FALSE
  OBVIOUS
<1>1. PICK b \in Bad : \A c \in Bad : ~(c \subseteq b /\ c # b)
  <2>1. Bad \subseteq SUBSET S /\ Bad # {}
    OBVIOUS
  <2> HIDE DEF Bad
  <2>2. QED
    BY <2>1, SmallestOne
<1>2. b # {}
  BY SumEmpty
<1>3. SumFunctionOnSet(f, b) = f[Picked(b)] + SumFunctionOnSet(f, b \ {Picked(b)})
  BY <1>2, SumPicked, FS_Subset
<1>4. SumFunctionOnSet(f, b \ {Picked(b)}) \in Int
  BY <1>1, <1>2, PickedIsIn
<1>5. f[Picked(b)] \in Int
  BY <1>2, PickedIsIn DEF Column
<1>6. QED
  BY <1>3, <1>4, <1>5

LEMMA SumRemoves ==
    ASSUME NEW f, NEW S, IsFiniteSet(S), Column(f, S), NEW x \in S
    PROVE  SumFunctionOnSet(f, S) = f[x] + SumFunctionOnSet(f, S \ {x})
<1> DEFINE Sum(T) == SumFunctionOnSet(f, T)
           Bad == {T \in SUBSET S : \E y \in T : Sum(T) # f[y] + Sum(T \ {y})}
<1> SUFFICES ASSUME S \in Bad PROVE FALSE
  OBVIOUS
<1>1. PICK b \in Bad : \A c \in Bad : ~(c \subseteq b /\ c # b)
  <2>1. Bad \subseteq SUBSET S /\ Bad # {}
    OBVIOUS
  <2> HIDE DEF Bad
  <2>2. QED
    BY <2>1, SmallestOne
<1>2. PICK y \in b : Sum(b) # f[y] + Sum(b \ {y})
  OBVIOUS
<1> DEFINE p == Picked(b)
<1>3. p \in b /\ b \subseteq S
  BY <1>2, PickedIsIn
<1>4. \A T \in SUBSET S : Sum(T) \in Int /\ IsFiniteSet(T)
  BY SumIsInt, FS_Subset DEF Column
<1>5. Sum(b) = f[p] + Sum(b \ {p})
  BY <1>3, <1>4, SumPicked
<1> HIDE DEF p
<1>6. p # y
  BY <1>2, <1>5
<1>7. b \ {p} \notin Bad /\ b \ {y} \notin Bad
  <2> HIDE DEF Bad
  <2>1. QED
    BY <1>1, <1>2, <1>3
<1>8. Sum(b \ {p}) = f[y] + Sum((b \ {p}) \ {y}) /\ Sum(b \ {y}) = f[p] + Sum((b \ {y}) \ {p})
  <2> HIDE DEF Sum
  <2>1. QED
    BY <1>2, <1>3, <1>6, <1>7
<1>9. (b \ {p}) \ {y} = (b \ {y}) \ {p} /\ (b \ {y}) \ {p} \in SUBSET S
  BY <1>3
<1>10. f[p] \in Int /\ f[y] \in Int /\ Sum((b \ {y}) \ {p}) \in Int
  BY <1>2, <1>3, <1>4, <1>9 DEF Column
<1> HIDE DEF Sum, Bad
<1>11. Sum((b \ {p}) \ {y}) = Sum((b \ {y}) \ {p})
  BY <1>9
<1>12. QED
  BY <1>2, <1>5, <1>8, <1>10, <1>11

LEMMA SumAdds ==
    ASSUME NEW f, NEW T, NEW x, x \notin T, IsFiniteSet(T), Column(f, T \cup {x})
    PROVE  SumFunctionOnSet(f, T \cup {x}) = f[x] + SumFunctionOnSet(f, T)
<1>1. IsFiniteSet(T \cup {x}) /\ (T \cup {x}) \ {x} = T
  BY FS_AddElement
<1>2. QED
  BY <1>1, SumRemoves

(* Induction over the subsets of a finite set, element by element. *)
LEMMA ByElements ==
    ASSUME NEW S, IsFiniteSet(S), NEW Good, {} \in Good,
           \A T \in SUBSET S : T \in Good => \A x \in S \ T : T \cup {x} \in Good
    PROVE  SUBSET S \subseteq Good
<1> DEFINE Bad == {T \in SUBSET S : T \notin Good}
<1> SUFFICES ASSUME Bad # {} PROVE FALSE
  OBVIOUS
<1>1. PICK b \in Bad : \A c \in Bad : ~(c \subseteq b /\ c # b)
  <2>1. Bad \subseteq SUBSET S
    OBVIOUS
  <2> HIDE DEF Bad
  <2>2. QED
    BY <2>1, SmallestOne
<1>2. PICK x \in b : TRUE
  OBVIOUS
<1>3. b \ {x} \in SUBSET S /\ b = (b \ {x}) \cup {x} /\ x \in S \ (b \ {x})
  BY <1>2
<1>4. b \ {x} \in Good
  BY <1>1, <1>2, <1>3
<1>5. (b \ {x}) \cup {x} \in Good
  BY <1>3, <1>4
<1>6. QED
  BY <1>3, <1>5, Zenon

LEMMA SumsAreEqual ==
    ASSUME NEW f, NEW g, NEW S, IsFiniteSet(S), Column(f, S), \A s \in S : f[s] = g[s]
    PROVE  SumFunctionOnSet(f, S) = SumFunctionOnSet(g, S)
<1> DEFINE Good == {T \in SUBSET S : SumFunctionOnSet(f, T) = SumFunctionOnSet(g, T)}
<1>1. {} \in Good
  BY SumEmpty
<1>2. ASSUME NEW T \in SUBSET S, T \in Good, NEW x \in S \ T PROVE T \cup {x} \in Good
  <2>1. IsFiniteSet(T) /\ Column(f, T \cup {x}) /\ Column(g, T \cup {x})
    BY FS_Subset DEF Column
  <2>2. QED
    BY <1>2, <2>1, SumAdds
<1>3. SUBSET S \subseteq Good
  <2> HIDE DEF Good
  <2>1. QED
    BY <1>1, <1>2, ByElements
<1>4. QED
  BY <1>3

LEMMA SumAtMost ==
    ASSUME NEW f, NEW g, NEW S, IsFiniteSet(S), Column(f, S), Column(g, S),
           \A s \in S : f[s] <= g[s]
    PROVE  SumFunctionOnSet(f, S) <= SumFunctionOnSet(g, S)
<1> DEFINE Good == {T \in SUBSET S : SumFunctionOnSet(f, T) <= SumFunctionOnSet(g, T)}
<1>1. {} \in Good
  BY SumEmpty
<1>2. ASSUME NEW T \in SUBSET S, T \in Good, NEW x \in S \ T PROVE T \cup {x} \in Good
  <2>1. IsFiniteSet(T) /\ Column(f, T \cup {x}) /\ Column(g, T \cup {x})
        /\ Column(f, T) /\ Column(g, T)
    BY FS_Subset DEF Column
  <2>2. /\ SumFunctionOnSet(f, T \cup {x}) = f[x] + SumFunctionOnSet(f, T)
        /\ SumFunctionOnSet(g, T \cup {x}) = g[x] + SumFunctionOnSet(g, T)
    BY <2>1, SumAdds
  <2>3. /\ SumFunctionOnSet(f, T) \in Int /\ SumFunctionOnSet(g, T) \in Int
        /\ f[x] \in Int /\ g[x] \in Int /\ f[x] <= g[x]
    BY <2>1, SumIsInt DEF Column
  <2>4. QED
    BY <1>2, <2>2, <2>3
<1>3. SUBSET S \subseteq Good
  <2> HIDE DEF Good
  <2>1. QED
    BY <1>1, <1>2, ByElements
<1>4. QED
  BY <1>3

LEMMA SumsAdd ==
    ASSUME NEW f, NEW g, NEW h, NEW S, IsFiniteSet(S), Column(f, S), Column(g, S),
           \A s \in S : h[s] = f[s] + g[s]
    PROVE  SumFunctionOnSet(h, S) = SumFunctionOnSet(f, S) + SumFunctionOnSet(g, S)
<1> DEFINE Good == {T \in SUBSET S : SumFunctionOnSet(h, T)
                        = SumFunctionOnSet(f, T) + SumFunctionOnSet(g, T)}
<1>1. {} \in Good
  BY SumEmpty
<1>2. ASSUME NEW T \in SUBSET S, T \in Good, NEW x \in S \ T PROVE T \cup {x} \in Good
  <2>1. IsFiniteSet(T) /\ Column(f, T \cup {x}) /\ Column(g, T \cup {x}) /\ Column(h, T \cup {x})
        /\ Column(f, T) /\ Column(g, T)
    BY FS_Subset DEF Column
  <2>2. /\ SumFunctionOnSet(f, T \cup {x}) = f[x] + SumFunctionOnSet(f, T)
        /\ SumFunctionOnSet(g, T \cup {x}) = g[x] + SumFunctionOnSet(g, T)
        /\ SumFunctionOnSet(h, T \cup {x}) = h[x] + SumFunctionOnSet(h, T)
    BY <2>1, SumAdds
  <2>3. /\ SumFunctionOnSet(f, T) \in Int /\ SumFunctionOnSet(g, T) \in Int
        /\ f[x] \in Int /\ g[x] \in Int /\ h[x] = f[x] + g[x]
    BY <2>1, SumIsInt DEF Column
  <2>4. QED
    BY <1>2, <2>2, <2>3
<1>3. SUBSET S \subseteq Good
  <2> HIDE DEF Good
  <2>1. QED
    BY <1>1, <1>2, ByElements
<1>4. QED
  BY <1>3

LEMMA SumScales ==
    ASSUME NEW f, NEW g, NEW k \in Int, NEW S, IsFiniteSet(S), Column(f, S),
           \A s \in S : g[s] = k * f[s]
    PROVE  SumFunctionOnSet(g, S) = k * SumFunctionOnSet(f, S)
<1> DEFINE Good == {T \in SUBSET S : SumFunctionOnSet(g, T) = k * SumFunctionOnSet(f, T)}
<1>1. {} \in Good
  BY SumEmpty
<1>2. ASSUME NEW T \in SUBSET S, T \in Good, NEW x \in S \ T PROVE T \cup {x} \in Good
  <2>1. IsFiniteSet(T) /\ Column(f, T \cup {x}) /\ Column(g, T \cup {x}) /\ Column(f, T)
    BY FS_Subset DEF Column
  <2>2. /\ SumFunctionOnSet(f, T \cup {x}) = f[x] + SumFunctionOnSet(f, T)
        /\ SumFunctionOnSet(g, T \cup {x}) = g[x] + SumFunctionOnSet(g, T)
    BY <2>1, SumAdds
  <2>3. SumFunctionOnSet(f, T) \in Int /\ f[x] \in Int /\ g[x] = k * f[x]
    BY <2>1, SumIsInt DEF Column
  <2>4. \A a, b \in Int : k * a + k * b = k * (a + b)
    OBVIOUS
  <2>5. k * f[x] + k * SumFunctionOnSet(f, T) = k * (f[x] + SumFunctionOnSet(f, T))
    BY <2>3, <2>4
  <2>6. QED
    BY <1>2, <2>2, <2>3, <2>5
<1>3. SUBSET S \subseteq Good
  <2> HIDE DEF Good
  <2>1. QED
    BY <1>1, <1>2, ByElements
<1>4. QED
  BY <1>3

LEMMA SumOfUnion ==
    ASSUME NEW f, NEW S, NEW R, IsFiniteSet(S), IsFiniteSet(R), S \cap R = {},
           Column(f, S \cup R)
    PROVE  SumFunctionOnSet(f, S \cup R) = SumFunctionOnSet(f, S) + SumFunctionOnSet(f, R)
<1> DEFINE Good == {T \in SUBSET R : SumFunctionOnSet(f, S \cup T)
                        = SumFunctionOnSet(f, S) + SumFunctionOnSet(f, T)}
<1>0. SumFunctionOnSet(f, S) \in Int
  BY SumIsInt DEF Column
<1>1. {} \in Good
  <2>1. S \cup {} = S
    OBVIOUS
  <2>2. QED
    BY <1>0, <2>1, SumEmpty
<1>2. ASSUME NEW T \in SUBSET R, T \in Good, NEW x \in R \ T PROVE T \cup {x} \in Good
  <2>1. IsFiniteSet(T) /\ IsFiniteSet(S \cup T) /\ Column(f, T) /\ Column(f, T \cup {x})
        /\ Column(f, (S \cup T) \cup {x})
    BY FS_Subset, FS_Union DEF Column
  <2>2. x \notin S \cup T /\ S \cup (T \cup {x}) = (S \cup T) \cup {x}
    OBVIOUS
  <2>3. /\ SumFunctionOnSet(f, T \cup {x}) = f[x] + SumFunctionOnSet(f, T)
        /\ SumFunctionOnSet(f, (S \cup T) \cup {x}) = f[x] + SumFunctionOnSet(f, S \cup T)
    BY <2>1, <2>2, SumAdds
  <2>4. SumFunctionOnSet(f, T) \in Int /\ f[x] \in Int
    BY <2>1, SumIsInt DEF Column
  <2>5. SumFunctionOnSet(f, S \cup T) = SumFunctionOnSet(f, S) + SumFunctionOnSet(f, T)
    BY <1>2
  <2>6. SumFunctionOnSet(f, S \cup (T \cup {x})) = SumFunctionOnSet(f, S) + SumFunctionOnSet(f, T \cup {x})
    <3>1. SumFunctionOnSet(f, S \cup (T \cup {x})) = f[x] + SumFunctionOnSet(f, S \cup T)
      BY <2>2, <2>3, Zenon
    <3>2. QED
      BY <1>0, <2>3, <2>4, <2>5, <3>1
  <2>7. QED
    BY <2>6
<1>3. SUBSET R \subseteq Good
  <2> HIDE DEF Good
  <2>1. QED
    BY <1>1, <1>2, ByElements
<1>4. QED
  BY <1>3

LEMMA SumOfConstant ==
    ASSUME NEW f, NEW k \in Int, NEW S, IsFiniteSet(S), \A s \in S : f[s] = k
    PROVE  SumFunctionOnSet(f, S) = k * Cardinality(S)
<1> DEFINE Good == {T \in SUBSET S : SumFunctionOnSet(f, T) = k * Cardinality(T)}
<1>1. {} \in Good
  BY SumEmpty, FS_EmptySet
<1>2. ASSUME NEW T \in SUBSET S, T \in Good, NEW x \in S \ T PROVE T \cup {x} \in Good
  <2>1. IsFiniteSet(T) /\ Column(f, T \cup {x})
    BY FS_Subset DEF Column
  <2>2. SumFunctionOnSet(f, T \cup {x}) = k + SumFunctionOnSet(f, T)
    BY <2>1, SumAdds
  <2>3. Cardinality(T) \in Nat /\ Cardinality(T \cup {x}) = Cardinality(T) + 1
    BY <2>1, FS_CardinalityType, FS_AddElement
  <2>4. \A n \in Nat : k * (n + 1) = k + k * n
    OBVIOUS
  <2>5. QED
    BY <1>2, <2>2, <2>3, <2>4
<1>3. SUBSET S \subseteq Good
  <2> HIDE DEF Good
  <2>1. QED
    BY <1>1, <1>2, ByElements
<1>4. QED
  BY <1>3

LEMMA SumIsNat ==
    ASSUME NEW f, NEW S, IsFiniteSet(S), \A s \in S : f[s] \in Nat
    PROVE  SumFunctionOnSet(f, S) \in Nat
<1> DEFINE zero == [s \in S |-> 0]
<1>1. Column(f, S) /\ Column(zero, S) /\ \A s \in S : zero[s] <= f[s]
  BY DEF Column
<1>2. SumFunctionOnSet(zero, S) = 0 * Cardinality(S)
  BY SumOfConstant
<1>3. Cardinality(S) \in Nat
  BY FS_CardinalityType
<1> HIDE DEF zero
<1>4. SumFunctionOnSet(zero, S) <= SumFunctionOnSet(f, S)
  BY <1>1, SumAtMost
<1>5. QED
  BY <1>1, <1>2, <1>3, <1>4, SumIsInt

LEMMA SumOfPart ==
    ASSUME NEW f, NEW R, IsFiniteSet(R), NEW S, S \subseteq R, \A s \in R : f[s] \in Nat
    PROVE  SumFunctionOnSet(f, S) <= SumFunctionOnSet(f, R)
<1>1. /\ R = S \cup (R \ S) /\ S \cap (R \ S) = {}
      /\ IsFiniteSet(S) /\ IsFiniteSet(R \ S) /\ Column(f, R)
  BY FS_Subset DEF Column
<1>2. SumFunctionOnSet(f, S \cup (R \ S)) = SumFunctionOnSet(f, S) + SumFunctionOnSet(f, R \ S)
  BY <1>1, SumOfUnion
<1>3. SumFunctionOnSet(f, S) \in Nat /\ SumFunctionOnSet(f, R \ S) \in Nat
  BY <1>1, SumIsNat
<1>4. SumFunctionOnSet(f, R) = SumFunctionOnSet(f, S) + SumFunctionOnSet(f, R \ S)
  BY <1>1, <1>2, Zenon
<1>5. QED
  BY <1>3, <1>4

LEMMA SumOfSupport ==
    ASSUME NEW f, NEW R, IsFiniteSet(R), NEW S, S \subseteq R, Column(f, S),
           \A s \in R \ S : f[s] = 0
    PROVE  SumFunctionOnSet(f, S) = SumFunctionOnSet(f, R)
<1>1. /\ R = S \cup (R \ S) /\ S \cap (R \ S) = {}
      /\ IsFiniteSet(S) /\ IsFiniteSet(R \ S) /\ Column(f, R)
  BY FS_Subset DEF Column
<1>2. SumFunctionOnSet(f, S \cup (R \ S)) = SumFunctionOnSet(f, S) + SumFunctionOnSet(f, R \ S)
  BY <1>1, SumOfUnion
<1>3. SumFunctionOnSet(f, R \ S) = 0 * Cardinality(R \ S)
  BY <1>1, SumOfConstant
<1>4. Cardinality(R \ S) \in Nat /\ SumFunctionOnSet(f, S) \in Int
  BY <1>1, FS_CardinalityType, SumIsInt
<1>5. SumFunctionOnSet(f, R) = SumFunctionOnSet(f, S) + SumFunctionOnSet(f, R \ S)
  BY <1>1, <1>2, Zenon
<1>6. QED
  BY <1>3, <1>4, <1>5

(* The sum of each class of a set: k says which class an element belongs to. *)
SumsOfClasses(f, S, k, C) == [c \in C |-> SumFunctionOnSet(f, {s \in S : k[s] = c})]

LEMMA SumOfClasses ==
    ASSUME NEW f, NEW S, IsFiniteSet(S), Column(f, S), NEW C, IsFiniteSet(C), NEW k,
           \A s \in S : k[s] \in C
    PROVE  SumFunctionOnSet(SumsOfClasses(f, S, k, C), C) = SumFunctionOnSet(f, S)
<1> DEFINE of == SumsOfClasses(f, S, k, C)
<1>a. \A c \in C : of[c] = SumFunctionOnSet(f, {s \in S : k[s] = c})
  BY DEF SumsOfClasses
<1> HIDE DEF of
<1> DEFINE In(D) == {s \in S : k[s] \in D}
           Good == {D \in SUBSET C : SumFunctionOnSet(of, D) = SumFunctionOnSet(f, In(D))}
<1>0. \A T \in SUBSET S : IsFiniteSet(T) /\ Column(f, T)
  BY FS_Subset DEF Column
<1>1. {} \in Good
  <2>1. In({}) = {}
    OBVIOUS
  <2>2. QED
    BY <2>1, SumEmpty
<1>2. ASSUME NEW D \in SUBSET C, D \in Good, NEW c \in C \ D PROVE D \cup {c} \in Good
  <2> DEFINE here == {s \in S : k[s] = c}
  <2>1. In(D \cup {c}) = In(D) \cup here /\ In(D) \cap here = {}
    OBVIOUS
  <2>2. /\ IsFiniteSet(In(D)) /\ IsFiniteSet(here) /\ Column(f, In(D) \cup here)
        /\ IsFiniteSet(D)
    BY <1>0, FS_Subset
  <2>3. \A d \in D \cup {c} : of[d] \in Int
    <3> TAKE d \in D \cup {c}
    <3>1. of[d] = SumFunctionOnSet(f, {s \in S : k[s] = d})
      BY <1>a
    <3>2. SumFunctionOnSet(f, {s \in S : k[s] = d}) \in Int
      BY <1>0, SumIsInt
    <3>3. QED
      BY <3>1, <3>2
  <2>4. Column(of, D \cup {c})
    BY <2>3 DEF Column
  <2>5. SumFunctionOnSet(of, D \cup {c}) = of[c] + SumFunctionOnSet(of, D)
    BY <2>2, <2>4, SumAdds
  <2>6. SumFunctionOnSet(f, In(D) \cup here) = SumFunctionOnSet(f, In(D)) + SumFunctionOnSet(f, here)
    <3> HIDE DEF In, here
    <3>1. QED
      BY <2>1, <2>2, SumOfUnion
  <2>7. of[c] = SumFunctionOnSet(f, here) /\ SumFunctionOnSet(of, D) = SumFunctionOnSet(f, In(D))
    BY <1>2, <1>a
  <2>8. SumFunctionOnSet(f, here) \in Int /\ SumFunctionOnSet(f, In(D)) \in Int
    BY <1>0, SumIsInt
  <2>9. SumFunctionOnSet(f, In(D \cup {c})) = SumFunctionOnSet(f, In(D)) + SumFunctionOnSet(f, here)
    BY <2>1, <2>6, Zenon
  <2>10. SumFunctionOnSet(of, D \cup {c}) = SumFunctionOnSet(f, In(D \cup {c}))
    <3> HIDE DEF In, here
    <3>1. QED
      BY <2>5, <2>7, <2>8, <2>9
  <2>11. QED
    BY <2>10
<1>3. SUBSET C \subseteq Good
  <2> HIDE DEF Good
  <2>1. QED
    BY <1>1, <1>2, ByElements
<1>4. SumFunctionOnSet(of, C) = SumFunctionOnSet(f, In(C))
  BY <1>3
<1>5. In(C) = S
  OBVIOUS
<1>6. QED
  BY <1>4, <1>5, Zenon DEF of

(* And any function that is those sums. *)
LEMMA SumByClasses ==
    ASSUME NEW f, NEW S, IsFiniteSet(S), Column(f, S), NEW C, IsFiniteSet(C), NEW k, NEW of,
           \A s \in S : k[s] \in C,
           \A c \in C : of[c] = SumFunctionOnSet(f, {s \in S : k[s] = c})
    PROVE  SumFunctionOnSet(of, C) = SumFunctionOnSet(f, S)
<1> DEFINE parts == SumsOfClasses(f, S, k, C)
<1>1. \A c \in C : parts[c] = of[c]
  BY DEF SumsOfClasses
<1>2. \A c \in C : parts[c] \in Int
  <2> TAKE c \in C
  <2>1. IsFiniteSet({s \in S : k[s] = c}) /\ Column(f, {s \in S : k[s] = c})
    BY FS_Subset DEF Column
  <2>2. parts[c] = SumFunctionOnSet(f, {s \in S : k[s] = c})
    BY DEF SumsOfClasses
  <2> HIDE DEF parts
  <2>3. QED
    BY <2>1, <2>2, SumIsInt
<1>3. SumFunctionOnSet(parts, C) = SumFunctionOnSet(f, S)
  BY SumOfClasses
<1> HIDE DEF parts
<1>4. SumFunctionOnSet(parts, C) = SumFunctionOnSet(of, C)
  BY <1>1, <1>2, SumsAreEqual DEF Column
<1>5. QED
  BY <1>3, <1>4

LEMMA SquaresWithinSquare ==
    ASSUME NEW f, NEW q, NEW S, IsFiniteSet(S),
           \A s \in S : f[s] \in Nat /\ q[s] = f[s] * f[s]
    PROVE  SumFunctionOnSet(q, S) <= SumFunctionOnSet(f, S) * SumFunctionOnSet(f, S)
<1> DEFINE Sum(T) == SumFunctionOnSet(f, T)
           Good == {T \in SUBSET S : SumFunctionOnSet(q, T) <= Sum(T) * Sum(T)}
<1>0. \A s \in S : q[s] \in Nat
  <2>1. \A a \in Nat : a * a \in Nat
    OBVIOUS
  <2>2. QED
    BY <2>1
<1>1. {} \in Good
  BY SumEmpty
<1>2. ASSUME NEW T \in SUBSET S, T \in Good, NEW x \in S \ T PROVE T \cup {x} \in Good
  <2>1. IsFiniteSet(T) /\ Column(f, T \cup {x}) /\ Column(q, T \cup {x})
    BY <1>0, FS_Subset DEF Column
  <2>2. /\ Sum(T \cup {x}) = f[x] + Sum(T)
        /\ SumFunctionOnSet(q, T \cup {x}) = f[x] * f[x] + SumFunctionOnSet(q, T)
    BY <2>1, SumAdds
  <2>3. Sum(T) \in Nat /\ SumFunctionOnSet(q, T) \in Nat /\ f[x] \in Nat
    BY <1>0, <2>1, SumIsNat
  <2>4. \A a, b, c \in Nat : c <= b * b => a * a + c <= (a + b) * (a + b)
    <3> TAKE a, b, c \in Nat
    <3> HAVE c <= b * b
    <3>1. (a + b) * (a + b) = a * a + 2 * (a * b) + b * b
      OBVIOUS
    <3>2. a * b \in Nat /\ a * a \in Nat /\ b * b \in Nat
      OBVIOUS
    <3>3. QED
      BY <3>1, <3>2
  <2>5. f[x] * f[x] + SumFunctionOnSet(q, T) <= (f[x] + Sum(T)) * (f[x] + Sum(T))
    <3> HIDE DEF Sum
    <3>1. QED
      BY <1>2, <2>3, <2>4 DEF Sum
  <2>6. QED
    BY <2>2, <2>5
<1>3. SUBSET S \subseteq Good
  <2> HIDE DEF Good
  <2>1. QED
    BY <1>1, <1>2, ByElements
<1>4. QED
  BY <1>3

(* The inequality of Cauchy and Schwarz for a column and the column of ones. *)
LEMMA SquareWithinSquares ==
    ASSUME NEW f, NEW q, NEW S, IsFiniteSet(S), Column(f, S), \A s \in S : q[s] = f[s] * f[s]
    PROVE  SumFunctionOnSet(f, S) * SumFunctionOnSet(f, S)
               <= Cardinality(S) * SumFunctionOnSet(q, S)
<1> DEFINE Sum(T) == SumFunctionOnSet(f, T)
           Squares(T) == SumFunctionOnSet(q, T)
           Good == {T \in SUBSET S : Sum(T) * Sum(T) <= Cardinality(T) * Squares(T)}
<1>0. \A s \in S : q[s] \in Int
  <2>1. \A a \in Int : a * a \in Int
    OBVIOUS
  <2>2. QED
    BY <2>1 DEF Column
<1>1. {} \in Good
  BY SumEmpty, FS_EmptySet
<1>2. ASSUME NEW T \in SUBSET S, T \in Good, NEW x \in S \ T PROVE T \cup {x} \in Good
  <2>1. IsFiniteSet(T) /\ Column(f, T \cup {x}) /\ Column(q, T \cup {x}) /\ Column(f, T) /\ Column(q, T)
    BY <1>0, FS_Subset DEF Column
  <2>2. /\ Sum(T \cup {x}) = f[x] + Sum(T)
        /\ Squares(T \cup {x}) = f[x] * f[x] + Squares(T)
    BY <2>1, SumAdds
  <2>3. Cardinality(T) \in Nat /\ Cardinality(T \cup {x}) = Cardinality(T) + 1
    BY <2>1, FS_CardinalityType, FS_AddElement
  <2>4. Sum(T) \in Int /\ Squares(T) \in Int /\ f[x] \in Int
    BY <2>1, SumIsInt DEF Column
  <2>5. Cardinality(T) = 0 => Sum(T) = 0 /\ Squares(T) = 0
    <3>1. Cardinality(T) = 0 => T = {}
      BY <2>1, FS_EmptySet
    <3>2. QED
      BY <3>1, SumEmpty
  <2>6. ASSUME NEW a \in Int, NEW b \in Int, NEW c \in Int, NEW n \in Nat,
               b * b <= n * c, n = 0 => b = 0 /\ c = 0
        PROVE  (a + b) * (a + b) <= (n + 1) * (a * a + c)
    <3>1. CASE n = 0
      BY <2>6, <3>1
    <3>2. CASE n # 0
      <4>1. 0 <= (n * a - b) * (n * a - b)
        <5>1. \A d \in Int : 0 <= d * d
          OBVIOUS
        <5>2. n * a - b \in Int
          OBVIOUS
        <5>3. QED
          BY <5>1, <5>2
      <4>2. (n * a - b) * (n * a - b) = n * (n * (a * a)) - 2 * (n * (a * b)) + b * b
        OBVIOUS
      <4>3. n * (n * (a * a)) - 2 * (n * (a * b)) + n * c = n * (n * (a * a) - 2 * (a * b) + c)
        OBVIOUS
      <4> DEFINE e == n * (a * a) - 2 * (a * b) + c
      <4>4. e \in Int
        OBVIOUS
      <4>5. 0 <= n * e
        <5>1. n * (n * (a * a)) \in Int /\ n * (a * b) \in Int /\ n * c \in Int /\ b * b \in Int
          OBVIOUS
        <5>2. QED
          BY <2>6, <4>1, <4>2, <4>3, <5>1
      <4>6. 0 <= e
        <5> HIDE DEF e
        <5>1. SUFFICES ASSUME e < 0 PROVE n * e < 0
          BY <4>4, <4>5
        <5>2. n \in Nat /\ n > 0
          BY <3>2
        <5>3. QED
          BY <4>4, <5>1, <5>2
      <4>7. (n + 1) * (a * a + c) = e + (a + b) * (a + b) - b * b + n * c
        OBVIOUS
      <4>8. (a + b) * (a + b) \in Int /\ b * b \in Int /\ n * c \in Int
        OBVIOUS
      <4> HIDE DEF e
      <4>9. QED
        BY <2>6, <4>4, <4>6, <4>7, <4>8
    <3>3. QED
      BY <3>1, <3>2
  <2>7. Sum(T) * Sum(T) <= Cardinality(T) * Squares(T)
    BY <1>2
  <2> HIDE DEF Sum, Squares
  <2>8. (f[x] + Sum(T)) * (f[x] + Sum(T)) <= (Cardinality(T) + 1) * (f[x] * f[x] + Squares(T))
    BY <2>3, <2>4, <2>5, <2>6, <2>7
  <2>9. QED
    BY <2>2, <2>3, <2>8
<1>3. SUBSET S \subseteq Good
  <2> HIDE DEF Good
  <2>1. QED
    BY <1>1, <1>2, ByElements
<1>4. QED
  BY <1>3

-----------------------------------------------------------------------------
(* Books *)

Books == UNION {[S -> Positions] : S \in SUBSET Names}

Puts == {p \in [op : {"put"}, name : Names, body : Bodies, read : Books] :
            Projected(p.read, p.name, p.body) <= One + Eps}
Risks == [op : {"risk"}, day : Days, market : Markets, read : {b \in Books : DOMAIN b # {}}]

PortfolioInv ==
    /\ exists \in BOOLEAN /\ raced \in BOOLEAN
    /\ positions \in Books
    /\ open \in [Clients -> {None} \cup Puts \cup Risks]
    /\ snapshots \subseteq Days
    /\ BookIsSound

LEMMA BookTypes ==
    ASSUME NEW b \in Books
    PROVE  /\ DOMAIN b \subseteq Names /\ IsFiniteSet(DOMAIN b) /\ b \in [DOMAIN b -> Positions]
           /\ DOMAIN Targets(b) = DOMAIN b
           /\ DOMAIN OrZero(Targets(b)) = DOMAIN b
           /\ \A n \in DOMAIN b : /\ Targets(b)[n] = b[n].target
                                  /\ OrZero(Targets(b))[n] \in 0..One
                                  /\ OrZero(Targets(b))[n] =
                                         IF b[n].target = None THEN 0 ELSE b[n].target
<1>1. DOMAIN b \subseteq Names /\ b \in [DOMAIN b -> Positions]
  BY DEF Books
<1>2. IsFiniteSet(DOMAIN b)
  BY <1>1, AllocationAssumption, FS_Subset
<1>3. One \in Nat /\ None \notin Int
  BY AllocationAssumption, PortfolioAssumption
<1>4. \A n \in DOMAIN b : b[n].target \in (0..One) \cup {None}
  BY <1>1 DEF Positions, OptionalWeight
<1>5. DOMAIN Targets(b) = DOMAIN b /\ DOMAIN OrZero(Targets(b)) = DOMAIN b
  BY DEF Targets, OrZero
<1>6. \A n \in DOMAIN b : /\ Targets(b)[n] = b[n].target
                          /\ OrZero(Targets(b))[n] = IF b[n].target = None THEN 0 ELSE b[n].target
  BY DEF Targets, OrZero
<1>7. QED
  BY <1>1, <1>2, <1>3, <1>4, <1>5, <1>6

LEMMA BookIsColumn ==
    ASSUME NEW b \in Books, NEW S, S \subseteq DOMAIN b
    PROVE  IsFiniteSet(S) /\ Column(OrZero(Targets(b)), S)
           /\ \A n \in S : OrZero(Targets(b))[n] \in Nat
<1>1. \A n \in DOMAIN b : OrZero(Targets(b))[n] \in 0..One
  BY BookTypes
<1>2. IsFiniteSet(S) /\ One \in Nat
  BY BookTypes, FS_Subset, AllocationAssumption
<1>3. QED
  BY <1>1, <1>2 DEF Column

LEMMA PositionsAreDistinct ==
    ASSUME NEW b \in Books, NEW n \in Names, NEW body \in Bodies
    PROVE  /\ Upserted(b, n, body) \in [DOMAIN b \cup {n} -> Positions]
           /\ Upserted(b, n, body) \in Books
           /\ \A m \in DOMAIN b \ {n} : Upserted(b, n, body)[m] = b[m]
           /\ Upserted(b, n, body)[n].target =
                  IF body.target # None THEN body.target
                  ELSE IF n \in DOMAIN b THEN b[n].target ELSE None
<1> DEFINE u == Upserted(b, n, body)
           old == IF n \in DOMAIN b THEN b[n] ELSE [target |-> None, shares |-> None]
           new == [target |-> IF body.target = None THEN old.target ELSE body.target,
                   shares |-> IF body.shares = None THEN old.shares ELSE body.shares]
<1>1. b \in [DOMAIN b -> Positions] /\ DOMAIN b \subseteq Names /\ body \in Positions
  BY BookTypes, PortfolioAssumption
<1>2. old \in Positions
  BY <1>1 DEF Positions, OptionalWeight
<1>3. new \in Positions
  BY <1>1, <1>2 DEF Positions
<1>4. u = [m \in DOMAIN b \cup {n} |-> IF m # n THEN b[m] ELSE new]
  BY DEF Upserted
<1> HIDE DEF u, new
<1>5. u \in [DOMAIN b \cup {n} -> Positions]
  BY <1>1, <1>3, <1>4
<1>6. u \in Books
  BY <1>1, <1>5 DEF Books
<1>7. (\A m \in DOMAIN b \ {n} : u[m] = b[m]) /\ u[n] = new
  BY <1>4
<1>8. new.target = IF body.target # None THEN body.target
                   ELSE IF n \in DOMAIN b THEN b[n].target ELSE None
  BY DEF new
<1>9. QED
  BY <1>5, <1>6, <1>7, <1>8, Zenon DEF u

(* A PUT that wrote on what it had read leaves a book within its total: with *)
(* a target the sum is the projected one, without it nothing is added.       *)
LEMMA UpsertWithin ==
    ASSUME NEW b \in Books, NEW n \in Names, NEW body \in Bodies,
           Projected(b, n, body) <= One + Eps, Total(OrZero(Targets(b))) <= One + Eps
    PROVE  Total(OrZero(Targets(Upserted(b, n, body)))) <= One + Eps
<1> DEFINE u == Upserted(b, n, body)
           f == OrZero(Targets(u))
<1>1. /\ u \in Books /\ DOMAIN u = DOMAIN b \cup {n}
      /\ \A m \in DOMAIN b \ {n} : u[m] = b[m]
      /\ u[n].target = IF body.target # None THEN body.target
                       ELSE IF n \in DOMAIN b THEN b[n].target ELSE None
  BY PositionsAreDistinct
<1> HIDE DEF u
<1>2. /\ DOMAIN f = DOMAIN u
      /\ \A m \in DOMAIN u : f[m] = IF u[m].target = None THEN 0 ELSE u[m].target
  BY <1>1, BookTypes
<1>3. CASE body.target # None
  <2> DEFINE p == [m \in (DOMAIN b \cup {n}) |-> IF m = n THEN body.target ELSE b[m].target]
             g == OrZero(p)
  <2>1. Projected(b, n, body) = Total(g)
    BY DEF Projected
  <2>2. DOMAIN g = DOMAIN b \cup {n}
        /\ \A m \in DOMAIN b \cup {n} : g[m] = IF p[m] = None THEN 0 ELSE p[m]
    BY DEF OrZero
  <2>3. \A m \in DOMAIN b \cup {n} : p[m] = u[m].target
    BY <1>1, <1>3
  <2>4. f = g
    <3>1. \A m \in DOMAIN b \cup {n} : f[m] = g[m]
      <4> HIDE DEF f, g, p
      <4> TAKE m \in DOMAIN b \cup {n}
      <4>1. m \in DOMAIN u
        BY <1>1
      <4>2. f[m] = (IF u[m].target = None THEN 0 ELSE u[m].target) /\ p[m] = u[m].target
        BY <1>2, <2>3, <4>1
      <4>3. g[m] = IF p[m] = None THEN 0 ELSE p[m]
        BY <2>2
      <4>4. QED
        BY <4>2, <4>3, Zenon
    <3>2. f = [m \in DOMAIN b \cup {n} |-> f[m]] /\ g = [m \in DOMAIN b \cup {n} |-> g[m]]
      BY <1>1 DEF OrZero, Targets
    <3> HIDE DEF f, g
    <3>3. QED
      BY <3>1, <3>2
  <2>5. QED
    BY <2>1, <2>4, Zenon DEF u
<1>4. CASE body.target = None
  <2> DEFINE h == OrZero(Targets(b))
  <2>1. /\ DOMAIN h = DOMAIN b
        /\ \A m \in DOMAIN b : h[m] = IF b[m].target = None THEN 0 ELSE b[m].target
    BY BookTypes
  <2>2. \A m \in DOMAIN b : f[m] = h[m]
    BY <1>1, <1>2, <1>4, <2>1
  <2>3. \A m \in DOMAIN u \ DOMAIN b : f[m] = 0
    BY <1>1, <1>2, <1>4
  <2>4. IsFiniteSet(DOMAIN u) /\ Column(f, DOMAIN b) /\ Column(h, DOMAIN b)
        /\ DOMAIN b \subseteq DOMAIN u /\ IsFiniteSet(DOMAIN b)
    BY <1>1, BookIsColumn, BookTypes
  <2> HIDE DEF f, h
  <2>5. SumFunctionOnSet(f, DOMAIN b) = SumFunctionOnSet(f, DOMAIN u)
    BY <2>3, <2>4, SumOfSupport
  <2>6. SumFunctionOnSet(f, DOMAIN b) = SumFunctionOnSet(h, DOMAIN b)
    BY <2>2, <2>4, SumsAreEqual
  <2>7. Total(f) = Total(h)
    BY <1>2, <2>1, <2>5, <2>6 DEF Total
  <2>8. QED
    BY <2>7, Zenon DEF f, h, u
<1>5. QED
  BY <1>3, <1>4

LEMMA EmptyIsBook ==
    /\ [n \in {} |-> None] \in Books /\ DOMAIN [n \in {} |-> None] = {}
    /\ Total(OrZero(Targets([n \in {} |-> None]))) <= One + Eps
<1> DEFINE e == [n \in {} |-> None]
<1>1. e \in [{} -> Positions]
  OBVIOUS
<1>2. e \in Books /\ DOMAIN e = {}
  BY <1>1 DEF Books
<1> HIDE DEF e
<1>3. DOMAIN OrZero(Targets(e)) = {}
  BY <1>2, BookTypes
<1>4. Total(OrZero(Targets(e))) = 0
  BY <1>3, SumEmpty DEF Total
<1>5. QED
  BY <1>2, <1>4, AllocationAssumption DEF e

(* Deleting a position takes its target out of the sum. *)
LEMMA DeleteWithin ==
    ASSUME NEW b \in Books, NEW n \in DOMAIN b
    PROVE  LET r == [m \in DOMAIN b \ {n} |-> b[m]]
           IN  r \in Books /\ Total(OrZero(Targets(r))) <= Total(OrZero(Targets(b)))
<1> DEFINE r == [m \in DOMAIN b \ {n} |-> b[m]]
           f == OrZero(Targets(r))
           h == OrZero(Targets(b))
<1>1. b \in [DOMAIN b -> Positions] /\ DOMAIN b \subseteq Names
  BY BookTypes
<1>2. DOMAIN r = DOMAIN b \ {n} /\ r \in [DOMAIN b \ {n} -> Positions]
      /\ \A m \in DOMAIN b \ {n} : r[m] = b[m]
  BY <1>1
<1> HIDE DEF r
<1>3. r \in Books
  BY <1>1, <1>2 DEF Books
<1>4. /\ DOMAIN f = DOMAIN b \ {n} /\ DOMAIN h = DOMAIN b
      /\ \A m \in DOMAIN b \ {n} : f[m] = h[m]
  BY <1>2, <1>3, BookTypes
<1>5. IsFiniteSet(DOMAIN b \ {n}) /\ IsFiniteSet(DOMAIN b) /\ Column(h, DOMAIN b \ {n})
      /\ Column(f, DOMAIN b \ {n}) /\ \A m \in DOMAIN b : h[m] \in Nat
  BY <1>2, <1>3, BookIsColumn
<1> HIDE DEF f, h
<1>6. SumFunctionOnSet(f, DOMAIN b \ {n}) = SumFunctionOnSet(h, DOMAIN b \ {n})
  BY <1>4, <1>5, SumsAreEqual
<1>7. SumFunctionOnSet(h, DOMAIN b \ {n}) <= SumFunctionOnSet(h, DOMAIN b)
  BY <1>5, SumOfPart
<1>8. Total(f) <= Total(h)
  BY <1>4, <1>6, <1>7 DEF Total
<1>9. QED
  BY <1>3, <1>8 DEF f, h, r

LEMMA BookTotals ==
    ASSUME NEW b \in Books
    PROVE  Total(OrZero(Targets(b))) \in Nat
<1>1. DOMAIN OrZero(Targets(b)) = DOMAIN b
  BY BookTypes
<1>2. IsFiniteSet(DOMAIN b) /\ \A n \in DOMAIN b : OrZero(Targets(b))[n] \in Nat
  BY BookIsColumn
<1>3. QED
  BY <1>1, <1>2, SumIsNat DEF Total

LEMMA PortfolioInvInit == PortfolioInit => PortfolioInv
<1> SUFFICES ASSUME PortfolioInit PROVE PortfolioInv
  OBVIOUS
<1>1. positions \in Books /\ DOMAIN positions = {} /\ Total(OrZero(Targets(positions))) <= One + Eps
  BY EmptyIsBook DEF PortfolioInit
<1>2. open \in [Clients -> {None} \cup Puts \cup Risks]
  BY DEF PortfolioInit
<1>3. QED
  BY <1>1, <1>2 DEF PortfolioInit, PortfolioInv, BookIsSound

LEMMA OpenRecords ==
    ASSUME PortfolioInv, NEW c \in Clients, open[c] # None
    PROVE  /\ open[c].op = "put" => open[c] \in Puts
           /\ open[c].op = "risk" => open[c] \in Risks
BY DEF PortfolioInv, Puts, Risks

LEMMA PortfolioInvNext == PortfolioInv /\ [PortfolioNext]_portfolioVars => PortfolioInv'
<1> SUFFICES ASSUME PortfolioInv, [PortfolioNext]_portfolioVars PROVE PortfolioInv'
  OBVIOUS
<1>0. /\ exists \in BOOLEAN /\ raced \in BOOLEAN /\ positions \in Books /\ snapshots \subseteq Days
      /\ open \in [Clients -> {None} \cup Puts \cup Risks]
      /\ (~raced => Total(OrZero(Targets(positions))) <= One + Eps)
      /\ (~exists => DOMAIN positions = {} /\ snapshots = {})
  BY DEF PortfolioInv, BookIsSound
<1>1. ASSUME NEW c \in Clients, BeginPut(c) PROVE PortfolioInv'
  <2>1. PICK name \in Names, body \in Bodies :
            /\ Projected(positions, name, body) <= One + Eps
            /\ open' = [open EXCEPT ![c] =
                   [op |-> "put", name |-> name, body |-> body, read |-> positions]]
    BY <1>1, Zenon DEF BeginPut
  <2>2. [op |-> "put", name |-> name, body |-> body, read |-> positions] \in Puts
    BY <1>0, <2>1 DEF Puts
  <2>3. open' \in [Clients -> {None} \cup Puts \cup Risks]
    BY <1>0, <2>1, <2>2
  <2>4. UNCHANGED <<exists, positions, raced, snapshots>>
    BY <1>1 DEF BeginPut
  <2>5. QED
    BY <1>0, <2>3, <2>4 DEF PortfolioInv, BookIsSound
<1>2. ASSUME NEW c \in Clients, CommitPut(c) PROVE PortfolioInv'
  <2>1. /\ open[c] # None /\ open[c].op = "put" /\ open' = [open EXCEPT ![c] = None]
        /\ UNCHANGED <<exists, snapshots>>
    BY <1>2 DEF CommitPut
  <2>2. open' \in [Clients -> {None} \cup Puts \cup Risks]
    BY <1>0, <2>1
  <2>3. PICK p : p = open[c]
    OBVIOUS
  <2>4. p \in Puts
    BY <2>1, <2>3, OpenRecords
  <2>5. CASE ~exists
    <3>1. positions' = positions /\ raced' = raced
      BY <1>2, <2>5 DEF CommitPut
    <3>2. QED
      BY <1>0, <2>1, <2>2, <3>1 DEF PortfolioInv, BookIsSound
  <2>6. CASE exists
    <3>1. positions' = Upserted(positions, p.name, p.body) /\ raced' = (raced \/ p.read # positions)
      BY <1>2, <2>3, <2>6, Zenon DEF CommitPut
    <3>2. p.name \in Names /\ p.body \in Bodies /\ p.read \in Books
          /\ Projected(p.read, p.name, p.body) <= One + Eps
      BY <2>4 DEF Puts
    <3>3. positions' \in Books
      BY <1>0, <3>1, <3>2, PositionsAreDistinct
    <3>4. ~raced' => Total(OrZero(Targets(positions')))  <= One + Eps
      <4> SUFFICES ASSUME ~raced' PROVE Total(OrZero(Targets(positions'))) <= One + Eps
        OBVIOUS
      <4>1. p.read = positions /\ ~raced
        BY <3>1
      <4>2. Total(OrZero(Targets(Upserted(positions, p.name, p.body)))) <= One + Eps
        BY <1>0, <3>2, <4>1, UpsertWithin
      <4>3. QED
        BY <3>1, <4>2
    <3>5. raced' \in BOOLEAN
      BY <1>0, <3>1
    <3>6. QED
      BY <1>0, <2>1, <2>2, <2>6, <3>3, <3>4, <3>5 DEF PortfolioInv, BookIsSound
  <2>7. QED
    BY <1>0, <2>5, <2>6
<1>3. ASSUME NEW c \in Clients, BeginRisk(c) PROVE PortfolioInv'
  <2>1. PICK day \in Days, market \in Markets :
            open' = [open EXCEPT ![c] =
                        [op |-> "risk", day |-> day, market |-> market, read |-> positions]]
    BY <1>3, Zenon DEF BeginRisk
  <2>2. [op |-> "risk", day |-> day, market |-> market, read |-> positions] \in Risks
    BY <1>0, <1>3, <2>1 DEF Risks, BeginRisk
  <2>3. open' \in [Clients -> {None} \cup Puts \cup Risks]
    BY <1>0, <2>1, <2>2
  <2>4. UNCHANGED <<exists, positions, raced, snapshots>>
    BY <1>3 DEF BeginRisk
  <2>5. QED
    BY <1>0, <2>3, <2>4 DEF PortfolioInv, BookIsSound
<1>4. ASSUME NEW c \in Clients, CommitRisk(c) PROVE PortfolioInv'
  <2>1. /\ open[c] # None /\ open[c].op = "risk" /\ open' = [open EXCEPT ![c] = None]
        /\ UNCHANGED <<exists, positions, raced>>
        /\ exists => snapshots' = snapshots \cup {open[c].day}
        /\ ~exists => snapshots' = snapshots
    BY <1>4, Zenon DEF CommitRisk
  <2>2. open' \in [Clients -> {None} \cup Puts \cup Risks]
    BY <1>0, <2>1
  <2>3. open[c].day \in Days
    BY <2>1, OpenRecords DEF Risks
  <2>4. snapshots' \subseteq Days /\ (~exists => snapshots' = {})
    BY <1>0, <2>1, <2>3
  <2>5. QED
    BY <1>0, <2>1, <2>2, <2>4 DEF PortfolioInv, BookIsSound
<1>5. ASSUME NEW n \in Names, DeletePosition(n) PROVE PortfolioInv'
  <2>1. /\ n \in DOMAIN positions /\ positions' = [m \in DOMAIN positions \ {n} |-> positions[m]]
        /\ UNCHANGED <<exists, open, raced, snapshots>>
    BY <1>5 DEF DeletePosition
  <2>2. positions' \in Books
        /\ Total(OrZero(Targets(positions'))) <= Total(OrZero(Targets(positions)))
    BY <1>0, <2>1, DeleteWithin
  <2>3. Total(OrZero(Targets(positions'))) \in Nat /\ Total(OrZero(Targets(positions))) \in Nat
        /\ One + Eps \in Nat
    BY <1>0, <2>2, BookTotals, AllocationAssumption
  <2>4. exists
    BY <1>0, <2>1
  <2>5. ~raced' => Total(OrZero(Targets(positions'))) <= One + Eps
    BY <1>0, <2>1, <2>2, <2>3
  <2>6. QED
    BY <1>0, <2>1, <2>2, <2>4, <2>5 DEF PortfolioInv, BookIsSound
<1>6. CASE DeletePortfolio
  <2>1. /\ ~exists' /\ positions' = [n \in {} |-> None] /\ snapshots' = {}
        /\ UNCHANGED <<open, raced>> /\ exists' \in BOOLEAN
    BY <1>6 DEF DeletePortfolio
  <2>2. positions' \in Books /\ DOMAIN positions' = {}
        /\ Total(OrZero(Targets(positions'))) <= One + Eps
    BY <2>1, EmptyIsBook
  <2>3. QED
    BY <1>0, <2>1, <2>2 DEF PortfolioInv, BookIsSound
<1>7. CASE Optimize \/ Rebalance \/ Answered \/ UNCHANGED portfolioVars
  <2>1. UNCHANGED <<exists, positions, open, raced, snapshots>>
    BY <1>7, Zenon DEF Optimize, Rebalance, Answered, portfolioVars
  <2>2. QED
    BY <1>0, <2>1 DEF PortfolioInv, BookIsSound
<1>8. QED
  BY <1>1, <1>2, <1>3, <1>4, <1>5, <1>6, <1>7 DEF PortfolioNext

(* The targets of a portfolio never add up to more than one and the          *)
(* tolerance, unless two PUTs overlapped, and nothing of a deleted portfolio *)
(* is left; for any names, bodies and interleaving of PUTs, deletions, risk  *)
(* reads and rebalances (PortfolioService.upsert_position, delete).          *)
THEOREM BookIsAlwaysSound == PortfolioSpec => []BookIsSound
<1>1. PortfolioInit => PortfolioInv
  BY PortfolioInvInit
<1>2. PortfolioInv /\ [PortfolioNext]_portfolioVars => PortfolioInv'
  BY PortfolioInvNext
<1>3. PortfolioInv => BookIsSound
  BY DEF PortfolioInv
<1>4. QED
  BY <1>1, <1>2, <1>3, PTL DEF PortfolioSpec

-----------------------------------------------------------------------------
(* Extremes of finite sets of integers *)

LEMMA ExtremesExist ==
    ASSUME NEW S, IsFiniteSet(S), S # {}, S \subseteq Int
    PROVE  /\ Smallest(S) \in S /\ \A x \in S : Smallest(S) <= x
           /\ Largest(S) \in S /\ \A x \in S : x <= Largest(S)
<1> DEFINE Good == {T \in SUBSET S :
                       T # {} => (/\ \E x \in T : \A y \in T : x <= y
                                  /\ \E x \in T : \A y \in T : x >= y)}
<1>1. {} \in Good
  OBVIOUS
<1>2. ASSUME NEW T \in SUBSET S, T \in Good, NEW x \in S \ T PROVE T \cup {x} \in Good
  <2>1. T \subseteq Int /\ x \in Int
    OBVIOUS
  <2>2. CASE T = {}
    BY <2>1, <2>2
  <2>3. CASE T # {}
    <3>1. PICK l \in T : \A y \in T : l <= y
      BY <1>2, <2>3
    <3>2. PICK g \in T : \A y \in T : g >= y
      BY <1>2, <2>3
    <3>3. \E z \in T \cup {x} : \A y \in T \cup {x} : z <= y
      <4>1. CASE x <= l
        BY <2>1, <3>1, <4>1
      <4>2. CASE l <= x
        BY <2>1, <3>1, <4>2
      <4>3. QED
        BY <2>1, <3>1, <4>1, <4>2
    <3>4. \E z \in T \cup {x} : \A y \in T \cup {x} : z >= y
      <4>1. CASE x >= g
        BY <2>1, <3>2, <4>1
      <4>2. CASE g >= x
        BY <2>1, <3>2, <4>2
      <4>3. QED
        BY <2>1, <3>2, <4>1, <4>2
    <3>5. QED
      BY <3>3, <3>4
  <2>4. QED
    BY <2>2, <2>3
<1>3. SUBSET S \subseteq Good
  <2> HIDE DEF Good
  <2>1. QED
    BY <1>1, <1>2, ByElements
<1>4. PICK l \in S : \A y \in S : l <= y
  BY <1>3
<1>5. PICK g \in S : \A y \in S : g >= y
  BY <1>3
<1>6. Smallest(S) \in S /\ \A x \in S : Smallest(S) <= x
  BY <1>4 DEF Smallest
<1>7. Largest(S) \in S /\ \A x \in S : Largest(S) >= x
  BY <1>5 DEF Largest
<1>8. QED
  BY <1>6, <1>7

-----------------------------------------------------------------------------
(* The weights of a book *)

LEMMA WeightsAreNat ==
    ASSUME NEW b \in Books, NEW market \in Markets, NEW w,
           w = PortfolioWeights(SharesOf(b), Targets(b), Closes(market))
    PROVE  DOMAIN w = DOMAIN b /\ \A n \in DOMAIN b : w[n] \in Nat
<1> DEFINE sh == SharesOf(b)
           cl == Closes(market)
           mv == MarketValue(sh, cl)
           tw == OrZero(Targets(b))
           even == [n \in DOMAIN sh |-> 1]
<1>1. /\ market \in [Names -> [close : Nat \cup {None}, beta : Int \cup {None}]]
      /\ b \in [DOMAIN b -> Positions] /\ DOMAIN b \subseteq Names
  BY PortfolioAssumption, BookTypes DEF OptionalInt
<1>2. DOMAIN sh = DOMAIN b /\ \A n \in DOMAIN b : sh[n] \in Nat \cup {None}
  BY <1>1 DEF SharesOf, Positions
<1>3. \A n \in DOMAIN cl : cl[n] \in Nat
  BY <1>1 DEF Closes
<1> HIDE DEF sh, cl
<1>4. DOMAIN mv = DOMAIN b /\ \A n \in DOMAIN b : mv[n] \in Nat
  <2>1. \A a, d \in Nat : a * d \in Nat
    OBVIOUS
  <2>2. ASSUME NEW n \in DOMAIN b PROVE mv[n] \in Nat
    <3>1. mv[n] = IF sh[n] = None \/ n \notin DOMAIN cl THEN 0 ELSE sh[n] * cl[n]
      BY <1>2 DEF MarketValue
    <3>2. QED
      BY <1>2, <1>3, <2>1, <3>1
  <2>3. QED
    BY <1>2, <2>2 DEF MarketValue
<1>5. DOMAIN tw = DOMAIN b /\ \A n \in DOMAIN b : tw[n] \in Nat
  BY BookTypes, BookIsColumn
<1>6. DOMAIN even = DOMAIN b /\ \A n \in DOMAIN b : even[n] \in Nat
  BY <1>2
<1>7. w \in {mv, tw, even}
  BY Zenon DEF PortfolioWeights, sh, cl
<1> HIDE DEF mv, tw, even
<1>8. QED
  BY <1>4, <1>5, <1>6, <1>7

(* d is what the names of K lack of their targets t at the weights w of S,   *)
(* and a its magnitudes.                                                     *)
Drifting(S, w, t, K, d, a) ==
    /\ IsFiniteSet(S) /\ \A n \in S : w[n] \in Nat /\ t[n] \in Nat
    /\ K \subseteq S /\ \A n \in S \ K : t[n] = 0
    /\ \A n \in K : d[n] = t[n] * SumFunctionOnSet(w, S) - w[n] * SumFunctionOnSet(t, S)
    /\ \A n \in K : a[n] = Magnitude(d[n])

(* Twice the drift is at most twice the base, and the deltas of a book with  *)
(* all its targets add up to zero.                                           *)
LEMMA DeltasAddUp ==
    ASSUME NEW S, NEW w, NEW t, NEW K, NEW d, NEW a, Drifting(S, w, t, K, d, a)
    PROVE  /\ 0 <= SumFunctionOnSet(a, K)
           /\ SumFunctionOnSet(a, K) <= 2 * (SumFunctionOnSet(w, S) * SumFunctionOnSet(t, S))
           /\ K = S => SumFunctionOnSet(d, K) = 0
<1> DEFINE W == SumFunctionOnSet(w, S)
           T == SumFunctionOnSet(t, S)
           tW == [n \in K |-> W * t[n]]
           wT == [n \in K |-> T * w[n]]
           neg == [n \in K |-> (-T) * w[n]]
           both == [n \in K |-> tW[n] + wT[n]]
<1>0. /\ IsFiniteSet(S) /\ \A n \in S : w[n] \in Nat /\ t[n] \in Nat
      /\ K \subseteq S /\ \A n \in S \ K : t[n] = 0
      /\ \A n \in K : d[n] = t[n] * SumFunctionOnSet(w, S) - w[n] * SumFunctionOnSet(t, S)
      /\ \A n \in K : a[n] = Magnitude(d[n])
  BY Zenon DEF Drifting
<1> USE <1>0
<1>1. W \in Nat /\ T \in Nat /\ IsFiniteSet(K)
  BY SumIsNat, FS_Subset
<1>2. Column(t, K) /\ Column(w, K)
  BY DEF Column
<1>3. SumFunctionOnSet(t, K) = T
  BY <1>2, SumOfSupport
<1>4. SumFunctionOnSet(w, K) <= W /\ SumFunctionOnSet(w, K) \in Nat
  BY <1>1, SumOfPart, SumIsNat
<1> HIDE DEF W, T
<1>5. /\ SumFunctionOnSet(tW, K) = W * SumFunctionOnSet(t, K)
      /\ SumFunctionOnSet(wT, K) = T * SumFunctionOnSet(w, K)
      /\ SumFunctionOnSet(neg, K) = (-T) * SumFunctionOnSet(w, K)
  <2>1. /\ \A n \in K : tW[n] = W * t[n]
        /\ \A n \in K : wT[n] = T * w[n]
        /\ \A n \in K : neg[n] = (-T) * w[n]
    OBVIOUS
  <2>2. W \in Int /\ T \in Int /\ -T \in Int
    BY <1>1
  <2> HIDE DEF tW, wT, neg
  <2> HIDE <1>0
  <2>3. QED
    BY <1>1, <1>2, <2>1, <2>2, SumScales
<1>6. \A x, y \in Nat : x * y \in Nat /\ (-x) * y = -(x * y) /\ x * y = y * x
  OBVIOUS
<1>7. \A n \in K : w[n] \in Nat /\ t[n] \in Nat
  OBVIOUS
<1>8. \A n \in K : tW[n] \in Nat /\ wT[n] \in Nat /\ neg[n] = -wT[n] /\ neg[n] \in Int
  <2> TAKE n \in K
  <2>1. tW[n] = W * t[n] /\ wT[n] = T * w[n] /\ neg[n] = (-T) * w[n]
    OBVIOUS
  <2>2. w[n] \in Nat /\ t[n] \in Nat
    BY <1>7
  <2> HIDE DEF tW, wT, neg
  <2> HIDE <1>0
  <2>3. W * t[n] \in Nat /\ T * w[n] \in Nat /\ (-T) * w[n] = -(T * w[n])
    BY <1>1, <1>6, <2>2
  <2>4. QED
    BY <2>1, <2>3
<1>9. \A n \in K : d[n] = tW[n] + neg[n] /\ d[n] \in Int
  <2> TAKE n \in K
  <2>1. d[n] = t[n] * W - w[n] * T
    BY DEF W, T
  <2>2. t[n] * W = W * t[n] /\ w[n] * T = T * w[n] /\ W * t[n] \in Nat /\ T * w[n] \in Nat
    BY <1>1, <1>6, <1>7
  <2>3. tW[n] = W * t[n] /\ wT[n] = T * w[n] /\ neg[n] = -wT[n]
    BY <1>8
  <2> HIDE DEF tW, wT, neg
  <2>4. QED
    BY <2>1, <2>2, <2>3
<1>10. \A n \in K : both[n] = tW[n] + wT[n] /\ both[n] \in Nat
  BY <1>8
<1> HIDE DEF tW, wT, neg, both
<1>11. \A n \in K : a[n] \in Nat /\ a[n] <= both[n]
  BY <1>8, <1>9, <1>10 DEF Magnitude
<1>12. Column(a, K) /\ Column(both, K) /\ Column(tW, K) /\ Column(wT, K) /\ Column(neg, K)
  BY <1>8, <1>10, <1>11 DEF Column
<1>13. SumFunctionOnSet(a, K) \in Nat /\ SumFunctionOnSet(a, K) <= SumFunctionOnSet(both, K)
  BY <1>1, <1>11, <1>12, SumIsNat, SumAtMost
<1>14. SumFunctionOnSet(both, K) = SumFunctionOnSet(tW, K) + SumFunctionOnSet(wT, K)
  BY <1>1, <1>10, <1>12, SumsAdd
<1>15. SumFunctionOnSet(d, K) = SumFunctionOnSet(tW, K) + SumFunctionOnSet(neg, K)
  BY <1>1, <1>9, <1>12, SumsAdd
<1>16. T * SumFunctionOnSet(w, K) <= T * W
  <2>1. \A x, y, z \in Nat : y <= z => x * y <= x * z
    OBVIOUS
  <2>2. QED
    BY <1>1, <1>4, <2>1
<1>17. W * T = T * W /\ W * T \in Nat /\ T * SumFunctionOnSet(w, K) \in Nat
  BY <1>1, <1>4, <1>6
<1>18. SumFunctionOnSet(a, K) <= 2 * (W * T)
  BY <1>3, <1>5, <1>13, <1>14, <1>16, <1>17
<1>19. ASSUME K = S PROVE SumFunctionOnSet(d, K) = 0
  <2>1. SumFunctionOnSet(w, K) = W
    BY <1>19 DEF W
  <2>2. (-T) * W = -(T * W)
    BY <1>1, <1>6
  <2>3. QED
    BY <1>3, <1>5, <1>15, <1>17, <2>1, <2>2
<1>20. QED
  BY <1>13, <1>18, <1>19 DEF W, T

(* A sum is not further from zero than the distances that it is made of.     *)
LEMMA SumWithinDistances ==
    ASSUME NEW S, IsFiniteSet(S), NEW d, Column(d, S), NEW a, \A n \in S : a[n] = Magnitude(d[n])
    PROVE  /\ Column(a, S)
           /\ SumFunctionOnSet(d, S) <= SumFunctionOnSet(a, S)
           /\ -SumFunctionOnSet(d, S) <= SumFunctionOnSet(a, S)
<1> DEFINE neg == [n \in S |-> (-1) * d[n]]
<1>1. \A n \in S : d[n] \in Int
  BY DEF Column
<1>2. \A n \in S : a[n] \in Int /\ d[n] <= a[n] /\ neg[n] \in Int /\ neg[n] <= a[n]
                   /\ neg[n] = (-1) * d[n]
  BY <1>1 DEF Magnitude
<1> HIDE DEF neg
<1>3. Column(a, S) /\ Column(neg, S)
  BY <1>2 DEF Column
<1>4. SumFunctionOnSet(d, S) <= SumFunctionOnSet(a, S)
  BY <1>2, <1>3, SumAtMost
<1>5. SumFunctionOnSet(neg, S) <= SumFunctionOnSet(a, S)
  BY <1>2, <1>3, SumAtMost
<1>6. SumFunctionOnSet(neg, S) = (-1) * SumFunctionOnSet(d, S)
  BY <1>2, SumScales
<1>7. SumFunctionOnSet(d, S) \in Int
  BY SumIsInt
<1>8. QED
  BY <1>3, <1>4, <1>5, <1>6, <1>7

(* When everything adds up to nothing, what is traded leaves open at most    *)
(* what is left out, and one distance is half of all the distances at most.  *)
LEMMA TradesLeaveLittle ==
    ASSUME NEW K, IsFiniteSet(K), NEW d, Column(d, K), SumFunctionOnSet(d, K) = 0,
           NEW a, \A n \in K : a[n] = Magnitude(d[n]),
           NEW limit \in Nat,
           NEW B, B = {n \in K : a[n] * One > limit}
    PROVE  /\ Magnitude(SumFunctionOnSet(d, B)) * One <= limit * Cardinality(K \ B)
           /\ \A n \in B : 2 * limit < SumFunctionOnSet(a, K) * One
<1> DEFINE R == K \ B
           scaled == [n \in R |-> One * a[n]]
           flat == [n \in R |-> limit]
<1>1. One \in Nat
  BY AllocationAssumption
<1>2. B \subseteq K /\ B \cup R = K /\ B \cap R = {}
  OBVIOUS
<1>3. IsFiniteSet(B) /\ IsFiniteSet(R)
  BY <1>2, FS_Subset
<1>4. Column(d, B) /\ Column(d, R) /\ Column(d, B \cup R)
  BY <1>2 DEF Column
<1>5. \A n \in K : a[n] \in Nat
  BY DEF Column, Magnitude
<1>6. \A n \in R : a[n] \in Nat /\ ~(a[n] * One > limit)
  BY <1>5
<1>7. \A n \in R : scaled[n] = One * a[n] /\ flat[n] = limit
  OBVIOUS
<1>8. \A n \in R : a[n] = Magnitude(d[n])
  OBVIOUS
<1> HIDE DEF R, scaled, flat
<1>9. SumFunctionOnSet(d, B) + SumFunctionOnSet(d, R) = 0
  BY <1>2, <1>3, <1>4, SumOfUnion
<1>10. /\ Column(a, R)
       /\ SumFunctionOnSet(d, R) <= SumFunctionOnSet(a, R)
       /\ -SumFunctionOnSet(d, R) <= SumFunctionOnSet(a, R)
  BY <1>3, <1>4, <1>8, SumWithinDistances
<1>11. \A n \in R : scaled[n] \in Int /\ flat[n] \in Int /\ scaled[n] <= flat[n]
  <2>1. \A i, j \in Nat : i * j = j * i /\ i * j \in Nat
    OBVIOUS
  <2>2. QED
    BY <1>1, <1>6, <1>7, <2>1
<1>12. Column(scaled, R) /\ Column(flat, R)
  BY <1>11 DEF Column
<1>13. SumFunctionOnSet(scaled, R) <= SumFunctionOnSet(flat, R)
  BY <1>3, <1>11, <1>12, SumAtMost
<1>14. SumFunctionOnSet(scaled, R) = One * SumFunctionOnSet(a, R)
  BY <1>1, <1>3, <1>7, <1>10, SumScales
<1>15. SumFunctionOnSet(flat, R) = limit * Cardinality(R)
  BY <1>3, <1>7, SumOfConstant
<1>16. SumFunctionOnSet(d, B) \in Int /\ SumFunctionOnSet(d, R) \in Int /\ SumFunctionOnSet(a, R) \in Int
  BY <1>3, <1>4, <1>10, SumIsInt
<1>17. Magnitude(SumFunctionOnSet(d, B)) * One <= limit * Cardinality(R)
  <2>1. /\ Magnitude(SumFunctionOnSet(d, B)) \in Int
        /\ Magnitude(SumFunctionOnSet(d, B)) <= SumFunctionOnSet(a, R)
    BY <1>9, <1>10, <1>16 DEF Magnitude
  <2>2. \A i, j \in Int, k \in Nat : i <= j => i * k <= k * j /\ i * k \in Int /\ k * j \in Int
    OBVIOUS
  <2>3. Magnitude(SumFunctionOnSet(d, B)) * One <= One * SumFunctionOnSet(a, R)
    BY <1>1, <1>16, <2>1, <2>2
  <2>4. PICK m \in Int, s \in Int, c \in Int :
           m = Magnitude(SumFunctionOnSet(d, B)) * One /\ s = One * SumFunctionOnSet(a, R)
           /\ c = limit * Cardinality(R)
    <3>1. Cardinality(R) \in Int
      BY <1>3, FS_CardinalityType
    <3>2. \A i, j \in Int : i * j \in Int
      OBVIOUS
    <3>3. /\ Magnitude(SumFunctionOnSet(d, B)) * One \in Int
          /\ One * SumFunctionOnSet(a, R) \in Int /\ limit * Cardinality(R) \in Int
      <4>1. One \in Int /\ limit \in Int
        BY <1>1
      <4>2. QED
        BY <1>16, <2>1, <3>1, <3>2, <4>1, Zenon
    <3>4. QED
      BY <3>3
  <2>5. QED
    BY <1>13, <1>14, <1>15, <2>3, <2>4
<1>18. ASSUME NEW n \in B PROVE 2 * limit < SumFunctionOnSet(a, K) * One
  <2> DEFINE O == K \ {n}
  <2>1. n \in K /\ a[n] * One > limit /\ IsFiniteSet(O)
    BY <1>18, FS_Subset
  <2>2. Column(a, K) /\ Column(a, O) /\ Column(d, O)
    BY <1>5 DEF Column
  <2>3. \A m \in O : a[m] = Magnitude(d[m])
    OBVIOUS
  <2>4. /\ SumFunctionOnSet(d, K) = d[n] + SumFunctionOnSet(d, O)
        /\ SumFunctionOnSet(a, K) = a[n] + SumFunctionOnSet(a, O)
    BY <2>1, <2>2, SumRemoves
  <2> HIDE DEF O
  <2>5. /\ SumFunctionOnSet(d, O) <= SumFunctionOnSet(a, O)
        /\ -SumFunctionOnSet(d, O) <= SumFunctionOnSet(a, O)
    BY <2>1, <2>2, <2>3, SumWithinDistances
  <2>6. SumFunctionOnSet(d, O) \in Int /\ SumFunctionOnSet(a, O) \in Int
    BY <2>1, <2>2, SumIsInt
  <2>7. d[n] \in Int /\ a[n] = Magnitude(d[n]) /\ a[n] \in Nat
    BY <1>5, <2>1 DEF Column
  <2>8. SumFunctionOnSet(a, K) \in Int /\ 2 * a[n] <= SumFunctionOnSet(a, K)
    BY <2>4, <2>5, <2>6, <2>7 DEF Magnitude
  <2>9. PICK i \in Nat, j \in Int : i = a[n] /\ j = SumFunctionOnSet(a, K)
    BY <2>7, <2>8
  <2>10. \A k, l \in Int : k <= l => k * One <= l * One /\ k * One \in Int /\ l * One \in Int
    BY <1>1
  <2>11. (2 * i) * One <= j * One /\ (2 * i) * One = 2 * (i * One) /\ i * One \in Int /\ j * One \in Int
    BY <1>1, <2>8, <2>9, <2>10
  <2>12. i * One > limit
    BY <2>1, <2>9
  <2>13. QED
    BY <2>9, <2>11, <2>12
<1>19. QED
  BY <1>17, <1>18 DEF R

LEMMA WeightsAreSome ==
    ASSUME NEW b \in Books, DOMAIN b # {}, NEW market \in Markets, NEW w,
           w = PortfolioWeights(SharesOf(b), Targets(b), Closes(market))
    PROVE  Total(w) \in Nat \ {0}
<1> DEFINE mv == MarketValue(SharesOf(b), Closes(market))
           tw == OrZero(Targets(b))
           even == [n \in DOMAIN SharesOf(b) |-> 1]
<1>1. DOMAIN w = DOMAIN b /\ (\A n \in DOMAIN b : w[n] \in Nat) /\ IsFiniteSet(DOMAIN b)
  BY WeightsAreNat, BookTypes
<1>2. Total(w) \in Nat
  BY <1>1, SumIsNat DEF Total
<1>3. DOMAIN even = DOMAIN b /\ \A n \in DOMAIN b : even[n] = 1
  BY DEF SharesOf
<1>4. w = IF Total(mv) > 0 THEN mv ELSE IF Total(tw) > 0 THEN tw ELSE even
  BY Zenon DEF PortfolioWeights
<1> HIDE DEF mv, tw, even
<1>5. CASE w = even
  <2>1. Total(w) = 1 * Cardinality(DOMAIN b)
    BY <1>1, <1>3, <1>5, SumOfConstant DEF Total
  <2>2. Cardinality(DOMAIN b) \in Nat /\ Cardinality(DOMAIN b) # 0
    BY <1>1, FS_CardinalityType, FS_EmptySet
  <2>3. QED
    BY <2>1, <2>2
<1>6. QED
  BY <1>2, <1>4, <1>5

(* Rounding to quanta keeps a fraction between whole quanta that it is       *)
(* between.                                                                  *)
LEMMA QuantaBetween ==
    ASSUME NEW a \in Nat, NEW b \in Nat \ {0}
    PROVE  /\ Quanta(a, b) \in Nat
           /\ a <= b => Quanta(a, b) <= One
           /\ \A k \in Nat : k * b <= a * One => k <= Quanta(a, b)
<1>1. PICK o \in Nat : o = One
  BY AllocationAssumption
<1>2. PICK m \in Nat : m = a * o
  <2>1. \A i, j \in Nat : i * j \in Nat
    OBVIOUS
  <2>2. QED
    BY <1>1, <2>1
<1>3. PICK q : q = Quanta(a, b)
  OBVIOUS
<1>4. q = (2 * m + b) \div (2 * b)
  BY <1>1, <1>2, <1>3 DEF Quanta
<1>5. \A i \in Nat, j \in Nat \ {0} : /\ i \div j \in Nat
                                      /\ j * (i \div j) <= i
                                      /\ i < j * (i \div j) + j
  OBVIOUS
<1>6. 2 * m + b \in Nat /\ 2 * b \in Nat \ {0}
  OBVIOUS
<1>7. q \in Nat /\ (2 * b) * q <= 2 * m + b /\ 2 * m + b < (2 * b) * q + 2 * b
  BY <1>4, <1>5, <1>6
<1>8. \A i \in Nat : (2 * b) * i = 2 * (b * i) /\ b * i \in Nat /\ b * (i + 1) = b * i + b
                     /\ i * b = b * i
  OBVIOUS
<1>9. \A i, j \in Nat : i <= j => b * i <= b * j
  OBVIOUS
<1>10. ASSUME a <= b PROVE q <= o
  <2>1. m <= b * o
    <3>1. \A i, j, k \in Nat : i <= j => i * k <= j * k
      OBVIOUS
    <3>2. QED
      BY <1>1, <1>2, <1>10, <3>1
  <2>2. CASE q >= o + 1
    <3>1. b * (o + 1) <= b * q /\ b * (o + 1) = b * o + b /\ b * o \in Nat /\ b * q \in Nat
      BY <1>7, <1>8, <1>9, <2>2
    <3>2. QED
      BY <1>7, <1>8, <2>1, <3>1
  <2>3. QED
    BY <1>7, <2>2
<1>11. ASSUME NEW k \in Nat, k * b <= m PROVE k <= q
  <2>1. CASE q + 1 <= k
    <3>1. b * (q + 1) <= b * k /\ b * (q + 1) = b * q + b /\ b * k \in Nat /\ b * q \in Nat /\ k * b = b * k
      BY <1>7, <1>8, <1>9, <2>1
    <3>2. QED
      BY <1>7, <1>8, <1>11, <3>1
  <2>2. QED
    BY <1>7, <2>1
<1>12. QED
  BY <1>1, <1>2, <1>3, <1>7, <1>10, <1>11

LEMMA PlanAddsUp ==
    ASSUME NEW b \in Books, DOMAIN b # {}, NEW market \in Markets, NEW threshold \in Thresholds, NEW p,
           p = Plan(SharesOf(b), Targets(b), Closes(market), threshold), p # None
    PROVE  /\ 0 <= p.drift /\ p.drift <= One
           /\ p.targeted = DOMAIN b =>
                 /\ Magnitude(Total(p.trades)) * One
                       <= (p.threshold * p.base) * Cardinality(p.targeted \ DOMAIN p.trades)
                 /\ DOMAIN p.trades # {} => p.drift >= p.threshold
<1> DEFINE w == PortfolioWeights(SharesOf(b), Targets(b), Closes(market))
           t == OrZero(Targets(b))
           d == Deltas(SharesOf(b), Targets(b), Closes(market))
           K == Targeted(Targets(b))
           a == [n \in DOMAIN d |-> Magnitude(d[n])]
           base == DeltaBase(SharesOf(b), Targets(b), Closes(market))
           B == {n \in DOMAIN d : Magnitude(d[n]) * One > threshold * base}
<1>0. Total(t) # 0 /\ \E drift, size :
         p = [base |-> base, threshold |-> threshold, targeted |-> DOMAIN d,
              drift |-> Quanta(DriftTwice(d), 2 * base), needed |-> drift, trades |-> [n \in B |-> d[n]],
              listed |-> size]
  BY Zenon DEF Plan
<1>1. /\ Total(t) # 0
      /\ p.base = base /\ p.threshold = threshold /\ p.targeted = DOMAIN d
      /\ p.drift = Quanta(DriftTwice(d), 2 * base) /\ p.trades = [n \in B |-> d[n]]
  <2> HIDE DEF w, t, d, K, a, base, B
  <2>1. QED
    BY <1>0
<1>2. /\ DOMAIN w = DOMAIN b /\ DOMAIN t = DOMAIN b /\ IsFiniteSet(DOMAIN b)
      /\ \A n \in DOMAIN b : w[n] \in Nat /\ t[n] \in Nat
  BY WeightsAreNat, BookTypes, BookIsColumn
<1>3. K \subseteq DOMAIN b /\ \A n \in DOMAIN b \ K : t[n] = 0
  BY BookTypes DEF Targeted
<1>4. DOMAIN d = K /\ \A n \in K : d[n] = Targets(b)[n] * Total(w) - w[n] * Total(t)
  BY DEF Deltas
<1>5. \A n \in K : t[n] = Targets(b)[n]
  BY <1>3, BookTypes DEF Targeted
<1>6. Total(w) = SumFunctionOnSet(w, DOMAIN b) /\ Total(t) = SumFunctionOnSet(t, DOMAIN b)
  BY <1>2 DEF Total
<1>7. base = SumFunctionOnSet(w, DOMAIN b) * SumFunctionOnSet(t, DOMAIN b)
  BY <1>6 DEF DeltaBase
<1>8. DOMAIN a = K /\ DriftTwice(d) = SumFunctionOnSet(a, K) /\ \A n \in K : a[n] = Magnitude(d[n])
  BY <1>4 DEF DriftTwice, Total
<1>9. \A n \in K : d[n] = t[n] * SumFunctionOnSet(w, DOMAIN b) - w[n] * SumFunctionOnSet(t, DOMAIN b)
  BY <1>4, <1>5, <1>6
<1>10. B = {n \in K : a[n] * One > threshold * base}
  BY <1>4, <1>8
<1>11. Total(w) \in Nat \ {0} /\ Total(t) \in Nat \ {0}
  <2>1. Total(w) \in Nat \ {0}
    <3>1. w = PortfolioWeights(SharesOf(b), Targets(b), Closes(market))
      OBVIOUS
    <3> HIDE DEF w
    <3>2. QED
      BY <3>1, WeightsAreSome
  <2>2. Total(t) \in Nat
    BY <1>2, SumIsNat DEF Total
  <2>3. QED
    BY <1>1, <2>1, <2>2
<1>12. threshold \in Nat
  BY AllocationAssumption, PortfolioAssumption
<1> HIDE DEF w, t, d, K, a, base, B
<1>13. /\ 0 <= SumFunctionOnSet(a, K)
       /\ SumFunctionOnSet(a, K) <= 2 * base
       /\ K = DOMAIN b => SumFunctionOnSet(d, K) = 0
  <2>1. Drifting(DOMAIN b, w, t, K, d, a)
    BY <1>2, <1>3, <1>8, <1>9, Zenon DEF Drifting
  <2>2. QED
    BY <1>7, <2>1, DeltasAddUp, Zenon
<1>14. base \in Nat \ {0}
  <2>1. \A i, j \in Nat \ {0} : i * j \in Nat \ {0}
    OBVIOUS
  <2>2. QED
    BY <1>6, <1>7, <1>11, <2>1
<1>15. Column(d, K) /\ IsFiniteSet(K)
  <2>1. \A i, j, k, l \in Nat : i * j - k * l \in Int
    OBVIOUS
  <2>2. \A n \in K : d[n] \in Int
    BY <1>2, <1>3, <1>6, <1>9, <1>11, <2>1
  <2>3. QED
    BY <1>2, <1>3, <2>2, FS_Subset DEF Column
<1>16. SumFunctionOnSet(a, K) \in Nat
  <2>1. \A n \in K : a[n] \in Nat
    BY <1>8, <1>15 DEF Column, Magnitude
  <2>2. QED
    BY <1>15, <2>1, SumIsNat
<1>17. PICK s \in Nat : s = SumFunctionOnSet(a, K)
  BY <1>16
<1>18. p.drift = Quanta(s, 2 * base) /\ s <= 2 * base
  BY <1>1, <1>8, <1>13, <1>17
<1>19. /\ Quanta(s, 2 * base) \in Nat
       /\ Quanta(s, 2 * base) <= One
       /\ \A k \in Nat : k * (2 * base) <= s * One => k <= Quanta(s, 2 * base)
  BY <1>14, <1>18, QuantaBetween
<1>20. ASSUME p.targeted = DOMAIN b
       PROVE  /\ Magnitude(Total(p.trades)) * One
                    <= (p.threshold * p.base) * Cardinality(p.targeted \ DOMAIN p.trades)
              /\ DOMAIN p.trades # {} => p.drift >= p.threshold
  <2>1. SumFunctionOnSet(d, K) = 0
    BY <1>1, <1>4, <1>13, <1>20
  <2>2. threshold * base \in Nat
    <3>1. \A i, j \in Nat : i * j \in Nat
      OBVIOUS
    <3>2. QED
      BY <1>12, <1>14, <3>1
  <2>3. \A n \in K : a[n] = Magnitude(d[n])
    BY <1>8
  <2>4. PICK limit \in Nat : limit = threshold * base
    BY <2>2
  <2>5. B = {n \in K : a[n] * One > limit}
    BY <1>10, <2>4
  <2>6. /\ Magnitude(SumFunctionOnSet(d, B)) * One <= limit * Cardinality(K \ B)
        /\ \A n \in B : 2 * limit < SumFunctionOnSet(a, K) * One
    BY <1>15, <2>1, <2>3, <2>5, TradesLeaveLittle
  <2>7. DOMAIN p.trades = B /\ (\A n \in B : p.trades[n] = d[n]) /\ p.targeted = K
    BY <1>1, <1>4
  <2>8. Total(p.trades) = SumFunctionOnSet(d, B)
    <3>1. B \subseteq K
      BY <2>5
    <3>2. IsFiniteSet(B) /\ Column(p.trades, B)
      BY <1>15, <2>7, <3>1, FS_Subset DEF Column
    <3>3. SumFunctionOnSet(p.trades, B) = SumFunctionOnSet(d, B)
      BY <2>7, <3>2, SumsAreEqual
    <3>4. QED
      BY <2>7, <3>3 DEF Total
  <2>9. ASSUME B # {} PROVE threshold <= Quanta(s, 2 * base)
    <3>1. 2 * limit < s * One
      BY <1>17, <2>6, <2>9
    <3>2. threshold * (2 * base) = 2 * limit
      BY <1>12, <1>14, <2>4
    <3>3. \A i \in Nat : i * One \in Nat
      BY AllocationAssumption
    <3>4. threshold * (2 * base) <= s * One
      BY <1>17, <3>1, <3>2, <3>3
    <3>5. QED
      BY <1>12, <1>19, <3>4
  <2>10. QED
    BY <1>1, <1>12, <1>18, <1>19, <2>4, <2>6, <2>7, <2>8, <2>9
<1>21. QED
  BY <1>18, <1>19, <1>20

LEMMA MeanWithin ==
    ASSUME NEW S, IsFiniteSet(S), NEW w, NEW beta, NEW prod, NEW low \in Int, NEW high \in Int,
           \A n \in S : /\ w[n] \in Nat /\ beta[n] \in Int /\ low <= beta[n] /\ beta[n] <= high
                        /\ prod[n] = w[n] * beta[n]
    PROVE  /\ low * SumFunctionOnSet(w, S) <= SumFunctionOnSet(prod, S)
           /\ SumFunctionOnSet(prod, S) <= high * SumFunctionOnSet(w, S)
<1> DEFINE lows == [n \in S |-> low * w[n]]
           highs == [n \in S |-> high * w[n]]
<1>1. \A x, y \in Int, z \in Nat : x <= y => x * z <= z * y /\ z * x <= y * z
  OBVIOUS
<1>2. \A x \in Int, z \in Nat : x * z \in Int /\ z * x \in Int /\ x * z = z * x
  OBVIOUS
<1>3. \A n \in S : w[n] \in Nat /\ beta[n] \in Int /\ low <= beta[n] /\ beta[n] <= high
  OBVIOUS
<1>4. \A n \in S : /\ prod[n] \in Int /\ lows[n] \in Int /\ highs[n] \in Int
                   /\ lows[n] <= prod[n] /\ prod[n] <= highs[n]
  <2> TAKE n \in S
  <2>1. prod[n] = w[n] * beta[n] /\ lows[n] = low * w[n] /\ highs[n] = high * w[n]
    OBVIOUS
  <2>2. low * w[n] <= w[n] * beta[n] /\ w[n] * beta[n] <= high * w[n]
    BY <1>1, <1>3
  <2>3. w[n] * beta[n] \in Int /\ low * w[n] \in Int /\ high * w[n] \in Int
    BY <1>2, <1>3
  <2> HIDE DEF lows, highs
  <2>4. QED
    BY <2>1, <2>2, <2>3
<1>5. Column(w, S) /\ Column(prod, S) /\ Column(lows, S) /\ Column(highs, S)
  BY <1>3, <1>4 DEF Column
<1>6. (\A n \in S : lows[n] = low * w[n]) /\ (\A n \in S : highs[n] = high * w[n])
  OBVIOUS
<1> HIDE DEF lows, highs
<1>7. /\ SumFunctionOnSet(lows, S) = low * SumFunctionOnSet(w, S)
      /\ SumFunctionOnSet(highs, S) = high * SumFunctionOnSet(w, S)
  BY <1>5, <1>6, SumScales
<1>8. SumFunctionOnSet(lows, S) <= SumFunctionOnSet(prod, S)
  BY <1>4, <1>5, SumAtMost
<1>9. SumFunctionOnSet(prod, S) <= SumFunctionOnSet(highs, S)
  BY <1>4, <1>5, SumAtMost
<1>10. QED
  BY <1>7, <1>8, <1>9

LEMMA RiskAddsUp ==
    ASSUME NEW b \in Books, NEW market \in Markets, NEW w, NEW betas, NEW known, NEW m,
           w = PortfolioWeights(SharesOf(b), Targets(b), Closes(market)),
           betas = Betas(market), m = Metrics(w, betas),
           known = {betas[n] : n \in {k \in DOMAIN w : w[k] > 0}} \ {None}
    PROVE  /\ m.hhi[1] <= m.hhi[2] /\ m.hhi[2] <= Cardinality(DOMAIN w) * m.hhi[1]
           /\ m.beta # None => /\ Smallest(known) * m.beta[2] <= m.beta[1]
                               /\ m.beta[1] <= Largest(known) * m.beta[2]
<1> DEFINE D == DOMAIN w
           q == [n \in D |-> w[n] * w[n]]
           C == {n \in D : w[n] > 0 /\ betas[n] # None}
           prod == [n \in C |-> w[n] * betas[n]]
<1>1. DOMAIN w = DOMAIN b /\ (\A n \in D : w[n] \in Nat)
  BY WeightsAreNat
<1>2. IsFiniteSet(D) /\ D \subseteq Names
  BY <1>1, BookTypes
<1>3. m.hhi = <<Total(q), Total(w) * Total(w)>> /\ m.beta = Beta(w, betas)
  BY DEF Metrics
<1>4. Total(w) = SumFunctionOnSet(w, D)
  BY DEF Total
<1>5. Total(q) = SumFunctionOnSet(q, D)
  BY DEF Total
<1>6. C # {} => m.beta = <<SumFunctionOnSet(prod, C), SumFunctionOnSet(w, C)>>
  <2>1. DOMAIN prod = C
    OBVIOUS
  <2>2. C # {} => Beta(w, betas) = <<Total(prod), SumFunctionOnSet(w, C)>>
    BY Zenon DEF Beta
  <2>3. QED
    BY <1>3, <2>1, <2>2, Zenon DEF Total
<1>7. C = {} => m.beta = None
  BY <1>3, Zenon DEF Beta
<1>8. \A n \in Names : betas[n] \in Int \cup {None}
  <2>1. market \in [Names -> [close : Nat \cup {None}, beta : Int \cup {None}]]
    BY PortfolioAssumption DEF OptionalInt
  <2>2. QED
    BY <2>1 DEF Betas
<1>9. \A n \in D : q[n] = w[n] * w[n]
  OBVIOUS
<1>10. \A n \in C : prod[n] = w[n] * betas[n]
  OBVIOUS
<1>11. C \subseteq D /\ (\A n \in C : betas[n] \in known) /\ (known \ Int = {})
  BY <1>2, <1>8
<1>12. IsFiniteSet(known)
  <2>1. IsFiniteSet({k \in D : w[k] > 0})
    BY <1>2, FS_Subset
  <2>2. IsFiniteSet({betas[n] : n \in {k \in D : w[k] > 0}})
    <3> DEFINE H == {k \in D : w[k] > 0}
               img == {betas[n] : n \in H}
               f == [n \in H |-> betas[n]]
    <3>1. f \in Surjection(H, img)
      BY DEF Surjection
    <3> HIDE DEF f, img
    <3>2. IsFiniteSet(img)
      BY <2>1, <3>1, FS_Surjection
    <3>3. QED
      BY <3>2 DEF img
  <2>3. QED
    BY <2>2, FS_Subset
<1> HIDE DEF D, q, C, prod
<1>13. Column(w, D)
  BY <1>1 DEF Column
<1>14. SumFunctionOnSet(q, D) <= SumFunctionOnSet(w, D) * SumFunctionOnSet(w, D)
  BY <1>1, <1>2, <1>9, SquaresWithinSquare
<1>15. SumFunctionOnSet(w, D) * SumFunctionOnSet(w, D) <= Cardinality(D) * SumFunctionOnSet(q, D)
  BY <1>2, <1>9, <1>13, SquareWithinSquares
<1>16. m.hhi[1] = SumFunctionOnSet(q, D) /\ m.hhi[2] = SumFunctionOnSet(w, D) * SumFunctionOnSet(w, D)
  BY <1>3, <1>4, <1>5
<1>17. m.hhi[1] <= m.hhi[2] /\ m.hhi[2] <= Cardinality(DOMAIN w) * m.hhi[1]
  BY <1>14, <1>15, <1>16, Zenon DEF D
<1>18. ASSUME C # {} PROVE /\ Smallest(known) * m.beta[2] <= m.beta[1]
                           /\ m.beta[1] <= Largest(known) * m.beta[2]
  <2>1. known # {} /\ known \subseteq Int
    BY <1>11, <1>18
  <2>2. /\ Smallest(known) \in known /\ \A x \in known : Smallest(known) <= x
        /\ Largest(known) \in known /\ \A x \in known : x <= Largest(known)
    BY <1>12, <2>1, ExtremesExist
  <2>3. PICK low \in Int : low = Smallest(known)
    BY <2>1, <2>2
  <2>4. PICK high \in Int : high = Largest(known)
    BY <2>1, <2>2
  <2>5. \A n \in C : /\ w[n] \in Nat /\ betas[n] \in Int /\ low <= betas[n] /\ betas[n] <= high
                     /\ prod[n] = w[n] * betas[n]
    BY <1>1, <1>10, <1>11, <2>1, <2>2, <2>3, <2>4
  <2>6. IsFiniteSet(C)
    BY <1>2, <1>11, FS_Subset
  <2>7. /\ low * SumFunctionOnSet(w, C) <= SumFunctionOnSet(prod, C)
        /\ SumFunctionOnSet(prod, C) <= high * SumFunctionOnSet(w, C)
    BY <2>5, <2>6, MeanWithin
  <2>8. m.beta[1] = SumFunctionOnSet(prod, C) /\ m.beta[2] = SumFunctionOnSet(w, C)
    BY <1>6, <1>18
  <2>9. QED
    BY <2>3, <2>4, <2>7, <2>8
<1>19. QED
  BY <1>7, <1>17, <1>18

LEMMA AnalysesInit == PortfolioInit => AnalysesAddUp
BY DEF PortfolioInit, AnalysesAddUp

(* Only a computed plan or risk snapshot can say something wrong. *)
LEMMA AnalysesNext ==
    ASSUME PortfolioInv, AnalysesAddUp, [PortfolioNext]_portfolioVars
    PROVE  AnalysesAddUp'
<1>1. CASE answer' = answer
  BY <1>1 DEF AnalysesAddUp
<1>2. ASSUME answer' # None => answer'.kind \notin {"plan", "risk"} PROVE AnalysesAddUp'
  BY <1>2 DEF AnalysesAddUp
<1>3. ASSUME NEW c \in Clients, CommitRisk(c) PROVE AnalysesAddUp'
  <2>1. CASE ~exists
    BY <1>1, <1>3, <2>1 DEF CommitRisk
  <2>2. CASE exists
    <3>1. open[c] \in Risks
      BY <1>3 DEF PortfolioInv, Puts, CommitRisk
    <3> DEFINE book == open[c].read
               market == open[c].market
               w == PortfolioWeights(SharesOf(book), Targets(book), Closes(market))
               betas == Betas(market)
               known == {betas[n] : n \in {k \in DOMAIN w : w[k] > 0}} \ {None}
               m == Metrics(w, betas)
    <3>2. book \in Books /\ market \in Markets
      BY <3>1 DEF Risks
    <3>3. answer' = [kind |-> "risk", weights |-> w, betas |-> betas, metrics |-> m]
      BY <1>3, <2>2, Zenon DEF CommitRisk
    <3>4. /\ m.hhi[1] <= m.hhi[2] /\ m.hhi[2] <= Cardinality(DOMAIN w) * m.hhi[1]
          /\ m.beta # None => /\ Smallest(known) * m.beta[2] <= m.beta[1]
                              /\ m.beta[1] <= Largest(known) * m.beta[2]
      <4> HIDE DEF book, market
      <4>1. w = PortfolioWeights(SharesOf(book), Targets(book), Closes(market))
            /\ betas = Betas(market) /\ m = Metrics(w, betas)
            /\ known = {betas[n] : n \in {k \in DOMAIN w : w[k] > 0}} \ {None}
        OBVIOUS
      <4> HIDE DEF w, betas, known, m
      <4>2. QED
        BY <3>2, <4>1, RiskAddsUp
    <3>5. /\ answer'.kind = "risk" /\ answer'.weights = w
          /\ answer'.betas = betas /\ answer'.metrics = m
      BY <3>3
    <3>6. known = {answer'.betas[n] : n \in {k \in DOMAIN answer'.weights : answer'.weights[k] > 0}}
                      \ {None}
      BY <3>5
    <3> HIDE DEF w, betas, known, m
    <3>7. QED
      BY <3>4, <3>5, <3>6 DEF AnalysesAddUp
  <2>3. QED
    BY <2>1, <2>2
<1>4. ASSUME Rebalance PROVE AnalysesAddUp'
  <2>1. PICK market \in Markets, threshold \in Thresholds :
           answer' = IF Plan(SharesOf(positions), Targets(positions), Closes(market), threshold) = None
                     THEN [kind |-> "validation_error"]
                     ELSE [kind |-> "plan", names |-> DOMAIN positions,
                           plan |-> Plan(SharesOf(positions), Targets(positions), Closes(market),
                                         threshold)]
    BY <1>4, Zenon DEF Rebalance
  <2> DEFINE p == Plan(SharesOf(positions), Targets(positions), Closes(market), threshold)
  <2>2. CASE p = None
    <3>1. answer' = [kind |-> "validation_error"]
      BY <2>1, <2>2, Zenon
    <3>2. QED
      BY <1>2, <3>1
  <2>3. CASE p # None
    <3>1. answer' = [kind |-> "plan", names |-> DOMAIN positions, plan |-> p]
      BY <2>1, <2>3, Zenon
    <3>2. PICK b \in Books : b = positions
      BY DEF PortfolioInv
    <3>3. p = Plan(SharesOf(b), Targets(b), Closes(market), threshold)
      BY <3>2
    <3> HIDE DEF p
    <3>4. /\ 0 <= p.drift /\ p.drift <= One
          /\ p.targeted = DOMAIN b =>
                /\ Magnitude(Total(p.trades)) * One
                      <= (p.threshold * p.base) * Cardinality(p.targeted \ DOMAIN p.trades)
                /\ DOMAIN p.trades # {} => p.drift >= p.threshold
      <4>1. DOMAIN b # {}
        BY <1>4, <3>2 DEF Rebalance
      <4>2. QED
        BY <2>3, <3>3, <4>1, PlanAddsUp
    <3>5. answer'.kind = "plan" /\ answer'.names = DOMAIN b /\ answer'.plan = p
      BY <3>1, <3>2
    <3>6. QED
      BY <3>4, <3>5 DEF AnalysesAddUp
  <2>4. QED
    BY <2>2, <2>3
<1>5. ASSUME Optimize PROVE answer'.kind \notin {"plan", "risk"}
  <2>1. \A r, x : Validated(r, x).kind \notin {"plan", "risk"}
    BY DEF Validated, Refused
  <2>2. \A r, names, s, k : Refused(r, names, s, k).kind \notin {"plan", "risk"}
    BY DEF Refused
  <2>3. \A r, names : \A z \in Optimized(r, names) : z.kind \notin {"plan", "risk"}
    <3> TAKE r, names
    <3> DEFINE solved == IF r.method = "risk_parity" THEN RiskParity(r, names)
                         ELSE MeanVariance(r, names)
               structural == Binding(Feasibility(r.constraints, names))
    <3>1. Optimized(r, names) =
             IF names = {} THEN {Refused(r, names, "matrix", "cardinality")}
             ELSE IF structural # None THEN {Refused(r, names, "structure", structural.kind)}
             ELSE {Validated(r, DecimalWeights(r.constraints.longOnly, x)) : x \in solved.books} \cup
                  {Refused(r, names, "solve", k) : k \in solved.refusals} \cup
                  {[kind |-> "solver_error"]}
      BY Zenon DEF Optimized
    <3> HIDE DEF solved, structural
    <3>2. QED
      <4>1. CASE names = {}
        BY <2>2, <3>1, <4>1, Zenon
      <4>2. CASE names # {} /\ structural # None
        <5>1. Optimized(r, names) = {Refused(r, names, "structure", structural.kind)}
          BY <3>1, <4>2, Zenon
        <5>2. QED
          BY <2>2, <5>1, Zenon
      <4>3. CASE names # {} /\ structural = None
        <5>1. Optimized(r, names) =
                 {Validated(r, DecimalWeights(r.constraints.longOnly, x)) : x \in solved.books} \cup
                 {Refused(r, names, "solve", k) : k \in solved.refusals} \cup
                 {[kind |-> "solver_error"]}
          BY <3>1, <4>3, Zenon
        <5>2. \A z \in {Validated(r, DecimalWeights(r.constraints.longOnly, x)) : x \in solved.books} :
                 z.kind \notin {"plan", "risk"}
          BY <2>1, Zenon
        <5>3. \A z \in {Refused(r, names, "solve", k) : k \in solved.refusals} :
                 z.kind \notin {"plan", "risk"}
          BY <2>2, Zenon
        <5>4. \A z \in {[kind |-> "solver_error"]} : z.kind \notin {"plan", "risk"}
          OBVIOUS
        <5>5. QED
          BY <5>1, <5>2, <5>3, <5>4, Zenon
      <4>4. QED
        BY <4>1, <4>2, <4>3
  <2>4. PICK r \in Requests :
          \/ answer' \in {[kind |-> "validation_error"], [kind |-> "not_found"],
                          [kind |-> "entitlement_exceeded"]}
          \/ \E names \in Columns(positions) : answer' \in Optimized(r, names)
    BY <1>5, Zenon DEF Optimize
  <2>5. CASE answer' \in {[kind |-> "validation_error"], [kind |-> "not_found"],
                          [kind |-> "entitlement_exceeded"]}
    BY <2>5
  <2>6. CASE \E names \in Columns(positions) : answer' \in Optimized(r, names)
    BY <2>3, <2>6, Zenon
  <2>7. QED
    BY <2>4, <2>5, <2>6
<1>6. CASE Optimize
  BY <1>2, <1>5, <1>6
<1>7. CASE Answered
  BY <1>2, <1>7 DEF Answered
<1>8. ASSUME NEW c \in Clients, BeginPut(c) \/ CommitPut(c) \/ BeginRisk(c) PROVE answer' = answer
  BY <1>8, Zenon DEF BeginPut, CommitPut, BeginRisk
<1>9. CASE (\E n \in Names : DeletePosition(n)) \/ DeletePortfolio \/ UNCHANGED portfolioVars
  BY <1>1, <1>9 DEF DeletePosition, DeletePortfolio, portfolioVars
<1>10. QED
  BY <1>1, <1>3, <1>4, <1>6, <1>7, <1>8, <1>9, Zenon DEF PortfolioNext

(* What an analysis says of a portfolio adds up: following the trades of a   *)
(* book that is targeted in full needs or frees at most one threshold for    *)
(* each name that the threshold leaves out, and there are none before the    *)
(* total drift has reached it; the drift stays in [0, 1], concentration      *)
(* between an even book and a single name, the beta of a portfolio between   *)
(* the betas it is made of; for any names, market, threshold and order of    *)
(* edits and requests (RebalanceEngine.suggest, RiskEngine.metrics).         *)
THEOREM AnalysesAlwaysAddUp == PortfolioSpec => []AnalysesAddUp
<1>1. PortfolioInit => PortfolioInv /\ AnalysesAddUp
  BY PortfolioInvInit, AnalysesInit
<1>2. PortfolioInv /\ AnalysesAddUp /\ [PortfolioNext]_portfolioVars => PortfolioInv' /\ AnalysesAddUp'
  BY PortfolioInvNext, AnalysesNext
<1>3. QED
  BY <1>1, <1>2, PTL DEF PortfolioSpec

-----------------------------------------------------------------------------
(* Order and rounding *)

(* A total, transitive relation R has a first element in a finite set. *)
LEMMA FirstExists ==
    ASSUME NEW S, IsFiniteSet(S), S # {}, NEW R,
           \A s, t \in S : s = t \/ <<s, t>> \in R \/ <<t, s>> \in R,
           \A s, t, u \in S : <<s, t>> \in R /\ <<t, u>> \in R => <<s, u>> \in R
    PROVE  \E s \in S : \A t \in S \ {s} : <<s, t>> \in R
<1> DEFINE Good == {T \in SUBSET S :
                       T # {} => \E s \in T : \A t \in T \ {s} : <<s, t>> \in R}
<1>1. {} \in Good
  OBVIOUS
<1>2. ASSUME NEW T \in SUBSET S, T \in Good, NEW x \in S \ T PROVE T \cup {x} \in Good
  <2>1. CASE T = {}
    BY <2>1
  <2>2. CASE T # {}
    <3>1. PICK s \in T : \A t \in T \ {s} : <<s, t>> \in R
      BY <1>2, <2>2
    <3>2. CASE <<s, x>> \in R
      <4>1. \A t \in (T \cup {x}) \ {s} : <<s, t>> \in R
        BY <3>1, <3>2
      <4>2. QED
        BY <4>1
    <3>3. CASE <<x, s>> \in R
      <4>1. \A t \in (T \cup {x}) \ {x} : <<x, t>> \in R
        BY <3>1, <3>3
      <4>2. QED
        BY <4>1
    <3>4. s \in S /\ x \in S /\ s # x
      OBVIOUS
    <3>5. QED
      BY <3>2, <3>3, <3>4
  <2>3. QED
    BY <2>1, <2>2
<1>3. SUBSET S \subseteq Good
  <2> HIDE DEF Good
  <2>1. QED
    BY <1>1, <1>2, ByElements
<1>4. QED
  BY <1>3

(* Fractions with positive denominators compare by cross-multiplication. *)
Slacks == Int \X (Nat \ {0})
AtMost(p, q) == p[1] * q[2] <= q[1] * p[2]

LEMMA CrossMultiplied ==
    ASSUME NEW a \in Int, NEW b \in Nat \ {0}, NEW c \in Int, NEW d \in Nat \ {0},
           NEW e \in Int, NEW f \in Nat \ {0}, a * d <= c * b, c * f <= e * d
    PROVE  /\ a * f <= e * b
           /\ a * d < c * b \/ c * f < e * d => a * f < e * b
<1> DEFINE u == a * d
           v == c * b
           y == c * f
           z == e * d
           l == a * f
           r == e * b
<1>1. u \in Int /\ v \in Int /\ y \in Int /\ z \in Int /\ l \in Int /\ r \in Int
  OBVIOUS
<1>2. u * f = l * d /\ v * f = y * b /\ z * b = r * d
  OBVIOUS
<1>3. u <= v /\ y <= z
  OBVIOUS
<1>4. \A i, j \in Int, k \in Nat \ {0} : /\ i * k \in Int
                                         /\ i <= j => i * k <= j * k
                                         /\ i < j => i * k < j * k
                                         /\ i * k <= j * k => i <= j
                                         /\ i * k < j * k => i < j
  OBVIOUS
<1> HIDE DEF u, v, y, z, l, r
<1>5. u * f <= v * f /\ y * b <= z * b
  BY <1>1, <1>3, <1>4
<1>6. u * f \in Int /\ v * f \in Int /\ z * b \in Int
  BY <1>1, <1>4
<1>7. l * d <= r * d
  BY <1>2, <1>5, <1>6
<1>8. l <= r
  BY <1>1, <1>4, <1>7
<1>9. ASSUME u < v \/ y < z PROVE l < r
  <2>1. u * f < v * f \/ y * b < z * b
    BY <1>1, <1>4, <1>9
  <2>2. l * d < r * d
    BY <1>2, <1>5, <1>6, <2>1
  <2>3. QED
    BY <1>1, <1>4, <2>2
<1>10. QED
  BY <1>8, <1>9 DEF u, v, y, z, l, r

LEMMA SlackOrder ==
    ASSUME NEW p \in Slacks, NEW q \in Slacks, NEW r \in Slacks
    PROVE  /\ ~LessSlack(p, q) <=> AtMost(q, p)
           /\ LessSlack(p, q) => AtMost(p, q)
           /\ AtMost(p, q) /\ AtMost(q, r) => AtMost(p, r)
           /\ AtMost(p, q) /\ LessSlack(q, r) => LessSlack(p, r)
           /\ LessSlack(p, q) /\ AtMost(q, r) => LessSlack(p, r)
<1>1. /\ p[1] \in Int /\ q[1] \in Int /\ r[1] \in Int
      /\ p[2] \in Nat \ {0} /\ q[2] \in Nat \ {0} /\ r[2] \in Nat \ {0}
  BY DEF Slacks
<1>2. \A i, j \in Int : i * j \in Int
  OBVIOUS
<1>3. p[1] * q[2] \in Int /\ q[1] * p[2] \in Int /\ q[1] * r[2] \in Int /\ r[1] * q[2] \in Int
  BY <1>1, <1>2
<1>4. (~LessSlack(p, q) <=> AtMost(q, p)) /\ (LessSlack(p, q) => AtMost(p, q))
  BY <1>3 DEF LessSlack, AtMost
<1>5. LessSlack(q, r) => AtMost(q, r)
  BY <1>3 DEF LessSlack, AtMost
<1>6. AtMost(p, q) /\ AtMost(q, r) => /\ AtMost(p, r)
                                      /\ (LessSlack(p, q) \/ LessSlack(q, r) => LessSlack(p, r))
  BY <1>1, CrossMultiplied DEF AtMost, LessSlack
<1>7. QED
  BY <1>4, <1>5, <1>6

LEMMA Rounding ==
    ASSUME NEW x \in Int
    PROVE  /\ Quantized(x) \in Int
           /\ 2 * (Fine * Quantized(x)) - 2 * x <= Fine
           /\ -Fine <= 2 * (Fine * Quantized(x)) - 2 * x
           /\ x >= 0 => Quantized(x) >= 0
           /\ \A k \in Nat : x <= k * Fine => Quantized(x) <= k
<1>1. PICK F \in Nat \ {0} : F = Fine
  BY AllocationAssumption
<1>2. \A a \in Nat, d \in Nat \ {0} : /\ a \div d \in Int
                                      /\ d * (a \div d) <= a
                                      /\ a < d * (a \div d) + d
  OBVIOUS
<1>3. ASSUME NEW y \in Nat, NEW q, q = (2 * y + F) \div (2 * F)
      PROVE  /\ q \in Nat
             /\ 2 * (F * q) - 2 * y <= F
             /\ -F <= 2 * (F * q) - 2 * y
  <2>1. 2 * y + F \in Nat /\ 2 * F \in Nat \ {0}
    OBVIOUS
  <2>2. q \in Int /\ (2 * F) * q <= 2 * y + F /\ 2 * y + F < (2 * F) * q + 2 * F
    BY <1>2, <1>3, <2>1
  <2>3. (2 * F) * q = 2 * (F * q) /\ F * q \in Int
    BY <2>2
  <2>4. q >= 0
    <3>1. CASE q < 0
      <4>1. \A i \in Int, j \in Nat : i <= -1 => j * i <= -j
        OBVIOUS
      <4>2. F * q <= -F
        BY <2>2, <3>1, <4>1
      <4>3. QED
        BY <2>2, <2>3, <4>2
    <3>2. QED
      BY <2>2, <3>1
  <2>5. QED
    BY <2>2, <2>3, <2>4
<1>4. CASE x >= 0
  <2> DEFINE q == Quantized(x)
  <2>1. q = (2 * x + F) \div (2 * F)
    BY <1>1, <1>4 DEF Quantized
  <2> HIDE DEF q
  <2>2. q \in Nat /\ 2 * (F * q) - 2 * x <= F /\ -F <= 2 * (F * q) - 2 * x
    <3>1. PICK y \in Nat : y = x
      BY <1>4
    <3>2. q = (2 * y + F) \div (2 * F)
      BY <2>1, <3>1
    <3>3. q \in Nat /\ 2 * (F * q) - 2 * y <= F /\ -F <= 2 * (F * q) - 2 * y
      BY <1>3, <3>2
    <3>4. QED
      BY <3>1, <3>3
  <2>3. ASSUME NEW k \in Nat, x <= k * F PROVE q <= k
    <3>1. \A i \in Int, j \in Nat : i >= k + 1 => j * i >= j * (k + 1)
      OBVIOUS
    <3>2. F * (k + 1) = k * F + F /\ F * q \in Int /\ k * F \in Int
      BY <2>2
    <3>3. CASE q >= k + 1
      <4>1. F * q >= F * (k + 1)
        BY <2>2, <3>1, <3>3
      <4>2. QED
        BY <2>2, <2>3, <3>2, <4>1
    <3>4. QED
      BY <2>2, <3>3
  <2>4. QED
    BY <1>1, <2>2, <2>3 DEF q
<1>5. CASE x < 0
  <2> DEFINE q == (2 * (-x) + F) \div (2 * F)
  <2>1. Quantized(x) = -q
    BY <1>1, <1>5 DEF Quantized
  <2>2. q \in Nat /\ 2 * (F * q) - 2 * (-x) <= F /\ -F <= 2 * (F * q) - 2 * (-x)
    BY <1>3, <1>5
  <2> HIDE DEF q
  <2>3. F * (-q) = -(F * q) /\ F * q \in Int
    BY <2>2
  <2>4. QED
    BY <1>1, <1>5, <2>1, <2>2, <2>3
<1>6. QED
  BY <1>4, <1>5

(* Rounding to quanta moves the total by half a quantum per name at most. *)
LEMMA RoundedTotal ==
    ASSUME NEW D, IsFiniteSet(D), NEW x, \A n \in D : x[n] \in Int,
           NEW q, \A n \in D : q[n] = Quantized(x[n])
    PROVE  /\ SumFunctionOnSet(x, D) \in Int /\ SumFunctionOnSet(q, D) \in Int
           /\ 2 * (Fine * SumFunctionOnSet(q, D)) <= 2 * SumFunctionOnSet(x, D) + Fine * Cardinality(D)
           /\ 2 * SumFunctionOnSet(x, D) <= 2 * (Fine * SumFunctionOnSet(q, D)) + Fine * Cardinality(D)
<1>1. PICK F \in Nat \ {0} : F = Fine
  BY AllocationAssumption
<1>2. SumFunctionOnSet(x, D) \in Int
  BY SumIsInt DEF Column
<1> DEFINE upper == [n \in D |-> F]
           lower == [n \in D |-> -F]
           twice == [n \in D |-> 2 * x[n]]
           high == [n \in D |-> upper[n] + twice[n]]
           low == [n \in D |-> lower[n] + twice[n]]
           scaled == [n \in D |-> (2 * F) * q[n]]
           T == SumFunctionOnSet(q, D)
           C == Cardinality(D)
<1>3. /\ \A n \in D : upper[n] = F /\ lower[n] = -F /\ twice[n] = 2 * x[n]
      /\ \A n \in D : high[n] = upper[n] + twice[n]
      /\ \A n \in D : low[n] = lower[n] + twice[n]
      /\ \A n \in D : scaled[n] = (2 * F) * q[n]
  OBVIOUS
<1> HIDE DEF upper, lower, twice, high, low, scaled
<1>4. \A n \in D : /\ q[n] \in Int /\ 2 * (F * q[n]) - 2 * x[n] <= F
                   /\ -F <= 2 * (F * q[n]) - 2 * x[n]
  BY <1>1, Rounding
<1>5. \A i \in Int : (2 * F) * i = 2 * (F * i) /\ F * i \in Int
  OBVIOUS
<1>6. \A n \in D : /\ scaled[n] \in Int /\ high[n] \in Int /\ low[n] \in Int
                   /\ low[n] <= scaled[n] /\ scaled[n] <= high[n]
  <2> TAKE n \in D
  <2>1. scaled[n] = 2 * (F * q[n]) /\ F * q[n] \in Int /\ x[n] \in Int
    BY <1>3, <1>4, <1>5
  <2>2. high[n] = F + 2 * x[n] /\ low[n] = -F + 2 * x[n]
    BY <1>3
  <2>3. 2 * (F * q[n]) - 2 * x[n] <= F /\ -F <= 2 * (F * q[n]) - 2 * x[n]
    BY <1>4
  <2>4. QED
    BY <2>1, <2>2, <2>3
<1>7. /\ Column(x, D) /\ Column(q, D) /\ Column(upper, D) /\ Column(lower, D) /\ Column(twice, D)
      /\ Column(high, D) /\ Column(low, D) /\ Column(scaled, D)
  BY <1>3, <1>4, <1>6 DEF Column
<1>8. SumFunctionOnSet(twice, D) = 2 * SumFunctionOnSet(x, D)
  BY <1>3, <1>7, SumScales
<1>9. SumFunctionOnSet(upper, D) = F * C /\ SumFunctionOnSet(lower, D) = (-F) * C
  <2>1. F \in Int /\ -F \in Int
    OBVIOUS
  <2>2. (\A n \in D : upper[n] = F) /\ (\A n \in D : lower[n] = -F)
    BY <1>3
  <2>3. SumFunctionOnSet(upper, D) = F * Cardinality(D)
    BY ONLY IsFiniteSet(D), <2>1, <2>2, SumOfConstant, Zenon
  <2>4. SumFunctionOnSet(lower, D) = (-F) * Cardinality(D)
    BY ONLY IsFiniteSet(D), <2>1, <2>2, SumOfConstant, Zenon
  <2>5. QED
    BY <2>3, <2>4
<1>10. /\ SumFunctionOnSet(high, D) = SumFunctionOnSet(upper, D) + SumFunctionOnSet(twice, D)
       /\ SumFunctionOnSet(low, D) = SumFunctionOnSet(lower, D) + SumFunctionOnSet(twice, D)
  BY <1>3, <1>7, SumsAdd
<1>11. SumFunctionOnSet(scaled, D) = (2 * F) * T
  BY <1>3, <1>7, SumScales
<1>12. /\ SumFunctionOnSet(low, D) <= SumFunctionOnSet(scaled, D)
       /\ SumFunctionOnSet(scaled, D) <= SumFunctionOnSet(high, D)
  BY <1>6, <1>7, SumAtMost
<1>13. T \in Int /\ C \in Nat
  BY <1>7, SumIsInt, FS_CardinalityType
<1> HIDE DEF T, C
<1>14. PICK t \in Int : t = T
  BY <1>13
<1>15. PICK c \in Nat : c = C
  BY <1>13
<1>16. /\ (2 * F) * t <= F * c + 2 * SumFunctionOnSet(x, D)
       /\ (-F) * c + 2 * SumFunctionOnSet(x, D) <= (2 * F) * t
  BY <1>1, <1>2, <1>8, <1>9, <1>10, <1>11, <1>12, <1>14, <1>15
<1>17. (2 * F) * t = 2 * (F * t) /\ (-F) * c = -(F * c) /\ F * t \in Int /\ F * c \in Int
  OBVIOUS
<1>18. /\ 2 * (F * t) <= 2 * SumFunctionOnSet(x, D) + F * c
       /\ 2 * SumFunctionOnSet(x, D) <= 2 * (F * t) + F * c
  BY <1>2, <1>16, <1>17
<1>19. QED
  BY <1>1, <1>2, <1>13, <1>14, <1>15, <1>18 DEF T, C

(* y is the cleaned column x, and q its rounding. *)
RoundedTo(longOnly, x, y, q) ==
    y = Cleaned(longOnly, x) /\ q = [n \in DOMAIN x |-> Quantized(y[n])]
(* w is q with what lacks to One at the first of the largest. *)
Balanced(D, q, w) ==
    \E top \in D : /\ \A n \in D \ {top} : w[n] = q[n]
                  /\ w[top] = One - SumFunctionOnSet(q, D \ {top})
                  /\ \A n \in D : q[n] <= q[top]

LEMMA RoundedBook ==
    ASSUME NEW x, DOMAIN x \subseteq Names, DOMAIN x # {}, \A n \in DOMAIN x : x[n] \in Int,
           NEW longOnly, NEW y, NEW q, RoundedTo(longOnly, x, y, q),
           NEW w, w = DecimalWeights(longOnly, x)
    PROVE  /\ DOMAIN w = DOMAIN x /\ (\A n \in DOMAIN x : w[n] \in Int) /\ Total(w) = One
           /\ Balanced(DOMAIN x, q, w)
<1>0. y = Cleaned(longOnly, x) /\ q = [n \in DOMAIN x |-> Quantized(y[n])]
  BY Zenon DEF RoundedTo
<1>1. PICK D : D = DOMAIN x
  OBVIOUS
<1> DEFINE heads == {n \in D : \A m \in D : q[n] >= q[m]}
           top == Smallest(heads)
           rest == SumFunctionOnSet(q, D \ {top})
<1>2. IsFiniteSet(D) /\ D # {} /\ D \subseteq Nat
  BY <1>1, AllocationAssumption, FS_Subset
<1>3. \A n \in D : q[n] \in Int
  <2>1. \A n \in D : y[n] \in Int
    BY <1>0, <1>1 DEF Cleaned
  <2>2. \A n \in D : q[n] = Quantized(y[n])
    BY <1>0, <1>1
  <2>3. QED
    BY <2>1, <2>2, Rounding
<1>4. w = [q EXCEPT ![top] = @ + One - SumFunctionOnSet(q, D)]
  <2>1. DOMAIN q = D
    BY <1>0, <1>1
  <2>2. w = LET clean == Cleaned(longOnly, x)
                r == [n \in DOMAIN x |-> Quantized(clean[n])]
                t == Smallest({n \in DOMAIN r : \A m \in DOMAIN r : r[n] >= r[m]})
            IN  [r EXCEPT ![t] = @ + One - Total(r)]
    BY Zenon DEF DecimalWeights
  <2>3. q = [n \in DOMAIN x |-> Quantized(Cleaned(longOnly, x)[n])]
    BY <1>0
  <2>4. heads = {n \in DOMAIN q : \A m \in DOMAIN q : q[n] >= q[m]}
    BY <2>1
  <2>5. Total(q) = SumFunctionOnSet(q, D)
    BY <2>1 DEF Total
  <2> HIDE DEF heads
  <2>6. w = [q EXCEPT ![Smallest(heads)] = @ + One - Total(q)]
    BY <2>2, <2>3, <2>4, Zenon
  <2>7. QED
    BY <2>5, <2>6
<1>5. DOMAIN q = D
  BY <1>0, <1>1
<1>6. heads # {}
  <2> DEFINE img == {q[n] : n \in D}
  <2>1. IsFiniteSet(img)
    BY <1>2, ImageIsFinite
  <2>2. img # {} /\ img \subseteq Int
    BY <1>2, <1>3
  <2>3. \A n \in D : q[n] \in img
    OBVIOUS
  <2>4. \A z \in img : \E n \in D : z = q[n]
    OBVIOUS
  <2> HIDE DEF img
  <2>5. Largest(img) \in img /\ \A z \in img : z <= Largest(img)
    BY <2>1, <2>2, ExtremesExist
  <2>6. PICK n \in D : Largest(img) = q[n]
    BY <2>4, <2>5
  <2>7. \A m \in D : q[n] >= q[m]
    BY <1>3, <2>3, <2>5, <2>6
  <2>8. QED
    BY <2>7
<1>7. top \in D /\ \A m \in D : q[m] <= q[top]
  <2>0. heads \subseteq D
    OBVIOUS
  <2>1. heads \subseteq D /\ heads \subseteq Int
    <3> HIDE DEF heads
    <3>1. QED
      BY <1>2, <2>0
  <2>2. IsFiniteSet(heads)
    BY <1>2, <2>1, FS_Subset
  <2>3. top \in heads
    <3> HIDE DEF heads
    <3>1. Smallest(heads) \in heads
      BY <1>6, <2>1, <2>2, ExtremesExist
    <3>2. QED
      BY <3>1
  <2> HIDE DEF top
  <2>4. QED
    BY <1>3, <2>3
<1> HIDE DEF top, heads
<1>8. /\ SumFunctionOnSet(q, D) = q[top] + rest
      /\ SumFunctionOnSet(q, D) \in Int /\ rest \in Int /\ q[top] \in Int
      /\ IsFiniteSet(D \ {top}) /\ Column(q, D \ {top})
  <2>1. Column(q, D) /\ Column(q, D \ {top}) /\ IsFiniteSet(D \ {top})
    BY <1>2, <1>3, FS_Subset DEF Column
  <2>2. SumFunctionOnSet(q, D) = q[top] + rest
    BY <1>2, <1>7, <2>1, SumRemoves
  <2>3. SumFunctionOnSet(q, D) \in Int /\ rest \in Int
    BY <1>2, <2>1, SumIsInt
  <2>4. QED
    BY <1>3, <1>7, <2>1, <2>2, <2>3
<1> HIDE DEF rest
<1>9. One \in Nat
  BY AllocationAssumption
<1>10. DOMAIN w = D /\ w[top] = One - rest /\ \A n \in D \ {top} : w[n] = q[n]
  BY <1>4, <1>5, <1>7, <1>8, <1>9
<1>11. \A n \in D : w[n] \in Int
  BY <1>3, <1>8, <1>9, <1>10
<1>12. Total(w) = One
  <2>1. Column(w, D) /\ Column(w, D \ {top})
    BY <1>11 DEF Column
  <2>2. SumFunctionOnSet(w, D) = w[top] + SumFunctionOnSet(w, D \ {top})
    <3>1. top \in D /\ IsFiniteSet(D)
      BY <1>2, <1>7
    <3>2. QED
      BY <2>1, <3>1, SumRemoves
  <2>3. SumFunctionOnSet(w, D \ {top}) = rest
    <3>1. PICK O : O = D \ {top}
      OBVIOUS
    <3>2. IsFiniteSet(O) /\ Column(w, O) /\ Column(q, O) /\ \A n \in O : w[n] = q[n]
      BY <1>8, <1>10, <2>1, <3>1
    <3>3. SumFunctionOnSet(w, O) = SumFunctionOnSet(q, O)
      BY <3>2, SumsAreEqual
    <3>4. QED
      BY <3>1, <3>3 DEF rest
  <2>4. QED
    BY <1>8, <1>9, <1>10, <2>2, <2>3 DEF Total
<1>13. QED
  BY <1>1, <1>7, <1>10, <1>11, <1>12 DEF rest, Balanced

(* What is rounded of all names but one is close to what they had. *)
Near(D, x, y, q) ==
    \A n \in D : /\ x[n] \in Int /\ y[n] \in Int
                 /\ x[n] <= y[n] /\ y[n] <= x[n] + Tol /\ q[n] = Quantized(y[n])

LEMMA RoundedRest ==
    ASSUME NEW D, IsFiniteSet(D), NEW top \in D, NEW x, NEW y, NEW q, Near(D, x, y, q),
           NEW C, C = Cardinality(D) - 1, NEW S, S = SumFunctionOnSet(q, D \ {top}),
           NEW X, X = SumFunctionOnSet(x, D) - x[top]
    PROVE  /\ C \in Nat /\ S \in Int /\ X \in Int
           /\ 2 * X <= 2 * (Fine * S) + Fine * C
           /\ 2 * (Fine * S) <= 2 * X + 2 * (Tol * C) + Fine * C
           /\ (\A n \in D : q[n] <= q[top]) => S <= q[top] * C
<1>0. \A n \in D : /\ x[n] \in Int /\ y[n] \in Int
                   /\ x[n] <= y[n] /\ y[n] <= x[n] + Tol /\ q[n] = Quantized(y[n])
  BY Zenon DEF Near
<1> USE <1>0
<1> DEFINE O == D \ {top}
           tol == [n \in O |-> Tol]
           high == [n \in O |-> x[n] + tol[n]]
           flat == [n \in O |-> q[top]]
<1>1. IsFiniteSet(O) /\ O \subseteq D /\ S = SumFunctionOnSet(q, O)
  BY FS_Subset
<1>2. C = Cardinality(O) /\ C \in Nat
  <2>1. Cardinality(O) = Cardinality(D) - 1 /\ Cardinality(O) \in Nat
    BY <1>1, FS_RemoveElement, FS_CardinalityType
  <2>2. QED
    BY <2>1
<1>3. Tol \in Nat /\ Fine \in Nat
  BY AllocationAssumption
<1>4. \A n \in O : tol[n] = Tol /\ high[n] = x[n] + tol[n] /\ flat[n] = q[top]
  OBVIOUS
<1> HIDE DEF tol, high, flat
<1>5. \A n \in D : q[n] \in Int
  BY Rounding
<1>6. /\ Column(x, D) /\ Column(x, O) /\ Column(y, O) /\ Column(q, O)
      /\ Column(tol, O) /\ Column(high, O) /\ Column(flat, O)
  <2>1. /\ \A n \in D : x[n] \in Int
        /\ \A n \in O : /\ y[n] \in Int /\ q[n] \in Int /\ x[n] \in Int
                         /\ tol[n] \in Int /\ high[n] \in Int /\ flat[n] \in Int
    BY <1>1, <1>3, <1>4, <1>5
  <2>2. QED
    BY <2>1 DEF Column
<1>7. SumFunctionOnSet(x, D) = x[top] + SumFunctionOnSet(x, O) /\ SumFunctionOnSet(x, O) \in Int
  BY <1>1, <1>6, SumRemoves, SumIsInt
<1>8. X = SumFunctionOnSet(x, O) /\ X \in Int
  <2>1. x[top] \in Int
    OBVIOUS
  <2>2. QED
    BY <1>7, <2>1
<1>9. /\ SumFunctionOnSet(y, O) \in Int /\ S \in Int
      /\ 2 * (Fine * S) <= 2 * SumFunctionOnSet(y, O) + Fine * C
      /\ 2 * SumFunctionOnSet(y, O) <= 2 * (Fine * S) + Fine * C
  <2>1. \A n \in O : y[n] \in Int /\ q[n] = Quantized(y[n])
    OBVIOUS
  <2> HIDE DEF O
  <2>2. QED
    BY <1>1, <1>2, <2>1, RoundedTotal
<1>10. \A n \in O : x[n] <= y[n] /\ y[n] <= high[n]
  BY <1>4
<1> HIDE DEF O
<1>11. SumFunctionOnSet(x, O) <= SumFunctionOnSet(y, O)
  BY <1>1, <1>6, <1>10, SumAtMost
<1>12. SumFunctionOnSet(y, O) <= SumFunctionOnSet(high, O)
  BY <1>1, <1>6, <1>10, SumAtMost
<1>13. SumFunctionOnSet(high, O) = SumFunctionOnSet(x, O) + SumFunctionOnSet(tol, O)
  BY <1>1, <1>4, <1>6, SumsAdd
<1>14. SumFunctionOnSet(tol, O) = Tol * C
  BY <1>1, <1>2, <1>3, <1>4, SumOfConstant
<1>15. Tol * C \in Nat /\ Fine * C \in Nat /\ Fine * S \in Int
  <2>1. \A i, j \in Int : i * j \in Int
    OBVIOUS
  <2>2. \A i, j \in Nat : i * j \in Nat
    OBVIOUS
  <2>3. QED
    BY <1>2, <1>3, <1>9, <2>1, <2>2
<1>16. ASSUME \A n \in D : q[n] <= q[top] PROVE S <= q[top] * C
  <2>1. \A n \in O : q[n] <= flat[n]
    BY <1>1, <1>4, <1>16
  <2>2. SumFunctionOnSet(q, O) <= SumFunctionOnSet(flat, O)
    BY <1>1, <1>6, <2>1, SumAtMost
  <2>3. SumFunctionOnSet(flat, O) = q[top] * C
    BY <1>1, <1>2, <1>4, <1>5, SumOfConstant
  <2>4. QED
    BY <1>1, <2>2, <2>3
<1>17. /\ 2 * X <= 2 * (Fine * S) + Fine * C
       /\ 2 * (Fine * S) <= 2 * X + 2 * (Tol * C) + Fine * C
  BY <1>8, <1>9, <1>11, <1>12, <1>13, <1>14, <1>15
<1>18. QED
  BY <1>2, <1>8, <1>9, <1>16, <1>17

-----------------------------------------------------------------------------
(* Solutions and what rounding leaves of them *)

(* A solution meets what the solver was given up to its tolerance. *)
LEMMA SolutionIs ==
    ASSUME NEW c, NEW names, names \subseteq Names, names # {}, NEW x \in Solutions(c, names)
    PROVE  /\ DOMAIN x = names /\ (\A n \in names : x[n] \in Int)
           /\ Total(x) \in (One * Fine - Tol)..(One * Fine + Tol)
           /\ c.longOnly => \A n \in names : x[n] >= -Tol
           /\ c.max # None => \A n \in names : x[n] <= c.max * Fine + Tol
<1> DEFINE least == IF c.longOnly THEN -Tol ELSE -MaxShort
           most == One * Fine + Tol - (Cardinality(names) - 1) * least
           last == Largest(names)
           rest == names \ {last}
<1>0. PICK P \in Int : P = One * Fine
  <2>1. \A i, j \in Int : i * j \in Int
    OBVIOUS
  <2>2. QED
    BY <2>1, AllocationAssumption
<1>1. PICK y \in [rest -> least..most], miss \in -Tol..Tol :
         /\ x = [n \in names |-> IF n = last THEN One * Fine + miss - Total(y) ELSE y[n]]
         /\ x[last] >= least /\ Within(c, x)
  <2> DEFINE books == {[n \in names |-> IF n = last THEN One * Fine + miss - Total(y) ELSE y[n]] :
                         y \in [rest -> least..most], miss \in -Tol..Tol}
  <2>1. Solutions(c, names) = {z \in books : z[last] >= least /\ Within(c, z)}
    BY DEF Solutions
  <2> HIDE DEF least, most, last, rest
  <2>2. x \in books /\ x[last] >= least /\ Within(c, x)
    <3> HIDE DEF books
    <3>1. QED
      BY <2>1
  <2>3. QED
    BY <2>2
<1>2. IsFiniteSet(names) /\ names \subseteq Int
  <2>1. Names \subseteq Nat /\ IsFiniteSet(Names)
    BY AllocationAssumption
  <2>2. IsFiniteSet(names)
    BY <2>1, FS_Subset
  <2>3. QED
    BY <2>1, <2>2
<1>3. last \in names
  BY <1>2, ExtremesExist
<1>4. least \in Int /\ (c.longOnly => least = -Tol) /\ Tol \in Nat
  BY AllocationAssumption
<1>5. IsFiniteSet(rest) /\ rest = names \ {last}
  BY <1>2, FS_Subset
<1> HIDE DEF last, rest, least, most
<1>6. DOMAIN y = rest /\ \A n \in rest : y[n] \in Int /\ y[n] >= least
  <2>1. \A i \in least..most : i \in Int /\ i >= least
    BY <1>4
  <2>2. QED
    BY <1>1, <2>1
<1>7. Total(y) \in Int /\ Total(y) = SumFunctionOnSet(y, rest)
  <2>1. Column(y, rest)
    BY <1>6 DEF Column
  <2>2. QED
    BY <1>5, <1>6, <2>1, SumIsInt DEF Total
<1>8. DOMAIN x = names /\ x[last] = P + miss - Total(y) /\ \A n \in rest : x[n] = y[n]
  BY <1>0, <1>1, <1>3, <1>5
<1>9. miss \in Int /\ -Tol <= miss /\ miss <= Tol
  BY <1>4
<1>10. \A n \in names : x[n] \in Int /\ x[n] >= least
  BY <1>0, <1>1, <1>4, <1>5, <1>6, <1>7, <1>8, <1>9
<1>11. Total(x) = P + miss
  <2>1. Column(x, names) /\ Column(x, rest)
    BY <1>5, <1>10 DEF Column
  <2>2. SumFunctionOnSet(x, names) = x[last] + SumFunctionOnSet(x, rest)
    BY <1>2, <1>3, <1>5, <2>1, SumRemoves
  <2>3. SumFunctionOnSet(x, rest) = SumFunctionOnSet(y, rest)
    BY <1>5, <1>8, <2>1, SumsAreEqual
  <2>4. QED
    BY <1>7, <1>8, <1>9, <2>2, <2>3 DEF Total
<1>12. c.longOnly => \A n \in names : x[n] >= -Tol
  BY <1>4, <1>10
<1>13. c.max # None => \A n \in names : x[n] <= c.max * Fine + Tol
  BY <1>1, <1>8 DEF Within
<1>14. Total(x) \in (P - Tol)..(P + Tol)
  BY <1>4, <1>9, <1>11
<1>15. QED
  BY <1>0, <1>8, <1>10, <1>12, <1>13, <1>14

(* The arithmetic of the largest weight: with F steps a quantum, misses of   *)
(* up to T steps, N names and C + 1 columns, X steps in the others before    *)
(* and S quanta after the rounding.                                          *)
LEMMA LargestIsBounded ==
    ASSUME NEW F \in Nat \ {0}, NEW T \in Nat, NEW N \in Nat, NEW C \in Nat, C + 1 <= N,
           NEW O \in Nat, NEW E \in Nat, NEW S \in Int, NEW X \in Int, NEW t \in Int,
           (N - 1) * F + 4 * T <= 2 * (F * E),
           2 * X <= 2 * (F * S) + F * C,
           O * F - T <= X + t
    PROVE  \A k \in Nat : t <= k * F + T => O - S <= k + E
<1> SUFFICES ASSUME NEW k \in Nat, t <= k * F + T, O - S >= k + E + 1 PROVE FALSE
  OBVIOUS
<1>1. \A i, j \in Int, l \in Nat : i <= j => l * i <= l * j
  OBVIOUS
<1>2. C * F <= (N - 1) * F
  BY <1>1
<1>3. F * (k + E + 1) <= F * (O - S)
  BY <1>1
<1>4. /\ F * (k + E + 1) = k * F + F * E + F /\ F * (O - S) = O * F - F * S /\ C * F = F * C
      /\ k * F \in Int /\ F * E \in Int /\ O * F \in Int /\ F * S \in Int /\ F * C \in Int
      /\ (N - 1) * F \in Int
  OBVIOUS
<1>5. PICK kF \in Int, FE \in Int, OF \in Int, FS \in Int, FC \in Int, M \in Int :
        kF = k * F /\ FE = F * E /\ OF = O * F /\ FS = F * S /\ FC = F * C /\ M = (N - 1) * F
  BY <1>4
<1>6. /\ FC <= M /\ kF + FE + F <= OF - FS /\ M + 4 * T <= 2 * FE /\ 2 * X <= 2 * FS + FC
      /\ OF - T <= X + t /\ t <= kF + T
  BY <1>2, <1>3, <1>4, <1>5
<1>7. QED
  BY <1>6

LEMMA LargestIsLong ==
    ASSUME NEW F \in Nat \ {0}, NEW T \in Nat, NEW N \in Nat, NEW C \in Nat, C + 1 <= N,
           NEW O \in Nat, NEW S \in Int, NEW X \in Int, NEW t \in Int, NEW q \in Nat,
           (N * N) * (F + 2 * T) <= 2 * (O * F),
           2 * (F * S) <= 2 * X + 2 * (T * C) + F * C,
           X + t <= O * F + T,
           S <= q * C, 2 * (F * q) <= 2 * (t + T) + F
    PROVE  O - S >= 0
<1> SUFFICES ASSUME S >= O + 1 PROVE FALSE
  OBVIOUS
<1>1. \A i, j \in Int, l \in Nat : i <= j => l * i <= l * j
  OBVIOUS
<1>2. PICK M \in Nat : M = F + 2 * T
  OBVIOUS
<1>3. PICK FS \in Int, TC \in Int, FC \in Int, OF \in Int, Fq \in Int :
        FS = F * S /\ TC = T * C /\ FC = F * C /\ OF = O * F /\ Fq = F * q
  OBVIOUS
<1>4. F * (O + 1) <= FS /\ F * (O + 1) = OF + F
  BY <1>1, <1>3
<1>5. 2 * FS <= 2 * X + 2 * TC + FC /\ X + t <= OF + T /\ 2 * Fq <= 2 * (t + T) + F
  BY <1>3
<1>6. 2 * Fq <= 4 * T + 2 * TC + FC - F
  BY <1>4, <1>5
<1>7. (C + 2) * M = FC + 2 * TC + 2 * F + 4 * T
  BY <1>2, <1>3
<1>8. 2 * Fq <= (C + 2) * M
  BY <1>6, <1>7
<1>9. C * (2 * Fq) <= C * ((C + 2) * M)
  <2>1. (C + 2) * M \in Int
    OBVIOUS
  <2>2. QED
    BY <1>1, <1>8, <2>1
<1>10. C * (2 * Fq) = 2 * (F * (q * C))
  BY <1>3
<1>11. FS <= F * (q * C)
  <2>1. q * C \in Int
    OBVIOUS
  <2>2. F * S <= F * (q * C)
    BY <1>1, <2>1
  <2>3. QED
    BY <1>3, <2>2
<1>12. C * ((C + 2) * M) = ((C + 1) * (C + 1)) * M - M
  OBVIOUS
<1>13. (C + 1) * (C + 1) <= N * N
  <2>1. (C + 1) * (C + 1) <= (C + 1) * N /\ N * (C + 1) <= N * N
    BY <1>1
  <2>2. (C + 1) * N = N * (C + 1) /\ N * (C + 1) \in Int /\ (C + 1) * (C + 1) \in Int /\ N * N \in Int
    OBVIOUS
  <2>3. QED
    BY <2>1, <2>2
<1>14. ((C + 1) * (C + 1)) * M <= (N * N) * M
  <2>1. PICK a \in Nat, b \in Nat : a = (C + 1) * (C + 1) /\ b = N * N
    OBVIOUS
  <2>2. M * a <= M * b /\ M * a = a * M /\ M * b = b * M
    BY <1>1, <1>13, <2>1
  <2>3. QED
    BY <2>1, <2>2
<1>15. (N * N) * M <= 2 * OF
  BY <1>2, <1>3
<1>16. PICK a \in Int, b \in Int, d \in Int, e \in Int :
         a = ((C + 1) * (C + 1)) * M /\ b = (N * N) * M /\ d = C * (2 * Fq) /\ e = F * (q * C)
  OBVIOUS
<1>17. d <= a - M /\ a <= b /\ b <= 2 * OF /\ d = 2 * e /\ FS <= e
  BY <1>9, <1>10, <1>11, <1>12, <1>14, <1>15, <1>16
<1>18. QED
  BY <1>4, <1>17

(* The rounded solution is fully invested, within the tolerance of the       *)
(* largest weight, and long-only when that is asked.                         *)
LEMMA RoundedSolution ==
    ASSUME NEW c, IsConstraints(c), Accepted(c), NEW names, names \subseteq Names, names # {},
           NEW x \in Solutions(c, names), NEW longOnly, longOnly => c.longOnly,
           NEW w, w = DecimalWeights(longOnly, x)
    PROVE  /\ DOMAIN w = names /\ (\A n \in names : w[n] \in Int) /\ Total(w) = One
           /\ longOnly => \A n \in names : w[n] >= 0
           /\ c.max # None => \A n \in names : w[n] <= c.max + Eps
<1>0. PICK y, q : /\ y = Cleaned(longOnly, x) /\ q = [n \in DOMAIN x |-> Quantized(y[n])]
                  /\ RoundedTo(longOnly, x, y, q)
  BY DEF RoundedTo
<1>1. /\ DOMAIN x = names /\ (\A n \in names : x[n] \in Int)
      /\ Total(x) \in (One * Fine - Tol)..(One * Fine + Tol)
      /\ c.longOnly => \A n \in names : x[n] >= -Tol
      /\ c.max # None => \A n \in names : x[n] <= c.max * Fine + Tol
  BY SolutionIs
<1>2. Tol \in Nat /\ One \in Nat /\ Eps \in Nat
  BY AllocationAssumption
<1>3. PICK F \in Nat \ {0} : F = Fine
  BY AllocationAssumption
<1>4. IsFiniteSet(names) /\ IsFiniteSet(Names)
  BY AllocationAssumption, FS_Subset
<1>5. \A n \in names : y[n] = IF longOnly /\ x[n] < 0 THEN 0 ELSE x[n]
  BY <1>0, <1>1 DEF Cleaned
<1>6. \A n \in names : /\ x[n] \in Int /\ y[n] \in Int
                       /\ x[n] <= y[n] /\ y[n] <= x[n] + Tol
                       /\ longOnly => y[n] >= 0
  BY <1>1, <1>2, <1>5
<1>7. /\ DOMAIN w = names /\ (\A n \in names : w[n] \in Int) /\ Total(w) = One
      /\ \E top \in names :
            /\ \A n \in names \ {top} : w[n] = q[n]
            /\ w[top] = One - SumFunctionOnSet(q, names \ {top})
            /\ \A n \in names : q[n] <= q[top]
  <2>2. DOMAIN x \subseteq Names /\ DOMAIN x # {} /\ \A n \in DOMAIN x : x[n] \in Int
    BY <1>1
  <2>3. RoundedTo(longOnly, x, y, q)
    BY <1>0
  <2>4. /\ DOMAIN w = DOMAIN x /\ (\A n \in DOMAIN x : w[n] \in Int) /\ Total(w) = One
        /\ Balanced(DOMAIN x, q, w)
    BY <2>2, <2>3, RoundedBook
  <2>5. QED
    BY <1>1, <2>4, Zenon DEF Balanced
<1>8. \A n \in names : q[n] = Quantized(y[n])
  BY <1>0, <1>1
<1>9. PICK top \in names :
            /\ \A n \in names \ {top} : w[n] = q[n]
            /\ w[top] = One - SumFunctionOnSet(q, names \ {top})
            /\ \A n \in names : q[n] <= q[top]
  BY <1>7
<1>10. PICK C, S, X : /\ C = Cardinality(names) - 1 /\ S = SumFunctionOnSet(q, names \ {top})
                      /\ X = SumFunctionOnSet(x, names) - x[top]
  OBVIOUS
<1>11. /\ C \in Nat /\ S \in Int /\ X \in Int
       /\ 2 * X <= 2 * (Fine * S) + Fine * C
       /\ 2 * (Fine * S) <= 2 * X + 2 * (Tol * C) + Fine * C
       /\ S <= q[top] * C
  <2>1. Near(names, x, y, q)
    BY <1>6, <1>8 DEF Near
  <2>2. QED
    BY <1>4, <1>9, <1>10, <2>1, RoundedRest
<1>12. PICK t \in Int, T \in Int, P \in Int :
         t = x[top] /\ T = Total(x) /\ P = One * F /\ T = X + t /\ P - Tol <= T /\ T <= P + Tol
  <2>1. \A i, j \in Int : i * j \in Int
    OBVIOUS
  <2>2. PICK P \in Int : P = One * Fine
    BY <1>2, <1>3, <2>1
  <2>3. Total(x) \in (P - Tol)..(P + Tol)
    BY <1>1, <2>2
  <2>4. Total(x) \in Int /\ P - Tol <= Total(x) /\ Total(x) <= P + Tol
    BY <1>2, <2>3
  <2>5. Total(x) = SumFunctionOnSet(x, names)
    BY <1>1 DEF Total
  <2>6. x[top] \in Int
    BY <1>1
  <2>7. QED
    BY <1>3, <1>10, <2>2, <2>4, <2>5, <2>6
<1>13. PICK N \in Nat : /\ N = Cardinality(Names) /\ C + 1 <= N
                         /\ (N - 1) * F + 4 * Tol <= 2 * (F * Eps) /\ F + 2 * Tol <= 2 * (F * Eps)
                         /\ (N * N) * (F + 2 * Tol) <= 2 * (One * F)
  <2>1. Cardinality(names) \in Nat /\ Cardinality(Names) \in Nat
        /\ Cardinality(names) <= Cardinality(Names)
    BY <1>4, FS_Subset, FS_CardinalityType
  <2>2. QED
    BY <1>3, <1>10, <2>1, AllocationAssumption
<1>14. \A n \in names : /\ q[n] \in Int
                        /\ 2 * (F * q[n]) - 2 * y[n] <= F
                        /\ y[n] >= 0 => q[n] >= 0
  BY <1>3, <1>6, <1>8, Rounding
<1>15. ASSUME longOnly, NEW n \in names PROVE w[n] >= 0
  <2>1. q[n] >= 0 /\ q[n] \in Int
    BY <1>6, <1>14, <1>15
  <2>2. CASE n = top
    <3>1. PICK r \in Nat : r = q[top]
      BY <2>1, <2>2
    <3>2. 2 * (F * r) <= 2 * (t + Tol) + F
      <4>1. F * r \in Int
        OBVIOUS
      <4>2. y[top] \in Int /\ y[top] <= t + Tol /\ 2 * (F * r) - 2 * y[top] <= F
        BY <1>6, <1>12, <1>14, <3>1
      <4>3. QED
        BY <1>2, <4>1, <4>2
    <3>3. /\ 2 * (F * S) <= 2 * X + 2 * (Tol * C) + F * C /\ S <= r * C
          /\ X + t <= One * F + Tol /\ C \in Nat /\ S \in Int /\ X \in Int
      BY <1>3, <1>11, <1>12, <3>1
    <3>4. One - S >= 0
      BY <1>2, <1>13, <3>2, <3>3, LargestIsLong
    <3>5. QED
      BY <1>9, <1>10, <2>2, <3>4
  <2>3. QED
    BY <1>9, <2>1, <2>2
<1>16. ASSUME c.max # None, NEW n \in names PROVE w[n] <= c.max + Eps
  <2>1. PICK k \in Nat : k = c.max
    BY <1>16 DEF Accepted
  <2>2. x[n] <= k * F + Tol
    BY <1>1, <1>3, <1>16, <2>1
  <2>3. CASE n = top
    <3>1. /\ 2 * X <= 2 * (F * S) + F * C /\ One * F - Tol <= X + t /\ t <= k * F + Tol
          /\ C \in Nat /\ S \in Int /\ X \in Int
      BY <1>3, <1>11, <1>12, <2>2, <2>3
    <3>2. One - S <= k + Eps
      BY <1>2, <1>13, <3>1, LargestIsBounded
    <3>3. QED
      BY <1>9, <1>10, <2>1, <2>3, <3>2
  <2>4. CASE n # top
    <3>1. w[n] = q[n] /\ q[n] \in Int /\ 2 * (F * q[n]) - 2 * y[n] <= F
      BY <1>9, <1>14, <2>4
    <3>2. k * F \in Nat /\ F * Eps \in Nat
      <4>1. \A i, j \in Nat : i * j \in Nat
        OBVIOUS
      <4>2. QED
        BY <1>2, <4>1
    <3>3. y[n] \in Int /\ y[n] <= k * F + Tol
      BY <1>2, <1>5, <1>6, <2>2, <3>2
    <3>4. PICK r \in Int : r = q[n]
      BY <3>1
    <3>5. CASE r >= k + Eps + 1
      <4>1. \A i, j \in Int, l \in Nat : i <= j => l * i <= l * j
        OBVIOUS
      <4>2. F * (k + Eps + 1) <= F * r
        BY <1>2, <3>5, <4>1
      <4>3. F * (k + Eps + 1) = k * F + F * Eps + F /\ F * r \in Int
        BY <1>2
      <4>4. QED
        BY <1>2, <1>13, <3>1, <3>2, <3>3, <3>4, <4>2, <4>3
    <3>6. QED
      BY <1>2, <2>1, <3>1, <3>4, <3>5
  <2>5. QED
    BY <2>3, <2>4
<1>17. QED
  BY <1>7, <1>15, <1>16

-----------------------------------------------------------------------------
(* The binding status *)

Graded == [kind : Range(KindOrder), satisfied : BOOLEAN, slack : Slacks]

LEMMA RankIsOne ==
    /\ \A k \in Range(KindOrder) : Rank(k) \in Nat
    /\ \A k, l \in Range(KindOrder) : Rank(k) = Rank(l) => k = l
<1>1. DOMAIN KindOrder \subseteq Nat
  BY DEF KindOrder
<1>2. \A k \in Range(KindOrder) : Rank(k) \in DOMAIN KindOrder /\ KindOrder[Rank(k)] = k
  BY DEF Range, Rank
<1>3. QED
  BY <1>1, <1>2

LEMMA BindingIs ==
    ASSUME NEW S, IsFiniteSet(S), S \subseteq Graded, \A s, t \in S : s.kind = t.kind => s = t
    PROVE  /\ Binding(S) = None => \A s \in S : s.satisfied
           /\ Binding(S) # None => Binding(S) \in S /\ ~Binding(S).satisfied
<1> DEFINE V == {s \in S : ~s.satisfied}
           Better(s, t) == \/ LessSlack(s.slack, t.slack)
                           \/ ~LessSlack(t.slack, s.slack) /\ Rank(s.kind) < Rank(t.kind)
           R == {p \in V \X V : Better(p[1], p[2])}
<1>1. CASE V = {}
  <2>1. Binding(S) = None
    BY <1>1, Zenon DEF Binding
  <2>2. QED
    BY <1>1, <2>1
<1>2. CASE V # {}
  <2>1. IsFiniteSet(V) /\ V \subseteq S
    BY FS_Subset
  <2>2. \A s \in V : s.kind \in Range(KindOrder) /\ s.slack \in Slacks /\ Rank(s.kind) \in Nat
    BY RankIsOne DEF Graded
  <2>3. \A s, t \in V : s = t \/ Better(s, t) \/ Better(t, s)
    <3> TAKE s, t \in V
    <3>1. s # t => Rank(s.kind) # Rank(t.kind)
      BY <2>2, RankIsOne
    <3>2. QED
      BY <2>2, <3>1
  <2>4. \A s, t, u \in V : Better(s, t) /\ Better(t, u) => Better(s, u)
    <3> TAKE s, t, u \in V
    <3>1. PICK p \in Slacks, q \in Slacks, r \in Slacks :
             p = s.slack /\ q = t.slack /\ r = u.slack
      BY <2>2
    <3>2. PICK i \in Nat, j \in Nat, k \in Nat :
             i = Rank(s.kind) /\ j = Rank(t.kind) /\ k = Rank(u.kind)
      BY <2>2
    <3>3. /\ ~LessSlack(q, p) <=> AtMost(p, q)
          /\ ~LessSlack(r, q) <=> AtMost(q, r)
          /\ ~LessSlack(r, p) <=> AtMost(p, r)
          /\ LessSlack(p, q) => AtMost(p, q)
          /\ LessSlack(q, r) => AtMost(q, r)
          /\ AtMost(p, q) /\ AtMost(q, r) => AtMost(p, r)
          /\ AtMost(p, q) /\ LessSlack(q, r) => LessSlack(p, r)
          /\ LessSlack(p, q) /\ AtMost(q, r) => LessSlack(p, r)
      BY SlackOrder
    <3>4. QED
      BY <3>1, <3>2, <3>3
  <2>5. \A s, t \in V : <<s, t>> \in R <=> Better(s, t)
    OBVIOUS
  <2> HIDE DEF R, Better
  <2>6. \A s, t \in V : s = t \/ <<s, t>> \in R \/ <<t, s>> \in R
    BY <2>3, <2>5
  <2>7. \A s, t, u \in V : <<s, t>> \in R /\ <<t, u>> \in R => <<s, u>> \in R
    BY <2>4, <2>5
  <2> HIDE DEF V
  <2>8. \E s \in V : \A t \in V \ {s} : <<s, t>> \in R
    BY <1>2, <2>1, <2>6, <2>7, FirstExists
  <2>9. \E s \in V : \A t \in V \ {s} : Better(s, t)
    BY <2>5, <2>8
  <2>10. Binding(S) = CHOOSE s \in V : \A t \in V \ {s} : Better(s, t)
    BY <1>2, Zenon DEF Binding, V, Better
  <2>11. Binding(S) \in V
    BY <2>9, <2>10
  <2>12. Binding(S) \in S /\ ~Binding(S).satisfied
    BY <2>11 DEF V
  <2>13. Binding(S) # None
    <3>1. Graded \subseteq Statuses
      BY DEF Graded, Slacks, Statuses
    <3>2. QED
      BY <2>12, <3>1, PortfolioAssumption
  <2>14. QED
    BY <2>12, <2>13
<1>3. QED
  BY <1>1, <1>2

-----------------------------------------------------------------------------
(* check: at most one status per kind, and what each says *)

Single(S, kind) == /\ IsFiniteSet(S) /\ S \subseteq Graded
                   /\ \A s \in S : s.kind = kind
                   /\ \A s, t \in S : s = t
Satisfied(S) == \A s \in S : s.satisfied

Columns01(w) == IsFiniteSet(DOMAIN w) /\ DOMAIN w # {} /\ \A n \in DOMAIN w : w[n] \in Int

LEMMA KindsAre ==
    {"max_weight", "min_weight", "long_only", "sector_cap", "cardinality", "full_investment"}
        \subseteq Range(KindOrder)
<1>1. /\ KindOrder[1] = "max_weight" /\ KindOrder[2] = "min_weight" /\ KindOrder[3] = "long_only"
      /\ KindOrder[4] = "sector_cap" /\ KindOrder[5] = "cardinality"
      /\ KindOrder[9] = "full_investment"
  BY DEF KindOrder
<1>2. DOMAIN KindOrder = 1..9
  BY DEF KindOrder
<1>3. \A i \in 1..9 : KindOrder[i] \in Range(KindOrder)
  BY <1>2 DEF Range
<1>4. QED
  BY <1>1, <1>3

LEMMA OneStatus ==
    ASSUME NEW kind \in Range(KindOrder), NEW yes \in BOOLEAN, NEW slack \in Slacks
    PROVE  /\ Single({Status(kind, yes, slack)}, kind)
           /\ Satisfied({Status(kind, yes, slack)}) <=> yes
<1>1. Status(kind, yes, slack) \in Graded /\ Status(kind, yes, slack).kind = kind
      /\ Status(kind, yes, slack).satisfied = yes
  BY DEF Status, Graded
<1>2. IsFiniteSet({Status(kind, yes, slack)})
  BY FS_Singleton
<1>3. QED
  BY <1>1, <1>2 DEF Single, Satisfied

LEMMA NoStatus == \A kind : Single({}, kind) /\ Satisfied({})
BY FS_EmptySet DEF Single, Satisfied

LEMMA UnderIs ==
    \A a, l \in Int : Under(a, l) \in Slacks /\ Under(a, l)[1] = l - a
<1> SUFFICES ASSUME NEW a \in Int, NEW l \in Int
             PROVE Under(a, l) \in Slacks /\ Under(a, l)[1] = l - a
  OBVIOUS
<1>1. Base(l) \in Nat \ {0}
  BY AllocationAssumption DEF Base, Magnitude
<1>2. QED
  BY <1>1 DEF Under, Slacks

LEMMA MaxStatus ==
    ASSUME NEW c, IsConstraints(c), NEW w, Columns01(w)
    PROVE  /\ Single(MaxWeightStatus(c, w), "max_weight")
           /\ Satisfied(MaxWeightStatus(c, w)) <=>
                 (c.max # None => \A n \in DOMAIN w : w[n] <= c.max + Eps)
<1>1. CASE c.max = None
  BY <1>1, NoStatus DEF MaxWeightStatus
<1>2. CASE c.max # None
  <2> DEFINE img == {w[n] : n \in DOMAIN w}
             top == Largest(img)
             slack == Under(top, c.max)
             yes == top <= c.max + Eps
  <2>1. c.max \in Int /\ Eps \in Nat
    BY <1>2, AllocationAssumption DEF IsConstraints, OptionalInt
  <2>2. IsFiniteSet(img) /\ img # {} /\ img \subseteq Int
    BY ImageIsFinite DEF Columns01
  <2>3. (\A n \in DOMAIN w : w[n] \in img) /\ \A y \in img : \E n \in DOMAIN w : y = w[n]
    OBVIOUS
  <2>4. MaxWeightStatus(c, w) = {Status("max_weight", yes, slack)}
    BY <1>2, Zenon DEF MaxWeightStatus
  <2> HIDE DEF img
  <2>5. top \in img /\ \A y \in img : y <= top
    BY <2>2, ExtremesExist
  <2>6. slack \in Slacks /\ yes \in BOOLEAN
    <3>1. top \in Int
      BY <2>2, <2>5
    <3>2. yes \in BOOLEAN
      OBVIOUS
    <3> HIDE DEF top
    <3>3. Under(top, c.max) \in Slacks
      BY <2>1, <3>1, UnderIs
    <3>4. QED
      BY <3>2, <3>3
  <2>7. top \in Int /\ \A n \in DOMAIN w : w[n] \in Int /\ w[n] <= top
    BY <2>2, <2>3, <2>5
  <2>8. \E n \in DOMAIN w : w[n] = top
    BY <2>3, <2>5
  <2> HIDE DEF top, slack
  <2>9. yes <=> \A n \in DOMAIN w : w[n] <= c.max + Eps
    BY <2>1, <2>7, <2>8
  <2> HIDE DEF yes
  <2>10. Single({Status("max_weight", yes, slack)}, "max_weight")
         /\ (Satisfied({Status("max_weight", yes, slack)}) <=> yes)
    BY <2>6, KindsAre, OneStatus
  <2>11. QED
    BY <1>2, <2>4, <2>9, <2>10
<1>3. QED
  BY <1>1, <1>2

LEMMA MinStatus ==
    ASSUME NEW c, IsConstraints(c), NEW w, Columns01(w)
    PROVE  /\ Single(MinWeightStatus(c, w), "min_weight")
           /\ Satisfied(MinWeightStatus(c, w)) <=>
                 (c.min # 0 => \A n \in DOMAIN w : w[n] > Eps => w[n] >= c.min - Eps)
<1>1. CASE c.min = 0
  BY <1>1, NoStatus DEF MinWeightStatus
<1>2. CASE c.min # 0
  <2> DEFINE img == {w[n] : n \in Held(w)}
             least == IF Held(w) = {} THEN c.min ELSE Smallest(img)
             slack == Under(c.min, least)
             yes == least >= c.min - Eps
  <2>1. c.min \in Int /\ Eps \in Nat
    BY AllocationAssumption DEF IsConstraints
  <2>2. Held(w) = {n \in DOMAIN w : w[n] > Eps}
    BY DEF Held
  <2>3. IsFiniteSet(Held(w))
    BY <2>2, FS_Subset DEF Columns01
  <2>4. IsFiniteSet(img) /\ img \subseteq Int
    BY <2>2, <2>3, ImageIsFinite DEF Columns01
  <2>5. (\A n \in Held(w) : w[n] \in img) /\ \A y \in img : \E n \in Held(w) : y = w[n]
    OBVIOUS
  <2>6. MinWeightStatus(c, w) = {Status("min_weight", yes, slack)}
    BY <1>2, Zenon DEF MinWeightStatus
  <2>7. Held(w) # {} => img # {}
    OBVIOUS
  <2> HIDE DEF img
  <2>8. Held(w) # {} => Smallest(img) \in img /\ \A y \in img : Smallest(img) <= y
    BY <2>4, <2>7, ExtremesExist
  <2>9. least \in Int
    BY <2>1, <2>4, <2>8
  <2>10. slack \in Slacks /\ yes \in BOOLEAN
    <3> HIDE DEF least
    <3>1. yes \in BOOLEAN
      OBVIOUS
    <3>2. Under(c.min, least) \in Slacks
      BY <2>1, <2>9, UnderIs
    <3>3. QED
      BY <3>1, <3>2
  <2>11. yes <=> \A n \in Held(w) : w[n] >= c.min - Eps
    <3>1. CASE Held(w) = {}
      BY <2>1, <3>1
    <3>2. CASE Held(w) # {}
      <4>1. least = Smallest(img)
        BY <3>2
      <4>2. (\A n \in Held(w) : w[n] \in Int /\ least <= w[n]) /\ \E n \in Held(w) : w[n] = least
        BY <2>4, <2>5, <2>8, <3>2, <4>1
      <4> HIDE DEF least
      <4>3. QED
        BY <2>1, <2>9, <4>2
    <3>3. QED
      BY <3>1, <3>2
  <2> HIDE DEF least, slack, yes
  <2>12. Single({Status("min_weight", yes, slack)}, "min_weight")
         /\ (Satisfied({Status("min_weight", yes, slack)}) <=> yes)
    BY <2>10, KindsAre, OneStatus
  <2>13. QED
    BY <1>2, <2>2, <2>6, <2>11, <2>12
<1>3. QED
  BY <1>1, <1>2

LEMMA LongStatus ==
    ASSUME NEW c, IsConstraints(c), NEW w, Columns01(w)
    PROVE  /\ Single(LongOnlyStatus(c, w), "long_only")
           /\ Satisfied(LongOnlyStatus(c, w)) <=>
                 (c.longOnly => \A n \in DOMAIN w : w[n] >= -Eps)
<1> DEFINE img == {w[n] : n \in DOMAIN w}
           lowest == Smallest(img)
           slack == <<lowest, One>>
           yes == lowest >= -Eps
<1>1. One \in Nat \ {0} /\ Eps \in Nat
  BY AllocationAssumption
<1>2. IsFiniteSet(img) /\ img # {} /\ img \subseteq Int
  BY ImageIsFinite DEF Columns01
<1>3. (\A n \in DOMAIN w : w[n] \in img) /\ \A y \in img : \E n \in DOMAIN w : y = w[n]
  OBVIOUS
<1>4. LongOnlyStatus(c, w) = IF c.longOnly THEN {Status("long_only", yes, slack)} ELSE {}
  BY Zenon DEF LongOnlyStatus
<1> HIDE DEF img
<1>5. lowest \in img /\ \A y \in img : lowest <= y
  BY <1>2, ExtremesExist
<1>6. lowest \in Int /\ slack \in Slacks /\ yes \in BOOLEAN
  <2>1. lowest \in Int
    BY <1>2, <1>5
  <2>2. yes \in BOOLEAN
    OBVIOUS
  <2> HIDE DEF lowest
  <2>3. slack \in Slacks
    BY <1>1, <2>1 DEF Slacks
  <2>4. QED
    BY <2>1, <2>2, <2>3
<1>7. (\A n \in DOMAIN w : w[n] \in Int /\ lowest <= w[n]) /\ \E n \in DOMAIN w : w[n] = lowest
  BY <1>2, <1>3, <1>5
<1> HIDE DEF lowest, slack
<1>8. yes <=> \A n \in DOMAIN w : w[n] >= -Eps
  BY <1>1, <1>6, <1>7
<1> HIDE DEF yes
<1>9. Single({Status("long_only", yes, slack)}, "long_only")
      /\ (Satisfied({Status("long_only", yes, slack)}) <=> yes)
  BY <1>6, KindsAre, OneStatus
<1>10. QED
  BY <1>4, <1>8, <1>9, NoStatus

LEMMA FullStatus ==
    ASSUME NEW w, Total(w) \in Int
    PROVE  /\ Single(FullInvestmentStatus(w), "full_investment")
           /\ Total(w) = One => Satisfied(FullInvestmentStatus(w))
<1> DEFINE deviation == Magnitude(Total(w) - One)
           slack == <<Eps - deviation, One>>
           yes == deviation <= Eps
<1>1. One \in Nat \ {0} /\ Eps \in Nat
  BY AllocationAssumption
<1>2. deviation \in Nat /\ (Total(w) = One => deviation = 0)
  BY <1>1 DEF Magnitude
<1>3. slack \in Slacks /\ yes \in BOOLEAN /\ (Total(w) = One => yes)
  <2> HIDE DEF deviation
  <2>1. QED
    BY <1>1, <1>2 DEF Slacks
<1>4. FullInvestmentStatus(w) = {Status("full_investment", yes, slack)}
  BY Zenon DEF FullInvestmentStatus
<1> HIDE DEF slack, yes
<1>5. Single({Status("full_investment", yes, slack)}, "full_investment")
      /\ (Satisfied({Status("full_investment", yes, slack)}) <=> yes)
  BY <1>3, KindsAre, OneStatus
<1>6. QED
  BY <1>3, <1>4, <1>5

LEMMA ExposedIs ==
    ASSUME NEW w, Columns01(w), NEW s PROVE Exposed(w, s) \in Int
<1> DEFINE In == {n \in DOMAIN w \cap DOMAIN SectorOf : SectorOf[n] = s}
<1>1. IsFiniteSet(In) /\ Column(w, In)
  BY FS_Subset DEF Columns01, Column
<1>2. Exposed(w, s) = SumFunctionOnSet(w, In)
  BY Zenon DEF Exposed
<1> HIDE DEF In
<1>3. QED
  BY <1>1, <1>2, SumIsInt

LEMMA CapStatus ==
    ASSUME NEW c, IsConstraints(c), NEW w, Columns01(w)
    PROVE  /\ Single(SectorStatus(c, w), "sector_cap")
           /\ Satisfied(SectorStatus(c, w)) =>
                 \A s \in DOMAIN c.caps : Exposed(w, s) <= c.caps[s]
<1>1. CASE DOMAIN c.caps = {}
  BY <1>1, NoStatus DEF SectorStatus
<1>2. CASE DOMAIN c.caps # {}
  <2> DEFINE D == DOMAIN c.caps
             At(s) == Under(Exposed(w, s), c.caps[s])
             R == {p \in D \X D : ~LessSlack(At(p[2]), At(p[1]))}
             worst == CHOOSE s \in D : \A t \in D : ~LessSlack(At(t), At(s))
             yes == Exposed(w, worst) <= c.caps[worst]
  <2>1. \A s \in D : /\ c.caps[s] \in Int /\ Exposed(w, s) \in Int
                     /\ At(s) \in Slacks /\ At(s)[1] = c.caps[s] - Exposed(w, s)
    BY ExposedIs, UnderIs DEF IsConstraints
  <2>2. IsFiniteSet(D)
    BY DEF IsConstraints
  <2>3. SectorStatus(c, w) = {Status("sector_cap", yes, At(worst))}
    BY <1>2, Zenon DEF SectorStatus
  <2>4. \A s, t \in D : <<s, t>> \in R <=> ~LessSlack(At(t), At(s))
    OBVIOUS
  <2> HIDE DEF At, R, D
  <2>5. \A s, t \in D : <<s, t>> \in R <=> AtMost(At(s), At(t))
    <3> TAKE s, t \in D
    <3>1. ~LessSlack(At(t), At(s)) <=> AtMost(At(s), At(t))
      BY <2>1, SlackOrder
    <3>2. QED
      BY <2>4, <3>1
  <2>6. \A s, t \in D : AtMost(At(s), At(t)) \/ AtMost(At(t), At(s))
    <3> TAKE s, t \in D
    <3>1. At(s) \in Slacks /\ At(t) \in Slacks
      BY <2>1
    <3>2. (~LessSlack(At(t), At(s)) <=> AtMost(At(s), At(t)))
          /\ (LessSlack(At(t), At(s)) => AtMost(At(t), At(s)))
      BY <3>1, SlackOrder
    <3>3. QED
      BY <3>2
  <2>7. \A s, t \in D : s = t \/ <<s, t>> \in R \/ <<t, s>> \in R
    BY <2>5, <2>6
  <2>8. \A s, t, u \in D : <<s, t>> \in R /\ <<t, u>> \in R => <<s, u>> \in R
    <3> TAKE s, t, u \in D
    <3>1. AtMost(At(s), At(t)) /\ AtMost(At(t), At(u)) => AtMost(At(s), At(u))
      BY <2>1, SlackOrder
    <3>2. QED
      BY <2>5, <3>1
  <2>9. PICK f \in D : \A t \in D \ {f} : <<f, t>> \in R
    <3>1. D # {}
      BY <1>2 DEF D
    <3>2. QED
      BY <2>2, <2>7, <2>8, <3>1, FirstExists
  <2>10. \A t \in D : ~LessSlack(At(t), At(f))
    <3> TAKE t \in D
    <3>1. AtMost(At(f), At(t))
      BY <2>5, <2>6, <2>9
    <3>2. QED
      BY <2>4, <2>5, <3>1
  <2>11. worst \in D /\ \A t \in D : ~LessSlack(At(t), At(worst))
    BY <2>10
  <2> HIDE DEF worst
  <2>12. yes \in BOOLEAN /\ At(worst) \in Slacks
    BY <2>1, <2>11
  <2>13. yes => \A t \in D : Exposed(w, t) <= c.caps[t]
    <3> SUFFICES ASSUME yes, NEW t \in D PROVE Exposed(w, t) <= c.caps[t]
      OBVIOUS
    <3>1. AtMost(At(worst), At(t))
      BY <2>4, <2>5, <2>11
    <3>2. PICK a \in Int, b \in Nat \ {0} : a = At(worst)[1] /\ b = At(worst)[2]
      BY <2>1, <2>11 DEF Slacks
    <3>3. PICK d \in Int, e \in Nat \ {0} : d = At(t)[1] /\ e = At(t)[2]
      BY <2>1 DEF Slacks
    <3>4. a >= 0
      BY <2>1, <2>11, <3>2
    <3>5. a * e <= d * b
      BY <3>1, <3>2, <3>3 DEF AtMost
    <3>6. d >= 0
      <4>1. \A i \in Nat, j \in Nat \ {0} : i * j >= 0
        OBVIOUS
      <4>2. \A i \in Int, j \in Nat \ {0} : i * j >= 0 => i >= 0
        OBVIOUS
      <4>3. a * e >= 0 /\ a * e \in Int /\ d * b \in Int
        BY <3>4, <4>1
      <4>4. d * b >= 0
        BY <3>5, <4>3
      <4>5. QED
        BY <4>2, <4>4
    <3>7. QED
      BY <2>1, <3>3, <3>6
  <2> HIDE DEF yes
  <2>14. Single({Status("sector_cap", yes, At(worst))}, "sector_cap")
         /\ (Satisfied({Status("sector_cap", yes, At(worst))}) <=> yes)
    <3>1. PICK slack \in Slacks : slack = At(worst)
      BY <2>12
    <3>2. Single({Status("sector_cap", yes, slack)}, "sector_cap")
          /\ (Satisfied({Status("sector_cap", yes, slack)}) <=> yes)
      BY <2>12, KindsAre, OneStatus
    <3>3. QED
      BY <3>1, <3>2
  <2>15. QED
    BY <2>3, <2>13, <2>14 DEF D
<1>3. QED
  BY <1>1, <1>2

LEMMA CountStatus ==
    ASSUME NEW c, IsConstraints(c), NEW w, Columns01(w)
    PROVE  /\ Single(CardinalityStatus(c, w), "cardinality")
           /\ Satisfied(CardinalityStatus(c, w)) =>
                 /\ c.cmin # None => Cardinality(Held(w)) >= c.cmin
                 /\ c.cmax # None => Cardinality(Held(w)) <= c.cmax
<1> DEFINE count == Cardinality(Held(w))
           short == c.cmin # None /\ count < c.cmin
           long == c.cmax # None /\ count > c.cmax
           slack == IF short THEN <<count - c.cmin, IF count = 0 THEN 1 ELSE count>>
                    ELSE IF long THEN <<c.cmax - count, c.cmax>> ELSE <<1, 1>>
           yes == ~short /\ ~long
<1>1. CardinalityStatus(c, w) = IF c.cmin = None /\ c.cmax = None THEN {}
                                ELSE {Status("cardinality", yes, slack)}
  BY Zenon DEF CardinalityStatus
<1>2. count \in Nat
  <2>1. IsFiniteSet(Held(w))
    BY FS_Subset DEF Columns01, Held
  <2>2. QED
    BY <2>1, FS_CardinalityType
<1>3. /\ c.cmin # None => c.cmin \in Nat \ {0}
      /\ c.cmax # None => c.cmax \in Nat \ {0}
  BY DEF IsConstraints, OptionalCount
<1> HIDE DEF count
<1>4. slack \in Slacks /\ yes \in BOOLEAN
  <2>1. CASE short
    BY <1>2, <1>3, <2>1 DEF Slacks
  <2>2. CASE ~short /\ long
    BY <1>2, <1>3, <2>2 DEF Slacks
  <2>3. CASE ~short /\ ~long
    BY <2>3 DEF Slacks
  <2>4. QED
    BY <2>1, <2>2, <2>3
<1>5. yes => /\ c.cmin # None => count >= c.cmin
             /\ c.cmax # None => count <= c.cmax
  BY <1>2, <1>3
<1> HIDE DEF yes, slack
<1>6. Single({Status("cardinality", yes, slack)}, "cardinality")
      /\ (Satisfied({Status("cardinality", yes, slack)}) <=> yes)
  BY <1>4, KindsAre, OneStatus
<1>7. QED
  BY <1>1, <1>5, <1>6, NoStatus DEF count

-----------------------------------------------------------------------------
(* feasibility: what it refuses has no book *)

(* One status per kind, so the binding one is among those that fail. *)
LEMMA StructureIsGraded ==
    ASSUME NEW c, IsConstraints(c), NEW names, names \subseteq Names
    PROVE  LET S == Feasibility(c, names)
           IN  IsFiniteSet(S) /\ S \subseteq Graded /\ \A s, t \in S : s.kind = t.kind => s = t
<1> DEFINE size == Cardinality(names)
           reach == NamesHeldAtMost(c, names)
           sectors == {SectorOf[n] : n \in names \cap DOMAIN SectorOf}
           sum == SumFunctionOnSet(c.caps, sectors)
           S1 == IF c.cmin = None THEN {}
                 ELSE {Status("cardinality", c.cmin <= size, Under(c.cmin, size))}
           S2 == IF c.max = None THEN {}
                 ELSE {Status("max_weight", c.max * reach >= One - Eps, Under(One, c.max * reach))}
           S3 == IF c.min = 0 \/ c.cmin = None THEN {}
                 ELSE {Status("min_weight", Forced(c, names) <= One + Eps,
                              Under(Forced(c, names), One))}
           S4 == IF DOMAIN c.caps = {} \/ sectors = {} \/ ~(sectors \subseteq DOMAIN c.caps) THEN {}
                 ELSE {Status("sector_cap", sum >= One - Eps, Under(One, sum))}
<1>1. One \in Nat /\ Eps \in Nat /\ IsFiniteSet(names)
  BY AllocationAssumption, FS_Subset
<1>2. size \in Nat
  BY <1>1, FS_CardinalityType
<1>3. /\ c.cmin # None => c.cmin \in Nat
      /\ c.cmax # None => c.cmax \in Nat
      /\ c.max # None => c.max \in Int
      /\ c.min \in Int
  BY <1>1 DEF IsConstraints, OptionalCount, OptionalInt
<1>4. reach \in Int
  <2>1. CASE c.cmax = None
    BY <1>2, <2>1 DEF NamesHeldAtMost
  <2>2. CASE c.cmax # None
    <3>1. PICK m \in Nat, k \in Nat : m = c.cmax /\ k = size
      BY <1>2, <1>3, <2>2
    <3>2. reach = Smallest({m, k})
      BY <2>2, <3>1 DEF NamesHeldAtMost
    <3>3. {m, k} \subseteq Int /\ {m, k} # {} /\ IsFiniteSet({m, k})
      <4>1. IsFiniteSet({m} \cup {k})
        BY FS_Singleton, FS_Union
      <4>2. {m} \cup {k} = {m, k}
        OBVIOUS
      <4>3. QED
        BY <4>1, <4>2
    <3>4. Smallest({m, k}) \in {m, k}
      BY <3>3, ExtremesExist
    <3>5. QED
      BY <3>2, <3>4
  <2>3. QED
    BY <2>1, <2>2
<1>5. sectors \subseteq DOMAIN c.caps => sum \in Int
  <2>1. ASSUME sectors \subseteq DOMAIN c.caps PROVE sum \in Int
    <3>1. IsFiniteSet(sectors)
      BY <2>1, FS_Subset DEF IsConstraints
    <3>2. Column(c.caps, sectors)
      BY <2>1 DEF Column, IsConstraints
    <3> HIDE DEF sectors
    <3>3. QED
      BY <3>1, <3>2, SumIsInt
  <2>2. QED
    BY <2>1
<1>6. Feasibility(c, names) = S1 \cup S2 \cup S3 \cup S4
  BY Zenon DEF Feasibility
<1> HIDE DEF size, reach, sectors, sum
<1>7. \A i, j \in Int : i * j \in Int
  OBVIOUS
<1>8. Single(S1, "cardinality")
  <2>1. CASE c.cmin # None
    <3>1. Under(c.cmin, size) \in Slacks
      <4>1. c.cmin \in Int /\ size \in Int
        BY <1>2, <1>3, <2>1
      <4>2. QED
        BY <4>1, UnderIs, Zenon
    <3>2. (c.cmin <= size) \in BOOLEAN
      OBVIOUS
    <3>3. Single({Status("cardinality", c.cmin <= size, Under(c.cmin, size))}, "cardinality")
      BY <3>1, <3>2, KindsAre, OneStatus
    <3>4. QED
      BY <2>1, <3>3
  <2>2. QED
    BY <2>1, NoStatus
<1>9. Single(S2, "max_weight")
  <2>1. CASE c.max # None
    <3>1. Under(One, (c.max * reach)) \in Slacks
      <4>1. One \in Int /\ (c.max * reach) \in Int
        BY <1>1, <1>3, <1>4, <1>7, <2>1
      <4>2. QED
        BY <4>1, UnderIs, Zenon
    <3>2. (c.max * reach >= One - Eps) \in BOOLEAN
      OBVIOUS
    <3>3. Single({Status("max_weight", c.max * reach >= One - Eps, Under(One, c.max * reach))},
                 "max_weight")
      BY <3>1, <3>2, KindsAre, OneStatus
    <3>4. QED
      BY <2>1, <3>3
  <2>2. QED
    BY <2>1, NoStatus
<1>10. Single(S3, "min_weight")
  <2>1. CASE ~(c.min = 0 \/ c.cmin = None)
    <3>0. Forced(c, names) \in Int
      BY <1>3, <1>7, <2>1 DEF Forced
    <3>1. Under(Forced(c, names), One) \in Slacks
      BY <1>1, <3>0, UnderIs
    <3>2. (Forced(c, names) <= One + Eps) \in BOOLEAN
      OBVIOUS
    <3>3. Single({Status("min_weight", Forced(c, names) <= One + Eps,
                         Under(Forced(c, names), One))}, "min_weight")
      BY <3>1, <3>2, KindsAre, OneStatus
    <3>4. QED
      BY <2>1, <3>3
  <2>2. QED
    BY <2>1, NoStatus
<1>11. Single(S4, "sector_cap")
  <2>1. CASE sectors \subseteq DOMAIN c.caps
    <3>1. Under(One, sum) \in Slacks
      <4>1. One \in Int /\ sum \in Int
        BY <1>1, <1>5, <2>1
      <4>2. QED
        BY <4>1, UnderIs, Zenon
    <3>2. (sum >= One - Eps) \in BOOLEAN
      OBVIOUS
    <3>3. Single({Status("sector_cap", sum >= One - Eps, Under(One, sum))}, "sector_cap")
      BY <3>1, <3>2, KindsAre, OneStatus
    <3>4. QED
      BY <3>3, NoStatus
  <2>2. QED
    BY <2>1, NoStatus
<1> HIDE DEF S1, S2, S3, S4
<1>12. IsFiniteSet(S1 \cup S2 \cup S3 \cup S4)
  <2>1. IsFiniteSet(S1) /\ IsFiniteSet(S2) /\ IsFiniteSet(S3) /\ IsFiniteSet(S4)
    BY <1>8, <1>9, <1>10, <1>11 DEF Single
  <2>2. IsFiniteSet(S1 \cup S2)
    BY <2>1, FS_Union
  <2>3. IsFiniteSet(S1 \cup S2 \cup S3)
    BY <2>1, <2>2, FS_Union
  <2>4. QED
    BY <2>1, <2>3, FS_Union
<1>13. S1 \cup S2 \cup S3 \cup S4 \subseteq Graded
  BY <1>8, <1>9, <1>10, <1>11 DEF Single
<1>14. ASSUME NEW s \in S1 \cup S2 \cup S3 \cup S4, NEW t \in S1 \cup S2 \cup S3 \cup S4, s.kind = t.kind
       PROVE  s = t
  <2>1. /\ \A u \in S1 : u.kind = "cardinality" /\ \A v \in S1 : u = v
        /\ \A u \in S2 : u.kind = "max_weight" /\ \A v \in S2 : u = v
        /\ \A u \in S3 : u.kind = "min_weight" /\ \A v \in S3 : u = v
        /\ \A u \in S4 : u.kind = "sector_cap" /\ \A v \in S4 : u = v
    BY <1>8, <1>9, <1>10, <1>11 DEF Single
  <2>2. QED
    BY <1>14, <2>1
<1>15. QED
  BY <1>6, <1>12, <1>13, <1>14

(* When the constraints have a book, no status fails but the sector caps',   *)
(* and that one only when a name has no sector.                              *)
LEMMA StructureIsTrue ==
    ASSUME NEW c, IsConstraints(c), Accepted(c), NEW names, names \subseteq Names,
           NEW w \in [names -> 0..One], Meets(c, w)
    PROVE  \A s \in Feasibility(c, names) :
               (s.kind = "sector_cap" => names \subseteq DOMAIN SectorOf) => s.satisfied
<1> DEFINE H == {n \in names : w[n] > 0}
           h == Cardinality(H)
           size == Cardinality(names)
           reach == NamesHeldAtMost(c, names)
           sectors == {SectorOf[n] : n \in names \cap DOMAIN SectorOf}
<1>1. One \in Nat /\ Eps \in Nat /\ IsFiniteSet(names)
  BY AllocationAssumption, FS_Subset
<1>2. \A n \in names : w[n] \in Nat
  BY <1>1
<1>3. DOMAIN w = names
  OBVIOUS
<1>4. /\ SumFunctionOnSet(w, names) = One
      /\ c.max # None => \A n \in H : w[n] <= c.max
      /\ \A n \in H : w[n] >= c.min
      /\ c.cmin # None => h >= c.cmin
      /\ c.cmax # None => h <= c.cmax
      /\ \A s \in DOMAIN c.caps :
            SumFunctionOnSet(w, {n \in names \cap DOMAIN SectorOf : SectorOf[n] = s}) <= c.caps[s]
  BY <1>3, Zenon DEF Meets, Total
<1>5. H \subseteq names /\ (\A n \in H : w[n] \in Nat) /\ (\A n \in names \ H : w[n] = 0)
  BY <1>2
<1> HIDE DEF H
<1>6. IsFiniteSet(H) /\ h \in Nat /\ size \in Nat /\ h <= size
  BY <1>1, <1>5, FS_Subset, FS_CardinalityType
<1>7. Column(w, H) /\ Column(w, names)
  BY <1>2, <1>5 DEF Column
<1>8. SumFunctionOnSet(w, H) = One
  BY <1>1, <1>4, <1>5, <1>7, SumOfSupport
<1> HIDE DEF h, size
<1>9. c.min \in 0..One
  BY DEF IsConstraints
<1>10. ASSUME c.max # None PROVE c.max * reach >= One - Eps
  <2>1. PICK k \in Nat : k = c.max
    BY <1>1, <1>10 DEF Accepted
  <2> DEFINE top == [n \in H |-> k]
  <2>2. \A n \in H : top[n] = k /\ w[n] <= top[n] /\ top[n] \in Int
    BY <1>4, <1>10, <2>1
  <2> HIDE DEF top
  <2>3. Column(top, H)
    BY <2>2 DEF Column
  <2>4. One <= SumFunctionOnSet(top, H)
    BY <1>6, <1>7, <1>8, <2>2, <2>3, SumAtMost
  <2>5. SumFunctionOnSet(top, H) = k * h
    BY <1>6, <2>2, SumOfConstant DEF h
  <2>6. reach \in Nat /\ h <= reach
    <3>1. CASE c.cmax = None
      BY <1>6, <3>1 DEF NamesHeldAtMost, size
    <3>2. CASE c.cmax # None
      <4>1. PICK m \in Nat : m = c.cmax
        BY <3>2 DEF IsConstraints, OptionalCount
      <4>2. h <= m
        BY <1>4, <3>2, <4>1
      <4>3. reach = Smallest({m, size})
        BY <3>2, <4>1 DEF NamesHeldAtMost, size
      <4>4. {m, size} \subseteq Int /\ {m, size} # {} /\ IsFiniteSet({m, size})
        <5>1. IsFiniteSet({m} \cup {size})
          BY FS_Singleton, FS_Union
        <5>2. {m} \cup {size} = {m, size}
          OBVIOUS
        <5>3. QED
          BY <1>6, <5>1, <5>2
      <4>5. Smallest({m, size}) \in {m, size}
        BY <4>4, ExtremesExist
      <4>6. QED
        BY <1>6, <4>2, <4>3, <4>5
    <3>3. QED
      BY <3>1, <3>2
  <2> HIDE DEF reach
  <2>7. k * h <= k * reach /\ k * h \in Nat /\ k * reach \in Nat
    <3>1. \A i, j, l \in Nat : i <= j => l * i <= l * j /\ l * i \in Nat /\ l * j \in Nat
      OBVIOUS
    <3>2. QED
      BY <1>6, <2>6, <3>1
  <2>8. QED
    BY <1>1, <2>1, <2>4, <2>5, <2>7
<1>11. ASSUME c.cmin # None PROVE c.cmin <= size /\ Forced(c, names) <= One + Eps
  <2>1. PICK m \in Nat : m = c.cmin
    BY <1>11 DEF IsConstraints, OptionalCount
  <2>2. m <= h
    BY <1>4, <1>11, <2>1
  <2>3. PICK k \in Nat : k = c.min
    BY <1>1, <1>9
  <2> DEFINE floor == [n \in H |-> k]
  <2>4. \A n \in H : floor[n] = k /\ floor[n] <= w[n]
    BY <1>4, <1>5, <2>3
  <2>5. Column(floor, H)
    BY DEF Column
  <2> HIDE DEF floor
  <2>6. SumFunctionOnSet(floor, H) <= One
    BY <1>6, <1>7, <1>8, <2>4, <2>5, SumAtMost
  <2>7. SumFunctionOnSet(floor, H) = k * h
    BY <1>6, <2>4, SumOfConstant DEF h
  <2>8. k * m <= k * h /\ k * h \in Nat /\ k * m \in Nat
    <3>1. \A i, j, l \in Nat : i <= j => l * i <= l * j /\ l * i \in Nat /\ l * j \in Nat
      OBVIOUS
    <3>2. QED
      BY <1>6, <2>2, <3>1
  <2>9. Forced(c, names) = k * m
    BY <2>1, <2>3 DEF Forced
  <2>10. QED
    BY <1>1, <1>6, <2>1, <2>2, <2>6, <2>7, <2>8, <2>9
<1>12. ASSUME sectors \subseteq DOMAIN c.caps, names \subseteq DOMAIN SectorOf
       PROVE SumFunctionOnSet(c.caps, sectors) >= One - Eps
  <2> DEFINE of == [k \in sectors |-> SumFunctionOnSet(w, {n \in names : SectorOf[n] = k})]
  <2>1. names \cap DOMAIN SectorOf = names
    BY <1>12
  <2>2. \A n \in names : SectorOf[n] \in sectors
    BY <1>12
  <2>3. IsFiniteSet(sectors)
    <3>1. sectors = {SectorOf[n] : n \in names}
      BY <2>1
    <3>2. IsFiniteSet({SectorOf[n] : n \in names})
      BY <1>1, ImageIsFinite
    <3>3. QED
      BY <3>1, <3>2
  <2>4. \A k \in sectors : of[k] = SumFunctionOnSet(w, {n \in names : SectorOf[n] = k})
    OBVIOUS
  <2>5. \A k \in sectors : of[k] <= c.caps[k] /\ c.caps[k] \in Int
    <3> TAKE k \in sectors
    <3>1. k \in DOMAIN c.caps
      BY <1>12
    <3>2. {n \in names \cap DOMAIN SectorOf : SectorOf[n] = k} = {n \in names : SectorOf[n] = k}
      BY <2>1
    <3>3. SumFunctionOnSet(w, {n \in names : SectorOf[n] = k}) <= c.caps[k]
      BY <1>4, <3>1, <3>2
    <3>4. c.caps[k] \in Int
      BY <3>1 DEF IsConstraints
    <3>5. QED
      BY <2>4, <3>3, <3>4
  <2> HIDE DEF of, sectors
  <2>6. SumFunctionOnSet(of, sectors) = SumFunctionOnSet(w, names)
    BY <1>1, <1>7, <2>2, <2>3, <2>4, SumByClasses
  <2>7. \A k \in sectors : of[k] \in Int
    <3> TAKE k \in sectors
    <3>1. IsFiniteSet({n \in names : SectorOf[n] = k}) /\ Column(w, {n \in names : SectorOf[n] = k})
      BY <1>1, <1>2, FS_Subset DEF Column
    <3>2. QED
      BY <2>4, <3>1, SumIsInt
  <2>8. Column(of, sectors) /\ Column(c.caps, sectors)
    BY <2>5, <2>7 DEF Column
  <2>9. SumFunctionOnSet(of, sectors) <= SumFunctionOnSet(c.caps, sectors)
    BY <2>3, <2>5, <2>8, SumAtMost
  <2>10. SumFunctionOnSet(c.caps, sectors) \in Int
    BY <2>3, <2>8, SumIsInt
  <2>11. QED
    BY <1>1, <1>4, <2>6, <2>9, <2>10
<1> DEFINE sum == SumFunctionOnSet(c.caps, sectors)
           S1 == IF c.cmin = None THEN {}
                 ELSE {Status("cardinality", c.cmin <= size, Under(c.cmin, size))}
           S2 == IF c.max = None THEN {}
                 ELSE {Status("max_weight", c.max * reach >= One - Eps, Under(One, c.max * reach))}
           S3 == IF c.min = 0 \/ c.cmin = None THEN {}
                 ELSE {Status("min_weight", Forced(c, names) <= One + Eps,
                              Under(Forced(c, names), One))}
           S4 == IF DOMAIN c.caps = {} \/ sectors = {} \/ ~(sectors \subseteq DOMAIN c.caps) THEN {}
                 ELSE {Status("sector_cap", sum >= One - Eps, Under(One, sum))}
<1>13. Feasibility(c, names) = S1 \cup S2 \cup S3 \cup S4
  BY Zenon DEF Feasibility, size
<1> HIDE DEF sum, reach, sectors
<1>14. \A kind, slack : \A yes \in BOOLEAN : Status(kind, yes, slack).satisfied = yes
  BY DEF Status
<1>15. \A u \in S1 : u.satisfied
  <2>1. CASE c.cmin # None
    <3>1. c.cmin <= size
      BY <1>11, <2>1
    <3>2. QED
      <4> DEFINE yes == c.cmin <= size
      <4>1. S1 \subseteq {Status("cardinality", yes, Under(c.cmin, size))}
        BY Zenon
      <4>2. yes \in BOOLEAN /\ yes
        BY <3>1
      <4> HIDE DEF yes, S1
      <4>3. Status("cardinality", yes, Under(c.cmin, size)).satisfied
        BY <1>14, <4>2
      <4>4. QED
        BY <4>1, <4>3
  <2>2. QED
    BY <2>1
<1>16. \A u \in S2 : u.satisfied
  <2>1. CASE c.max # None
    <3>1. c.max * reach >= One - Eps
      BY <1>10, <2>1
    <3>2. QED
      <4> DEFINE yes == c.max * reach >= One - Eps
      <4>1. S2 \subseteq {Status("max_weight", yes, Under(One, c.max * reach))}
        BY Zenon
      <4>2. yes \in BOOLEAN /\ yes
        BY <3>1
      <4> HIDE DEF yes, S2
      <4>3. Status("max_weight", yes, Under(One, c.max * reach)).satisfied
        BY <1>14, <4>2
      <4>4. QED
        BY <4>1, <4>3
  <2>2. QED
    BY <2>1
<1>17. \A u \in S3 : u.satisfied
  <2>1. CASE c.cmin # None
    <3>1. Forced(c, names) <= One + Eps
      BY <1>11, <2>1
    <3>2. QED
      <4> DEFINE yes == Forced(c, names) <= One + Eps
      <4>1. S3 \subseteq {Status("min_weight", yes, Under(Forced(c, names), One))}
        BY Zenon
      <4>2. yes \in BOOLEAN /\ yes
        BY <3>1
      <4> HIDE DEF yes, S3
      <4>3. Status("min_weight", yes, Under(Forced(c, names), One)).satisfied
        BY <1>14, <4>2
      <4>4. QED
        BY <4>1, <4>3
  <2>2. QED
    BY <2>1
<1>18. ASSUME NEW s \in S4, s.kind = "sector_cap" => names \subseteq DOMAIN SectorOf
       PROVE  s.satisfied
  <2>0. names \subseteq DOMAIN SectorOf
    <3>1. \A u \in S4 : u.kind = "sector_cap"
      BY DEF Status
    <3>2. QED
      BY <1>18, <3>1
  <2>1. CASE sectors \subseteq DOMAIN c.caps /\ names \subseteq DOMAIN SectorOf
    <3>1. sum >= One - Eps
      BY <1>12, <2>1 DEF sum
    <3>2. QED
      <4> DEFINE yes == sum >= One - Eps
      <4>1. S4 \subseteq {Status("sector_cap", yes, Under(One, sum))}
        BY Zenon
      <4>2. yes \in BOOLEAN /\ yes
        BY <3>1
      <4> HIDE DEF yes, S4
      <4>3. Status("sector_cap", yes, Under(One, sum)).satisfied
        BY <1>14, <4>2
      <4>4. QED
        BY <1>18, <4>1, <4>3
  <2>2. CASE ~(sectors \subseteq DOMAIN c.caps)
    <3>1. S4 = {}
      BY <2>2
    <3>2. QED
      BY <1>18, <3>1
  <2>3. QED
    BY <2>0, <2>1, <2>2
<1> HIDE DEF S1, S2, S3, S4
<1>19. QED
  BY <1>13, <1>15, <1>16, <1>17, <1>18

(* What an answer of the optimizer promises. *)
Truth(z) ==
    LET c == z.request.constraints
        w == z.weights
        count == Cardinality({n \in DOMAIN w : w[n] > Eps})
    IN  /\ z.kind = "optimized" =>
              /\ Total(w) = One
              /\ \A n \in DOMAIN w : /\ c.longOnly => w[n] >= 0
                                     /\ c.max # None => w[n] <= c.max + Eps
                                     /\ w[n] > Eps => w[n] >= c.min - Eps
              /\ c.cmin # None => count >= c.cmin
              /\ c.cmax # None => count <= c.cmax
              /\ \A s \in DOMAIN c.caps : Exposed(w, s) <= c.caps[s]
        /\ z.kind = "infeasible" =>
              /\ z.stage = "check" => z.binding \in
                    {"min_weight", "cardinality", "sector_cap"}
              /\ /\ z.stage = "structure" /\ c.longOnly
                 /\ z.binding = "sector_cap" => z.names \subseteq DOMAIN SectorOf
                 => \A book \in [z.names -> 0..One] : ~Meets(c, book)

(* A book that check lets through, and what it can still refuse of one that  *)
(* is fully invested, long and below the largest weight.                     *)
LEMMA CheckIs ==
    ASSUME NEW c, IsConstraints(c), NEW w, Columns01(w), Total(w) = One, NEW S,
           c.longOnly => \A n \in DOMAIN w : w[n] >= 0,
           c.max # None => \A n \in DOMAIN w : w[n] <= c.max + Eps,
           S = Check(c, [w |-> w, vol |-> None, ret |-> None, prior |-> None])
    PROVE  /\ Binding(S) = None =>
                 /\ \A n \in DOMAIN w : w[n] > Eps => w[n] >= c.min - Eps
                 /\ c.cmin # None => Cardinality(Held(w)) >= c.cmin
                 /\ c.cmax # None => Cardinality(Held(w)) <= c.cmax
                 /\ \A s \in DOMAIN c.caps : Exposed(w, s) <= c.caps[s]
           /\ Binding(S) # None => Binding(S).kind \in {"min_weight", "cardinality", "sector_cap"}
<1> DEFINE a == [w |-> w, vol |-> None, ret |-> None, prior |-> None]
           S1 == MaxWeightStatus(c, w)
           S2 == MinWeightStatus(c, w)
           S3 == LongOnlyStatus(c, w)
           S4 == SectorStatus(c, w)
           S5 == CardinalityStatus(c, w)
           S6 == FullInvestmentStatus(w)
<1>1. a.w = w /\ a.vol = None /\ a.ret = None /\ a.prior = None
  OBVIOUS
<1>2. TargetStatuses(c, a) = {} /\ TurnoverStatus(c, a) = {}
  <2> HIDE DEF a
  <2>1. TargetStatuses(c, a) = {}
    BY <1>1 DEF TargetStatuses
  <2>2. TurnoverStatus(c, a) = {}
    BY <1>1, Zenon DEF TurnoverStatus
  <2>3. QED
    BY <2>1, <2>2
<1>3. S = S1 \cup S2 \cup S3 \cup S4 \cup S5 \cup S6
  <2> HIDE DEF a
  <2>1. Check(c, a) = MaxWeightStatus(c, a.w) \cup MinWeightStatus(c, a.w) \cup LongOnlyStatus(c, a.w) \cup
                      SectorStatus(c, a.w) \cup CardinalityStatus(c, a.w) \cup TargetStatuses(c, a) \cup
                      TurnoverStatus(c, a) \cup FullInvestmentStatus(a.w)
    BY Zenon DEF Check
  <2>2. S = Check(c, a)
    BY DEF a
  <2>3. QED
    BY <1>1, <1>2, <2>1, <2>2
<1>4. Eps \in Nat /\ One \in Nat
  BY AllocationAssumption
<1>5. Single(S1, "max_weight") /\ Satisfied(S1)
  BY MaxStatus
<1>6. Single(S2, "min_weight")
      /\ (Satisfied(S2) => (c.min # 0 => \A n \in DOMAIN w : w[n] > Eps => w[n] >= c.min - Eps))
  BY MinStatus
<1>7. Single(S3, "long_only") /\ Satisfied(S3)
  <2>1. c.longOnly => \A n \in DOMAIN w : w[n] >= -Eps
    BY <1>4 DEF Columns01
  <2>2. QED
    BY <2>1, LongStatus
<1>8. Single(S4, "sector_cap")
      /\ (Satisfied(S4) => \A s \in DOMAIN c.caps : Exposed(w, s) <= c.caps[s])
  BY CapStatus
<1>9. Single(S5, "cardinality")
      /\ (Satisfied(S5) => /\ c.cmin # None => Cardinality(Held(w)) >= c.cmin
                           /\ c.cmax # None => Cardinality(Held(w)) <= c.cmax)
  BY CountStatus
<1>10. Single(S6, "full_investment") /\ Satisfied(S6)
  BY <1>4, FullStatus
<1> HIDE DEF S1, S2, S3, S4, S5, S6
<1>11. IsFiniteSet(S)
  <2>1. /\ IsFiniteSet(S1) /\ IsFiniteSet(S2) /\ IsFiniteSet(S3)
        /\ IsFiniteSet(S4) /\ IsFiniteSet(S5) /\ IsFiniteSet(S6)
    BY <1>5, <1>6, <1>7, <1>8, <1>9, <1>10 DEF Single
  <2>2. IsFiniteSet(S1 \cup S2)
    BY <2>1, FS_Union
  <2>3. IsFiniteSet(S1 \cup S2 \cup S3)
    BY <2>1, <2>2, FS_Union
  <2>4. IsFiniteSet(S1 \cup S2 \cup S3 \cup S4)
    BY <2>1, <2>3, FS_Union
  <2>5. IsFiniteSet(S1 \cup S2 \cup S3 \cup S4 \cup S5)
    BY <2>1, <2>4, FS_Union
  <2>6. IsFiniteSet(S1 \cup S2 \cup S3 \cup S4 \cup S5 \cup S6)
    BY <2>1, <2>5, FS_Union
  <2>7. QED
    BY <1>3, <2>6
<1>12. S \subseteq Graded
  BY <1>3, <1>5, <1>6, <1>7, <1>8, <1>9, <1>10 DEF Single
<1>13. \A s \in S : \/ s \in S1 /\ s.kind = "max_weight"
                    \/ s \in S2 /\ s.kind = "min_weight"
                    \/ s \in S3 /\ s.kind = "long_only"
                    \/ s \in S4 /\ s.kind = "sector_cap"
                    \/ s \in S5 /\ s.kind = "cardinality"
                    \/ s \in S6 /\ s.kind = "full_investment"
  <2>1. /\ \A s \in S1 : s.kind = "max_weight"
        /\ \A s \in S2 : s.kind = "min_weight"
        /\ \A s \in S3 : s.kind = "long_only"
        /\ \A s \in S4 : s.kind = "sector_cap"
        /\ \A s \in S5 : s.kind = "cardinality"
        /\ \A s \in S6 : s.kind = "full_investment"
    BY <1>5, <1>6, <1>7, <1>8, <1>9, <1>10 DEF Single
  <2>2. \A s \in S : s \in S1 \/ s \in S2 \/ s \in S3 \/ s \in S4 \/ s \in S5 \/ s \in S6
    BY <1>3
  <2>3. QED
    BY <2>1, <2>2
<1>14. \A s, t \in S : s.kind = t.kind => s = t
  <2> SUFFICES ASSUME NEW s \in S, NEW t \in S, s.kind = t.kind PROVE s = t
    OBVIOUS
  <2>1. /\ \A u, v \in S1 : u = v
        /\ \A u, v \in S2 : u = v
        /\ \A u, v \in S3 : u = v
        /\ \A u, v \in S4 : u = v
        /\ \A u, v \in S5 : u = v
        /\ \A u, v \in S6 : u = v
    BY <1>5, <1>6, <1>7, <1>8, <1>9, <1>10 DEF Single
  <2>2. QED
    BY <1>13, <2>1
<1>15. /\ Binding(S) = None => \A s \in S : s.satisfied
       /\ Binding(S) # None => Binding(S) \in S /\ ~Binding(S).satisfied
  BY <1>11, <1>12, <1>14, BindingIs
<1>16. ASSUME Binding(S) = None
       PROVE  /\ \A n \in DOMAIN w : w[n] > Eps => w[n] >= c.min - Eps
              /\ c.cmin # None => Cardinality(Held(w)) >= c.cmin
              /\ c.cmax # None => Cardinality(Held(w)) <= c.cmax
              /\ \A s \in DOMAIN c.caps : Exposed(w, s) <= c.caps[s]
  <2>1. Satisfied(S2) /\ Satisfied(S4) /\ Satisfied(S5)
    BY <1>3, <1>15, <1>16 DEF Satisfied
  <2>2. c.min = 0 => \A n \in DOMAIN w : w[n] > Eps => w[n] >= c.min - Eps
    BY <1>4 DEF Columns01
  <2>3. QED
    BY <1>6, <1>8, <1>9, <2>1, <2>2
<1>17. ASSUME Binding(S) # None
       PROVE  Binding(S).kind \in {"min_weight", "cardinality", "sector_cap"}
  <2>1. PICK s \in S : s = Binding(S) /\ ~s.satisfied
    BY <1>15, <1>17
  <2>2. s \notin S1 /\ s \notin S3 /\ s \notin S6
    BY <1>5, <1>7, <1>10, <2>1 DEF Satisfied
  <2>3. QED
    BY <1>13, <2>1, <2>2
<1>18. QED
  BY <1>16, <1>17

LEMMA ValidatedIs ==
    ASSUME NEW r \in Requests, NEW w, Columns01(w), Total(w) = One,
           r.constraints.longOnly => \A n \in DOMAIN w : w[n] >= 0,
           r.constraints.max # None => \A n \in DOMAIN w : w[n] <= r.constraints.max + Eps
    PROVE  Truth(Validated(r, w))
<1> DEFINE c == r.constraints
           S == Check(c, [w |-> w, vol |-> None, ret |-> None, prior |-> None])
           z == Validated(r, w)
<1>1. IsConstraints(c)
  BY PortfolioAssumption
<1>2. /\ Binding(S) = None =>
                 /\ \A n \in DOMAIN w : w[n] > Eps => w[n] >= c.min - Eps
                 /\ c.cmin # None => Cardinality(Held(w)) >= c.cmin
                 /\ c.cmax # None => Cardinality(Held(w)) <= c.cmax
                 /\ \A s \in DOMAIN c.caps : Exposed(w, s) <= c.caps[s]
      /\ Binding(S) # None => Binding(S).kind \in {"min_weight", "cardinality", "sector_cap"}
  <2>1. S = Check(c, [w |-> w, vol |-> None, ret |-> None, prior |-> None])
    OBVIOUS
  <2>2. /\ c.longOnly => \A n \in DOMAIN w : w[n] >= 0
        /\ c.max # None => \A n \in DOMAIN w : w[n] <= c.max + Eps
    OBVIOUS
  <2> HIDE DEF S, c
  <2>3. QED
    BY <1>1, <2>1, <2>2, CheckIs
<1>3. z = IF CheckRaises(c, w) THEN [kind |-> "error", request |-> r]
          ELSE IF Binding(S) # None THEN Refused(r, DOMAIN w, "check", Binding(S).kind)
          ELSE [kind |-> "optimized", request |-> r, weights |-> w]
  BY Zenon DEF Validated
<1>4. r.constraints = c
  OBVIOUS
<1>5. Held(w) = {n \in DOMAIN w : w[n] > Eps}
  BY DEF Held
<1>6. /\ c.longOnly => \A n \in DOMAIN w : w[n] >= 0
      /\ c.max # None => \A n \in DOMAIN w : w[n] <= c.max + Eps
  OBVIOUS
<1> HIDE DEF c, S, z
<1>7. CASE CheckRaises(c, w)
  <2>1. z.kind = "error"
    BY <1>3, <1>7
  <2>2. Truth(z)
    BY <2>1 DEF Truth
  <2>3. QED
    BY <2>2 DEF z
<1>8. CASE ~CheckRaises(c, w) /\ Binding(S) # None
  <2>1. z = Refused(r, DOMAIN w, "check", Binding(S).kind)
    BY <1>3, <1>8
  <2>2. z.kind = "infeasible" /\ z.stage = "check" /\ z.binding = Binding(S).kind
    BY <2>1 DEF Refused
  <2>3. Truth(z)
    BY <1>2, <1>8, <2>2 DEF Truth
  <2>4. QED
    BY <2>3 DEF z
<1>9. CASE ~CheckRaises(c, w) /\ Binding(S) = None
  <2>1. z = [kind |-> "optimized", request |-> r, weights |-> w]
    BY <1>3, <1>9
  <2>2. z.kind = "optimized" /\ z.request.constraints = c /\ z.weights = w
    BY <1>4, <2>1
  <2>3. Truth(z)
    BY <1>2, <1>5, <1>6, <1>9, <2>2 DEF Truth
  <2>4. QED
    BY <2>3 DEF z
<1>10. QED
  BY <1>7, <1>8, <1>9

LEMMA OptimizedIs ==
    ASSUME NEW r \in Requests, Accepted(r.constraints), NEW names, names \subseteq Names,
           NEW z \in Optimized(r, names)
    PROVE  Truth(z)
<1> DEFINE c == r.constraints
           S == Feasibility(c, names)
           structural == Binding(S)
           solved == IF r.method = "risk_parity" THEN RiskParity(r, names)
                     ELSE MeanVariance(r, names)
<1>1. IsConstraints(c) /\ Accepted(c)
  BY PortfolioAssumption
<1>2. Optimized(r, names) =
         IF names = {} THEN {Refused(r, names, "matrix", "cardinality")}
         ELSE IF structural # None THEN {Refused(r, names, "structure", structural.kind)}
         ELSE {Validated(r, DecimalWeights(r.constraints.longOnly, x)) : x \in solved.books} \cup
              {Refused(r, names, "solve", k) : k \in solved.refusals} \cup
              {[kind |-> "solver_error"]}
  BY Zenon DEF Optimized
<1>3. \A stage, k : /\ Refused(r, names, stage, k).kind = "infeasible"
                    /\ Refused(r, names, stage, k).stage = stage
                    /\ Refused(r, names, stage, k).names = names
                    /\ Refused(r, names, stage, k).request = r
                    /\ Refused(r, names, stage, k).binding = k
  BY DEF Refused
<1>4. \A stage, k : stage \notin {"check", "structure"} => Truth(Refused(r, names, stage, k))
  <2> TAKE stage, k
  <2> DEFINE y == Refused(r, names, stage, k)
  <2>1. y.kind = "infeasible" /\ y.stage = stage
    BY <1>3
  <2> HIDE DEF y
  <2>2. stage \notin {"check", "structure"} => Truth(y)
    BY <2>1 DEF Truth
  <2>3. QED
    BY <2>2 DEF y
<1>5. CASE names = {}
  <2>1. z = Refused(r, names, "matrix", "cardinality")
    BY <1>2, <1>5, Zenon
  <2>2. QED
    BY <1>4, <2>1
<1>6. CASE names # {} /\ structural # None
  <2>1. z = Refused(r, names, "structure", structural.kind)
    <3> HIDE DEF structural, solved
    <3>1. Optimized(r, names) = {Refused(r, names, "structure", structural.kind)}
      BY <1>2, <1>6, Zenon
    <3>2. QED
      BY <3>1
  <2>2. /\ z.kind = "infeasible" /\ z.stage = "structure" /\ z.names = names
        /\ z.request.constraints = c /\ z.binding = structural.kind
    BY <1>3, <2>1
  <2>3. structural \in S /\ ~structural.satisfied
    <3>1. IsFiniteSet(S) /\ S \subseteq Graded /\ \A s, t \in S : s.kind = t.kind => s = t
      BY <1>1, StructureIsGraded
    <3> HIDE DEF S
    <3>2. QED
      BY <1>6, <3>1, BindingIs
  <2> HIDE DEF structural, c
  <2>4. (structural.kind = "sector_cap" => names \subseteq DOMAIN SectorOf)
           => \A book \in [names -> 0..One] : ~Meets(c, book)
    BY <1>1, <2>3, StructureIsTrue
  <2> HIDE DEF S
  <2>5. QED
    BY <2>2, <2>4 DEF Truth
<1>7. CASE names # {} /\ structural = None
  <2>1. Optimized(r, names) =
           {Validated(r, DecimalWeights(r.constraints.longOnly, x)) : x \in solved.books} \cup
           {Refused(r, names, "solve", k) : k \in solved.refusals} \cup {[kind |-> "solver_error"]}
    <3> HIDE DEF structural, solved
    <3>1. QED
      BY <1>2, <1>7, Zenon
  <2>2. CASE \E k \in solved.refusals : z = Refused(r, names, "solve", k)
    BY <1>4, <2>2
  <2>0. CASE z = [kind |-> "solver_error"]
    <3>1. z.kind = "solver_error"
      BY <2>0
    <3>2. QED
      BY <3>1 DEF Truth
  <2>3. CASE \E x \in solved.books : z = Validated(r, DecimalWeights(r.constraints.longOnly, x))
    <3> DEFINE e == [c EXCEPT !.longOnly = TRUE]
    <3>1. PICK x \in solved.books : z = Validated(r, DecimalWeights(c.longOnly, x))
      BY <2>3
    <3>2. IsConstraints(e) /\ Accepted(e) /\ e.longOnly /\ e.max = c.max
      <4>1. /\ e.longOnly = TRUE /\ e.max = c.max /\ e.min = c.min /\ e.caps = c.caps
            /\ e.cmin = c.cmin /\ e.cmax = c.cmax
        BY <1>1 DEF IsConstraints
      <4>2. e \in [max : OptionalInt, min : 0..One, longOnly : BOOLEAN, caps : {c.caps},
                   cmin : OptionalCount, cmax : OptionalCount,
                   vol : OptionalInt, ret : OptionalInt, turnover : OptionalInt]
        BY <1>1 DEF IsConstraints
      <4> HIDE DEF e, c
      <4>3. IsConstraints(e)
        BY <1>1, <4>1, <4>2 DEF IsConstraints
      <4>4. Accepted(e)
        BY <1>1, <4>1 DEF Accepted
      <4>5. QED
        BY <4>1, <4>3, <4>4
    <3>3. x \in Solutions(c, names) \/ x \in Solutions(e, names)
      <4>1. CASE r.method = "risk_parity"
        <5>1. x \in ParitySolutions(c, names)
          BY <4>1 DEF RiskParity
        <5>2. QED
          BY <5>1, Zenon DEF ParitySolutions
      <4>2. CASE r.method # "risk_parity"
        <5>1. x \in MeanVariance(r, names).books
          BY <4>2
        <5>2. MeanVariance(r, names).books \subseteq Solutions(c, names)
          <6>1. CASE r.objective = "target_return" /\ c.ret = None
            <7>1. MeanVariance(r, names).books = {}
              BY <6>1 DEF MeanVariance
            <7>2. QED
              BY <7>1
          <6>2. CASE ~(r.objective = "target_return" /\ c.ret = None)
            <7>1. MeanVariance(r, names).books = Solutions(c, names)
              BY <6>2 DEF MeanVariance
            <7>2. QED
              BY <7>1
          <6>3. QED
            BY <6>1, <6>2
        <5>3. QED
          BY <5>1, <5>2
      <4>3. QED
        BY <4>1, <4>2
    <3> DEFINE w == DecimalWeights(c.longOnly, x)
    <3> HIDE DEF e, S, structural, solved
    <3>4. /\ DOMAIN w = names /\ (\A n \in names : w[n] \in Int) /\ Total(w) = One
          /\ c.longOnly => \A n \in names : w[n] >= 0
          /\ c.max # None => \A n \in names : w[n] <= c.max + Eps
      <4>1. w = DecimalWeights(c.longOnly, x)
        OBVIOUS
      <4> HIDE DEF w, c
      <4>2. CASE x \in Solutions(c, names)
        BY <1>1, <1>7, <4>1, <4>2, RoundedSolution
      <4>3. CASE x \in Solutions(e, names)
        BY <1>1, <1>7, <3>2, <4>1, <4>3, RoundedSolution
      <4>4. QED
        BY <3>3, <4>2, <4>3
    <3>5. IsFiniteSet(names)
      BY AllocationAssumption, FS_Subset
    <3>6. Columns01(w)
      BY <1>7, <3>4, <3>5 DEF Columns01
    <3> HIDE DEF w
    <3>7. Truth(Validated(r, w))
      BY <3>4, <3>6, ValidatedIs
    <3>8. QED
      BY <3>1, <3>7 DEF w
  <2>4. QED
    <3> HIDE DEF solved
    <3>1. QED
      BY <2>0, <2>1, <2>2, <2>3
<1>8. QED
  BY <1>5, <1>6, <1>7

LEMMA OptimizerNext ==
    ASSUME PortfolioInv, OptimizerAnswersAreTrue, [PortfolioNext]_portfolioVars
    PROVE  OptimizerAnswersAreTrue'
<1>1. CASE answer' = answer
  BY <1>1 DEF OptimizerAnswersAreTrue
<1>2. (answer' # None => Truth(answer')) => OptimizerAnswersAreTrue'
  BY Zenon DEF OptimizerAnswersAreTrue, Truth
<1>3. ASSUME answer' # None => answer'.kind \notin {"optimized", "infeasible"}
      PROVE OptimizerAnswersAreTrue'
  BY <1>2, <1>3 DEF Truth
<1>4. ASSUME NEW c \in Clients, CommitRisk(c) PROVE OptimizerAnswersAreTrue'
  <2>1. CASE ~exists
    BY <1>1, <1>4, <2>1 DEF CommitRisk
  <2>2. CASE exists
    <3>1. \E w, betas, m : answer' = [kind |-> "risk", weights |-> w, betas |-> betas, metrics |-> m]
      BY <1>4, <2>2, Zenon DEF CommitRisk
    <3>2. answer'.kind = "risk"
      BY <3>1
    <3>3. QED
      BY <1>3, <3>2
  <2>3. QED
    BY <2>1, <2>2
<1>5. ASSUME Rebalance PROVE OptimizerAnswersAreTrue'
  <2>1. \/ answer' = [kind |-> "validation_error"]
        \/ \E names, plan : answer' = [kind |-> "plan", names |-> names, plan |-> plan]
    BY <1>5, Zenon DEF Rebalance
  <2>2. answer'.kind \in {"validation_error", "plan"}
    BY <2>1
  <2>3. QED
    BY <1>3, <2>2
<1>6. ASSUME Optimize PROVE OptimizerAnswersAreTrue'
  <2>1. PICK r \in Requests :
          \/ answer' \in {[kind |-> "validation_error"], [kind |-> "not_found"],
                          [kind |-> "entitlement_exceeded"]}
          \/ /\ Accepted(r.constraints)
             /\ \E names \in Columns(positions) : answer' \in Optimized(r, names)
    BY <1>6, Zenon DEF Optimize
  <2>2. CASE answer' \in {[kind |-> "validation_error"], [kind |-> "not_found"],
                          [kind |-> "entitlement_exceeded"]}
    <3>1. answer'.kind \in {"validation_error", "not_found", "entitlement_exceeded"}
      BY <2>2
    <3>2. QED
      BY <1>3, <3>1
  <2>3. CASE Accepted(r.constraints) /\ \E names \in Columns(positions) : answer' \in Optimized(r, names)
    <3>1. PICK names \in Columns(positions) : answer' \in Optimized(r, names)
      BY <2>3
    <3>2. names \subseteq Names
      BY BookTypes DEF PortfolioInv, Columns
    <3>3. Truth(answer')
      BY <2>3, <3>1, <3>2, OptimizedIs
    <3>4. QED
      BY <1>2, <3>3
  <2>4. QED
    BY <2>1, <2>2, <2>3
<1>7. CASE Answered
  BY <1>2, <1>7 DEF Answered
<1>8. ASSUME NEW c \in Clients, BeginPut(c) \/ CommitPut(c) \/ BeginRisk(c) PROVE answer' = answer
  BY <1>8, Zenon DEF BeginPut, CommitPut, BeginRisk
<1>9. CASE (\E n \in Names : DeletePosition(n)) \/ DeletePortfolio \/ UNCHANGED portfolioVars
  BY <1>1, <1>9 DEF DeletePosition, DeletePortfolio, portfolioVars
<1>10. QED
  BY <1>1, <1>4, <1>5, <1>6, <1>7, <1>8, <1>9, Zenon DEF PortfolioNext

(* What the optimizer answers is true: an optimized book is fully invested   *)
(* and within the tolerance of every limit; long-only constraints that the   *)
(* structural check refuses have no book at all, if it refuses for something *)
(* else than sector caps or every name has a sector; and the check of the    *)
(* rounded book refuses it for nothing that the solver was given but a       *)
(* sector cap.  That is so for any names, sectors, constraints and answers   *)
(* of a solver that misses no constraint by more than Tol float steps (the   *)
(* optimize service, constraints.check and feasibility,                      *)
(* to_decimal_weights); AllocationAssumption says how many names that        *)
(* allows.                                                                   *)
THEOREM OptimizerAnswersAreAlwaysTrue == PortfolioSpec => []OptimizerAnswersAreTrue
<1>1. PortfolioInit => PortfolioInv /\ OptimizerAnswersAreTrue
  <2>1. PortfolioInit => OptimizerAnswersAreTrue
    BY DEF PortfolioInit, OptimizerAnswersAreTrue
  <2>2. QED
    BY <2>1, PortfolioInvInit
<1>2. PortfolioInv /\ OptimizerAnswersAreTrue /\ [PortfolioNext]_portfolioVars
         => PortfolioInv' /\ OptimizerAnswersAreTrue'
  BY PortfolioInvNext, OptimizerNext
<1>3. QED
  BY <1>1, <1>2, PTL DEF PortfolioSpec

-----------------------------------------------------------------------------
(* Scoring: percentiles *)

Fractions == Int \X (Nat \ {0})
NotMore(p, q) == Less(p, q) \/ Same(p, q)

LEMMA FractionsCompare ==
    ASSUME NEW p \in Fractions, NEW q \in Fractions
    PROVE  /\ Less(p, q) \/ Same(p, q) \/ Less(q, p)
           /\ ~(Less(p, q) /\ Same(p, q)) /\ ~(Less(p, q) /\ Less(q, p))
           /\ Same(p, q) <=> Same(q, p)
<1>1. PICK a \in Int, b \in Nat \ {0}, c \in Int, d \in Nat \ {0} : p = <<a, b>> /\ q = <<c, d>>
  BY DEF Fractions
<1>2. PICK x \in Int, y \in Int : x = a * d /\ y = c * b
  OBVIOUS
<1>3. QED
  BY <1>1, <1>2 DEF Less, Same

LEMMA FractionsAreOrdered ==
    ASSUME NEW p \in Fractions, NEW q \in Fractions, NEW r \in Fractions,
           NotMore(p, q), NotMore(q, r)
    PROVE  /\ NotMore(p, r)
           /\ Less(p, q) \/ Less(q, r) => Less(p, r)
           /\ Same(p, q) /\ Same(q, r) => Same(p, r)
<1>1. PICK a \in Int, b \in Nat \ {0}, c \in Int, d \in Nat \ {0}, e \in Int, f \in Nat \ {0} :
          p = <<a, b>> /\ q = <<c, d>> /\ r = <<e, f>>
  BY DEF Fractions
<1>2. /\ a * d \in Int /\ c * b \in Int /\ c * f \in Int /\ e * d \in Int
      /\ a * f \in Int /\ e * b \in Int
  OBVIOUS
<1>3. /\ Less(p, q) <=> a * d < c * b
      /\ Same(p, q) <=> a * d = c * b
      /\ Less(q, r) <=> c * f < e * d
      /\ Same(q, r) <=> c * f = e * d
      /\ Less(p, r) <=> a * f < e * b
      /\ Same(p, r) <=> a * f = e * b
  BY <1>1, <1>2, Zenon DEF Less, Same
<1>4. a * d <= c * b /\ c * f <= e * d
  BY <1>2, <1>3 DEF NotMore
<1>5. a * f <= e * b /\ (a * d < c * b \/ c * f < e * d => a * f < e * b)
  BY <1>4, CrossMultiplied
<1>6. ASSUME Same(p, q), Same(q, r) PROVE Same(p, r)
  <2>1. e * d <= c * f /\ c * b <= a * d
    BY <1>2, <1>3, <1>6
  <2>2. e * b <= a * f
    BY <2>1, CrossMultiplied
  <2>3. QED
    BY <1>2, <1>3, <1>5, <2>2
<1>7. QED
  BY <1>2, <1>3, <1>5, <1>6 DEF NotMore

(* Where a value stands in a group: twice the values below it and the equal  *)
(* ones, which is one more than what _percent_rank scales.                   *)
Below(value, group, s) == {t \in group : Less(value[t], value[s])}
Equals(value, group, s) == {t \in group : Same(value[t], value[s])}
Standing(value, group, s) ==
    2 * Cardinality(Below(value, group, s)) + Cardinality(Equals(value, group, s))

LEMMA StandingIsNat ==
    ASSUME NEW v, NEW G, IsFiniteSet(G), NEW s
    PROVE  /\ IsFiniteSet(Below(v, G, s)) /\ IsFiniteSet(Equals(v, G, s))
           /\ Cardinality(Below(v, G, s)) \in Nat /\ Cardinality(Equals(v, G, s)) \in Nat
           /\ Standing(v, G, s) \in Nat
<1>1. Below(v, G, s) \subseteq G /\ Equals(v, G, s) \subseteq G
  BY DEF Below, Equals
<1>2. IsFiniteSet(Below(v, G, s)) /\ IsFiniteSet(Equals(v, G, s))
  BY <1>1, FS_Subset
<1>3. Cardinality(Below(v, G, s)) \in Nat /\ Cardinality(Equals(v, G, s)) \in Nat
  BY <1>2, FS_CardinalityType
<1>4. QED
  BY <1>2, <1>3 DEF Standing

(* The greater value never stands lower. *)
LEMMA BetterStandsHigher ==
    ASSUME NEW G, IsFiniteSet(G), NEW v, \A u \in G : v[u] \in Fractions,
           NEW s \in G, NEW t \in G, ~Less(v[s], v[t])
    PROVE  Standing(v, G, t) <= Standing(v, G, s)
<1> DEFINE bs == Below(v, G, s)
           es == Equals(v, G, s)
           bt == Below(v, G, t)
           et == Equals(v, G, t)
<1>1. /\ IsFiniteSet(bs) /\ IsFiniteSet(es) /\ IsFiniteSet(bt) /\ IsFiniteSet(et)
      /\ Cardinality(bs) \in Nat /\ Cardinality(es) \in Nat
      /\ Cardinality(bt) \in Nat /\ Cardinality(et) \in Nat
  BY StandingIsNat
<1>2. Less(v[t], v[s]) \/ Same(v[t], v[s])
  BY FractionsCompare
<1>3. ASSUME NEW u \in G PROVE /\ u \in bs <=> Less(v[u], v[s])
                               /\ u \in es <=> Same(v[u], v[s])
                               /\ u \in bt <=> Less(v[u], v[t])
                               /\ u \in et <=> Same(v[u], v[t])
  BY Zenon DEF Below, Equals
<1>4. bs \subseteq G /\ es \subseteq G /\ bt \subseteq G /\ et \subseteq G
  BY DEF Below, Equals
<1>5. Standing(v, G, s) = 2 * Cardinality(bs) + Cardinality(es)
      /\ Standing(v, G, t) = 2 * Cardinality(bt) + Cardinality(et)
  BY DEF Standing
<1> HIDE DEF bs, es, bt, et
<1>6. CASE Less(v[t], v[s])
  <2>1. bt \cup et \subseteq bs
    <3>1. ASSUME NEW u \in G, NotMore(v[u], v[t]) PROVE Less(v[u], v[s])
      BY <1>6, <3>1, FractionsAreOrdered DEF NotMore
    <3>2. QED
      BY <1>3, <1>4, <3>1 DEF NotMore
  <2>2. bt \cap et = {}
    <3>1. ASSUME NEW u \in G PROVE ~(Less(v[u], v[t]) /\ Same(v[u], v[t]))
      BY FractionsCompare
    <3>2. QED
      BY <1>3, <1>4, <3>1
  <2>3. Cardinality(bt \cup et) = Cardinality(bt) + Cardinality(et)
    <3>1. Cardinality(bt \cup et)
              = Cardinality(bt) + Cardinality(et) - Cardinality(bt \cap et)
      BY <1>1, FS_Union
    <3>2. Cardinality(bt \cap et) = 0
      BY <2>2, FS_EmptySet
    <3>3. QED
      BY <1>1, <3>1, <3>2
  <2>4. Cardinality(bt \cup et) <= Cardinality(bs)
    BY <1>1, <2>1, FS_Subset
  <2>5. QED
    BY <1>1, <1>5, <2>3, <2>4
<1>7. CASE Same(v[t], v[s])
  <2>1. ASSUME NEW u \in G PROVE /\ Less(v[u], v[t]) => Less(v[u], v[s])
                                 /\ Same(v[u], v[t]) => Same(v[u], v[s])
    BY <1>7, FractionsAreOrdered DEF NotMore
  <2>2. bt \subseteq bs /\ et \subseteq es
    BY <1>3, <1>4, <2>1
  <2>3. Cardinality(bt) <= Cardinality(bs)
    BY <1>1, <2>2, FS_Subset
  <2>4. Cardinality(et) <= Cardinality(es)
    BY <1>1, <2>2, FS_Subset
  <2>5. QED
    BY <1>1, <1>5, <2>3, <2>4
<1>8. QED
  BY <1>2, <1>6, <1>7

LEMMA SetGrows ==
    ASSUME NEW T, IsFiniteSet(T), NEW x, x \notin T, NEW R, R \subseteq T,
           NEW Q, Q \subseteq T \cup {x}, Q \cap T = R
    PROVE  Cardinality(Q) = Cardinality(R) + (IF x \in Q THEN 1 ELSE 0)
<1>1. IsFiniteSet(R) /\ Cardinality(R) \in Nat
  BY FS_Subset, FS_CardinalityType
<1>2. Q = IF x \in Q THEN R \cup {x} ELSE R
  OBVIOUS
<1>3. x \notin R
  OBVIOUS
<1>4. Cardinality(R \cup {x}) = Cardinality(R) + 1
  BY <1>1, <1>3, FS_AddElement
<1>5. QED
  BY <1>1, <1>2, <1>4

(* A value joins: those it is below of stand two higher, its equals one. *)
LEMMA StandingGrows ==
    ASSUME NEW T, IsFiniteSet(T), NEW x, x \notin T, NEW v,
           \A u \in T \cup {x} : v[u] \in Fractions, NEW s \in T \cup {x}
    PROVE  Standing(v, T \cup {x}, s) = Standing(v, T, s)
               + (IF Less(v[x], v[s]) THEN 2 ELSE IF Same(v[x], v[s]) THEN 1 ELSE 0)
<1> DEFINE U == T \cup {x}
           bt == Below(v, T, s)
           bu == Below(v, U, s)
           et == Equals(v, T, s)
           eu == Equals(v, U, s)
<1>1. Cardinality(bt) \in Nat /\ Cardinality(et) \in Nat
  BY StandingIsNat
<1>2. /\ bt \subseteq T /\ bu \subseteq T \cup {x} /\ bu \cap T = bt
      /\ x \in bu <=> Less(v[x], v[s])
  BY DEF Below
<1>3. /\ et \subseteq T /\ eu \subseteq T \cup {x} /\ eu \cap T = et
      /\ x \in eu <=> Same(v[x], v[s])
  BY DEF Equals
<1>4. /\ Standing(v, T \cup {x}, s) = 2 * Cardinality(bu) + Cardinality(eu)
      /\ Standing(v, T, s) = 2 * Cardinality(bt) + Cardinality(et)
  BY DEF Standing
<1>5. ~(Less(v[x], v[s]) /\ Same(v[x], v[s]))
  BY FractionsCompare
<1> HIDE DEF bt, bu, et, eu
<1>6. Cardinality(bu) = Cardinality(bt) + (IF x \in bu THEN 1 ELSE 0)
  BY <1>2, SetGrows
<1>7. Cardinality(eu) = Cardinality(et) + (IF x \in eu THEN 1 ELSE 0)
  BY <1>3, SetGrows
<1>8. CASE Less(v[x], v[s])
  <2>1. x \in bu /\ x \notin eu
    BY <1>2, <1>3, <1>5, <1>8
  <2>2. QED
    BY <1>1, <1>4, <1>6, <1>7, <1>8, <2>1
<1>9. CASE ~Less(v[x], v[s]) /\ Same(v[x], v[s])
  <2>1. x \notin bu /\ x \in eu
    BY <1>2, <1>3, <1>9
  <2>2. QED
    BY <1>1, <1>4, <1>6, <1>7, <1>9, <2>1
<1>10. CASE ~Less(v[x], v[s]) /\ ~Same(v[x], v[s])
  <2>1. x \notin bu /\ x \notin eu
    BY <1>2, <1>3, <1>10
  <2>2. QED
    BY <1>1, <1>4, <1>6, <1>7, <1>10, <2>1
<1>11. QED
  BY <1>8, <1>9, <1>10

(* The standings in a group of n add up to n * n. *)
Standings(value, group) == [s \in group |-> Standing(value, group, s)]

LEMMA JoinersStanding ==
    ASSUME NEW T, IsFiniteSet(T), NEW x, x \notin T, NEW v,
           \A u \in T \cup {x} : v[u] \in Fractions,
           NEW h, \A s \in T : h[s] = IF Less(v[x], v[s]) THEN 2
                                      ELSE IF Same(v[x], v[s]) THEN 1 ELSE 0
    PROVE  Standing(v, T \cup {x}, x) + SumFunctionOnSet(h, T) = 2 * Cardinality(T) + 1
<1> DEFINE below == Below(v, T, x)
           equals == Equals(v, T, x)
           above == {s \in T : Less(v[x], v[s])}
<1>1. /\ IsFiniteSet(below) /\ IsFiniteSet(equals)
      /\ Cardinality(below) \in Nat /\ Cardinality(equals) \in Nat
  BY StandingIsNat
<1>2. IsFiniteSet(above) /\ Cardinality(above) \in Nat
  <2>1. above \subseteq T
    OBVIOUS
  <2>2. IsFiniteSet(above)
    BY <2>1, FS_Subset
  <2>3. QED
    BY <2>2, FS_CardinalityType
<1>3. ASSUME NEW s \in T
      PROVE  /\ s \in below <=> Less(v[s], v[x])
             /\ s \in equals <=> Same(v[x], v[s])
             /\ s \in above <=> Less(v[x], v[s])
  <2>1. Same(v[x], v[s]) <=> Same(v[s], v[x])
    BY FractionsCompare
  <2>2. QED
    BY <2>1, Zenon DEF Below, Equals
<1>4. below \subseteq T /\ equals \subseteq T /\ above \subseteq T
  BY DEF Below, Equals
<1>5. ASSUME NEW s \in T
      PROVE  /\ s \in below \/ s \in equals \/ s \in above
             /\ ~(s \in below /\ s \in equals) /\ ~(s \in below /\ s \in above)
             /\ ~(s \in equals /\ s \in above)
  <2>1. /\ Less(v[s], v[x]) \/ Same(v[s], v[x]) \/ Less(v[x], v[s])
        /\ ~(Less(v[s], v[x]) /\ Same(v[s], v[x])) /\ ~(Less(v[s], v[x]) /\ Less(v[x], v[s]))
        /\ Same(v[s], v[x]) <=> Same(v[x], v[s])
    BY FractionsCompare
  <2>2. ~(Less(v[x], v[s]) /\ Same(v[x], v[s]))
    BY FractionsCompare
  <2>3. QED
    BY <1>3, <2>1, <2>2
<1>6. Standing(v, T \cup {x}, x) = 2 * Cardinality(below) + Cardinality(equals) + 1
  <2>1. Same(v[x], v[x]) /\ ~Less(v[x], v[x])
    BY FractionsCompare
  <2>2. Standing(v, T \cup {x}, x) = Standing(v, T, x) + 1
    <3>1. Standing(v, T \cup {x}, x) = Standing(v, T, x)
               + (IF Less(v[x], v[x]) THEN 2 ELSE IF Same(v[x], v[x]) THEN 1 ELSE 0)
      BY StandingGrows
    <3>2. QED
      BY <2>1, <3>1
  <2>3. QED
    BY <2>2 DEF Standing
<1>7. /\ \A s \in below : h[s] = 0
      /\ \A s \in equals : h[s] = 1
      /\ \A s \in above : h[s] = 2
  <2>1. ASSUME NEW s \in T
        PROVE  /\ s \in below => ~Less(v[x], v[s]) /\ ~Same(v[x], v[s])
               /\ s \in equals => ~Less(v[x], v[s]) /\ Same(v[x], v[s])
               /\ s \in above => Less(v[x], v[s])
    BY <1>3, <1>5
  <2>2. QED
    BY <1>4, <2>1
<1> HIDE DEF below, equals, above
<1>8. below \cup equals \cup above = T
  BY <1>4, <1>5
<1>9. below \cap equals = {} /\ (below \cup equals) \cap above = {}
  BY <1>4, <1>5
<1>10. IsFiniteSet(below \cup equals)
  BY <1>1, FS_Union
<1>11. Column(h, below \cup equals) /\ Column(h, below \cup equals \cup above)
  BY <1>7 DEF Column
<1>12. SumFunctionOnSet(h, T) = SumFunctionOnSet(h, below) + SumFunctionOnSet(h, equals)
                                    + SumFunctionOnSet(h, above)
  <2>1. SumFunctionOnSet(h, below \cup equals)
            = SumFunctionOnSet(h, below) + SumFunctionOnSet(h, equals)
    BY <1>1, <1>9, <1>11, SumOfUnion
  <2>2. SumFunctionOnSet(h, (below \cup equals) \cup above)
            = SumFunctionOnSet(h, below \cup equals) + SumFunctionOnSet(h, above)
    BY <1>2, <1>9, <1>10, <1>11, SumOfUnion
  <2>3. QED
    BY <1>8, <2>1, <2>2
<1>13. /\ SumFunctionOnSet(h, below) = 0 * Cardinality(below)
       /\ SumFunctionOnSet(h, equals) = 1 * Cardinality(equals)
       /\ SumFunctionOnSet(h, above) = 2 * Cardinality(above)
  <2>1. SumFunctionOnSet(h, below) = 0 * Cardinality(below)
    BY <1>1, <1>7, SumOfConstant
  <2>2. SumFunctionOnSet(h, equals) = 1 * Cardinality(equals)
    BY <1>1, <1>7, SumOfConstant
  <2>3. SumFunctionOnSet(h, above) = 2 * Cardinality(above)
    BY <1>2, <1>7, SumOfConstant
  <2>4. QED
    BY <2>1, <2>2, <2>3
<1>14. Cardinality(T) = Cardinality(below) + Cardinality(equals) + Cardinality(above)
  <2>1. Cardinality(below \cup equals)
            = Cardinality(below) + Cardinality(equals) - Cardinality(below \cap equals)
    BY <1>1, FS_Union
  <2>2. Cardinality((below \cup equals) \cup above)
            = Cardinality(below \cup equals) + Cardinality(above)
                  - Cardinality((below \cup equals) \cap above)
    BY <1>2, <1>10, FS_Union
  <2>3. Cardinality(below \cap equals) = 0 /\ Cardinality((below \cup equals) \cap above) = 0
    BY <1>9, FS_EmptySet
  <2>4. Cardinality((below \cup equals) \cup above)
            = Cardinality(below) + Cardinality(equals) + Cardinality(above)
    BY <1>1, <1>2, <2>1, <2>2, <2>3
  <2>5. QED
    BY <1>8, <2>4
<1>15. QED
  BY <1>1, <1>2, <1>6, <1>12, <1>13, <1>14

LEMMA StandingsAddUp ==
    ASSUME NEW G, IsFiniteSet(G), NEW v, \A u \in G : v[u] \in Fractions
    PROVE  SumFunctionOnSet(Standings(v, G), G) = Cardinality(G) * Cardinality(G)
<1> DEFINE Good == {T \in SUBSET G :
                SumFunctionOnSet(Standings(v, T), T) = Cardinality(T) * Cardinality(T)}
<1>1. {} \in Good
  BY SumEmpty, FS_EmptySet
<1>2. ASSUME NEW T \in SUBSET G, T \in Good, NEW x \in G \ T PROVE T \cup {x} \in Good
  <2> DEFINE U == T \cup {x}
             f == Standings(v, U)
             g == Standings(v, T)
             h == [s \in T |-> IF Less(v[x], v[s]) THEN 2
                               ELSE IF Same(v[x], v[s]) THEN 1 ELSE 0]
             n == Cardinality(T)
  <2>1. IsFiniteSet(T) /\ IsFiniteSet(U) /\ n \in Nat /\ Cardinality(U) = n + 1
    <3>1. IsFiniteSet(T)
      BY FS_Subset
    <3>2. IsFiniteSet(U) /\ Cardinality(U) = n + 1
      BY <3>1, FS_AddElement
    <3>3. QED
      BY <3>1, <3>2, FS_CardinalityType
  <2>2. Column(f, U) /\ Column(g, T) /\ Column(h, T)
    <3>1. Column(f, U)
      <4>1. \A s \in U : f[s] = Standing(v, U, s)
        BY DEF Standings
      <4>2. ASSUME NEW s \in U PROVE Standing(v, U, s) \in Int
        BY <2>1, StandingIsNat
      <4>3. QED
        BY <4>1, <4>2 DEF Column
    <3>2. Column(g, T)
      BY <2>1, StandingIsNat DEF Column, Standings
    <3>3. QED
      BY <3>1, <3>2 DEF Column
  <2>3. \A s \in T : f[s] = g[s] + h[s]
    <3>1. ASSUME NEW s \in T PROVE f[s] = g[s] + h[s]
      <4>1. Standing(v, T \cup {x}, s) = Standing(v, T, s)
               + (IF Less(v[x], v[s]) THEN 2 ELSE IF Same(v[x], v[s]) THEN 1 ELSE 0)
        BY <2>1, StandingGrows
      <4>2. f[s] = Standing(v, T \cup {x}, s) /\ g[s] = Standing(v, T, s)
        BY DEF Standings
      <4>3. QED
        BY <4>1, <4>2
    <3>2. QED
      BY <3>1
  <2>4. SumFunctionOnSet(f, T) = SumFunctionOnSet(g, T) + SumFunctionOnSet(h, T)
    <3> HIDE DEF f, g, h
    <3>1. QED
      BY <2>1, <2>2, <2>3, SumsAdd
  <2>5. SumFunctionOnSet(f, U) = f[x] + SumFunctionOnSet(f, T)
    <3> HIDE DEF f
    <3>1. QED
      BY <2>1, <2>2, SumAdds
  <2>6. f[x] + SumFunctionOnSet(h, T) = 2 * n + 1
    <3>1. Standing(v, T \cup {x}, x) + SumFunctionOnSet(h, T) = 2 * Cardinality(T) + 1
      BY <2>1, JoinersStanding
    <3>2. f[x] = Standing(v, T \cup {x}, x)
      BY DEF Standings
    <3>3. QED
      BY <3>1, <3>2
  <2>7. SumFunctionOnSet(g, T) = n * n
    BY <1>2
  <2>8. f[x] \in Int /\ SumFunctionOnSet(h, T) \in Int
    <3> HIDE DEF f, h
    <3>1. QED
      BY <2>1, <2>2, SumIsInt DEF Column
  <2>9. SumFunctionOnSet(f, U) = n * n + (2 * n + 1)
    <3> HIDE DEF f, g, h, n
    <3>1. n * n \in Int
      BY <2>1
    <3>2. QED
      BY <2>1, <2>4, <2>5, <2>6, <2>7, <2>8, <3>1
  <2>10. \A k \in Nat : k * k + (2 * k + 1) = (k + 1) * (k + 1)
    OBVIOUS
  <2>11. QED
    BY <2>1, <2>9, <2>10
<1>3. SUBSET G \subseteq Good
  <2> HIDE DEF Good
  <2>1. QED
    BY <1>1, <1>2, ByElements
<1>4. QED
  BY <1>3

(* Percentiles: the standing, scaled by a whole number of units. *)
Share(group) == Full \div (2 * (Cardinality(group) - 1))

LEMMA DividesBack ==
    ASSUME NEW m \in Nat \ {0}, NEW z \in Int
    PROVE  (m * z) \div m = z
<1>1. PICK a \in Int : a = m * z
  OBVIOUS
<1>2. PICK q \in Int : q = a \div m
  BY <1>1
<1>3. m * q <= a /\ a < m * q + m
  BY <1>1, <1>2
<1>4. \A x, y \in Int : m * x <= m * y => x <= y
  OBVIOUS
<1>5. q <= z
  BY <1>1, <1>3, <1>4
<1>6. m * q + m = m * (q + 1)
  OBVIOUS
<1>7. \A x, y \in Int : m * x < m * y => x < y
  OBVIOUS
<1>8. z < q + 1
  BY <1>1, <1>3, <1>6, <1>7
<1>9. QED
  BY <1>1, <1>2, <1>5, <1>8

LEMMA GroupSize ==
    ASSUME NEW G, G \subseteq Stocks, G # {}
    PROVE  /\ IsFiniteSet(G) /\ Cardinality(G) \in Nat \ {0}
           /\ Cardinality(G) > 1 => /\ Share(G) \in Nat
                                    /\ Full = (2 * (Cardinality(G) - 1)) * Share(G)
<1>1. IsFiniteSet(Stocks)
  BY ScoringAssumption
<1>2. IsFiniteSet(G) /\ Cardinality(G) <= Cardinality(Stocks)
  BY <1>1, FS_Subset
<1>3. Cardinality(G) \in Nat /\ Cardinality(Stocks) \in Nat
  BY <1>1, <1>2, FS_CardinalityType
<1>4. Cardinality(G) # 0
  BY <1>2, FS_EmptySet
<1>5. CASE Cardinality(G) > 1
  <2>1. PICK m \in Nat \ {0} : m = 2 * (Cardinality(G) - 1)
    BY <1>3, <1>5
  <2>2. Full \in Nat /\ Full % m = 0
    BY <1>2, <1>3, <1>5, <2>1, ScoringAssumption
  <2>3. \A a \in Nat, d \in Nat \ {0} : a % d = 0 => a \div d \in Nat /\ a = d * (a \div d)
    OBVIOUS
  <2>4. Full \div m \in Nat /\ Full = m * (Full \div m)
    BY <2>2, <2>3
  <2>5. QED
    BY <1>2, <1>3, <1>4, <2>1, <2>4 DEF Share
<1>6. QED
  BY <1>2, <1>3, <1>4, <1>5

LEMMA PercentIs ==
    ASSUME NEW G, G \subseteq Stocks, NEW s \in G, NEW v
    PROVE  /\ PercentRank(v, G, s) \in Int
           /\ PercentRank(v, G, s) = IF Cardinality(G) > 1 THEN Share(G) * (Standing(v, G, s) - 1)
                                     ELSE Full \div 2
<1>1. /\ IsFiniteSet(G) /\ Cardinality(G) \in Nat \ {0}
      /\ Cardinality(G) > 1 => /\ Share(G) \in Nat
                               /\ Full = (2 * (Cardinality(G) - 1)) * Share(G)
  BY GroupSize
<1>2. PICK c \in Nat : c = Standing(v, G, s)
  BY <1>1, StandingIsNat
<1>3. PercentRank(v, G, s) =
        IF Cardinality(G) > 1 THEN (Full * (c - 1)) \div (2 * (Cardinality(G) - 1))
        ELSE Full \div 2
  <2>1. PICK p, q : p = Cardinality(Below(v, G, s)) /\ q = Cardinality(Equals(v, G, s))
    OBVIOUS
  <2>2. PercentRank(v, G, s) =
          IF Cardinality(G) > 1
          THEN (Full * (2 * p + q - 1)) \div (2 * (Cardinality(G) - 1))
          ELSE Full \div 2
    BY <2>1, Zenon DEF PercentRank, Below, Equals
  <2>3. c = 2 * p + q
    BY <1>2, <2>1, Zenon DEF Standing
  <2>4. p \in Int /\ q \in Int
    BY <1>1, <2>1, StandingIsNat
  <2>5. 2 * p + q - 1 = c - 1
    BY <2>3, <2>4
  <2>6. QED
    BY <2>2, <2>5, Zenon
<1>4. CASE Cardinality(G) > 1
  <2>1. PICK m \in Nat \ {0} : m = 2 * (Cardinality(G) - 1)
    BY <1>1, <1>4
  <2>2. PICK k \in Nat : k = Share(G)
    BY <1>1, <1>4
  <2>3. Full = m * k
    BY <1>1, <1>4, <2>1, <2>2
  <2>4. PICK z \in Int : z = k * (c - 1)
    OBVIOUS
  <2>5. (m * k) * (c - 1) = m * z
    BY <2>4
  <2>6. (m * z) \div m = z
    BY DividesBack
  <2>7. PercentRank(v, G, s) = z
    BY <1>3, <1>4, <2>1, <2>3, <2>5, <2>6
  <2>8. QED
    BY <1>2, <1>4, <2>2, <2>4, <2>7
<1>5. CASE ~(Cardinality(G) > 1)
  <2>1. Full \div 2 \in Int
    BY ScoringAssumption
  <2>2. QED
    BY <1>3, <1>5, <2>1
<1>6. QED
  BY <1>4, <1>5

(* The percentiles of a group average 50. *)
LEMMA PercentsAverage ==
    ASSUME NEW G, G \subseteq Stocks, NEW v, \A u \in G : v[u] \in Fractions,
           NEW f, \A s \in G : f[s] = PercentRank(v, G, s)
    PROVE  2 * SumFunctionOnSet(f, G) = Full * Cardinality(G)
<1>1. CASE G = {}
  <2>1. SumFunctionOnSet(f, G) = 0 /\ Cardinality(G) = 0
    BY <1>1, SumEmpty, FS_EmptySet
  <2>2. QED
    BY <2>1, ScoringAssumption
<1>2. CASE G # {}
  <2> DEFINE n == Cardinality(G)
  <2>1. /\ IsFiniteSet(G) /\ n \in Nat \ {0}
        /\ n > 1 => Share(G) \in Nat /\ Full = (2 * (n - 1)) * Share(G)
    BY <1>2, GroupSize
  <2>2. ASSUME NEW s \in G PROVE f[s] = IF n > 1 THEN Share(G) * (Standing(v, G, s) - 1)
                                        ELSE Full \div 2
    BY PercentIs
  <2> HIDE DEF n
  <2>3. CASE n > 1
    <3> DEFINE c == Standings(v, G)
               d == [s \in G |-> c[s] - 1]
               one == [s \in G |-> 1]
    <3>1. PICK k \in Nat : k = Share(G)
      BY <2>1, <2>3
    <3>2. \A s \in G : c[s] \in Nat /\ f[s] = k * (c[s] - 1)
      <4>1. ASSUME NEW s \in G PROVE c[s] \in Nat /\ f[s] = k * (c[s] - 1)
        <5>1. c[s] = Standing(v, G, s)
          BY DEF Standings
        <5>2. Standing(v, G, s) \in Nat
          BY <2>1, StandingIsNat
        <5>3. QED
          BY <2>2, <2>3, <3>1, <5>1, <5>2
      <4>2. QED
        BY <4>1
    <3>3. SumFunctionOnSet(c, G) = n * n
      BY <2>1, StandingsAddUp DEF n
    <3> HIDE DEF c
    <3>4. /\ \A s \in G : d[s] \in Int /\ one[s] = 1 /\ c[s] = d[s] + one[s] /\ f[s] = k * d[s]
      BY <3>2
    <3>5. Column(d, G) /\ Column(one, G)
      BY <3>4 DEF Column
    <3> HIDE DEF d, one
    <3>6. SumFunctionOnSet(c, G) = SumFunctionOnSet(d, G) + SumFunctionOnSet(one, G)
      BY <2>1, <3>4, <3>5, SumsAdd
    <3>7. SumFunctionOnSet(one, G) = 1 * Cardinality(G)
      BY <2>1, <3>4, SumOfConstant
    <3>8. SumFunctionOnSet(f, G) = k * SumFunctionOnSet(d, G)
      BY <2>1, <3>4, <3>5, SumScales
    <3>9. PICK x \in Int : x = SumFunctionOnSet(d, G)
      BY <2>1, <3>5, SumIsInt
    <3>10. n * n = x + n
      BY <2>1, <3>3, <3>6, <3>7, <3>9 DEF n
    <3>11. n * (n - 1) = x
      BY <2>1, <3>10
    <3>12. 2 * (k * (n * (n - 1))) = ((2 * (n - 1)) * k) * n
      BY <2>1
    <3>13. QED
      BY <2>1, <2>3, <3>1, <3>8, <3>9, <3>11, <3>12 DEF n
  <2>4. CASE n = 1
    <3>1. PICK h \in Nat : h = Full \div 2 /\ Full = 2 * h
      BY ScoringAssumption
    <3>2. SumFunctionOnSet(f, G) = h * Cardinality(G)
      <4>1. \A s \in G : f[s] = h
        BY <2>2, <2>4, <3>1
      <4>2. QED
        BY <2>1, <4>1, SumOfConstant
    <3>3. QED
      BY <2>4, <3>1, <3>2 DEF n
  <2>5. QED
    BY <2>1, <2>3, <2>4
<1>3. QED
  BY <1>1, <1>2

LEMMA BetterRanksHigher ==
    ASSUME NEW G, G \subseteq Stocks, NEW v, \A u \in G : v[u] \in Fractions,
           NEW s \in G, NEW t \in G, ~Less(v[s], v[t])
    PROVE  PercentRank(v, G, t) <= PercentRank(v, G, s)
<1>1. /\ IsFiniteSet(G) /\ Cardinality(G) \in Nat \ {0}
      /\ Cardinality(G) > 1 => Share(G) \in Nat
  BY GroupSize
<1>2. Standing(v, G, t) <= Standing(v, G, s)
  BY <1>1, BetterStandsHigher
<1>3. Standing(v, G, t) \in Nat /\ Standing(v, G, s) \in Nat
  BY <1>1, StandingIsNat
<1>4. /\ PercentRank(v, G, s) = IF Cardinality(G) > 1 THEN Share(G) * (Standing(v, G, s) - 1)
                                ELSE Full \div 2
      /\ PercentRank(v, G, t) = IF Cardinality(G) > 1 THEN Share(G) * (Standing(v, G, t) - 1)
                                ELSE Full \div 2
      /\ PercentRank(v, G, s) \in Int
  BY PercentIs
<1>5. \A k \in Nat, a, b \in Int : a <= b => k * (a - 1) <= k * (b - 1)
  OBVIOUS
<1>6. QED
  BY <1>1, <1>2, <1>3, <1>4, <1>5

-----------------------------------------------------------------------------
(* Scoring: z-scores keep the order of a group *)

LEMMA SignedSquareGrows ==
    ASSUME NEW d \in Int, NEW e \in Int, e <= d, NEW m \in Nat
    PROVE  (IF e < 0 THEN -1 ELSE 1) * e * e * m <= (IF d < 0 THEN -1 ELSE 1) * d * d * m
<1>1. \A a, b \in Nat : a <= b => a * a <= b * b
  OBVIOUS
<1>2. \A a, b \in Int : a <= b => a * m <= b * m
  OBVIOUS
<1>3. CASE e >= 0
  <2>1. e * e <= d * d
    BY <1>1, <1>3
  <2>2. (e * e) * m <= (d * d) * m
    BY <1>2, <2>1
  <2>3. QED
    BY <1>3, <2>2
<1>4. CASE e < 0 /\ d >= 0
  <2>1. e * e \in Nat /\ d * d \in Nat
    BY <1>4
  <2>2. -(e * e) <= d * d
    BY <2>1
  <2>3. (-(e * e)) * m <= (d * d) * m
    BY <1>2, <2>1, <2>2
  <2>4. (-1) * e * e = -(e * e)
    OBVIOUS
  <2>5. QED
    BY <1>4, <2>3, <2>4
<1>5. CASE d < 0
  <2>1. (-d) * (-d) <= (-e) * (-e)
    BY <1>1, <1>5
  <2>2. (-d) * (-d) = d * d /\ (-e) * (-e) = e * e
    OBVIOUS
  <2>3. -(e * e) <= -(d * d)
    BY <2>1, <2>2
  <2>4. (-(e * e)) * m <= (-(d * d)) * m
    BY <1>2, <2>3
  <2>5. (-1) * e * e = -(e * e) /\ (-1) * d * d = -(d * d)
    OBVIOUS
  <2>6. QED
    BY <1>5, <2>4, <2>5
<1>6. QED
  BY <1>3, <1>4, <1>5

LEMMA SignedSquaresKeepOrder ==
    ASSUME NEW G, IsFiniteSet(G), NEW adj, Column(adj, G), NEW s \in G, NEW t \in G
    PROVE  /\ SignedSquare(adj, G, s) \in Fractions
           /\ adj[t] <= adj[s] => ~Less(SignedSquare(adj, G, s), SignedSquare(adj, G, t))
<1> DEFINE q == [u \in G |-> adj[u] * adj[u]]
<1>1. PICK n \in Nat : n = Cardinality(G) /\ n # 0
  BY FS_CardinalityType, FS_EmptySet
<1>2. Column(q, G) /\ \A u \in G : q[u] = adj[u] * adj[u]
  BY DEF Column
<1>3. PICK sum \in Int : sum = SumFunctionOnSet(adj, G)
  BY SumIsInt
<1>4. PICK squares \in Int : squares = SumFunctionOnSet(q, G)
  <2> HIDE DEF q
  <2>1. QED
    BY <1>2, SumIsInt
<1>5. sum * sum <= n * squares
  <2> HIDE DEF q
  <2>1. QED
    BY <1>1, <1>2, <1>3, <1>4, SquareWithinSquares
<1>6. PICK v \in Nat : v = n * squares - sum * sum
  <2>1. \A a, b \in Int : a <= b => b - a \in Nat
    OBVIOUS
  <2>2. QED
    BY <1>5, <2>1
<1>7. ASSUME NEW u \in G, NEW d, d = n * adj[u] - sum
      PROVE  SignedSquare(adj, G, u) = IF v = 0 THEN <<0, 1>>
                 ELSE <<(IF d < 0 THEN -1 ELSE 1) * d * d * (n - 1), n * v>>
  BY <1>1, <1>3, <1>4, <1>6, <1>7, Zenon DEF SignedSquare, q
<1>8. CASE v = 0
  <2>1. SignedSquare(adj, G, s) = <<0, 1>> /\ SignedSquare(adj, G, t) = <<0, 1>>
    BY <1>7, <1>8
  <2>2. QED
    BY <2>1 DEF Fractions, Less
<1>9. CASE v # 0
  <2>1. adj[s] \in Int /\ adj[t] \in Int
    BY DEF Column
  <2>2. PICK d \in Int : d = n * adj[s] - sum
    BY <2>1
  <2>3. PICK e \in Int : e = n * adj[t] - sum
    BY <2>1
  <2>4. PICK b \in Nat \ {0} : b = n * v
    BY <1>1, <1>9
  <2>5. PICK x \in Int : x = (IF d < 0 THEN -1 ELSE 1) * d * d * (n - 1)
    BY <1>1
  <2>6. PICK y \in Int : y = (IF e < 0 THEN -1 ELSE 1) * e * e * (n - 1)
    BY <1>1
  <2>7. SignedSquare(adj, G, s) = <<x, b>> /\ SignedSquare(adj, G, t) = <<y, b>>
    <3>1. SignedSquare(adj, G, s) = <<x, b>>
      BY <1>7, <1>9, <2>2, <2>4, <2>5, Zenon
    <3>2. SignedSquare(adj, G, t) = <<y, b>>
      BY <1>7, <1>9, <2>3, <2>4, <2>6, Zenon
    <3>3. QED
      BY <3>1, <3>2
  <2>8. ASSUME adj[t] <= adj[s] PROVE y <= x
    <3>1. \A i, j \in Int : i <= j => n * i <= n * j
      OBVIOUS
    <3>2. e <= d
      BY <2>1, <2>2, <2>3, <2>8, <3>1
    <3>3. n - 1 \in Nat
      BY <1>1
    <3>4. QED
      BY <2>5, <2>6, <3>2, <3>3, SignedSquareGrows
  <2>9. y <= x => ~(x * b < y * b)
    <3>1. \A i, j \in Int : i <= j => i * b <= j * b
      OBVIOUS
    <3>2. x * b \in Int /\ y * b \in Int
      OBVIOUS
    <3>3. QED
      BY <3>1, <3>2
  <2>10. QED
    BY <2>7, <2>8, <2>9 DEF Fractions, Less
<1>10. QED
  BY <1>8, <1>9

-----------------------------------------------------------------------------
(* Scoring: normalization and snapshots *)

RawColumns == [Stocks -> Raws \cup {Missing}]
Tables == [FactorKeys -> RawColumns]
Rows == [FactorKeys -> Values \cup {Missing}]

(* A quantile of a group of whole values is one of them. *)
LEMMA QuantileIsInt ==
    ASSUME NEW adj, NEW G, G \subseteq Stocks, G # {}, Column(adj, G), NEW p \in Nat
    PROVE  Quantile(adj, G, p) \in Int
<1> DEFINE rank == Rounded(p * (Cardinality(G) - 1), Winsor)
           under(t) == {u \in G : adj[u] < adj[t]}
           upTo == {t \in G : Cardinality(under(t)) <= rank}
           kept == CHOOSE t \in upTo : \A u \in upTo : adj[u] <= adj[t]
<1>1. IsFiniteSet(G) /\ Cardinality(G) - 1 \in Nat
  BY GroupSize
<1>2. \A t \in G : adj[t] \in Int
  BY DEF Column
<1>3. rank \in Nat
  <2>1. PICK c \in Nat : c = Cardinality(G) - 1
    BY <1>1
  <2>2. PICK m \in Nat : m = p * c
    <3>1. \A i, j \in Nat : i * j \in Nat
      OBVIOUS
    <3>2. QED
      BY <3>1
  <2>3. PICK d \in Nat \ {0} : d = Winsor
    BY ScoringAssumption
  <2>4. \A i \in Nat, j \in Nat \ {0} : i \div j \in Nat
    OBVIOUS
  <2>5. 2 * m + d \in Nat /\ 2 * d \in Nat \ {0}
    OBVIOUS
  <2>6. (2 * m + d) \div (2 * d) \in Nat
    BY <2>4, <2>5
  <2>7. rank = (2 * m + d) \div (2 * d)
    BY <2>1, <2>2, <2>3 DEF Rounded
  <2>8. QED
    BY <2>6, <2>7
<1>4. Quantile(adj, G, p) = adj[kept]
  BY Zenon DEF Quantile
<1> HIDE DEF rank
<1>5. PICK t \in G : \A u \in G : adj[t] <= adj[u]
  <2> DEFINE img == {adj[u] : u \in G}
  <2>1. IsFiniteSet(img)
    BY <1>1, ImageIsFinite
  <2>2. img # {} /\ img \subseteq Int
    BY <1>2
  <2>3. Smallest(img) \in img /\ \A x \in img : Smallest(img) <= x
    <3> HIDE DEF img
    <3>1. QED
      BY <2>1, <2>2, ExtremesExist
  <2>4. QED
    BY <2>3
<1>6. t \in upTo
  <2>1. under(t) = {}
    BY <1>2, <1>5
  <2>2. Cardinality(under(t)) = 0
    BY <2>1, FS_EmptySet
  <2>3. QED
    BY <1>3, <2>2
<1> HIDE DEF under
<1>7. PICK k \in upTo : \A u \in upTo : adj[u] <= adj[k]
  <2> DEFINE img == {adj[u] : u \in upTo}
  <2>1. IsFiniteSet(upTo)
    <3>1. upTo \subseteq G
      OBVIOUS
    <3>2. QED
      BY <1>1, <3>1, FS_Subset
  <2>2. IsFiniteSet(img)
    BY <2>1, ImageIsFinite
  <2>3. img # {} /\ img \subseteq Int
    BY <1>2, <1>6
  <2>4. Largest(img) \in img /\ \A x \in img : x <= Largest(img)
    <3> HIDE DEF img
    <3>1. QED
      BY <2>2, <2>3, ExtremesExist
  <2>5. QED
    BY <2>4
<1>8. kept \in G
  <2>1. kept \in upTo
    <3> HIDE DEF upTo
    <3>1. QED
      BY <1>7
  <2>2. QED
    BY <2>1
<1>9. QED
  <2> HIDE DEF kept
  <2>1. QED
    BY <1>2, <1>4, <1>8

(* Clipping the outliers of a group keeps its values whole and in order. *)
LEMMA WinsorizingKeepsOrder ==
    ASSUME NEW adj, NEW G, G \subseteq Stocks, Column(adj, G), NEW s \in G, NEW t \in G
    PROVE  /\ Winsorized(adj, G, s) \in Int
           /\ adj[t] <= adj[s] => Winsorized(adj, G, t) <= Winsorized(adj, G, s)
<1>1. Winsor - 1 \in Nat /\ 1 \in Nat
  BY ScoringAssumption
<1>2. PICK low \in Int : low = Quantile(adj, G, 1)
  BY QuantileIsInt
<1>3. PICK high \in Int : high = Quantile(adj, G, Winsor - 1)
  BY <1>1, QuantileIsInt
<1> DEFINE Lifted(x) == IF x < low THEN low ELSE x
           Capped(x) == IF x > high THEN high ELSE x
<1>4. \A u : Winsorized(adj, G, u) = Capped(Lifted(adj[u]))
  BY <1>2, <1>3 DEF Winsorized
<1>5. adj[s] \in Int /\ adj[t] \in Int
  BY DEF Column
<1>6. \A x \in Int : Capped(Lifted(x)) \in Int
  OBVIOUS
<1>7. \A x, y \in Int : y <= x => Capped(Lifted(y)) <= Capped(Lifted(x))
  OBVIOUS
<1> HIDE DEF Lifted, Capped
<1>8. QED
  BY <1>4, <1>5, <1>6, <1>7

LEMMA NormalizeIs ==
    ASSUME NEW raw \in RawColumns, NEW dir \in {-1, 1}
    PROVE  /\ Available(raw) \subseteq Stocks
           /\ Normalize(raw, dir) \in [Available(raw) -> Values]
           /\ \A s \in Available(raw) : Normalize(raw, dir)[s].raw = raw[s]
           /\ \A s \in Available(raw) : \A t \in PeersOf(raw, s) :
                 dir * raw[t] <= dir * raw[s] =>
                     /\ Normalize(raw, dir)[t].sector <= Normalize(raw, dir)[s].sector
                     /\ Normalize(raw, dir)[t].universe <= Normalize(raw, dir)[s].universe
           /\ 2 * SumFunctionOnSet([s \in Available(raw) |-> Normalize(raw, dir)[s].universe],
                                   Available(raw)) = Full * Cardinality(Available(raw))
<1> DEFINE G == Available(raw)
           P(s) == PeersOf(raw, s)
           adj == [s \in G |-> dir * raw[s]]
           w == [s \in G |-> Winsorized(adj, P(s), s)]
           whole == [s \in G |-> <<w[s], 1>>]
           z == [s \in G |-> SignedSquare(w, P(s), s)]
           N == Normalize(raw, dir)
           Sector(s) == PercentRank(whole, P(s), s)
           Universe(s) == PercentRank(z, G, s)
<1>1. G \subseteq Stocks /\ \A s \in G : raw[s] \in Int /\ raw[s] \in Raws
  <2>1. \A s \in G : s \in Stocks /\ raw[s] \in Raws
    BY DEF Available, RawColumns
  <2>2. QED
    BY <2>1, ScoringAssumption
<1>2. \A s \in G : adj[s] \in Int /\ adj[s] = dir * raw[s]
  BY <1>1
<1>3. N = [s \in G |-> [raw |-> raw[s], sector |-> Sector(s), universe |-> Universe(s)]]
  BY Zenon DEF Normalize
<1>4. ASSUME NEW s \in G
      PROVE  /\ P(s) \subseteq G /\ P(s) \subseteq Stocks /\ s \in P(s)
             /\ \A t \in P(s) : P(t) = P(s) /\ t \in G
             /\ IsFiniteSet(P(s)) /\ Column(w, P(s))
             /\ \A t \in P(s) : adj[t] <= adj[s] => w[t] <= w[s]
  <2>1. P(s) \subseteq G /\ s \in P(s) /\ \A t \in P(s) : P(t) = P(s)
    BY DEF PeersOf
  <2>2. P(s) \subseteq Stocks
    BY <1>1, <2>1
  <2>3. IsFiniteSet(P(s))
    BY <2>2, ScoringAssumption, FS_Subset
  <2>4. Column(adj, P(s))
    BY <1>2, <2>1 DEF Column
  <2>5. \A t \in P(s) : w[t] = Winsorized(adj, P(s), t)
    BY <2>1
  <2> HIDE DEF adj, w, P
  <2>6. \A t \in P(s) : w[t] \in Int /\ (adj[t] <= adj[s] => w[t] <= w[s])
    BY <2>1, <2>2, <2>4, <2>5, WinsorizingKeepsOrder
  <2>7. Column(w, P(s))
    BY <2>6 DEF Column
  <2>8. QED
    BY <2>1, <2>2, <2>3, <2>6, <2>7
<1> HIDE DEF adj, w
<1>5. /\ \A s \in G : z[s] = SignedSquare(w, P(s), s)
      /\ \A s \in G : whole[s] = <<w[s], 1>> /\ w[s] \in Int
  <2>1. \A s \in G : w[s] \in Int
    BY <1>4 DEF Column
  <2>2. QED
    BY <2>1
<1> HIDE DEF z, whole, P
<1>6. ASSUME NEW s \in G PROVE z[s] \in Fractions /\ whole[s] \in Fractions
  <2>1. SignedSquare(w, P(s), s) \in Fractions
    BY <1>4, SignedSquaresKeepOrder
  <2>2. QED
    BY <1>5, <2>1 DEF Fractions
<1>7. ASSUME NEW s \in G PROVE Sector(s) \in Int /\ Universe(s) \in Int
  BY <1>1, <1>4, PercentIs
<1>8. ASSUME NEW s \in G, NEW t \in P(s), adj[t] <= adj[s]
      PROVE  Sector(t) <= Sector(s) /\ Universe(t) <= Universe(s)
  <2>1. t \in G /\ P(t) = P(s)
    BY <1>4
  <2>2. w[t] <= w[s]
    BY <1>4, <1>8
  <2>3. ~Less(z[s], z[t])
    <3>1. ~Less(SignedSquare(w, P(s), s), SignedSquare(w, P(s), t))
      BY <1>4, <2>2, SignedSquaresKeepOrder
    <3>2. QED
      BY <1>5, <2>1, <3>1
  <2>4. PercentRank(whole, P(s), t) <= PercentRank(whole, P(s), s)
    <3>1. \A u \in P(s) : whole[u] \in Fractions
      BY <1>4, <1>6
    <3>2. ~Less(whole[s], whole[t])
      <4>1. whole[s] = <<w[s], 1>> /\ whole[t] = <<w[t], 1>> /\ w[s] \in Int /\ w[t] \in Int
        BY <1>5, <2>1
      <4>2. QED
        BY <2>2, <4>1 DEF Less
    <3>3. QED
      BY <1>4, <3>1, <3>2, BetterRanksHigher
  <2>5. PercentRank(z, G, t) <= PercentRank(z, G, s)
    BY <1>1, <1>6, <2>1, <2>3, BetterRanksHigher
  <2>6. QED
    BY <2>1, <2>4, <2>5
<1>9. 2 * SumFunctionOnSet([s \in G |-> N[s].universe], G) = Full * Cardinality(G)
  <2> DEFINE f == [s \in G |-> N[s].universe]
  <2>1. \A s \in G : f[s] = PercentRank(z, G, s)
    BY <1>3
  <2> HIDE DEF f
  <2>2. 2 * SumFunctionOnSet(f, G) = Full * Cardinality(G)
    BY <1>1, <1>6, <2>1, PercentsAverage
  <2>3. QED
    BY <2>2 DEF f
<1>10. N \in [G -> Values]
  BY <1>1, <1>3, <1>7 DEF Values
<1>11. \A s \in G : /\ N[s].raw = raw[s] /\ N[s].sector = Sector(s) /\ N[s].universe = Universe(s)
  BY <1>3
<1>12. ASSUME NEW s \in G, NEW t \in P(s), dir * raw[t] <= dir * raw[s]
       PROVE  N[t].sector <= N[s].sector /\ N[t].universe <= N[s].universe
  <2>1. t \in G
    BY <1>4
  <2>2. adj[t] <= adj[s]
    BY <1>2, <1>12, <2>1
  <2>3. QED
    BY <1>8, <1>11, <2>1, <2>2
<1>13. QED
  BY <1>1, <1>9, <1>10, <1>11, <1>12 DEF P

LEMMA DirectionIs == ASSUME NEW f PROVE Direction(f) \in {-1, 1}
BY DEF Direction

LEMMA SnapshotIs ==
    ASSUME NEW raws \in Tables
    PROVE  /\ Snapshot(raws) \in [Stocks -> Rows]
           /\ \A s \in Stocks, f \in FactorKeys :
                 Snapshot(raws)[s][f] = IF s \in Available(raws[f])
                                        THEN Normalize(raws[f], Direction(f))[s] ELSE Missing
<1>1. ASSUME NEW f \in FactorKeys
      PROVE  /\ Normalize(raws[f], Direction(f)) \in [Available(raws[f]) -> Values]
             /\ DOMAIN Normalize(raws[f], Direction(f)) = Available(raws[f])
  <2>1. raws[f] \in RawColumns /\ Direction(f) \in {-1, 1}
    BY DirectionIs DEF Tables
  <2>2. Normalize(raws[f], Direction(f)) \in [Available(raws[f]) -> Values]
    BY <2>1, NormalizeIs
  <2>3. QED
    BY <2>2
<1>2. Snapshot(raws) = [s \in Stocks |-> [f \in FactorKeys |->
          IF s \in Available(raws[f]) THEN Normalize(raws[f], Direction(f))[s] ELSE Missing]]
  <2>1. Snapshot(raws) = [s \in Stocks |-> [f \in FactorKeys |->
            IF s \in DOMAIN Normalize(raws[f], Direction(f))
            THEN Normalize(raws[f], Direction(f))[s] ELSE Missing]]
    BY DEF Snapshot
  <2>2. QED
    BY <1>1, <2>1
<1>3. ASSUME NEW s \in Stocks, NEW f \in FactorKeys
      PROVE  (IF s \in Available(raws[f]) THEN Normalize(raws[f], Direction(f))[s] ELSE Missing)
                 \in Values \cup {Missing}
  BY <1>1
<1>4. QED
  BY <1>2, <1>3 DEF Rows

(* What a snapshot says of a factor, for rows that hold it. *)
LEMMA SnapshotHasColumn ==
    ASSUME NEW raws \in Tables, NEW f \in FactorKeys, NEW s \in Available(raws[f])
    PROVE  /\ s \in Stocks
           /\ Snapshot(raws)[s][f] = Normalize(raws[f], Direction(f))[s]
           /\ Snapshot(raws)[s][f] \in Values /\ Snapshot(raws)[s][f] # Missing
           /\ Snapshot(raws)[s][f].raw = raws[f][s]
<1>1. raws[f] \in RawColumns /\ Direction(f) \in {-1, 1}
  BY DirectionIs DEF Tables
<1>2. /\ Available(raws[f]) \subseteq Stocks
      /\ Normalize(raws[f], Direction(f)) \in [Available(raws[f]) -> Values]
      /\ Normalize(raws[f], Direction(f))[s].raw = raws[f][s]
  BY <1>1, NormalizeIs
<1>3. s \in Stocks
  BY <1>2
<1>4. Snapshot(raws)[s][f] = Normalize(raws[f], Direction(f))[s]
  BY <1>3, SnapshotIs
<1>5. Normalize(raws[f], Direction(f))[s] \in Values
  BY <1>2
<1>6. QED
  BY <1>2, <1>3, <1>4, <1>5, ScoringAssumption

LEMMA SnapshotBalances ==
    ASSUME NEW raws \in Tables, NEW table,
           \A f \in FactorKeys : \A s \in Available(raws[f]) : table[s][f] = Snapshot(raws)[s][f],
           NEW f \in FactorKeys
    PROVE  /\ 2 * SumFunctionOnSet([s \in Available(raws[f]) |-> table[s][f].universe],
                                   Available(raws[f])) = Full * Cardinality(Available(raws[f]))
           /\ \A s \in Available(raws[f]) : \A t \in PeersOf(raws[f], s) :
                 Direction(f) * table[s][f].raw >= Direction(f) * table[t][f].raw =>
                     /\ table[s][f].sector >= table[t][f].sector
                     /\ table[s][f].universe >= table[t][f].universe
<1> DEFINE G == Available(raws[f])
           dir == Direction(f)
           N == Normalize(raws[f], dir)
<1>1. raws[f] \in RawColumns /\ dir \in {-1, 1}
  BY DirectionIs DEF Tables
<1>2. ASSUME NEW s \in G PROVE table[s][f] = N[s] /\ N[s].raw = raws[f][s] /\ N[s] \in Values
  BY SnapshotHasColumn
<1>3. /\ 2 * SumFunctionOnSet([s \in G |-> N[s].universe], G) = Full * Cardinality(G)
      /\ \A s \in G : \A t \in PeersOf(raws[f], s) :
            dir * raws[f][t] <= dir * raws[f][s] =>
                N[t].sector <= N[s].sector /\ N[t].universe <= N[s].universe
  BY <1>1, NormalizeIs
<1>4. [s \in G |-> table[s][f].universe] = [s \in G |-> N[s].universe]
  BY <1>2
<1>5. ASSUME NEW s \in G, NEW t \in PeersOf(raws[f], s),
             dir * table[s][f].raw >= dir * table[t][f].raw
      PROVE  table[s][f].sector >= table[t][f].sector /\ table[s][f].universe >= table[t][f].universe
  <2>1. t \in G
    BY DEF PeersOf
  <2>2. /\ table[s][f] = N[s] /\ N[s].raw = raws[f][s] /\ N[s] \in Values
        /\ table[t][f] = N[t] /\ N[t].raw = raws[f][t] /\ N[t] \in Values
    BY <1>2, <2>1
  <2>3. PICK a \in Int, b \in Int, c \in Int, d \in Int :
            /\ a = N[s].sector /\ b = N[s].universe
            /\ c = N[t].sector /\ d = N[t].universe
    BY <2>2 DEF Values
  <2>4. raws[f][s] \in Int /\ raws[f][t] \in Int
    BY <2>2, ScoringAssumption DEF Values
  <2>5. dir * raws[f][t] <= dir * raws[f][s]
    BY <1>1, <1>5, <2>2, <2>4
  <2>6. N[t].sector <= N[s].sector /\ N[t].universe <= N[s].universe
    BY <1>3, <2>5
  <2>7. QED
    BY <2>2, <2>3, <2>6
<1>6. QED
  BY <1>3, <1>4, <1>5

-----------------------------------------------------------------------------
(* Scoring: the blend and its explanation *)

LEMMA SmallSet == ASSUME NEW a, NEW b, NEW c
                  PROVE  IsFiniteSet({a, b, c}) /\ Cardinality({a, b, c}) \in 1..3
<1>1. IsFiniteSet({a}) /\ Cardinality({a}) = 1
  BY FS_Singleton
<1>2. /\ IsFiniteSet({a} \cup {b})
      /\ Cardinality({a} \cup {b}) = IF b \in {a} THEN 1 ELSE 2
  BY <1>1, FS_AddElement
<1>3. /\ IsFiniteSet(({a} \cup {b}) \cup {c})
      /\ Cardinality(({a} \cup {b}) \cup {c})
             = IF c \in {a} \cup {b} THEN Cardinality({a} \cup {b})
               ELSE Cardinality({a} \cup {b}) + 1
  BY <1>2, FS_AddElement
<1>4. {a, b, c} = ({a} \cup {b}) \cup {c}
  OBVIOUS
<1>5. QED
  BY <1>2, <1>3, <1>4

LEMMA CategoriesAreSmall ==
    /\ IsFiniteSet(Categories)
    /\ \A c \in Categories : /\ IsFiniteSet(c) /\ Cardinality(c) <= 3
                             /\ WeightOf(c) \in {1, 2, 4}
<1>1. IsFiniteSet(Categories)
  <2>1. IsFiniteSet({Fundamental, Momentum, Quality}) /\ IsFiniteSet({Sentiment, Risk, Risk})
    BY SmallSet
  <2>2. Categories = {Fundamental, Momentum, Quality} \cup {Sentiment, Risk, Risk}
    BY DEF Categories
  <2>3. QED
    BY <2>1, <2>2, FS_Union
<1>2. ASSUME NEW c \in Categories PROVE IsFiniteSet(c) /\ Cardinality(c) <= 3
  <2>1. PICK x, y, z : c = {x, y, z}
    <3>1. /\ Fundamental = {"pe", "pb", "pb"}
          /\ Momentum = {"ret_3m", "ret_6m", "ret_12m"}
          /\ Quality = {"roe", "roce", "debt_equity"}
          /\ Sentiment = {"sentiment", "sentiment", "sentiment"}
          /\ Risk = {"beta", "vol_30d", "vol_30d"}
      BY DEF Fundamental, Momentum, Quality, Sentiment, Risk
    <3>2. c \in {Fundamental, Momentum, Quality, Sentiment, Risk}
      BY DEF Categories
    <3>3. QED
      BY <3>1, <3>2
  <2>2. IsFiniteSet({x, y, z}) /\ Cardinality({x, y, z}) \in 1..3
    BY SmallSet
  <2>3. QED
    BY <2>1, <2>2
<1>3. \A c \in Categories : WeightOf(c) \in {1, 2, 4}
  BY DEF WeightOf
<1>4. QED
  BY <1>1, <1>2, <1>3

LEMMA CategoryIs ==
    ASSUME NEW f \in UNION Categories
    PROVE  /\ CategoryOf(f) \in Categories /\ f \in CategoryOf(f)
           /\ \A c \in Categories : f \in c => c = CategoryOf(f)
<1>1. \E c \in Categories : f \in c
  OBVIOUS
<1>2. CategoryOf(f) \in Categories /\ f \in CategoryOf(f)
  BY <1>1 DEF CategoryOf
<1>3. \A c, d \in Categories : f \in c /\ f \in d => c = d
  BY DEF Categories, Fundamental, Momentum, Quality, Sentiment, Risk
<1>4. QED
  BY <1>2, <1>3

LEMMA FactorsAreKnown == FactorKeys \subseteq UNION Categories /\ IsFiniteSet(FactorKeys)
<1>1. \A i \in DOMAIN Factors : Factors[i] \in UNION Categories
  BY ScoringAssumption
<1>2. FactorKeys \subseteq UNION Categories
  BY <1>1 DEF FactorKeys
<1>3. IsFiniteSet(DOMAIN Factors)
  <2>1. DOMAIN Factors = 1..Len(Factors) /\ Len(Factors) \in Nat
    BY ScoringAssumption
  <2>2. QED
    BY <2>1, FS_Interval
<1>4. IsFiniteSet({Factors[i] : i \in DOMAIN Factors})
  BY <1>3, ImageIsFinite
<1>5. QED
  BY <1>2, <1>4 DEF FactorKeys

(* A category that is scored has one, two or three factors. *)
LEMMA ScoredIs ==
    ASSUME NEW values \in Rows
    PROVE  /\ Scored(values) \subseteq FactorKeys /\ IsFiniteSet(Scored(values))
           /\ \A f \in Scored(values) : values[f] \in Values /\ values[f].universe \in Int
           /\ Blended(values) \subseteq Categories /\ IsFiniteSet(Blended(values))
           /\ \A f \in Scored(values) : CategoryOf(f) \in Blended(values)
           /\ \A c \in Blended(values) :
                 /\ ScoredIn(values, c) = {f \in Scored(values) : CategoryOf(f) = c}
                 /\ IsFiniteSet(ScoredIn(values, c))
                 /\ Cardinality(ScoredIn(values, c)) \in 1..3
                 /\ 6 \div Cardinality(ScoredIn(values, c)) \in Nat
                 /\ (6 \div Cardinality(ScoredIn(values, c))) * Cardinality(ScoredIn(values, c)) = 6
<1>1. Scored(values) \subseteq FactorKeys
  BY DEF Scored
<1>2. IsFiniteSet(Scored(values))
  BY <1>1, FactorsAreKnown, FS_Subset
<1>3. \A f \in Scored(values) : values[f] \in Values /\ values[f].universe \in Int
  BY DEF Scored, Rows, Values
<1>4. Blended(values) \subseteq Categories
  BY DEF Blended
<1>5. IsFiniteSet(Blended(values))
  BY <1>4, CategoriesAreSmall, FS_Subset
<1>6. ASSUME NEW f \in Scored(values)
      PROVE  /\ CategoryOf(f) \in Categories /\ f \in CategoryOf(f)
             /\ \A c \in Categories : f \in c => c = CategoryOf(f)
  BY <1>1, CategoryIs, FactorsAreKnown
<1>7. \A f \in Scored(values) : CategoryOf(f) \in Blended(values)
  BY <1>6 DEF Blended, ScoredIn
<1>8. ASSUME NEW c \in Blended(values)
      PROVE  /\ ScoredIn(values, c) = {f \in Scored(values) : CategoryOf(f) = c}
             /\ IsFiniteSet(ScoredIn(values, c))
             /\ Cardinality(ScoredIn(values, c)) \in 1..3
             /\ 6 \div Cardinality(ScoredIn(values, c)) \in Nat
             /\ (6 \div Cardinality(ScoredIn(values, c))) * Cardinality(ScoredIn(values, c)) = 6
  <2>1. c \in Categories /\ ScoredIn(values, c) # {} /\ ScoredIn(values, c) \subseteq c
    BY DEF Blended, ScoredIn
  <2>2. ScoredIn(values, c) = {f \in Scored(values) : CategoryOf(f) = c}
    BY <1>6, <2>1 DEF ScoredIn
  <2>3. /\ IsFiniteSet(c) /\ Cardinality(c) <= 3
    BY <2>1, CategoriesAreSmall
  <2>4. IsFiniteSet(ScoredIn(values, c)) /\ Cardinality(ScoredIn(values, c)) <= Cardinality(c)
    BY <2>1, <2>3, FS_Subset
  <2>5. /\ Cardinality(ScoredIn(values, c)) \in Nat /\ Cardinality(c) \in Nat
        /\ Cardinality(ScoredIn(values, c)) # 0
    BY <2>1, <2>3, <2>4, FS_CardinalityType, FS_EmptySet
  <2>6. PICK k \in 1..3 : k = Cardinality(ScoredIn(values, c))
    BY <2>3, <2>4, <2>5
  <2>7. 6 \div k \in Nat /\ (6 \div k) * k = 6
    <3>1. 6 \div 1 = 6 /\ 6 \div 2 = 3 /\ 6 \div 3 = 2
      OBVIOUS
    <3>2. k = 1 \/ k = 2 \/ k = 3
      OBVIOUS
    <3>3. QED
      BY <3>1, <3>2
  <2>8. QED
    BY <2>2, <2>4, <2>6, <2>7
<1>9. QED
  BY <1>1, <1>2, <1>3, <1>4, <1>5, <1>7, <1>8

(* The parts of a composite. *)
Blend(values) == [c \in Blended(values) |-> WeightOf(c) * SixMeans(values, c)]

LEMMA SixMeansAre ==
    ASSUME NEW values \in Rows, NEW c \in Blended(values)
    PROVE  /\ SumFunctionOnSet(Percentiles(values), ScoredIn(values, c)) \in Int
           /\ SixMeans(values, c) \in Int /\ Blend(values)[c] \in Int
           /\ WeightOf(c) \in {1, 2, 4}
           /\ Column(Percentiles(values), ScoredIn(values, c))
<1>1. /\ IsFiniteSet(ScoredIn(values, c))
      /\ 6 \div Cardinality(ScoredIn(values, c)) \in Nat
      /\ c \in Categories
  BY ScoredIs
<1>2. ScoredIn(values, c) \subseteq Scored(values)
  BY DEF ScoredIn
<1>3. Column(Percentiles(values), ScoredIn(values, c))
  BY <1>2, ScoredIs DEF Column, Percentiles
<1>4. SumFunctionOnSet(Percentiles(values), ScoredIn(values, c)) \in Int
  BY <1>1, <1>3, SumIsInt
<1>5. WeightOf(c) \in {1, 2, 4}
  BY <1>1, CategoriesAreSmall
<1>6. SixMeans(values, c) \in Int
  BY <1>1, <1>4 DEF SixMeans
<1>7. QED
  BY <1>3, <1>4, <1>5, <1>6 DEF Blend

LEMMA WeightsAddUp ==
    ASSUME NEW values \in Rows
    PROVE  /\ TotalWeight(values) \in Nat
           /\ Scored(values) # {} => TotalWeight(values) > 0
           /\ Column(Weights, Blended(values))
<1> DEFINE B == Blended(values)
<1>1. B \subseteq Categories /\ IsFiniteSet(B)
  BY ScoredIs
<1>2. \A c \in B : Weights[c] \in Nat /\ Weights[c] >= 1
  BY <1>1, CategoriesAreSmall DEF Weights
<1>3. SumFunctionOnSet(Weights, B) \in Nat
  BY <1>1, <1>2, SumIsNat
<1>4. ASSUME Scored(values) # {} PROVE SumFunctionOnSet(Weights, B) > 0
  <2>1. PICK f \in Scored(values) : TRUE
    BY <1>4
  <2>2. CategoryOf(f) \in B
    BY ScoredIs
  <2>3. PICK c \in B : TRUE
    BY <2>2
  <2> HIDE DEF B
  <2>4. SumFunctionOnSet(Weights, {c}) <= SumFunctionOnSet(Weights, B)
    BY <1>1, <1>2, <2>3, SumOfPart
  <2>5. SumFunctionOnSet(Weights, {c}) = Weights[c] * Cardinality({c})
    <3>1. IsFiniteSet({c}) /\ \A d \in {c} : Weights[d] = Weights[c]
      BY FS_Singleton
    <3>2. Weights[c] \in Int
      BY <1>2
    <3>3. QED
      BY <3>1, <3>2, SumOfConstant
  <2>6. Cardinality({c}) = 1
    BY FS_Singleton
  <2>7. QED
    BY <1>2, <1>3, <2>4, <2>5, <2>6
<1>5. QED
  BY <1>2, <1>3, <1>4 DEF TotalWeight, Column

LEMMA CompositeIs ==
    ASSUME NEW values \in Rows
    PROVE  /\ Composite(values)
                  = <<SumFunctionOnSet(Blend(values), Blended(values)), 6 * TotalWeight(values)>>
           /\ Column(Blend(values), Blended(values))
           /\ SumFunctionOnSet(Blend(values), Blended(values)) \in Int
           /\ Scored(values) # {} => Composite(values) \in Fractions
<1>1. Composite(values)
          = <<SumFunctionOnSet(Blend(values), Blended(values)), 6 * TotalWeight(values)>>
  BY Zenon DEF Composite, Blend
<1>2. Column(Blend(values), Blended(values))
  BY SixMeansAre DEF Column
<1>3. SumFunctionOnSet(Blend(values), Blended(values)) \in Int
  BY <1>2, ScoredIs, SumIsInt
<1>4. QED
  BY <1>1, <1>2, <1>3, WeightsAddUp DEF Fractions

(* The contributions add up to the composite. *)
LEMMA ContributionsExplain ==
    ASSUME NEW values \in Rows, Scored(values) # {}
    PROVE  SumOfContributions(values) = Composite(values)
<1> DEFINE S == Scored(values)
           B == Blended(values)
           each == [f \in S |-> Contribution(values, f)]
           of == Blend(values)
           class == [f \in S |-> CategoryOf(f)]
<1>1. IsFiniteSet(S) /\ IsFiniteSet(B)
  BY ScoredIs
<1>2. {CategoryOf(f) : f \in S} = B
  <2>1. \A f \in S : CategoryOf(f) \in B
    BY ScoredIs
  <2>2. ASSUME NEW c \in B PROVE \E f \in S : c = CategoryOf(f)
    <3>1. ScoredIn(values, c) # {} /\ ScoredIn(values, c) = {f \in S : CategoryOf(f) = c}
      BY ScoredIs DEF Blended
    <3>2. QED
      BY <3>1
  <2>3. QED
    BY <2>1, <2>2
<1>3. ASSUME NEW c \in B
      PROVE  /\ \A f \in ScoredIn(values, c) :
                   each[f] = (WeightOf(c) * (6 \div Cardinality(ScoredIn(values, c))))
                                 * Percentiles(values)[f]
             /\ of[c] = SumFunctionOnSet(each, ScoredIn(values, c))
             /\ Column(each, ScoredIn(values, c))
  <2>1. /\ IsFiniteSet(ScoredIn(values, c))
        /\ 6 \div Cardinality(ScoredIn(values, c)) \in Nat
        /\ ScoredIn(values, c) = {f \in S : CategoryOf(f) = c}
    BY ScoredIs
  <2>2. /\ SumFunctionOnSet(Percentiles(values), ScoredIn(values, c)) \in Int
        /\ WeightOf(c) \in {1, 2, 4} /\ Column(Percentiles(values), ScoredIn(values, c))
    BY SixMeansAre
  <2>3. PICK k \in Int, w \in Int :
            k = 6 \div Cardinality(ScoredIn(values, c)) /\ w = WeightOf(c)
    <3>1. WeightOf(c) \in Int
      BY <2>2
    <3>2. \A n \in Nat : n \in Int
      OBVIOUS
    <3>3. 6 \div Cardinality(ScoredIn(values, c)) \in Int
      BY <2>1, <3>2
    <3>4. QED
      BY <3>1, <3>3
  <2>4. ASSUME NEW f \in ScoredIn(values, c)
        PROVE  each[f] = (w * k) * Percentiles(values)[f] /\ Percentiles(values)[f] \in Int
    <3>1. f \in S /\ CategoryOf(f) = c
      BY <2>1
    <3>2. each[f] = w * k * values[f].universe
      BY <2>3, <3>1 DEF Contribution
    <3>3. Percentiles(values)[f] = values[f].universe
      BY <3>1 DEF Percentiles
    <3>4. QED
      BY <2>2, <3>2, <3>3 DEF Column
  <2> HIDE DEF each
  <2>5. SumFunctionOnSet(each, ScoredIn(values, c))
            = (w * k) * SumFunctionOnSet(Percentiles(values), ScoredIn(values, c))
    BY <2>1, <2>2, <2>4, SumScales
  <2>6. PICK x \in Int : x = SumFunctionOnSet(Percentiles(values), ScoredIn(values, c))
    BY <2>2
  <2>7. of[c] = w * (k * x)
    BY <2>3, <2>6 DEF Blend, SixMeans
  <2>8. w * (k * x) = (w * k) * x
    OBVIOUS
  <2>9. Column(each, ScoredIn(values, c))
    BY <2>4 DEF Column
  <2>10. QED
    BY <2>3, <2>4, <2>5, <2>6, <2>7, <2>8, <2>9
<1>4. Column(each, S)
  <2>1. ASSUME NEW f \in S PROVE each[f] \in Int
    <3>1. CategoryOf(f) \in B
      BY ScoredIs
    <3>2. f \in ScoredIn(values, CategoryOf(f))
      BY <3>1, ScoredIs
    <3> HIDE DEF each
    <3>3. QED
      BY <1>3, <3>1, <3>2 DEF Column
  <2>2. QED
    BY <2>1 DEF Column
<1>5. \A f \in S : class[f] \in B
  BY ScoredIs
<1>6. \A c \in B : of[c] = SumFunctionOnSet(each, {f \in S : class[f] = c})
  <2>1. ASSUME NEW c \in B PROVE ScoredIn(values, c) = {f \in S : class[f] = c}
    <3>1. ScoredIn(values, c) = {f \in S : CategoryOf(f) = c}
      BY ScoredIs
    <3>2. QED
      BY <3>1
  <2> HIDE DEF each, of, class
  <2>2. QED
    BY <1>3, <2>1
<1>7. SumFunctionOnSet(of, B) = SumFunctionOnSet(each, S)
  <2> DEFINE parts == SumsOfClasses(each, S, class, B)
  <2>0. Column(of, B)
    BY CompositeIs
  <2> HIDE DEF each, of, class, S, B
  <2>1. SumFunctionOnSet(parts, B) = SumFunctionOnSet(each, S)
    BY <1>1, <1>4, <1>5, SumOfClasses
  <2>2. \A c \in B : of[c] = parts[c]
    BY <1>6 DEF SumsOfClasses
  <2> HIDE DEF parts
  <2>3. SumFunctionOnSet(of, B) = SumFunctionOnSet(parts, B)
    BY <1>1, <2>0, <2>2, SumsAreEqual
  <2>4. QED
    BY <2>1, <2>3
<1>8. SumOfContributions(values)
        = <<SumFunctionOnSet(each, S),
            6 * (IF SumFunctionOnSet(Weights, B) = 0 THEN 1 ELSE SumFunctionOnSet(Weights, B))>>
  BY <1>2, Zenon DEF SumOfContributions
<1>9. SumFunctionOnSet(Weights, B) = TotalWeight(values) /\ TotalWeight(values) # 0
  BY WeightsAddUp DEF TotalWeight
<1>10. Composite(values) = <<SumFunctionOnSet(of, B), 6 * TotalWeight(values)>>
  BY CompositeIs
<1>11. QED
  BY <1>7, <1>8, <1>9, <1>10, Zenon

LEMMA HundredthsGrow ==
    ASSUME NEW p \in Fractions, NEW q \in Fractions, ~Less(q, p)
    PROVE  Hundredths(p) \in Int /\ Hundredths(q) \in Int /\ Hundredths(p) <= Hundredths(q)
<1>1. PICK a \in Int, b \in Nat \ {0}, c \in Int, d \in Nat \ {0} : p = <<a, b>> /\ q = <<c, d>>
  BY DEF Fractions
<1>2. PICK F \in Nat \ {0} : F = Full
  BY ScoringAssumption
<1>3. PICK s \in Nat \ {0}, t \in Nat \ {0} : s = F * b /\ t = F * d
  OBVIOUS
<1>4. PICK x \in Int, y \in Int : x = 2 * (10000 * a) + s /\ y = 2 * (10000 * c) + t
  OBVIOUS
<1>5. Hundredths(p) = x \div (2 * s) /\ Hundredths(q) = y \div (2 * t)
  <2>1. /\ p[1] = a /\ p[2] = b /\ q[1] = c /\ q[2] = d
    BY <1>1
  <2>2. /\ Hundredths(p) = (2 * (10000 * p[1]) + Full * p[2]) \div (2 * (Full * p[2]))
        /\ Hundredths(q) = (2 * (10000 * q[1]) + Full * q[2]) \div (2 * (Full * q[2]))
    BY DEF Hundredths, Rounded
  <2>3. Full * p[2] = s /\ Full * q[2] = t
    BY <1>2, <1>3, <2>1
  <2>4. QED
    BY <1>4, <2>1, <2>2, <2>3
<1>6. PICK i \in Int, j \in Int : i = x \div (2 * s) /\ j = y \div (2 * t)
  OBVIOUS
<1>7. (2 * s) * i <= x /\ y < (2 * t) * j + 2 * t
  <2>1. \A u \in Int, m \in Nat \ {0} : m * (u \div m) <= u /\ u < m * (u \div m) + m
    OBVIOUS
  <2>2. 2 * s \in Nat \ {0} /\ 2 * t \in Nat \ {0}
    OBVIOUS
  <2>3. QED
    BY <1>6, <2>1, <2>2
<1>8. a * d <= c * b
  <2>1. PICK k \in Int, l \in Int : k = a * d /\ l = c * b
    OBVIOUS
  <2>2. QED
    BY <1>1, <2>1 DEF Less
<1>9. x * t <= y * s
  <2>1. PICK k \in Int, l \in Int : k = a * d /\ l = c * b
    OBVIOUS
  <2>2. F * k <= F * l
    BY <1>8, <2>1
  <2>3. a * t = F * k /\ c * s = F * l
    BY <1>3, <2>1
  <2>4. a * t <= c * s
    BY <2>2, <2>3
  <2>5. x * t = 20000 * (a * t) + s * t /\ y * s = 20000 * (c * s) + s * t
    BY <1>4
  <2>6. a * t \in Int /\ c * s \in Int /\ s * t \in Int
    OBVIOUS
  <2>7. QED
    BY <2>4, <2>5, <2>6
<1>10. i <= j
  <2>1. ((2 * s) * i) * t <= x * t
    <3>1. PICK k \in Int : k = (2 * s) * i
      OBVIOUS
    <3>2. \A m, n \in Int : m <= n => m * t <= n * t
      OBVIOUS
    <3>3. QED
      BY <1>7, <3>1, <3>2
  <2>2. y * s < ((2 * t) * j + 2 * t) * s
    <3>1. PICK k \in Int : k = (2 * t) * j + 2 * t
      OBVIOUS
    <3>2. \A m, n \in Int : m < n => m * s < n * s
      OBVIOUS
    <3>3. QED
      BY <1>7, <3>1, <3>2
  <2>3. PICK h \in Nat \ {0} : h = 2 * (s * t)
    <3>1. s * t \in Nat \ {0}
      OBVIOUS
    <3>2. QED
      BY <3>1
  <2>4. ((2 * s) * i) * t = h * i /\ ((2 * t) * j + 2 * t) * s = h * (j + 1)
    BY <2>3
  <2>5. x * t \in Int /\ y * s \in Int /\ h * i \in Int /\ h * (j + 1) \in Int
    OBVIOUS
  <2>6. h * i < h * (j + 1)
    BY <1>9, <2>1, <2>2, <2>4, <2>5
  <2>7. \A m, n \in Int : h * m < h * n => m < n
    OBVIOUS
  <2>8. i < j + 1
    BY <2>6, <2>7
  <2>9. QED
    BY <2>8
<1>11. QED
  BY <1>5, <1>6, <1>10

LEMMA BetterBlend ==
    ASSUME NEW values \in Rows, NEW others \in Rows, Scored(others) = Scored(values),
           \A f \in Scored(values) : values[f].universe <= others[f].universe
    PROVE  /\ Blended(others) = Blended(values) /\ TotalWeight(others) = TotalWeight(values)
           /\ \A c \in Blended(values) : ScoredIn(others, c) = ScoredIn(values, c)
           /\ SumFunctionOnSet(Blend(values), Blended(values))
                  <= SumFunctionOnSet(Blend(others), Blended(values))
<1> DEFINE B == Blended(values)
<1>1. \A c : ScoredIn(others, c) = ScoredIn(values, c)
  BY DEF ScoredIn
<1>2. Blended(others) = B
  BY <1>1 DEF Blended
<1>3. TotalWeight(others) = TotalWeight(values)
  BY <1>2 DEF TotalWeight
<1>4. IsFiniteSet(B) /\ Column(Blend(values), B) /\ Column(Blend(others), B)
  BY <1>2, ScoredIs, CompositeIs
<1>5. ASSUME NEW c \in B PROVE Blend(values)[c] <= Blend(others)[c]
  <2> DEFINE T == ScoredIn(values, c)
  <2>1. /\ IsFiniteSet(T) /\ 6 \div Cardinality(T) \in Nat /\ T = ScoredIn(others, c)
    BY <1>1, ScoredIs
  <2>2. /\ SumFunctionOnSet(Percentiles(values), T) \in Int /\ Column(Percentiles(values), T)
        /\ WeightOf(c) \in {1, 2, 4}
    BY SixMeansAre
  <2>3. SumFunctionOnSet(Percentiles(others), T) \in Int /\ Column(Percentiles(others), T)
    BY <1>2, <2>1, SixMeansAre
  <2>4. \A f \in T : Percentiles(values)[f] <= Percentiles(others)[f]
    <3>1. T \subseteq Scored(values)
      BY DEF ScoredIn
    <3>2. \A f \in Scored(values) : /\ Percentiles(values)[f] = values[f].universe
                                    /\ Percentiles(others)[f] = others[f].universe
      BY DEF Percentiles
    <3>3. QED
      BY <3>1, <3>2
  <2>5. PICK k \in Nat, w \in Nat : k = 6 \div Cardinality(T) /\ w = WeightOf(c)
    BY <2>1, <2>2
  <2>6. PICK x \in Int, y \in Int : /\ x = SumFunctionOnSet(Percentiles(values), T)
                                    /\ y = SumFunctionOnSet(Percentiles(others), T)
    BY <2>2, <2>3
  <2> HIDE DEF T
  <2>7. x <= y
    BY <2>1, <2>2, <2>3, <2>4, <2>6, SumAtMost
  <2>8. w * (k * x) <= w * (k * y)
    <3>1. \A n \in Nat, a, b \in Int : a <= b => n * a <= n * b
      OBVIOUS
    <3>2. k * x <= k * y
      BY <2>7, <3>1
    <3>3. k * x \in Int /\ k * y \in Int
      OBVIOUS
    <3>4. QED
      BY <3>1, <3>2, <3>3
  <2>9. Blend(values)[c] = w * (k * x)
    BY <2>5, <2>6, Zenon DEF Blend, SixMeans, T
  <2>10. Blend(others)[c] = w * (k * y)
    <3>1. Blend(others)[c] = WeightOf(c) * ((6 \div Cardinality(ScoredIn(others, c)))
                                 * SumFunctionOnSet(Percentiles(others), ScoredIn(others, c)))
      BY <1>2, Zenon DEF Blend, SixMeans
    <3>2. QED
      BY <2>1, <2>5, <2>6, <3>1
  <2>11. QED
    BY <2>8, <2>9, <2>10
<1>6. SumFunctionOnSet(Blend(values), B) <= SumFunctionOnSet(Blend(others), B)
  <2> HIDE DEF B
  <2>1. QED
    BY <1>4, <1>5, SumAtMost
<1>7. QED
  BY <1>1, <1>2, <1>3, <1>6

LEMMA BetterScoresHigher ==
    ASSUME NEW values \in Rows, NEW others \in Rows, Scored(others) = Scored(values),
           Scored(values) # {},
           \A f \in Scored(values) : values[f].universe <= others[f].universe
    PROVE  /\ ~Less(Composite(others), Composite(values))
           /\ Hundredths(Composite(values)) <= Hundredths(Composite(others))
<1>1. PICK x \in Int : x = SumFunctionOnSet(Blend(values), Blended(values))
  BY CompositeIs
<1>2. PICK y \in Int : y = SumFunctionOnSet(Blend(others), Blended(others))
  BY CompositeIs
<1>3. Blended(others) = Blended(values) /\ TotalWeight(others) = TotalWeight(values) /\ x <= y
  BY <1>1, <1>2, BetterBlend
<1>4. PICK w \in Nat \ {0} : w = 6 * TotalWeight(values)
  BY WeightsAddUp
<1>5. /\ Composite(values) = <<x, w>> /\ Composite(others) = <<y, w>>
  BY <1>1, <1>2, <1>3, <1>4, CompositeIs
<1>6. ~(y * w < x * w)
  <2>1. \A a, b \in Int : a <= b => a * w <= b * w
    OBVIOUS
  <2>2. x * w \in Int /\ y * w \in Int
    OBVIOUS
  <2>3. QED
    BY <1>3, <2>1, <2>2
<1>7. ~Less(Composite(others), Composite(values))
  BY <1>5, <1>6 DEF Less
<1>8. <<x, w>> \in Fractions /\ <<y, w>> \in Fractions
  BY DEF Fractions
<1>9. QED
  BY <1>5, <1>7, <1>8, HundredthsGrow

(* A row whose percentiles are all the same has it for its composite. *)
Flat(values, m) ==
    [f \in FactorKeys |-> IF f \in Scored(values)
                          THEN [raw |-> values[f].raw, sector |-> 0, universe |-> m] ELSE Missing]

LEMMA FlatIs ==
    ASSUME NEW values \in Rows, NEW m \in Int
    PROVE  /\ Flat(values, m) \in Rows /\ Scored(Flat(values, m)) = Scored(values)
           /\ \A f \in Scored(values) : Flat(values, m)[f].universe = m
<1>1. ASSUME NEW f \in FactorKeys
      PROVE  /\ f \in Scored(values) => /\ Flat(values, m)[f] \in Values
                                        /\ Flat(values, m)[f].universe = m
             /\ f \notin Scored(values) => Flat(values, m)[f] = Missing
  <2>1. CASE f \in Scored(values)
    <3>1. values[f].raw \in Raws
      BY <2>1, ScoredIs DEF Values
    <3>2. Flat(values, m)[f] = [raw |-> values[f].raw, sector |-> 0, universe |-> m]
      BY <2>1 DEF Flat
    <3>3. QED
      BY <2>1, <3>1, <3>2 DEF Values
  <2>2. CASE f \notin Scored(values)
    BY <2>2 DEF Flat
  <2>3. QED
    BY <2>1, <2>2
<1>2. Flat(values, m) \in Rows
  <2>1. Flat(values, m) = [f \in FactorKeys |-> Flat(values, m)[f]]
    BY DEF Flat
  <2>2. \A f \in FactorKeys : Flat(values, m)[f] \in Values \cup {Missing}
    BY <1>1
  <2>3. QED
    BY <2>1, <2>2 DEF Rows
<1>3. Missing \notin Values /\ Scored(values) \subseteq FactorKeys
  BY ScoringAssumption DEF Scored
<1>4. Scored(Flat(values, m)) = Scored(values)
  <2>1. \A f \in FactorKeys : Flat(values, m)[f] # Missing <=> f \in Scored(values)
    BY <1>1, <1>3
  <2>2. Scored(Flat(values, m)) = {f \in FactorKeys : Flat(values, m)[f] # Missing}
    BY DEF Scored
  <2>3. QED
    BY <1>3, <2>1, <2>2
<1>5. QED
  BY <1>1, <1>2, <1>3, <1>4

LEMMA FlatComposite ==
    ASSUME NEW values \in Rows, NEW m \in Int, Scored(values) # {},
           \A f \in Scored(values) : values[f].universe = m
    PROVE  Same(Composite(values), <<m, 1>>) /\ Composite(values) \in Fractions
<1> DEFINE B == Blended(values)
<1>1. ASSUME NEW c \in B PROVE Blend(values)[c] = (6 * m) * Weights[c]
  <2> DEFINE T == ScoredIn(values, c)
  <2>1. /\ c \in Categories /\ IsFiniteSet(T) /\ Cardinality(T) \in 1..3
        /\ 6 \div Cardinality(T) \in Nat /\ (6 \div Cardinality(T)) * Cardinality(T) = 6
    BY ScoredIs
  <2>2. \A f \in T : Percentiles(values)[f] = m
    BY DEF ScoredIn, Percentiles
  <2>3. SumFunctionOnSet(Percentiles(values), T) = m * Cardinality(T)
    <3> HIDE DEF T
    <3>1. QED
      BY <2>1, <2>2, SumOfConstant
  <2>4. PICK k \in Nat, n \in Nat, w \in Nat :
            k = 6 \div Cardinality(T) /\ n = Cardinality(T) /\ w = WeightOf(c)
    BY <2>1, SixMeansAre
  <2>5. Blend(values)[c] = w * (k * (m * n))
    <3>1. Blend(values)[c] = WeightOf(c) * ((6 \div Cardinality(T))
                                 * SumFunctionOnSet(Percentiles(values), T))
      BY Zenon DEF Blend, SixMeans
    <3>2. QED
      BY <2>3, <2>4, <3>1
  <2>6. k * n = 6
    BY <2>1, <2>4
  <2>7. w * (k * (m * n)) = (k * n) * (m * w)
    OBVIOUS
  <2>8. Weights[c] = w
    BY <2>1, <2>4 DEF Weights
  <2>9. QED
    BY <2>5, <2>6, <2>7, <2>8
<1>2. SumFunctionOnSet(Blend(values), B) = (6 * m) * SumFunctionOnSet(Weights, B)
  <2>1. IsFiniteSet(B) /\ Column(Weights, B)
    BY ScoredIs, WeightsAddUp
  <2> HIDE DEF B
  <2>2. QED
    BY <1>1, <2>1, SumScales
<1>3. PICK w \in Nat \ {0} : w = TotalWeight(values) /\ w = SumFunctionOnSet(Weights, B)
  BY WeightsAddUp DEF TotalWeight
<1>4. Composite(values) = <<(6 * m) * w, 6 * w>>
  BY <1>2, <1>3, CompositeIs
<1>5. (6 * m) * w * 1 = m * (6 * w) /\ (6 * m) * w \in Int /\ 6 * w \in Nat \ {0}
  OBVIOUS
<1>6. QED
  BY <1>4, <1>5 DEF Same, Fractions

LEMMA SameHundredths ==
    ASSUME NEW p \in Fractions, NEW q \in Fractions, Same(p, q)
    PROVE  Hundredths(p) = Hundredths(q)
<1>1. ~Less(p, q) /\ ~Less(q, p)
  BY FractionsCompare
<1>2. Hundredths(p) <= Hundredths(q) /\ Hundredths(q) <= Hundredths(p)
  BY <1>1, HundredthsGrow
<1>3. Hundredths(p) \in Int /\ Hundredths(q) \in Int
  BY <1>1, HundredthsGrow
<1>4. QED
  BY <1>2, <1>3

LEMMA CompositeIsBetween ==
    ASSUME NEW values \in Rows, Scored(values) # {}
    PROVE  /\ \E f \in Scored(values) :
                 Hundredths(Composite(values)) >= Hundredths(<<values[f].universe, 1>>)
           /\ \E f \in Scored(values) :
                 Hundredths(Composite(values)) <= Hundredths(<<values[f].universe, 1>>)
<1> DEFINE S == Scored(values)
           img == {values[f].universe : f \in S}
<1>1. IsFiniteSet(S) /\ \A f \in S : values[f].universe \in Int
  BY ScoredIs
<1>2. /\ \E f \in S : \A g \in S : values[f].universe <= values[g].universe
      /\ \E f \in S : \A g \in S : values[g].universe <= values[f].universe
  <2> DEFINE u == [f \in S |-> values[f].universe]
  <2>1. IsFiniteSet({u[f] : f \in S})
    BY <1>1, ImageIsFinite
  <2>2. {u[f] : f \in S} \subseteq Int /\ {u[f] : f \in S} # {}
    BY <1>1
  <2>3. /\ \E x \in {u[f] : f \in S} : \A y \in {u[f] : f \in S} : x <= y
        /\ \E x \in {u[f] : f \in S} : \A y \in {u[f] : f \in S} : y <= x
    <3> DEFINE I == {u[f] : f \in S}
    <3> HIDE DEF I
    <3>1. QED
      BY <2>1, <2>2, ExtremesExist DEF I
  <2>4. \A f \in S : u[f] = values[f].universe
    OBVIOUS
  <2> HIDE DEF u
  <2>5. QED
    BY <2>3, <2>4
<1>3. Hundredths(Composite(values)) \in Int
  <2>1. Composite(values) \in Fractions
    BY CompositeIs
  <2>2. ~Less(Composite(values), Composite(values))
    BY <2>1, FractionsCompare
  <2>3. QED
    BY <2>1, <2>2, HundredthsGrow
<1>4. ASSUME NEW m \in Int
      PROVE  /\ Flat(values, m) \in Rows /\ Scored(Flat(values, m)) = S
             /\ \A f \in S : Flat(values, m)[f].universe = m
             /\ Hundredths(Composite(Flat(values, m))) = Hundredths(<<m, 1>>)
             /\ Hundredths(<<m, 1>>) \in Int
  <2>1. /\ Flat(values, m) \in Rows /\ Scored(Flat(values, m)) = S
        /\ \A f \in S : Flat(values, m)[f].universe = m
    BY FlatIs
  <2>2. <<m, 1>> \in Fractions
    BY DEF Fractions
  <2>3. Same(Composite(Flat(values, m)), <<m, 1>>) /\ Composite(Flat(values, m)) \in Fractions
    BY <2>1, FlatComposite
  <2>4. Hundredths(Composite(Flat(values, m))) = Hundredths(<<m, 1>>)
    BY <2>2, <2>3, SameHundredths
  <2>5. Hundredths(<<m, 1>>) \in Int
    <3>1. ~Less(<<m, 1>>, <<m, 1>>)
      BY <2>2, FractionsCompare
    <3>2. QED
      BY <2>2, <3>1, HundredthsGrow
  <2>6. QED
    BY <2>1, <2>4, <2>5
<1>5. \E f \in S : Hundredths(Composite(values)) >= Hundredths(<<values[f].universe, 1>>)
  <2>1. PICK f \in S : \A g \in S : values[f].universe <= values[g].universe
    BY <1>2
  <2>2. PICK m \in Int : m = values[f].universe
    BY <1>1
  <2>3. \A g \in S : Flat(values, m)[g].universe <= values[g].universe
    BY <1>4, <2>1, <2>2
  <2>4. Hundredths(Composite(Flat(values, m))) <= Hundredths(Composite(values))
    BY <1>4, <2>3, BetterScoresHigher
  <2>5. QED
    BY <1>3, <1>4, <2>2, <2>4
<1>6. \E f \in S : Hundredths(Composite(values)) <= Hundredths(<<values[f].universe, 1>>)
  <2>1. PICK f \in S : \A g \in S : values[g].universe <= values[f].universe
    BY <1>2
  <2>2. PICK m \in Int : m = values[f].universe
    BY <1>1
  <2>3. \A g \in S : values[g].universe <= Flat(values, m)[g].universe
    BY <1>4, <2>1, <2>2
  <2>4. Hundredths(Composite(values)) <= Hundredths(Composite(Flat(values, m)))
    BY <1>4, <2>3, BetterScoresHigher
  <2>5. QED
    BY <1>4, <2>2, <2>4
<1>7. QED
  BY <1>5, <1>6

-----------------------------------------------------------------------------
(* Scoring: the invariant *)

Readings == {columns \in Seq(RawColumns) : Len(columns) <= Len(Factors)}

(* A row nothing was found for, or of the snapshot of the inputs.            *)
Current(p, s) == p = NoFactors \/ p = Snapshot(inputs)[s]

ScoringIsTyped ==
    /\ inputs \in Tables /\ lastRead \in Tables /\ revisions \in Nat
    /\ factorJob \in Readings /\ rows \in [Stocks -> Rows]
    /\ scoreJob # NothingRead => scoreJob \in [Stocks -> Rows]
    /\ DOMAIN scores = Stocks

RowsAreLastRead ==
    \A f \in FactorKeys : \A s \in Available(lastRead[f]) :
        rows[s][f] = Snapshot(lastRead)[s][f]

ScoresAreMade ==
    \A s \in Stocks : scores[s] # Missing =>
        /\ scores[s].from \in Rows /\ Scored(scores[s].from) # {}
        /\ scores[s].composite = Hundredths(Composite(scores[s].from))

(* As long as the inputs are the first ones, all there is comes from them.   *)
FirstIsCurrent ==
    revisions = 0 =>
        /\ \A i \in DOMAIN factorJob : factorJob[i] = inputs[Factors[i]]
        /\ \A s \in Stocks : Current(rows[s], s)
        /\ scoreJob # NothingRead => \A s \in Stocks : Current(scoreJob[s], s)
        /\ \A s \in Stocks : scores[s] # Missing => Current(scores[s].from, s)

ScoringInv == ScoringIsTyped /\ RowsAreLastRead /\ ScoresAreMade /\ FirstIsCurrent

LEMMA NoFactorsIsRow == NoFactors \in Rows /\ Scored(NoFactors) = {}
BY DEF NoFactors, Rows, Scored

LEMMA ScoringInvInit == ScoringInit => ScoringInv
<1> SUFFICES ASSUME ScoringInit PROVE ScoringInv
  OBVIOUS
<1>1. inputs \in Tables
  BY ScoringAssumption DEF ScoringInit, Tables, RawColumns
<1>2. lastRead \in Tables /\ \A f \in FactorKeys : Available(lastRead[f]) = {}
  BY DEF ScoringInit, Tables, RawColumns, Available
<1>3. factorJob \in Readings /\ DOMAIN factorJob = {}
  <2>1. factorJob = <<>>
    BY DEF ScoringInit, NothingRead
  <2>2. <<>> \in Seq(RawColumns) /\ Len(<<>>) = 0
    OBVIOUS
  <2>3. Len(Factors) \in Nat
    BY ScoringAssumption
  <2>4. QED
    BY <2>1, <2>2, <2>3 DEF Readings
<1>4. rows \in [Stocks -> Rows] /\ \A s \in Stocks : rows[s] = NoFactors
  BY NoFactorsIsRow DEF ScoringInit
<1>5. revisions \in Nat /\ scoreJob = NothingRead /\ DOMAIN scores = Stocks
      /\ \A s \in Stocks : scores[s] = Missing
  BY DEF ScoringInit
<1>6. QED
  BY <1>1, <1>2, <1>3, <1>4, <1>5
     DEF ScoringInv, ScoringIsTyped, RowsAreLastRead, ScoresAreMade, FirstIsCurrent, Current

LEMMA ReviseKeeps ==
    ASSUME ScoringInv, NEW f \in FactorKeys, NEW s \in Stocks, NEW v \in Raws \cup {Missing},
           Revise(f, s, v)
    PROVE  ScoringInv'
<1>1. inputs' \in Tables
  BY DEF Revise, ScoringInv, ScoringIsTyped, Tables, RawColumns
<1>2. revisions' \in Nat /\ revisions' # 0
  BY DEF Revise, ScoringInv, ScoringIsTyped
<1>3. UNCHANGED <<factorJob, rows, scoreJob, scores, lastRead>>
  BY DEF Revise
<1>4. QED
  BY <1>1, <1>2, <1>3
     DEF ScoringInv, ScoringIsTyped, RowsAreLastRead, ScoresAreMade, FirstIsCurrent

LEMMA ComputeFactorKeeps == ASSUME ScoringInv, ComputeFactor PROVE ScoringInv'
<1> DEFINE n == Len(factorJob)
           column == inputs[Factors[n + 1]]
<1>1. /\ n < Len(Factors) /\ factorJob' = Append(factorJob, column)
      /\ UNCHANGED <<inputs, revisions, rows, scoreJob, scores, lastRead>>
  BY DEF ComputeFactor
<1>2. factorJob \in Seq(RawColumns) /\ n \in Nat /\ Len(Factors) \in Nat
  BY ScoringAssumption DEF ScoringInv, ScoringIsTyped, Readings
<1>3. column \in RawColumns
  <2>1. n + 1 \in DOMAIN Factors
    BY <1>1, <1>2, ScoringAssumption
  <2>2. Factors[n + 1] \in FactorKeys
    BY <2>1 DEF FactorKeys
  <2>3. QED
    BY <2>2 DEF ScoringInv, ScoringIsTyped, Tables
<1> HIDE DEF column
<1>4. /\ Append(factorJob, column) \in Seq(RawColumns)
      /\ Len(Append(factorJob, column)) = n + 1
      /\ \A i \in DOMAIN Append(factorJob, column) :
            Append(factorJob, column)[i] = IF i = n + 1 THEN column ELSE factorJob[i]
      /\ DOMAIN Append(factorJob, column) = 1..(n + 1) /\ DOMAIN factorJob = 1..n
  BY <1>2, <1>3
<1>5. factorJob' \in Readings
  BY <1>1, <1>2, <1>4 DEF Readings
<1>6. ASSUME revisions = 0, NEW i \in DOMAIN factorJob' PROVE factorJob'[i] = inputs[Factors[i]]
  <2>1. CASE i = n + 1
    BY <1>1, <1>4, <2>1 DEF column
  <2>2. CASE i # n + 1
    <3>1. i \in DOMAIN factorJob
      BY <1>1, <1>2, <1>4, <2>2
    <3>2. factorJob[i] = inputs[Factors[i]]
      BY <1>6, <3>1 DEF ScoringInv, FirstIsCurrent
    <3>3. QED
      BY <1>1, <1>4, <2>2, <3>2
  <2>3. QED
    BY <2>1, <2>2
<1>7. QED
  BY <1>1, <1>5, <1>6
     DEF ScoringInv, ScoringIsTyped, RowsAreLastRead, ScoresAreMade, FirstIsCurrent, Current

LEMMA UpsertFactorValuesKeeps == ASSUME ScoringInv, UpsertFactorValues PROVE ScoringInv'
<1> DEFINE at(f) == CHOOSE i \in DOMAIN Factors : Factors[i] = f
           raws == [f \in FactorKeys |-> factorJob[at(f)]]
           found == Snapshot(raws)
<1>1. /\ Len(factorJob) = Len(Factors)
      /\ rows' = WithFound(found) /\ lastRead' = raws
      /\ factorJob' = <<>>
      /\ UNCHANGED <<inputs, revisions, scoreJob, scores>>
  BY DEF UpsertFactorValues, NothingRead
<1>2. ASSUME NEW f \in FactorKeys
      PROVE  /\ at(f) \in DOMAIN factorJob /\ Factors[at(f)] = f
             /\ raws[f] = factorJob[at(f)] /\ raws[f] \in RawColumns
  <2>1. \E i \in DOMAIN Factors : Factors[i] = f
    BY DEF FactorKeys
  <2>2. at(f) \in DOMAIN Factors /\ Factors[at(f)] = f
    BY <2>1
  <2>3. factorJob \in Seq(RawColumns) /\ Factors \in Seq(UNION Categories)
    BY ScoringAssumption DEF ScoringInv, ScoringIsTyped, Readings
  <2>4. DOMAIN factorJob = DOMAIN Factors
    BY <1>1, <2>3
  <2> HIDE DEF at
  <2>5. QED
    BY <2>2, <2>3, <2>4
<1>3. raws \in Tables
  BY <1>2 DEF Tables
<1> HIDE DEF at, raws
<1>4. found \in [Stocks -> Rows]
  BY <1>3, SnapshotIs
<1>5. ASSUME NEW s \in Stocks, NEW f \in FactorKeys
      PROVE  rows'[s][f] = IF found[s][f] # Missing THEN found[s][f] ELSE rows[s][f]
  BY <1>1 DEF WithFound
<1>6. rows' \in [Stocks -> Rows]
  <2>1. rows \in [Stocks -> Rows]
    BY DEF ScoringInv, ScoringIsTyped
  <2>2. ASSUME NEW s \in Stocks, NEW f \in FactorKeys
        PROVE  (IF found[s][f] # Missing THEN found[s][f] ELSE rows[s][f]) \in Values \cup {Missing}
    BY <1>4, <2>1 DEF Rows
  <2> HIDE DEF found
  <2>3. QED
    BY <1>1, <2>2 DEF WithFound, Rows
<1>7. RowsAreLastRead'
  <2>1. ASSUME NEW f \in FactorKeys, NEW s \in Available(raws[f])
        PROVE  rows'[s][f] = found[s][f]
    <3>1. s \in Stocks /\ found[s][f] # Missing
      BY <1>3, SnapshotHasColumn
    <3>2. QED
      BY <1>5, <3>1
  <2>2. QED
    BY <1>1, <2>1 DEF RowsAreLastRead, found
<1>8. factorJob' \in Readings /\ DOMAIN factorJob' = {}
  <2>1. <<>> \in Seq(RawColumns) /\ Len(<<>>) = 0
    OBVIOUS
  <2>2. Len(Factors) \in Nat
    BY ScoringAssumption
  <2>3. QED
    BY <1>1, <2>1, <2>2 DEF Readings
<1>9. ASSUME revisions = 0, NEW s \in Stocks PROVE rows'[s] = Snapshot(inputs)[s]
  <2>1. raws = inputs
    <3>1. ASSUME NEW f \in FactorKeys PROVE raws[f] = inputs[f]
      <4>1. \A i \in DOMAIN factorJob : factorJob[i] = inputs[Factors[i]]
        BY <1>9 DEF ScoringInv, FirstIsCurrent
      <4>2. QED
        BY <1>2, <4>1
    <3>2. raws \in [FactorKeys -> RawColumns] /\ inputs \in [FactorKeys -> RawColumns]
      BY <1>3 DEF ScoringInv, ScoringIsTyped, Tables
    <3>3. QED
      BY <3>1, <3>2
  <2>2. found = Snapshot(inputs)
    BY <2>1
  <2>3. rows[s] = NoFactors \/ rows[s] = found[s]
    BY <1>9, <2>2 DEF ScoringInv, FirstIsCurrent, Current
  <2> HIDE DEF found
  <2>4. ASSUME NEW f \in FactorKeys PROVE rows'[s][f] = found[s][f]
    BY <1>5, <2>3 DEF NoFactors
  <2>5. rows'[s] \in Rows /\ found[s] \in Rows
    BY <1>4, <1>6
  <2>6. rows'[s] = found[s]
    BY <2>4, <2>5 DEF Rows
  <2>7. QED
    BY <2>2, <2>6
<1>10. QED
  BY <1>1, <1>3, <1>6, <1>7, <1>8, <1>9
     DEF ScoringInv, ScoringIsTyped, ScoresAreMade, FirstIsCurrent, Current

LEMMA FactorValuesForKeeps == ASSUME ScoringInv, FactorValuesFor PROVE ScoringInv'
BY DEF FactorValuesFor, ScoringInv, ScoringIsTyped, RowsAreLastRead, ScoresAreMade,
       FirstIsCurrent, Current

LEMMA UpsertScoresKeeps == ASSUME ScoringInv, UpsertScores PROVE ScoringInv'
<1>1. /\ scoreJob # NothingRead /\ scoreJob' = NothingRead
      /\ UNCHANGED <<inputs, revisions, factorJob, rows, lastRead>>
      /\ DOMAIN scores' = Stocks
  BY DEF UpsertScores
<1>2. ASSUME NEW s \in Stocks
      PROVE  \/ scores'[s] = scores[s]
             \/ /\ Scored(scoreJob[s]) # {} /\ scores'[s].from = scoreJob[s]
                /\ scores'[s].composite = Hundredths(Composite(scoreJob[s]))
  BY DEF UpsertScores
<1>3. \A s \in Stocks : scoreJob[s] \in Rows
  BY <1>1 DEF ScoringInv, ScoringIsTyped
<1>4. ScoresAreMade'
  <2>1. ASSUME NEW s \in Stocks, scores'[s] # Missing
        PROVE  /\ scores'[s].from \in Rows /\ Scored(scores'[s].from) # {}
               /\ scores'[s].composite = Hundredths(Composite(scores'[s].from))
    <3>1. CASE scores'[s] = scores[s]
      BY <2>1, <3>1 DEF ScoringInv, ScoresAreMade
    <3>2. CASE scores'[s] # scores[s]
      BY <1>2, <1>3, <3>2
    <3>3. QED
      BY <3>1, <3>2
  <2>2. QED
    BY <2>1 DEF ScoresAreMade
<1>5. ASSUME revisions = 0, NEW s \in Stocks, scores'[s] # Missing
      PROVE  Current(scores'[s].from, s)
  <2>1. CASE scores'[s] = scores[s]
    BY <1>5, <2>1 DEF ScoringInv, FirstIsCurrent
  <2>2. CASE scores'[s] # scores[s]
    <3>1. scores'[s].from = scoreJob[s]
      BY <1>2, <2>2
    <3>2. Current(scoreJob[s], s)
      BY <1>1, <1>5 DEF ScoringInv, FirstIsCurrent
    <3>3. QED
      BY <3>1, <3>2
  <2>3. QED
    BY <2>1, <2>2
<1>6. QED
  BY <1>1, <1>4, <1>5
     DEF ScoringInv, ScoringIsTyped, RowsAreLastRead, FirstIsCurrent, Current

LEMMA ScoringInvNext == ScoringInv /\ [ScoringNext]_scoringVars => ScoringInv'
<1> SUFFICES ASSUME ScoringInv, [ScoringNext]_scoringVars PROVE ScoringInv'
  OBVIOUS
<1>1. CASE UNCHANGED scoringVars
  BY <1>1 DEF scoringVars, ScoringInv, ScoringIsTyped, RowsAreLastRead, ScoresAreMade,
              FirstIsCurrent, Current
<1>2. CASE ScoringNext
  BY <1>2, ReviseKeeps, ComputeFactorKeeps, UpsertFactorValuesKeeps, FactorValuesForKeeps,
     UpsertScoresKeeps DEF ScoringNext
<1>3. QED
  BY <1>1, <1>2

LEMMA InvBalances == ScoringInv => SnapshotIsBalanced
<1> SUFFICES ASSUME ScoringInv PROVE SnapshotIsBalanced
  OBVIOUS
<1>1. /\ lastRead \in Tables
      /\ \A f \in FactorKeys : \A s \in Available(lastRead[f]) :
            rows[s][f] = Snapshot(lastRead)[s][f]
  BY DEF ScoringInv, ScoringIsTyped, RowsAreLastRead
<1>2. ASSUME NEW f \in FactorKeys
      PROVE  /\ 2 * SumFunctionOnSet([s \in Available(lastRead[f]) |-> rows[s][f].universe],
                                     Available(lastRead[f])) = Full * Cardinality(Available(lastRead[f]))
             /\ \A s \in Available(lastRead[f]) : \A t \in PeersOf(lastRead[f], s) :
                   Direction(f) * rows[s][f].raw >= Direction(f) * rows[t][f].raw =>
                       /\ rows[s][f].sector >= rows[t][f].sector
                       /\ rows[s][f].universe >= rows[t][f].universe
  BY <1>1, SnapshotBalances
<1>3. QED
  BY <1>2, Zenon DEF SnapshotIsBalanced

LEMMA InvExplains == ScoringInv => CompositeIsExplained
<1> SUFFICES ASSUME ScoringInv PROVE CompositeIsExplained
  OBVIOUS
<1>1. ASSUME NEW s \in Stocks, scores[s] # Missing
      PROVE  LET score == scores[s]
                 had == Scored(score.from)
             IN  /\ had # {}
                 /\ rows[s] = score.from
                       => score.composite = Hundredths(SumOfContributions(rows[s]))
                 /\ \E f \in had : score.composite >= Hundredths(<<score.from[f].universe, 1>>)
                 /\ \E f \in had : score.composite <= Hundredths(<<score.from[f].universe, 1>>)
  <2>1. PICK made \in Rows : made = scores[s].from
    BY <1>1 DEF ScoringInv, ScoresAreMade
  <2>2. Scored(made) # {} /\ scores[s].composite = Hundredths(Composite(made))
    BY <1>1, <2>1 DEF ScoringInv, ScoresAreMade
  <2>3. SumOfContributions(made) = Composite(made)
    BY <2>2, ContributionsExplain
  <2>4. /\ \E f \in Scored(made) : Hundredths(Composite(made)) >= Hundredths(<<made[f].universe, 1>>)
        /\ \E f \in Scored(made) : Hundredths(Composite(made)) <= Hundredths(<<made[f].universe, 1>>)
    BY <2>2, CompositeIsBetween
  <2>5. QED
    BY <2>1, <2>2, <2>3, <2>4
<1>2. QED
  BY <1>1, Zenon DEF CompositeIsExplained

LEMMA InvRanksPeers == ScoringInv => BetterPeersScoreHigher
<1> SUFFICES ASSUME ScoringInv PROVE BetterPeersScoreHigher
  OBVIOUS
<1>1. ASSUME NEW s \in Stocks, NEW t \in Stocks, scores[s] # Missing, scores[t] # Missing,
             revisions = 0, PeerGroup[s] = PeerGroup[t],
             Scored(scores[s].from) = Scored(scores[t].from),
             \A f \in Scored(scores[s].from) :
                Direction(f) * scores[s].from[f].raw >= Direction(f) * scores[t].from[f].raw
      PROVE  scores[s].composite >= scores[t].composite
  <2>1. PICK of \in Rows, other \in Rows : of = scores[s].from /\ other = scores[t].from
    BY <1>1 DEF ScoringInv, ScoresAreMade
  <2>2. /\ Scored(of) # {} /\ Scored(other) # {}
        /\ scores[s].composite = Hundredths(Composite(of))
        /\ scores[t].composite = Hundredths(Composite(other))
    BY <1>1, <2>1 DEF ScoringInv, ScoresAreMade
  <2>3. inputs \in Tables
    BY DEF ScoringInv, ScoringIsTyped
  <2>4. of = Snapshot(inputs)[s] /\ other = Snapshot(inputs)[t]
    <3>1. Current(of, s) /\ Current(other, t)
      BY <1>1, <2>1 DEF ScoringInv, FirstIsCurrent
    <3>2. QED
      BY <2>2, <3>1, NoFactorsIsRow DEF Current
  <2>5. ASSUME NEW f \in Scored(of) PROVE other[f].universe <= of[f].universe
    <3>1. f \in FactorKeys /\ of[f] # Missing /\ other[f] # Missing
      BY <1>1, <2>1 DEF Scored
    <3>2. s \in Available(inputs[f]) /\ t \in Available(inputs[f])
      BY <2>3, <2>4, <3>1, SnapshotIs
    <3>3. t \in PeersOf(inputs[f], s)
      BY <1>1, <3>2 DEF PeersOf
    <3>4. Direction(f) * of[f].raw >= Direction(f) * other[f].raw
      BY <1>1, <2>1
    <3> DEFINE table == Snapshot(inputs)
    <3>5. \A g \in FactorKeys : \A u \in Available(inputs[g]) : table[u][g] = Snapshot(inputs)[u][g]
      OBVIOUS
    <3>6. \A u \in Available(inputs[f]) : \A v \in PeersOf(inputs[f], u) :
              Direction(f) * table[u][f].raw >= Direction(f) * table[v][f].raw =>
                  /\ table[u][f].sector >= table[v][f].sector
                  /\ table[u][f].universe >= table[v][f].universe
      <4> HIDE DEF table
      <4>1. QED
        BY <2>3, <3>1, <3>5, SnapshotBalances
    <3>7. of[f].universe >= other[f].universe
      BY <2>4, <3>2, <3>3, <3>4, <3>6
    <3>8. of[f].universe \in Int /\ other[f].universe \in Int
      BY <3>1, ScoredIs DEF Scored
    <3>9. QED
      BY <3>7, <3>8
  <2>6. Hundredths(Composite(other)) <= Hundredths(Composite(of))
    BY <1>1, <2>1, <2>2, <2>5, BetterScoresHigher
  <2>7. Hundredths(Composite(other)) \in Int /\ Hundredths(Composite(of)) \in Int
    <3>1. Composite(other) \in Fractions /\ Composite(of) \in Fractions
      BY <2>2, CompositeIs
    <3>2. ~Less(Composite(other), Composite(other)) /\ ~Less(Composite(of), Composite(of))
      BY <3>1, FractionsCompare
    <3>3. QED
      BY <3>1, <3>2, HundredthsGrow
  <2>8. QED
    BY <2>2, <2>6, <2>7
<1>2. QED
  BY <1>1, Zenon DEF BetterPeersScoreHigher

(* Scores explain themselves: the percentiles of a committed snapshot        *)
(* average 50 and keep the order of peers, a composite is the sum of the     *)
(* contributions decompose gives and lies between the percentiles it blends, *)
(* and a peer at least as good in every factor never scores lower; for any   *)
(* universe of at most fifty stocks, sectors, factors, raw values and order  *)
(* of the factor and score jobs (Normalizer.normalize, ScoreEngine).         *)
THEOREM ScoresAlwaysExplainThemselves == ScoringSpec => []ScoresExplainThemselves
<1>1. ScoringInv => ScoresExplainThemselves
  BY InvBalances, InvExplains, InvRanksPeers DEF ScoresExplainThemselves
<1>2. ScoringSpec => []ScoringInv
  BY ScoringInvInit, ScoringInvNext, PTL DEF ScoringSpec
<1>3. QED
  BY <1>1, <1>2, PTL

-----------------------------------------------------------------------------
(* The components side by side *)

(* A behaviour of the workspace is one of every component: the part it       *)
(* exercises moves as that component does, the others stand still.  So what  *)
(* holds of each component holds in the workspace.                           *)
THEOREM PartsKeepTheirWord ==
    MCSpec => NewsSpec /\ BusSpec /\ ScoringSpec /\ PortfolioSpec /\ SessionsSpec
<1>1. MCInit => NewsInit /\ BusInit /\ ScoringInit /\ PortfolioInit /\ SessionsInit
  BY DEF MCInit
<1>2. [MCNext]_allVars => /\ [NewsNext]_newsVars /\ [BusNext]_busVars
                          /\ [ScoringNext]_scoringVars /\ [PortfolioNext]_portfolioVars
                          /\ [SessionsNext]_sessionVars
  BY Zenon DEF MCNext, NewsPart, ScoringPart, EditPart, ToolsPart, SessionPart, allVars,
               Answered, DeletePortfolio, PortfolioNext
<1>3. QED
  BY <1>1, <1>2, PTL DEF MCSpec, NewsSpec, BusSpec, ScoringSpec, PortfolioSpec, SessionsSpec

(* The workspace stays well formed: one row a link, one rating a row and     *)
(* model (news, sentiment), what a consumer group acknowledges was           *)
(* published and is not pending, and a book is one of weights and shares of  *)
(* known names with snapshots of known days.                                 *)
THEOREM WorkspaceIsWellFormed == MCSpec => []WellFormed
<1>1. PortfolioSpec => []PortfolioTypeOK
  <2>1. PortfolioInv => PortfolioTypeOK
    <3> SUFFICES ASSUME PortfolioInv PROVE PortfolioTypeOK
      OBVIOUS
    <3>1. /\ exists \in BOOLEAN /\ raced \in BOOLEAN
          /\ positions \in Books /\ snapshots \subseteq Days
          /\ open \in [Clients -> {None} \cup Puts \cup Risks]
      BY DEF PortfolioInv
    <3>2. DOMAIN positions \subseteq Names /\ positions \in [DOMAIN positions -> Positions]
      BY <3>1, BookTypes
    <3>3. DOMAIN open = Clients
      BY <3>1
    <3>4. QED
      BY <3>1, <3>2, <3>3 DEF PortfolioTypeOK
  <2>2. QED
    BY <2>1, PortfolioInvInit, PortfolioInvNext, PTL DEF PortfolioSpec
<1>2. QED
  BY <1>1, PartsKeepTheirWord, TablesAreAlwaysKeyed, BusIsAlwaysTyped, PTL DEF WellFormed
=============================================================================
