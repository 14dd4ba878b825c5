----------------------- MODULE FundamentalVersionsProofs -----------------------
(***************************************************************************)
(* Proofs about FundamentalVersions, for any universe, values, workers,    *)
(* attempts, restatements and errors: the rows of a filing are one chain   *)
(* however attempts overlap, a committed revision is announced or about to *)
(* be, what was known as of a settled time stays known, and the table      *)
(* implements the append-only log of KnowledgeLog.                         *)
(***************************************************************************)
EXTENDS FundamentalVersions, FiniteSetTheorems, WellFoundedInduction, TLAPS

Wrote(w, f) == \E r \in job[w].wrote : r.filing = f

(* What the fields of a job say at each label. *)
JobInv(w) ==
    /\ At(w, "idle") => job[w].revisions = {}
    /\ ~At(w, "idle") => job[w].kt \in 1..clock
    /\ job[w].pc \in {"idle", "fetch", "publish"} => job[w].closed = {} /\ job[w].wrote = {}
    /\ job[w].pc \in {"close", "blocked", "insert"} => job[w].left # {}
    /\ job[w].pc \in {"close", "blocked"} => job[w].current

(* A row that was closed or written is locked until the transaction ends;    *)
(* what it closes is older than what it writes, and in the list of           *)
(* revisions, or about to be; it writes over nothing that it has not closed. *)
TransactionInv(w) ==
    /\ \A f \in Filings : f \in job[w].closed \/ Wrote(w, f) => lock[f] = w
    /\ \A f \in job[w].closed : MayClose(f, job[w].kt)
    /\ \A f \in job[w].closed :
          f \in job[w].revisions \/ (At(w, "insert") /\ job[w].current /\ Now(w).filing = f)
    /\ \A f \in Filings : Wrote(w, f) => MayInsert(w, f)

(* Rows in order: only the last is open, each ends where the next begins,    *)
(* and what is later in the table began later.                               *)
Chained(rows) ==
    /\ \A i \in DOMAIN rows : rows[i].to = Null <=> i = Len(rows)
    /\ \A i \in DOMAIN rows : i # Len(rows) => rows[i].to = rows[i + 1].from
    /\ \A i, j \in DOMAIN rows : i < j => rows[i].from < rows[j].from /\ rows[i].to <= rows[j].from

ChainInv ==
    /\ TypeOK
    /\ \A w \in Workers : JobInv(w) /\ TransactionInv(w)
    /\ \A f \in Filings : Chained(versions[f])

-----------------------------------------------------------------------------
(* Lemmas about the operators of the model *)

(* A set of naturals has a least element: {1..n : n \in T} has a minimal one. *)
LEMMA LeastElement ==
    ASSUME NEW T, T \subseteq Nat, T # {}
    PROVE  \E x \in T : \A y \in T : x <= y
<1> DEFINE D == {1..n : n \in T}
<1>1. \A n \in T : 1..n \in FiniteSubsetsOf(Nat)
  BY FS_Interval DEF FiniteSubsetsOf
<1>2. D \subseteq FiniteSubsetsOf(Nat) /\ D # {}
  BY <1>1
<1>3. IsWellFoundedOn(StrictSubsetOrdering(Nat), FiniteSubsetsOf(Nat))
  BY FS_StrictSubsetOrderingWellFounded
<1>4. PICK d \in D : \A e \in D : ~(<<e, d>> \in StrictSubsetOrdering(Nat))
  <2> HIDE DEF D
  <2>1. QED
    BY <1>2, <1>3, WFMin
<1>5. PICK x \in T : d = 1..x
  BY <1>4
<1>6. ASSUME NEW y \in T PROVE x <= y
  <2> SUFFICES ASSUME y < x PROVE FALSE
    OBVIOUS
  <2>1. x \in 1..x /\ x \notin 1..y /\ 1..y \subseteq 1..x
    OBVIOUS
  <2>2. <<1..y, 1..x>> \in StrictSubsetOrdering(Nat)
    BY <2>1 DEF StrictSubsetOrdering
  <2>3. QED
    BY <1>4, <1>5, <2>2
<1>7. QED
  BY <1>6

LEMMA Universe ==
    /\ Places \subseteq Nat /\ 1 \in Stocks /\ Stocks = 1..Len(FilingsOf)
    /\ Len(FilingsOf) \in Nat
    /\ \A s \in Stocks : DOMAIN FilingsOf[s] \subseteq Places
    /\ \A s \in Stocks : \A n \in DOMAIN FilingsOf[s] : FilingsOf[s][n] \in Filings
<1>1. Len(FilingsOf) \in Nat /\ Stocks = 1..Len(FilingsOf) /\ Len(FilingsOf) # 0
  BY UniverseAssumption DEF Stocks
<1>2. \A s \in Stocks : FilingsOf[s] \in Seq(Filings)
  BY UniverseAssumption DEF Stocks
<1>3. \A s \in Stocks : DOMAIN FilingsOf[s] = 1..Len(FilingsOf[s]) /\ Len(FilingsOf[s]) \in Nat
  BY <1>2
<1>4. Places \subseteq Nat
  BY <1>3 DEF Places
<1>5. \A s \in Stocks : \A n \in DOMAIN FilingsOf[s] : FilingsOf[s][n] \in Filings
  BY <1>2
<1>6. \A s \in Stocks : DOMAIN FilingsOf[s] \subseteq Places
  BY DEF Places
<1>7. QED
  BY <1>1, <1>4, <1>5, <1>6

LEMMA NowIsLeft ==
    ASSUME TypeOK, NEW w \in Workers, job[w].left # {}
    PROVE  Now(w) \in job[w].left /\ Now(w).filing \in Filings /\ Now(w).value \in Values
<1> DEFINE T == {x.place : x \in job[w].left}
<1>1. job[w].left \subseteq [place : Places, filing : Filings, value : Values]
  BY DEF TypeOK, Jobs
<1>2. T \subseteq Nat /\ T # {}
  BY <1>1, Universe
<1>3. \E p \in T : \A q \in T : p <= q
  <2> HIDE DEF T
  <2>1. QED
    BY <1>2, LeastElement
<1>4. \E x \in job[w].left : \A y \in job[w].left : x.place <= y.place
  BY <1>3
<1>5. Now(w) \in job[w].left
  BY <1>4 DEF Now
<1>6. QED
  BY <1>1, <1>5

LEMMA KeptValues == \A v \in Values : Stored[v] \in Kept
BY DEF Kept

LEMMA ReleaseMoves ==
    ASSUME TypeOK, NEW w \in Workers, Release(w)
    PROVE  /\ lock' \in [Filings -> Workers \cup {NoOne}]
           /\ \A f \in Filings, v \in Workers \ {w} : lock[f] = v => lock'[f] = v
BY VersionBoundsAssumption DEF TypeOK, Release

-----------------------------------------------------------------------------
(* What one action does to the job of its worker *)

(* The transaction is over: nothing uncommitted is left of it. *)
LEMMA NextStockMoves ==
    ASSUME TypeOK, NEW w \in Workers, NextStock(w, job[w])
    PROVE  /\ job' \in [Workers -> Jobs] /\ \A v \in Workers \ {w} : job'[v] = job[v]
           /\ job'[w].pc \in {"fetch", "publish"} /\ job'[w].kt = job[w].kt
           /\ job'[w].closed = {} /\ job'[w].wrote = {}
           /\ job'[w].revisions = job[w].revisions
<1> DEFINE J == [job[w] EXCEPT !.pc = IF job[w].stock = Len(FilingsOf) THEN "publish" ELSE "fetch",
                        !.stock = IF @ = Len(FilingsOf) THEN @ ELSE @ + 1,
                        !.left = {}, !.current = FALSE, !.snapshot = 0,
                        !.closed = {}, !.wrote = {}]
<1>1. job[w] \in Jobs
  BY DEF TypeOK
<1>2. job[w].stock = Len(FilingsOf) \/ job[w].stock + 1 \in Stocks
  BY <1>1, Universe DEF Jobs
<1>3. J \in Jobs
  BY <1>1, <1>2 DEF Jobs
<1>4. job' = [job EXCEPT ![w] = J]
  BY DEF NextStock
<1>5. /\ J.pc \in {"fetch", "publish"} /\ J.kt = job[w].kt
      /\ J.closed = {} /\ J.wrote = {} /\ J.revisions = job[w].revisions
  BY <1>1 DEF Jobs
<1> HIDE DEF J
<1>6. QED
  BY <1>3, <1>4, <1>5 DEF TypeOK

LEMMA RestingIsJob == Resting \in Jobs
BY Universe DEF Resting, Jobs

LEMMA RestMoves ==
    ASSUME TypeOK, NEW w \in Workers, job' = [job EXCEPT ![w] = Resting]
    PROVE  /\ job' \in [Workers -> Jobs] /\ \A v \in Workers \ {w} : job'[v] = job[v]
           /\ job'[w].pc = "idle" /\ job'[w].closed = {} /\ job'[w].wrote = {}
           /\ job'[w].revisions = {}
<1>1. job' \in [Workers -> Jobs] /\ \A v \in Workers \ {w} : job'[v] = job[v]
  BY RestingIsJob DEF TypeOK
<1>2. job'[w] = Resting
  BY DEF TypeOK
<1>3. QED
  BY <1>1, <1>2 DEF Resting

LEMMA BeginMoves ==
    ASSUME TypeOK, NEW w \in Workers, Begin(w)
    PROVE  /\ job' \in [Workers -> Jobs] /\ \A v \in Workers \ {w} : job'[v] = job[v]
           /\ clock' = clock + 1 /\ clock' \in 1..MaxAttempts
           /\ job'[w].pc = "fetch" /\ job'[w].kt = clock' /\ At(w, "idle")
           /\ job'[w].closed = job[w].closed /\ job'[w].wrote = job[w].wrote
<1>1. job[w] \in Jobs /\ clock' = clock + 1 /\ clock' \in 1..MaxAttempts
  BY VersionBoundsAssumption DEF TypeOK, Begin
<1>2. [job[w] EXCEPT !.pc = "fetch", !.kt = clock'] \in Jobs
  BY <1>1 DEF Jobs, Times
<1>3. QED
  BY <1>1, <1>2 DEF Begin, TypeOK, Jobs

LEMMA FetchMoves ==
    ASSUME TypeOK, NEW w \in Workers, Fetch(w)
    PROVE  \/ NextStock(w, job[w])
           \/ /\ job' \in [Workers -> Jobs] /\ \A v \in Workers \ {w} : job'[v] = job[v]
              /\ job'[w].pc = "read" /\ job'[w].kt = job[w].kt
              /\ job'[w].closed = job[w].closed /\ job'[w].wrote = job[w].wrote
              /\ job'[w].revisions = job[w].revisions
<1> DEFINE all == FilingsOf[job[w].stock]
           filed == {n \in DOMAIN all : provider[all[n]] # NotFiled}
           L == {[place |-> n, filing |-> all[n], value |-> provider[all[n]]] : n \in filed}
<1>1. job[w] \in Jobs /\ job[w].stock \in Stocks
  BY DEF TypeOK, Jobs
<1>2. \A n \in filed : n \in Places /\ all[n] \in Filings /\ provider[all[n]] \in Values
  BY <1>1, Universe DEF TypeOK
<1>3. L \in SUBSET [place : Places, filing : Filings, value : Values]
  BY <1>2
<1>4. NextStock(w, job[w]) \/ job' = [job EXCEPT ![w].pc = "read", ![w].left = L]
  BY DEF Fetch
<1> HIDE DEF L
<1>5. [job[w] EXCEPT !.pc = "read", !.left = L] \in Jobs
  BY <1>1, <1>3 DEF Jobs
<1>6. CASE job' = [job EXCEPT ![w].pc = "read", ![w].left = L]
  <2>1. job' = [job EXCEPT ![w] = [job[w] EXCEPT !.pc = "read", !.left = L]]
    BY <1>6 DEF TypeOK
  <2>2. QED
    BY <1>1, <1>5, <2>1 DEF TypeOK, Jobs
<1>7. QED
  BY <1>4, <1>6

LEMMA ReadOpenMoves ==
    ASSUME TypeOK, NEW w \in Workers, ReadOpen(w)
    PROVE  /\ job' \in [Workers -> Jobs] /\ \A v \in Workers \ {w} : job'[v] = job[v]
           /\ At(w, "read") /\ job'[w].pc \in {"read", "close", "insert"}
           /\ job'[w].kt = job[w].kt
           /\ job'[w].pc # "read" => job'[w].left # {}
           /\ job'[w].pc = "close" => job'[w].current
           /\ job'[w].closed = job[w].closed /\ job'[w].wrote = job[w].wrote
           /\ job'[w].revisions = job[w].revisions
<1> DEFINE f == Now(w).filing
           J == IF SameAsOpen(f, Now(w).value)
                THEN [job[w] EXCEPT !.left = Rest(w)]
                ELSE [job[w] EXCEPT !.pc = IF OpenRows(f) = {} THEN "insert" ELSE "close",
                                    !.current = OpenRows(f) # {}]
<1>1. job[w] \in Jobs /\ At(w, "read") /\ job[w].left # {}
  BY DEF TypeOK, ReadOpen
<1>2. job' = [job EXCEPT ![w] = J]
  BY DEF ReadOpen
<1>3. Rest(w) \subseteq job[w].left
  BY DEF Rest
<1>4. CASE SameAsOpen(f, Now(w).value)
  <2>1. J = [job[w] EXCEPT !.left = Rest(w)]
    BY <1>4
  <2>2. J \in Jobs
    BY <1>1, <1>3, <2>1 DEF Jobs
  <2> HIDE DEF J
  <2>3. QED
    BY <1>1, <1>2, <2>1, <2>2 DEF TypeOK, Jobs, At
<1>5. CASE ~SameAsOpen(f, Now(w).value)
  <2>1. PICK open \in BOOLEAN : open = (OpenRows(f) # {})
    OBVIOUS
  <2>2. J = [job[w] EXCEPT !.pc = IF ~open THEN "insert" ELSE "close", !.current = open]
    BY <1>5, <2>1
  <2>3. J \in Jobs
    BY <1>1, <2>2 DEF Jobs
  <2> HIDE DEF J
  <2>4. QED
    BY <1>1, <1>2, <2>2, <2>3 DEF TypeOK, Jobs, At
<1>6. QED
  BY <1>4, <1>5

LEMMA CloseMoves ==
    ASSUME TypeOK, NEW w \in Workers, Close(w), job[w].left # {}
    PROVE  /\ job' \in [Workers -> Jobs] /\ \A v \in Workers \ {w} : job'[v] = job[v]
           /\ job[w].pc \in {"close", "blocked"} /\ job'[w].pc = "insert"
           /\ job'[w].kt = job[w].kt /\ job'[w].left = job[w].left
           /\ job'[w].current = job[w].current
           /\ job'[w].closed = job[w].closed \cup {Now(w).filing}
           /\ job'[w].wrote = job[w].wrote /\ job'[w].revisions = job[w].revisions
           /\ Now(w).filing \in Filings
           /\ lock' = [lock EXCEPT ![Now(w).filing] = w] /\ lock[Now(w).filing] = NoOne
           /\ MayClose(Now(w).filing, job[w].kt)
<1>1. job[w] \in Jobs /\ Now(w).filing \in Filings
  BY NowIsLeft DEF TypeOK
<1>2. [job[w] EXCEPT !.pc = "insert", !.closed = @ \cup {Now(w).filing}] \in Jobs
  BY <1>1 DEF Jobs
<1>3. QED
  BY <1>1, <1>2 DEF Close, At, TypeOK, Jobs

LEMMA CloseWaitsMoves ==
    ASSUME TypeOK, NEW w \in Workers, CloseWaits(w) \/ CloseMisses(w), job[w].left # {}
    PROVE  /\ job' \in [Workers -> Jobs] /\ \A v \in Workers \ {w} : job'[v] = job[v]
           /\ job[w].pc \in {"close", "blocked"} /\ job'[w].pc \in {"blocked", "insert"}
           /\ job'[w].kt = job[w].kt /\ job'[w].left = job[w].left
           /\ job'[w].current = job[w].current /\ job'[w].closed = job[w].closed
           /\ job'[w].wrote = job[w].wrote /\ job'[w].revisions = job[w].revisions
<1>1. job[w] \in Jobs /\ Len(versions[Now(w).filing]) \in Nat
  BY NowIsLeft DEF TypeOK
<1>2. /\ [job[w] EXCEPT !.pc = "blocked", !.snapshot = Len(versions[Now(w).filing])] \in Jobs
      /\ [job[w] EXCEPT !.pc = "insert"] \in Jobs
  BY <1>1 DEF Jobs
<1>3. CASE CloseWaits(w)
  <2>1. At(w, "close")
    BY <1>3 DEF CloseWaits
  <2>2. job' = [job EXCEPT ![w] = [job[w] EXCEPT !.pc = "blocked",
                                      !.snapshot = Len(versions[Now(w).filing])]]
    BY <1>3 DEF CloseWaits, TypeOK
  <2>3. QED
    BY <1>1, <1>2, <2>1, <2>2 DEF At, TypeOK, Jobs
<1>4. CASE CloseMisses(w)
  BY <1>1, <1>2, <1>4 DEF CloseMisses, At, TypeOK, Jobs
<1>5. QED
  BY <1>3, <1>4

LEMMA InsertMoves ==
    ASSUME TypeOK, NEW w \in Workers, Insert(w), job[w].left # {}
    PROVE  /\ job' \in [Workers -> Jobs] /\ \A v \in Workers \ {w} : job'[v] = job[v]
           /\ At(w, "insert") /\ job'[w].pc = "read" /\ job'[w].kt = job[w].kt
           /\ job'[w].closed = job[w].closed
           /\ job'[w].wrote = job[w].wrote \cup
                 {[filing |-> Now(w).filing, value |-> Stored[Now(w).value]]}
           /\ job'[w].revisions = IF job[w].current THEN job[w].revisions \cup {Now(w).filing}
                                  ELSE job[w].revisions
           /\ Now(w).filing \in Filings
           /\ lock' = [lock EXCEPT ![Now(w).filing] = w] /\ lock[Now(w).filing] \in {NoOne, w}
           /\ MayInsert(w, Now(w).filing)
<1> DEFINE row == [filing |-> Now(w).filing, value |-> Stored[Now(w).value]]
           J == [job[w] EXCEPT !.pc = "read", !.left = Rest(w), !.current = FALSE,
                       !.snapshot = 0, !.wrote = @ \cup {row},
                       !.revisions = IF job[w].current THEN @ \cup {Now(w).filing} ELSE @]
<1>1. job[w] \in Jobs /\ Now(w).filing \in Filings
  BY NowIsLeft DEF TypeOK
<1>2. row \in [filing : Filings, value : Kept] /\ Rest(w) \subseteq job[w].left
  BY <1>1, NowIsLeft, KeptValues DEF Rest
<1>3. job' = [job EXCEPT ![w] = J]
  BY DEF Insert
<1> HIDE DEF row
<1>4. J \in Jobs
  BY <1>1, <1>2 DEF Jobs
<1>5. /\ J.pc = "read" /\ J.kt = job[w].kt /\ J.closed = job[w].closed
      /\ J.wrote = job[w].wrote \cup {row}
      /\ J.revisions = IF job[w].current THEN job[w].revisions \cup {Now(w).filing}
                       ELSE job[w].revisions
  BY <1>1 DEF Jobs
<1> HIDE DEF J
<1>6. QED
  BY <1>1, <1>3, <1>4, <1>5 DEF Insert, TypeOK, row

-----------------------------------------------------------------------------
(* What a commit leaves in the rows of a filing *)

LEMMA VersionedIs ==
    ASSUME NEW rows \in Seq(Rows), NEW v \in Kept, NEW kt \in Times
    PROVE  /\ Versioned(rows, v, kt) \in Seq(Rows)
           /\ Len(Versioned(rows, v, kt)) = Len(rows) + 1
           /\ \A i \in 1..Len(rows) :
                 /\ Versioned(rows, v, kt)[i].value = rows[i].value
                 /\ Versioned(rows, v, kt)[i].from = rows[i].from
                 /\ Versioned(rows, v, kt)[i].to = IF rows[i].to = Null THEN kt ELSE rows[i].to
           /\ Versioned(rows, v, kt)[Len(rows) + 1] = [value |-> v, from |-> kt, to |-> Null]
<1> DEFINE closed == [i \in DOMAIN rows |->
                        IF rows[i].to = Null THEN [rows[i] EXCEPT !.to = kt] ELSE rows[i]]
           new == [value |-> v, from |-> kt, to |-> Null]
<1>1. DOMAIN rows = 1..Len(rows) /\ Len(rows) \in Nat /\ \A i \in 1..Len(rows) : rows[i] \in Rows
  OBVIOUS
<1>2. \A i \in 1..Len(rows) :
          /\ closed[i] \in Rows /\ closed[i].value = rows[i].value
          /\ closed[i].from = rows[i].from
          /\ closed[i].to = IF rows[i].to = Null THEN kt ELSE rows[i].to
  BY <1>1 DEF Rows
<1>3. closed \in Seq(Rows) /\ Len(closed) = Len(rows)
  BY <1>1, <1>2
<1>4. new \in Rows
  BY DEF Rows
<1>5. Versioned(rows, v, kt) = Append(closed, new)
  BY DEF Versioned
<1> HIDE DEF closed, new
<1>6. /\ Append(closed, new) \in Seq(Rows) /\ Len(Append(closed, new)) = Len(rows) + 1
      /\ \A i \in 1..Len(rows) : Append(closed, new)[i] = closed[i]
      /\ Append(closed, new)[Len(rows) + 1] = new
  BY <1>3, <1>4
<1>7. QED
  BY <1>2, <1>5, <1>6 DEF new

LEMMA TimesPositive == \A t \in Times : t \in Nat /\ t > 0
BY VersionBoundsAssumption DEF Times

LEMMA RowTimes ==
    ASSUME NEW rows \in Seq(Rows), NEW i \in DOMAIN rows
    PROVE  /\ rows[i] \in Rows /\ i \in 1..Len(rows) /\ Len(rows) \in Nat
           /\ rows[i].from \in Nat /\ rows[i].from > 0 /\ rows[i].to \in Nat
<1>1. rows[i] \in Rows /\ i \in 1..Len(rows) /\ Len(rows) \in Nat
  OBVIOUS
<1>2. rows[i].from \in Times /\ rows[i].to \in Times \cup {Null}
  BY <1>1 DEF Rows
<1>3. QED
  BY <1>1, <1>2, TimesPositive DEF Null

(* What is later than the open row is later than every row. *)
LEMMA OpenIsLatest ==
    ASSUME NEW rows \in Seq(Rows), NEW kt \in Times, Chained(rows),
           \A i \in DOMAIN rows : rows[i].to = Null => rows[i].from < kt
    PROVE  \A i \in DOMAIN rows : rows[i].from < kt
<1> SUFFICES ASSUME NEW i \in DOMAIN rows PROVE rows[i].from < kt
  OBVIOUS
<1> DEFINE n == Len(rows)
<1>1. DOMAIN rows = 1..n /\ n \in Nat /\ kt \in Nat
  BY TimesPositive
<1> HIDE DEF n
<1>2. n \in DOMAIN rows /\ i <= n
  BY <1>1
<1>3. rows[n].from < kt /\ rows[n].from \in Nat /\ rows[i].from \in Nat
  BY <1>2, RowTimes DEF Chained, n
<1>4. i # n => rows[i].from < rows[n].from
  BY <1>1, <1>2 DEF Chained
<1>5. QED
  BY <1>1, <1>3, <1>4

(* Closing the last row, if it is older, and adding one keeps the chain. *)
LEMMA VersionedChained ==
    ASSUME NEW rows \in Seq(Rows), NEW v \in Kept, NEW kt \in Times, Chained(rows),
           \A i \in DOMAIN rows : rows[i].to = Null => rows[i].from < kt
    PROVE  Chained(Versioned(rows, v, kt))
<1> DEFINE n == Len(rows)
           new == Versioned(rows, v, kt)
<1>1. n \in Nat /\ DOMAIN rows = 1..n /\ kt \in Nat /\ kt > 0
  BY TimesPositive
<1>2. /\ new \in Seq(Rows) /\ Len(new) = n + 1
      /\ \A i \in 1..n : new[i].from = rows[i].from
      /\ \A i \in 1..n : new[i].to = IF rows[i].to = Null THEN kt ELSE rows[i].to
      /\ new[n + 1] = [value |-> v, from |-> kt, to |-> Null]
  BY VersionedIs
<1>3. \A i \in 1..n : rows[i].from \in Nat /\ rows[i].from > 0 /\ rows[i].to \in Nat
  BY <1>1, RowTimes
<1>4. /\ \A i \in 1..n : rows[i].to = Null <=> i = n
      /\ \A i \in 1..n : i # n => rows[i].to = rows[i + 1].from
      /\ \A i, j \in 1..n : i < j => rows[i].from < rows[j].from /\ rows[i].to <= rows[j].from
      /\ \A i \in 1..n : rows[i].to = Null => rows[i].from < kt
  BY <1>1 DEF Chained
<1> HIDE DEF n, new
<1>5. DOMAIN new = 1..(n + 1) /\ new[n + 1].from = kt /\ new[n + 1].to = Null
  BY <1>1, <1>2
<1>6. \A i \in 1..n : rows[i].from < kt
  BY <1>1, OpenIsLatest
<1>7. \A i \in 1..n : new[i].to = IF i = n THEN kt ELSE rows[i].to
  BY <1>2, <1>4
<1>8. \A i \in 1..(n + 1) : new[i].to = Null <=> i = n + 1
  BY <1>1, <1>3, <1>4, <1>5, <1>7 DEF Null
<1>9. \A i \in 1..(n + 1) : i # n + 1 => new[i].to = new[i + 1].from
  <2> SUFFICES ASSUME NEW i \in 1..n PROVE new[i].to = new[i + 1].from
    BY <1>1
  <2>1. CASE i = n
    BY <1>5, <1>7, <2>1
  <2>2. CASE i # n
    <3>1. i + 1 \in 1..n
      BY <1>1, <2>2
    <3>2. new[i].to = rows[i].to /\ new[i + 1].from = rows[i + 1].from
      BY <1>2, <1>7, <2>2, <3>1
    <3>3. QED
      BY <1>4, <2>2, <3>2
  <2>3. QED
    BY <2>1, <2>2
<1>10. \A i, j \in 1..(n + 1) : i < j => new[i].from < new[j].from /\ new[i].to <= new[j].from
  <2> SUFFICES ASSUME NEW i \in 1..n, NEW j \in 1..(n + 1), i < j
               PROVE  new[i].from < new[j].from /\ new[i].to <= new[j].from
    BY <1>1
  <2>1. CASE j = n + 1
    <3>1. new[i].from < kt /\ new[j].from = kt
      BY <1>2, <1>5, <1>6, <2>1
    <3>2. CASE i = n
      BY <1>1, <1>7, <3>1, <3>2
    <3>3. CASE i # n
      <4>1. i + 1 \in 1..n
        BY <1>1, <3>3
      <4>2. new[i].to = rows[i + 1].from /\ rows[i + 1].from < kt /\ rows[i + 1].from \in Nat
        BY <1>3, <1>4, <1>6, <1>7, <3>3, <4>1
      <4>3. QED
        BY <1>1, <3>1, <4>2
    <3>4. QED
      BY <3>2, <3>3
  <2>2. CASE j # n + 1
    <3>1. j \in 1..n /\ i # n
      BY <1>1, <2>2
    <3>2. rows[i].from < rows[j].from /\ rows[i].to <= rows[j].from
      BY <1>4, <3>1
    <3>3. QED
      BY <1>2, <1>7, <3>1, <3>2
  <2>3. QED
    BY <2>1, <2>2
<1>11. Chained(new)
  BY <1>2, <1>5, <1>8, <1>9, <1>10 DEF Chained
<1>12. QED
  BY <1>11 DEF new

LEMMA CommitMoves ==
    ASSUME ChainInv, NEW w \in Workers, CommitStock(w)
    PROVE  /\ job[w].kt \in Times
           /\ \A f \in Filings : Wrote(w, f) =>
                 \E v \in Kept : versions'[f] = Versioned(versions[f], v, job[w].kt)
           /\ \A f \in Filings : ~Wrote(w, f) => versions'[f] = versions[f]
           /\ versions' \in [Filings -> Seq(Rows)]
<1>1. TypeOK /\ job[w] \in Jobs /\ JobInv(w) /\ At(w, "read")
  BY DEF ChainInv, TypeOK, CommitStock
<1>2. job[w].kt \in Times
  BY <1>1, VersionBoundsAssumption DEF JobInv, At, TypeOK, Times
<1>3. \A f \in Filings :
          versions'[f] = IF Wrote(w, f)
                         THEN Versioned(versions[f],
                                  (CHOOSE r \in job[w].wrote : r.filing = f).value, job[w].kt)
                         ELSE versions[f]
  BY DEF CommitStock, Wrote
<1>4. \A f \in Filings : Wrote(w, f) =>
          \E v \in Kept : versions'[f] = Versioned(versions[f], v, job[w].kt)
  <2> SUFFICES ASSUME NEW f \in Filings, Wrote(w, f)
               PROVE  \E v \in Kept : versions'[f] = Versioned(versions[f], v, job[w].kt)
    OBVIOUS
  <2>1. PICK r \in job[w].wrote : r = CHOOSE x \in job[w].wrote : x.filing = f
    BY DEF Wrote
  <2>2. r.value \in Kept
    BY <1>1 DEF Jobs
  <2>3. QED
    BY <1>3, <2>1, <2>2
<1>5. \A f \in Filings : versions'[f] \in Seq(Rows)
  <2> SUFFICES ASSUME NEW f \in Filings PROVE versions'[f] \in Seq(Rows)
    OBVIOUS
  <2>1. versions[f] \in Seq(Rows)
    BY <1>1 DEF TypeOK
  <2>2. CASE Wrote(w, f)
    <3>1. PICK v \in Kept : versions'[f] = Versioned(versions[f], v, job[w].kt)
      BY <1>4, <2>2
    <3>2. QED
      BY <1>2, <2>1, <3>1, VersionedIs
  <2>3. CASE ~Wrote(w, f)
    BY <1>3, <2>1, <2>3
  <2>4. QED
    BY <2>2, <2>3
<1>6. versions' = [f \in Filings |-> versions'[f]]
  BY DEF CommitStock
<1>7. QED
  BY <1>2, <1>3, <1>4, <1>5, <1>6

-----------------------------------------------------------------------------
(* A worker's step *)

(* The steps that end a transaction, one way or the other. *)
Leaves(w) == FetchFails(w) \/ CommitStock(w) \/ StockRejected(w) \/ StockFails(w)
Rests(w) == Publish(w) \/ Crash(w)
Waits(w) == CloseWaits(w) \/ CloseMisses(w)
WorkerStep(w) ==
    \/ Begin(w) \/ Fetch(w) \/ ReadOpen(w) \/ Close(w) \/ Waits(w) \/ Insert(w)
    \/ Leaves(w) \/ Rests(w)

LEMMA StepSplits ==
    ASSUME Next
    PROVE  (\E f \in Filings, v \in Values : Restate(f, v)) \/ \E w \in Workers : WorkerStep(w)
BY DEF Next, Step, WorkerStep, Leaves, Rests, Waits

LEMMA LeavesMoves ==
    ASSUME TypeOK, NEW w \in Workers, Leaves(w) PROVE NextStock(w, job[w])
BY DEF Leaves, FetchFails, CommitStock, StockRejected, StockFails

LEMMA RestsMoves ==
    ASSUME TypeOK, NEW w \in Workers, Rests(w)
    PROVE  /\ job' \in [Workers -> Jobs] /\ \A v \in Workers \ {w} : job'[v] = job[v]
           /\ job'[w].pc = "idle" /\ job'[w].closed = {} /\ job'[w].wrote = {}
           /\ job'[w].revisions = {}
BY RestMoves DEF Rests, Publish, Crash

LEMMA LeftIsNotEmpty ==
    ASSUME ChainInv, NEW w \in Workers, Close(w) \/ Waits(w) \/ Insert(w)
    PROVE  job[w].left # {}
BY DEF ChainInv, JobInv, Close, Waits, CloseWaits, CloseMisses, Insert, At

LEMMA WorkerMovesAlone ==
    ASSUME ChainInv, NEW w \in Workers, WorkerStep(w)
    PROVE  job' \in [Workers -> Jobs] /\ \A v \in Workers \ {w} : job'[v] = job[v]
<1>1. TypeOK
  BY DEF ChainInv
<1>2. QED
  BY <1>1, LeftIsNotEmpty, NextStockMoves, LeavesMoves, RestsMoves, BeginMoves, FetchMoves,
     ReadOpenMoves, CloseMoves, CloseWaitsMoves, InsertMoves DEF WorkerStep, Waits

(* The tables: what a worker's step writes, and what others hold of them. *)
LEMMA WorkerTables ==
    ASSUME ChainInv, NEW w \in Workers, WorkerStep(w)
    PROVE  /\ clock' \in 0..MaxAttempts /\ clock' >= clock
           /\ lock' \in [Filings -> Workers \cup {NoOne}]
           /\ versions' = versions \/ CommitStock(w)
           /\ versions' \in [Filings -> Seq(Rows)]
           /\ \A v \in Workers \ {w}, f \in Filings :
                 lock[f] = v => lock'[f] = v /\ versions'[f] = versions[f]
<1>1. TypeOK
  BY DEF ChainInv
<1>2. clock' \in 0..MaxAttempts /\ clock' >= clock
  <2>1. clock' = clock \/ Begin(w)
    BY DEF WorkerStep, Fetch, ReadOpen, Close, Waits, CloseWaits, CloseMisses, Insert,
       Leaves, FetchFails, CommitStock, StockRejected, StockFails, Rests, Publish, Crash
  <2>2. clock \in 0..MaxAttempts /\ MaxAttempts \in Nat
    BY <1>1, VersionBoundsAssumption DEF TypeOK
  <2>3. QED
    BY <1>1, <2>1, <2>2, BeginMoves
<1>3. lock' = lock \/ Release(w) \/ Close(w) \/ Insert(w)
  BY DEF WorkerStep, Begin, Fetch, ReadOpen, Waits, CloseWaits, CloseMisses,
     Leaves, FetchFails, CommitStock, StockRejected, StockFails, Rests, Publish, Crash
<1>4. /\ lock' \in [Filings -> Workers \cup {NoOne}]
      /\ \A v \in Workers \ {w}, f \in Filings : lock[f] = v => lock'[f] = v
  <2>1. CASE lock' = lock
    BY <1>1, <2>1 DEF TypeOK
  <2>2. CASE Release(w)
    BY <1>1, <2>2, ReleaseMoves
  <2>3. CASE Close(w) \/ Insert(w)
    <3>1. /\ Now(w).filing \in Filings /\ lock' = [lock EXCEPT ![Now(w).filing] = w]
          /\ lock[Now(w).filing] \in {NoOne, w}
      BY <1>1, <2>3, LeftIsNotEmpty, CloseMoves, InsertMoves
    <3>2. QED
      BY <1>1, <3>1, VersionBoundsAssumption DEF TypeOK
  <2>4. QED
    BY <1>3, <2>1, <2>2, <2>3
<1>5. versions' = versions \/ CommitStock(w)
  BY DEF WorkerStep, Begin, Fetch, ReadOpen, Close, Waits, CloseWaits, CloseMisses, Insert,
     Leaves, FetchFails, StockRejected, StockFails, Rests, Publish, Crash
<1>6. versions' \in [Filings -> Seq(Rows)]
  BY <1>1, <1>5, CommitMoves DEF TypeOK
<1>7. \A v \in Workers \ {w}, f \in Filings : lock[f] = v => versions'[f] = versions[f]
  <2>1. CASE CommitStock(w)
    <3>1. \A f \in Filings : Wrote(w, f) => lock[f] = w
      BY DEF ChainInv, TransactionInv
    <3>2. QED
      BY <2>1, <3>1, CommitMoves
  <2>2. QED
    BY <1>5, <2>1
<1>8. QED
  BY <1>2, <1>4, <1>5, <1>6, <1>7

(* Another worker's transaction is untouched: what it holds is locked. *)
LEMMA OthersKeep ==
    ASSUME ChainInv, NEW w \in Workers, WorkerStep(w), NEW v \in Workers \ {w}
    PROVE  JobInv(v)' /\ TransactionInv(v)'
<1>1. /\ job'[v] = job[v] /\ clock' >= clock /\ clock \in Nat /\ clock' \in Nat
      /\ JobInv(v) /\ TransactionInv(v) /\ job[v] \in Jobs
  BY WorkerMovesAlone, WorkerTables DEF ChainInv, TypeOK
<1>2. JobInv(v)'
  BY <1>1 DEF JobInv, At
<1>3. \A f \in Filings : f \in job[v].closed \/ Wrote(v, f) =>
          lock'[f] = v /\ versions'[f] = versions[f]
  BY <1>1, WorkerTables DEF TransactionInv
<1>4. job[v].closed \subseteq Filings
  BY <1>1 DEF Jobs
<1>5. \A f \in Filings : f \in job'[v].closed \/ Wrote(v, f)' => lock'[f] = v
  BY <1>1, <1>3 DEF Wrote
<1>6. \A f \in job'[v].closed : MayClose(f, job[v].kt)'
  BY <1>1, <1>3, <1>4 DEF TransactionInv, MayClose, OpenRows
<1>7. \A f \in job'[v].closed :
          f \in job'[v].revisions \/ (At(v, "insert")' /\ job'[v].current /\ Now(v)'.filing = f)
  BY <1>1 DEF TransactionInv, At, Now
<1>8. \A f \in Filings : Wrote(v, f)' => MayInsert(v, f)'
  BY <1>1, <1>3 DEF TransactionInv, Wrote, MayInsert, OpenRows
<1>9. QED
  BY <1>2, <1>5, <1>6, <1>7, <1>8 DEF TransactionInv

LEMMA OverIsSound ==
    ASSUME NEW w \in Workers, job'[w].closed = {}, job'[w].wrote = {}
    PROVE  TransactionInv(w)'
BY DEF TransactionInv, Wrote

LEMMA LeavingKeeps ==
    ASSUME ChainInv, NEW w \in Workers, Leaves(w) \/ (Fetch(w) /\ NextStock(w, job[w]))
    PROVE  JobInv(w)' /\ TransactionInv(w)'
<1>1. TypeOK /\ JobInv(w) /\ clock' = clock
  BY DEF ChainInv, Leaves, FetchFails, CommitStock, StockRejected, StockFails, Fetch
<1>2. ~At(w, "idle")
  BY DEF Leaves, FetchFails, CommitStock, StockRejected, Rejected, StockFails, Fetch, At
<1>3. NextStock(w, job[w])
  BY <1>1, LeavesMoves
<1>4. /\ job'[w].pc \in {"fetch", "publish"} /\ job'[w].kt = job[w].kt
      /\ job'[w].closed = {} /\ job'[w].wrote = {}
  BY <1>1, <1>3, NextStockMoves
<1>5. QED
  BY <1>1, <1>2, <1>4, OverIsSound DEF JobInv, At

LEMMA RestingKeeps ==
    ASSUME ChainInv, NEW w \in Workers, Rests(w)
    PROVE  JobInv(w)' /\ TransactionInv(w)'
<1>1. TypeOK
  BY DEF ChainInv
<1>2. QED
  BY <1>1, RestsMoves, OverIsSound DEF JobInv, At

LEMMA BeginKeeps ==
    ASSUME ChainInv, NEW w \in Workers, Begin(w)
    PROVE  JobInv(w)' /\ TransactionInv(w)'
<1>1. TypeOK /\ JobInv(w)
  BY DEF ChainInv
<1>2. /\ job'[w].closed = {} /\ job'[w].wrote = {} /\ job'[w].pc = "fetch"
      /\ job'[w].kt = clock' /\ clock' \in 1..MaxAttempts
  BY <1>1, BeginMoves DEF JobInv, At
<1>3. QED
  BY <1>2, OverIsSound, VersionBoundsAssumption DEF JobInv, At

LEMMA FetchKeeps ==
    ASSUME ChainInv, NEW w \in Workers, Fetch(w)
    PROVE  JobInv(w)' /\ TransactionInv(w)'
<1>1. TypeOK /\ JobInv(w) /\ At(w, "fetch") /\ clock' = clock
  BY DEF ChainInv, Fetch
<1>2. CASE NextStock(w, job[w])
  BY <1>2, LeavingKeeps
<1>3. CASE /\ job'[w].pc = "read" /\ job'[w].kt = job[w].kt
           /\ job'[w].closed = job[w].closed /\ job'[w].wrote = job[w].wrote
  <2>1. job'[w].closed = {} /\ job'[w].wrote = {}
    BY <1>1, <1>3 DEF JobInv, At
  <2>2. QED
    BY <1>1, <1>3, <2>1, OverIsSound DEF JobInv, At
<1>4. QED
  BY <1>1, <1>2, <1>3, FetchMoves

LEMMA ReadOpenKeeps ==
    ASSUME ChainInv, NEW w \in Workers, ReadOpen(w)
    PROVE  JobInv(w)' /\ TransactionInv(w)'
<1>1. TypeOK /\ JobInv(w) /\ TransactionInv(w) /\ clock' = clock
      /\ lock' = lock /\ versions' = versions
  BY DEF ChainInv, ReadOpen
<1>2. /\ At(w, "read") /\ job'[w].pc \in {"read", "close", "insert"}
      /\ job'[w].kt = job[w].kt
      /\ job'[w].pc # "read" => job'[w].left # {}
      /\ job'[w].pc = "close" => job'[w].current
      /\ job'[w].closed = job[w].closed /\ job'[w].wrote = job[w].wrote
      /\ job'[w].revisions = job[w].revisions
  BY <1>1, ReadOpenMoves
<1>3. JobInv(w)'
  BY <1>1, <1>2 DEF JobInv, At
<1>4. TransactionInv(w)'
  BY <1>1, <1>2 DEF TransactionInv, Wrote, MayClose, MayInsert, OpenRows, At
<1>5. QED
  BY <1>3, <1>4

LEMMA CloseKeeps ==
    ASSUME ChainInv, NEW w \in Workers, Close(w)
    PROVE  JobInv(w)' /\ TransactionInv(w)'
<1> DEFINE f0 == Now(w).filing
<1>1. TypeOK /\ JobInv(w) /\ TransactionInv(w) /\ clock' = clock
      /\ versions' = versions /\ job[w].left # {}
  BY LeftIsNotEmpty DEF ChainInv, Close
<1>2. /\ job[w].pc \in {"close", "blocked"} /\ job'[w].pc = "insert"
      /\ job'[w].kt = job[w].kt /\ job'[w].left = job[w].left
      /\ job'[w].current = job[w].current
      /\ job'[w].closed = job[w].closed \cup {f0}
      /\ job'[w].wrote = job[w].wrote /\ job'[w].revisions = job[w].revisions
      /\ f0 \in Filings
      /\ lock' = [lock EXCEPT ![f0] = w] /\ MayClose(f0, job[w].kt)
  BY <1>1, CloseMoves
<1>3. JobInv(w)'
  BY <1>1, <1>2 DEF JobInv, At
<1>4. \A f \in Filings : f \in job'[w].closed \/ Wrote(w, f)' => lock'[f] = w
  BY <1>1, <1>2 DEF TransactionInv, Wrote, TypeOK
<1>5. \A f \in job'[w].closed : MayClose(f, job[w].kt)'
  BY <1>1, <1>2 DEF TransactionInv, MayClose, OpenRows
<1>6. job[w].current /\ Now(w)' = Now(w) /\ At(w, "insert")'
  BY <1>1, <1>2 DEF JobInv, At, Now
<1>7. \A f \in job[w].closed : f \in job[w].revisions
  BY <1>1, <1>2 DEF TransactionInv, At
<1>8. \A f \in job'[w].closed :
          f \in job'[w].revisions \/ (At(w, "insert")' /\ job'[w].current /\ Now(w)'.filing = f)
  BY <1>2, <1>6, <1>7
<1>9. \A f \in Filings : Wrote(w, f)' => MayInsert(w, f)'
  BY <1>1, <1>2 DEF TransactionInv, Wrote, MayInsert, OpenRows
<1>10. QED
  BY <1>3, <1>4, <1>5, <1>8, <1>9 DEF TransactionInv

LEMMA WaitsKeeps ==
    ASSUME ChainInv, NEW w \in Workers, Waits(w)
    PROVE  JobInv(w)' /\ TransactionInv(w)'
<1>1. TypeOK /\ JobInv(w) /\ TransactionInv(w) /\ clock' = clock
      /\ lock' = lock /\ versions' = versions /\ job[w].left # {}
  BY LeftIsNotEmpty DEF ChainInv, Waits, CloseWaits, CloseMisses
<1>2. /\ job[w].pc \in {"close", "blocked"} /\ job'[w].pc \in {"blocked", "insert"}
      /\ job'[w].kt = job[w].kt /\ job'[w].left = job[w].left
      /\ job'[w].current = job[w].current /\ job'[w].closed = job[w].closed
      /\ job'[w].wrote = job[w].wrote /\ job'[w].revisions = job[w].revisions
  BY <1>1, CloseWaitsMoves DEF Waits
<1>3. JobInv(w)'
  BY <1>1, <1>2 DEF JobInv, At
<1>4. TransactionInv(w)'
  BY <1>1, <1>2 DEF TransactionInv, Wrote, MayClose, MayInsert, OpenRows, At
<1>5. QED
  BY <1>3, <1>4

LEMMA InsertKeeps ==
    ASSUME ChainInv, NEW w \in Workers, Insert(w)
    PROVE  JobInv(w)' /\ TransactionInv(w)'
<1> DEFINE f0 == Now(w).filing
<1>1. TypeOK /\ JobInv(w) /\ TransactionInv(w) /\ clock' = clock
      /\ versions' = versions /\ job[w].left # {}
  BY LeftIsNotEmpty DEF ChainInv, Insert
<1>2. /\ At(w, "insert") /\ job'[w].pc = "read" /\ job'[w].kt = job[w].kt
      /\ job'[w].closed = job[w].closed
      /\ \A f \in Filings : Wrote(w, f)' => Wrote(w, f) \/ f = f0
      /\ job'[w].revisions = IF job[w].current THEN job[w].revisions \cup {f0}
                             ELSE job[w].revisions
      /\ f0 \in Filings /\ lock' = [lock EXCEPT ![f0] = w] /\ MayInsert(w, f0)
  BY <1>1, InsertMoves DEF Wrote
<1>3. JobInv(w)'
  BY <1>1, <1>2 DEF JobInv, At
<1>4. \A f \in Filings : f \in job'[w].closed \/ Wrote(w, f)' => lock'[f] = w
  BY <1>1, <1>2 DEF TransactionInv, TypeOK
<1>5. \A f \in job'[w].closed : MayClose(f, job[w].kt)'
  BY <1>1, <1>2 DEF TransactionInv, MayClose, OpenRows
<1>6. \A f \in job'[w].closed : f \in job'[w].revisions
  BY <1>1, <1>2 DEF TransactionInv
<1>7. \A f \in Filings : Wrote(w, f)' => MayInsert(w, f)'
  BY <1>1, <1>2 DEF TransactionInv, MayInsert, OpenRows
<1>8. QED
  BY <1>2, <1>3, <1>4, <1>5, <1>6, <1>7 DEF TransactionInv

LEMMA MoverKeeps ==
    ASSUME ChainInv, NEW w \in Workers, WorkerStep(w)
    PROVE  JobInv(w)' /\ TransactionInv(w)'
BY LeavingKeeps, RestingKeeps, BeginKeeps, FetchKeeps, ReadOpenKeeps, CloseKeeps,
   WaitsKeeps, InsertKeeps DEF WorkerStep

-----------------------------------------------------------------------------
(* The invariant *)

(* An attempt that writes a version has closed the open one, which is older: *)
(* the unique index and the CHECK see to it.                                 *)
LEMMA ClosesOlder ==
    ASSUME ChainInv, NEW w \in Workers, At(w, "read"), NEW f \in Filings, Wrote(w, f)
    PROVE  /\ \A i \in DOMAIN versions[f] :
                 versions[f][i].to = Null => versions[f][i].from < job[w].kt
           /\ OpenRows(f) # {} => f \in job[w].revisions
<1>1. TransactionInv(w)
  BY DEF ChainInv
<1>2. MayInsert(w, f)
  BY <1>1 DEF TransactionInv
<1>3. OpenRows(f) # {} => f \in job[w].closed
  BY <1>2 DEF MayInsert
<1>4. OpenRows(f) # {} => MayClose(f, job[w].kt) /\ f \in job[w].revisions
  BY <1>1, <1>3 DEF TransactionInv, At
<1>5. QED
  BY <1>4 DEF OpenRows, MayClose

LEMMA ChainsStay ==
    ASSUME ChainInv, NEW w \in Workers, WorkerStep(w), NEW f \in Filings
    PROVE  Chained(versions'[f])
<1>1. TypeOK /\ Chained(versions[f]) /\ versions[f] \in Seq(Rows)
  BY DEF ChainInv, TypeOK
<1>2. CASE CommitStock(w) /\ Wrote(w, f)
  <2>1. PICK v \in Kept : versions'[f] = Versioned(versions[f], v, job[w].kt)
    BY <1>2, CommitMoves
  <2>2. At(w, "read") /\ job[w].kt \in Times
    BY <1>2, CommitMoves DEF CommitStock
  <2>3. \A i \in DOMAIN versions[f] : versions[f][i].to = Null => versions[f][i].from < job[w].kt
    BY <1>2, <2>2, ClosesOlder
  <2>4. QED
    BY <1>1, <2>1, <2>2, <2>3, VersionedChained
<1>3. CASE CommitStock(w) /\ ~Wrote(w, f)
  BY <1>1, <1>3, CommitMoves
<1>4. CASE versions' = versions
  BY <1>1, <1>4
<1>5. QED
  BY <1>2, <1>3, <1>4, WorkerTables

(* What a worker's step does to the rest of the state. *)
LEMMA WorkerLogs ==
    ASSUME ChainInv, NEW w \in Workers, WorkerStep(w)
    PROVE  /\ provider' = provider /\ restatements' = restatements
           /\ faults' \in 0..MaxUpsets /\ crashes' \in 0..MaxUpsets
           /\ announced' \subseteq [filing : Filings, time : Times]
           /\ announced \subseteq announced'
<1>1. /\ TypeOK /\ JobInv(w) /\ job[w] \in Jobs /\ MaxUpsets \in Nat /\ MaxAttempts \in Nat
      /\ faults \in 0..MaxUpsets /\ crashes \in 0..MaxUpsets
      /\ announced \subseteq [filing : Filings, time : Times]
  BY VersionBoundsAssumption DEF ChainInv, TypeOK
<1>2. /\ provider' = provider /\ restatements' = restatements
      /\ faults' = faults \/ (faults' = faults + 1 /\ faults + crashes < MaxUpsets)
      /\ crashes' = crashes \/ (crashes' = crashes + 1 /\ faults + crashes < MaxUpsets)
      /\ announced' = announced \/ Publish(w)
  BY DEF WorkerStep, Begin, Fetch, ReadOpen, Close, Waits, CloseWaits, CloseMisses, Insert,
     Leaves, FetchFails, CommitStock, StockRejected, StockFails, Rests, Publish, Crash, bounds
<1>3. faults' \in 0..MaxUpsets /\ crashes' \in 0..MaxUpsets
  BY <1>1, <1>2
<1>4. CASE Publish(w)
  <2>1. announced' = announced \cup [filing : job[w].revisions, time : {job[w].kt}]
    BY <1>4 DEF Publish
  <2>2. job[w].kt \in Times /\ job[w].revisions \subseteq Filings
    BY <1>1, <1>4 DEF Publish, JobInv, At, Jobs, Times, TypeOK
  <2>3. QED
    BY <1>1, <1>2, <1>3, <2>1, <2>2
<1>5. QED
  BY <1>1, <1>2, <1>3, <1>4

LEMMA RestateKeeps ==
    ASSUME ChainInv, NEW f \in Filings, NEW v \in Values, Restate(f, v)
    PROVE  ChainInv'
<1>1. TypeOK'
  BY VersionBoundsAssumption DEF ChainInv, TypeOK, Restate
<1>2. /\ versions' = versions /\ lock' = lock /\ job' = job /\ clock' = clock
  BY DEF Restate
<1>3. \A w \in Workers : JobInv(w)' /\ TransactionInv(w)'
  BY <1>2 DEF ChainInv, JobInv, TransactionInv, At, Wrote, MayClose, MayInsert, OpenRows, Now
<1>4. \A g \in Filings : Chained(versions[g])'
  BY <1>2 DEF ChainInv, Chained
<1>5. QED
  BY <1>1, <1>3, <1>4 DEF ChainInv

LEMMA ChainInvInit == Init => ChainInv
<1> SUFFICES ASSUME Init PROVE ChainInv
  OBVIOUS
<1>1. <<>> \in Seq(Rows) /\ DOMAIN <<>> = {}
  OBVIOUS
<1>2. TypeOK
  BY <1>1, RestingIsJob, VersionBoundsAssumption DEF Init, TypeOK
<1>3. \A w \in Workers : job[w] = Resting
  BY DEF Init
<1>4. \A w \in Workers : JobInv(w) /\ TransactionInv(w)
  BY <1>3 DEF JobInv, TransactionInv, Resting, At, Wrote
<1>5. \A f \in Filings : Chained(versions[f])
  BY <1>1 DEF Init, Chained
<1>6. QED
  BY <1>2, <1>4, <1>5 DEF ChainInv

LEMMA ChainInvNext == ChainInv /\ [Next]_vars => ChainInv'
<1> SUFFICES ASSUME ChainInv, [Next]_vars PROVE ChainInv'
  OBVIOUS
<1>1. CASE UNCHANGED vars
  <2>1. /\ provider' = provider /\ versions' = versions /\ lock' = lock /\ job' = job
        /\ clock' = clock /\ announced' = announced /\ restatements' = restatements
        /\ faults' = faults /\ crashes' = crashes
    BY <1>1 DEF vars
  <2>2. TypeOK'
    BY <2>1 DEF ChainInv, TypeOK
  <2>3. \A w \in Workers : JobInv(w)' /\ TransactionInv(w)'
    BY <2>1 DEF ChainInv, JobInv, TransactionInv, At, Wrote, MayClose, MayInsert, OpenRows, Now
  <2>4. \A g \in Filings : Chained(versions[g])'
    BY <2>1 DEF ChainInv, Chained
  <2>5. QED
    BY <2>2, <2>3, <2>4 DEF ChainInv
<1>2. ASSUME NEW w \in Workers, WorkerStep(w) PROVE ChainInv'
  <2>1. TypeOK'
    BY <1>2, WorkerLogs, WorkerMovesAlone, WorkerTables DEF ChainInv, TypeOK
  <2>2. \A v \in Workers : JobInv(v)' /\ TransactionInv(v)'
    BY <1>2, MoverKeeps, OthersKeep
  <2>3. \A f \in Filings : Chained(versions[f])'
    BY <1>2, ChainsStay DEF Chained
  <2>4. QED
    BY <2>1, <2>2, <2>3 DEF ChainInv
<1>3. QED
  BY <1>1, <1>2, StepSplits, RestateKeeps

(* The rows of every filing are one chain, whatever overlaps or fails: the   *)
(* invariant of this module holds in every reachable state.                  *)
THEOREM ChainInvHolds == Spec => []ChainInv
<1>1. QED
  BY ChainInvInit, ChainInvNext, PTL DEF Spec

(* Each version closes when its successor starts, only the last is open and  *)
(* no interval is empty (record_fundamental_version, the CHECK and the       *)
(* partial unique index), however attempts overlap, fail or die.             *)
THEOREM VersionsAreAlwaysAChain == Spec => []VersionsAreAChain
<1>1. ASSUME ChainInv PROVE VersionsAreAChain
  <2>1. TypeOK
    BY <1>1 DEF ChainInv
  <2>2. ASSUME NEW f \in Filings, NEW i \in DOMAIN versions[f]
        PROVE  IF i = Len(versions[f]) THEN versions[f][i].to = Null
               ELSE /\ versions[f][i].to = versions[f][i + 1].from
                    /\ versions[f][i].from < versions[f][i].to
    <3>1. Chained(versions[f]) /\ versions[f] \in Seq(Rows)
      BY <1>1 DEF ChainInv, TypeOK
    <3>2. DOMAIN versions[f] = 1..Len(versions[f]) /\ Len(versions[f]) \in Nat
      BY <3>1
    <3>3. CASE i = Len(versions[f])
      BY <3>1, <3>3 DEF Chained
    <3>4. CASE i # Len(versions[f])
      <4>1. i + 1 \in DOMAIN versions[f] /\ i < i + 1
        BY <3>2, <3>4
      <4>2. versions[f][i].to = versions[f][i + 1].from
        BY <3>1, <3>4 DEF Chained
      <4>3. versions[f][i].from < versions[f][i + 1].from
        BY <3>1, <4>1 DEF Chained
      <4>4. QED
        BY <3>4, <4>2, <4>3
    <3>5. QED
      BY <3>3, <3>4
  <2>3. QED
    BY <2>1, <2>2 DEF VersionsAreAChain, Contiguous
<1>2. QED
  BY <1>1, ChainInvHolds, PTL

-----------------------------------------------------------------------------
(* Announcements *)

(* A row after the first replaced an open one, which its attempt had closed, *)
(* and so listed as a revision.                                              *)
LEMMA AnnouncedNext == ChainInv /\ RevisionsAnnounced /\ [Next]_vars => RevisionsAnnounced'
<1> SUFFICES ASSUME ChainInv, RevisionsAnnounced, [Next]_vars, crashes' = 0,
                    NEW f \in Filings, NEW i \in DOMAIN versions'[f] \ {1}
             PROVE  \/ [filing |-> f, time |-> versions'[f][i].from] \in announced'
                    \/ \E u \in Workers : /\ job'[u].kt = versions'[f][i].from
                                          /\ f \in job'[u].revisions
  BY DEF RevisionsAnnounced
<1>1. CASE UNCHANGED vars \/ \E g \in Filings, v \in Values : Restate(g, v)
  <2>1. versions' = versions /\ job' = job /\ announced' = announced /\ crashes' = crashes
    BY <1>1 DEF vars, Restate
  <2>2. QED
    BY <2>1 DEF RevisionsAnnounced
<1>2. ASSUME NEW w \in Workers, WorkerStep(w)
      PROVE  \/ [filing |-> f, time |-> versions'[f][i].from] \in announced'
             \/ \E u \in Workers : /\ job'[u].kt = versions'[f][i].from
                                   /\ f \in job'[u].revisions
  <2>1. /\ TypeOK /\ JobInv(w) /\ versions[f] \in Seq(Rows) /\ Chained(versions[f])
        /\ crashes \in Nat
    BY DEF ChainInv, TypeOK
  <2>2. crashes = 0 /\ ~Crash(w)
    <3>1. crashes' = crashes \/ Crash(w)
      BY <1>2 DEF WorkerStep, Begin, Fetch, ReadOpen, Close, Waits, CloseWaits,
         CloseMisses, Insert, Leaves, FetchFails, CommitStock, StockRejected, StockFails,
         Rests, Publish, Crash, bounds
    <3>2. Crash(w) => crashes' = crashes + 1
      BY DEF Crash
    <3>3. QED
      BY <2>1, <3>1, <3>2
  <2>3. ASSUME NEW t, f \in job[w].revisions, job[w].kt = t
        PROVE  \/ [filing |-> f, time |-> t] \in announced'
               \/ job'[w].kt = t /\ f \in job'[w].revisions
    <3>1. CASE Begin(w)
      BY <2>1, <2>3, <3>1 DEF Begin, JobInv
    <3>2. CASE Publish(w)
      BY <2>3, <3>2 DEF Publish
    <3>3. CASE Leaves(w)
      BY <2>1, <2>3, <3>3, LeavesMoves, NextStockMoves
    <3>4. CASE Fetch(w)
      BY <2>1, <2>3, <3>4, FetchMoves, NextStockMoves
    <3>5. CASE ReadOpen(w)
      BY <2>1, <2>3, <3>5, ReadOpenMoves
    <3>6. CASE Close(w) \/ Waits(w)
      BY <2>1, <2>3, <3>6, CloseMoves, CloseWaitsMoves, LeftIsNotEmpty DEF Waits
    <3>7. CASE Insert(w)
      BY <2>1, <2>3, <3>7, InsertMoves, LeftIsNotEmpty
    <3>8. QED
      BY <1>2, <2>2, <3>1, <3>2, <3>3, <3>4, <3>5, <3>6, <3>7 DEF WorkerStep, Rests
  <2>4. ASSUME NEW j \in DOMAIN versions[f] \ {1}
        PROVE  \/ [filing |-> f, time |-> versions[f][j].from] \in announced'
               \/ \E u \in Workers : /\ job'[u].kt = versions[f][j].from
                                     /\ f \in job'[u].revisions
    <3>1. CASE [filing |-> f, time |-> versions[f][j].from] \in announced
      BY <1>2, <3>1, WorkerLogs
    <3>2. ASSUME NEW u \in Workers, job[u].kt = versions[f][j].from, f \in job[u].revisions
          PROVE  \/ [filing |-> f, time |-> versions[f][j].from] \in announced'
                 \/ \E x \in Workers : /\ job'[x].kt = versions[f][j].from
                                       /\ f \in job'[x].revisions
      <4>1. CASE u = w
        BY <2>3, <3>2, <4>1
      <4>2. CASE u # w
        BY <1>2, <3>2, <4>2, WorkerMovesAlone
      <4>3. QED
        BY <4>1, <4>2
    <3>3. QED
      BY <2>2, <2>4, <3>1, <3>2 DEF RevisionsAnnounced
  <2>5. CASE CommitStock(w) /\ Wrote(w, f)
    <3>1. PICK v \in Kept : versions'[f] = Versioned(versions[f], v, job[w].kt)
      BY <2>5, CommitMoves
    <3>2. job[w].kt \in Times /\ At(w, "read")
      BY <2>5, CommitMoves DEF CommitStock
    <3>3. /\ Len(versions'[f]) = Len(versions[f]) + 1 /\ versions'[f] \in Seq(Rows)
          /\ \A j \in 1..Len(versions[f]) : versions'[f][j].from = versions[f][j].from
          /\ versions'[f][Len(versions[f]) + 1].from = job[w].kt
      <4> DEFINE new == Versioned(versions[f], v, job[w].kt)
      <4>1. /\ Len(new) = Len(versions[f]) + 1 /\ new \in Seq(Rows)
            /\ \A j \in 1..Len(versions[f]) : new[j].from = versions[f][j].from
            /\ new[Len(versions[f]) + 1] = [value |-> v, from |-> job[w].kt, to |-> Null]
        BY <2>1, <3>2, VersionedIs
      <4> HIDE DEF new
      <4>2. versions'[f] = new
        BY <3>1 DEF new
      <4>3. QED
        BY <4>1, <4>2
    <3>4. DOMAIN versions[f] = 1..Len(versions[f]) /\ Len(versions[f]) \in Nat
      BY <2>1
    <3>5. DOMAIN versions'[f] = 1..(Len(versions[f]) + 1)
      BY <3>3
    <3>6. CASE i \in 1..Len(versions[f])
      BY <2>4, <3>3, <3>4, <3>6
    <3>7. CASE i = Len(versions[f]) + 1
      <4>1. Len(versions[f]) \in DOMAIN versions[f]
        BY <3>4, <3>7
      <4>2. OpenRows(f) # {}
        BY <2>1, <4>1 DEF Chained, OpenRows
      <4>3. f \in job[w].revisions
        BY <2>5, <3>2, <4>2, ClosesOlder
      <4>4. versions'[f][i].from = job[w].kt
        BY <3>3, <3>7
      <4>5. QED
        BY <2>3, <4>3, <4>4
    <3>8. QED
      BY <3>4, <3>5, <3>6, <3>7
  <2>6. CASE versions'[f] = versions[f]
    BY <2>4, <2>6
  <2>7. QED
    BY <1>2, <2>5, <2>6, WorkerTables, CommitMoves
<1>3. QED
  BY <1>1, <1>2, StepSplits

(* As long as no worker dies, every committed revision is announced or in    *)
(* the list of a running attempt that will announce it (ingest publishes the *)
(* list after its loop, whatever failed in it).                              *)
THEOREM RevisionsAreAlwaysAnnounced == Spec => []RevisionsAnnounced
<1>1. Init => RevisionsAnnounced
  <2>1. DOMAIN <<>> = {}
    OBVIOUS
  <2>2. QED
    BY <2>1 DEF Init, RevisionsAnnounced
<1>2. QED
  BY <1>1, AnnouncedNext, ChainInvHolds, PTL DEF Spec

-----------------------------------------------------------------------------
(* What was known as of a time *)

Known(rows, t) == \E i \in DOMAIN rows : Holds(rows[i], t)

KnownAt(s, t) == {n \in DOMAIN FilingsOf[s] : Known(versions[FilingsOf[s][n]], t)}

ValueAt(rows, t) ==
    rows[CHOOSE i \in DOMAIN rows :
           /\ Holds(rows[i], t)
           /\ \A j \in DOMAIN rows : Holds(rows[j], t) => rows[j].from <= rows[i].from].value

(* At most one row of a chain holds a time, so the CHOOSE is that one. *)
LEMMA OneHolds ==
    ASSUME NEW rows \in Seq(Rows), Chained(rows), NEW t \in Times,
           NEW i \in DOMAIN rows, Holds(rows[i], t)
    PROVE  /\ \A j \in DOMAIN rows : Holds(rows[j], t) => j = i
           /\ ValueAt(rows, t) = rows[i].value
<1>1. /\ DOMAIN rows = 1..Len(rows) /\ Len(rows) \in Nat /\ t \in Nat
      /\ \A j \in DOMAIN rows : rows[j].from \in Nat /\ rows[j].to \in Nat
  BY RowTimes, TimesPositive
<1>2. ASSUME NEW j \in DOMAIN rows, NEW k \in DOMAIN rows, j < k,
             Holds(rows[j], t), Holds(rows[k], t)
      PROVE  FALSE
  <2>1. j # Len(rows)
    BY <1>1, <1>2
  <2>2. rows[j].to # Null /\ rows[j].to <= rows[k].from
    BY <1>2, <2>1 DEF Chained
  <2>3. t < rows[j].to /\ rows[k].from <= t
    BY <1>2, <2>2 DEF Holds
  <2>4. QED
    BY <1>1, <2>2, <2>3
<1>3. \A j \in DOMAIN rows : Holds(rows[j], t) => j = i
  BY <1>1, <1>2
<1>4. \A j \in DOMAIN rows :
          (/\ Holds(rows[j], t)
           /\ \A k \in DOMAIN rows : Holds(rows[k], t) => rows[k].from <= rows[j].from)
          <=> j = i
  BY <1>1, <1>3
<1>5. ValueAt(rows, t) = rows[i].value
  BY <1>4 DEF ValueAt
<1>6. QED
  BY <1>3, <1>5

(* A later version changes nothing of what was known before it. *)
LEMMA EarlierViewStays ==
    ASSUME NEW rows \in Seq(Rows), Chained(rows), NEW v \in Kept, NEW kt \in Times,
           NEW t \in Times, t < kt, Chained(Versioned(rows, v, kt))
    PROVE  /\ Known(Versioned(rows, v, kt), t) <=> Known(rows, t)
           /\ Known(rows, t) => ValueAt(Versioned(rows, v, kt), t) = ValueAt(rows, t)
<1> DEFINE new == Versioned(rows, v, kt)
           n == Len(rows)
<1>1. /\ DOMAIN rows = 1..n /\ n \in Nat /\ t \in Nat /\ kt \in Nat /\ kt > 0
      /\ \A j \in 1..n : rows[j].from \in Nat /\ rows[j].to \in Nat
  BY RowTimes, TimesPositive
<1>2. /\ new \in Seq(Rows) /\ Len(new) = n + 1
      /\ \A i \in 1..n : /\ new[i].value = rows[i].value /\ new[i].from = rows[i].from
                         /\ new[i].to = IF rows[i].to = Null THEN kt ELSE rows[i].to
      /\ new[n + 1] = [value |-> v, from |-> kt, to |-> Null]
  BY VersionedIs
<1> HIDE DEF new, n
<1>3. DOMAIN new = 1..(n + 1) /\ new[n + 1].from = kt
  BY <1>1, <1>2
<1>4. \A i \in 1..n : Holds(new[i], t) <=> Holds(rows[i], t)
  BY <1>1, <1>2 DEF Holds, Null
<1>5. ~Holds(new[n + 1], t)
  BY <1>1, <1>3 DEF Holds
<1>6. Known(new, t) <=> Known(rows, t)
  BY <1>1, <1>3, <1>4, <1>5 DEF Known
<1>7. ASSUME Known(rows, t) PROVE ValueAt(new, t) = ValueAt(rows, t)
  <2>1. PICK i \in DOMAIN rows : Holds(rows[i], t)
    BY <1>7 DEF Known
  <2>2. i \in 1..n /\ i \in DOMAIN new /\ Holds(new[i], t) /\ Chained(new)
    BY <1>1, <1>3, <1>4, <2>1 DEF new
  <2>3. ValueAt(rows, t) = rows[i].value
    BY <2>1, OneHolds
  <2>4. ValueAt(new, t) = new[i].value
    BY <1>2, <2>2, OneHolds
  <2>5. QED
    BY <1>2, <2>2, <2>3, <2>4
<1>8. QED
  BY <1>6, <1>7 DEF new

LEMMA AsOfIs ==
    ASSUME NEW s, NEW t
    PROVE  /\ KnownAt(s, t) = {} => AsOf(s, t) = NotFiled
           /\ KnownAt(s, t) # {} =>
                AsOf(s, t) = ValueAt(versions[FilingsOf[s][CHOOSE n \in KnownAt(s, t) :
                                               \A m \in KnownAt(s, t) : n <= m]], t)
BY DEF AsOf, KnownAt, Known, ValueAt

LEMMA AsOfWillBe ==
    ASSUME NEW s, NEW t
    PROVE  /\ KnownAt(s, t)' = {} => AsOf(s, t)' = NotFiled
           /\ KnownAt(s, t)' # {} =>
                AsOf(s, t)' = ValueAt(versions'[FilingsOf[s][CHOOSE n \in KnownAt(s, t)' :
                                               \A m \in KnownAt(s, t)' : n <= m]], t)
BY DEF AsOf, KnownAt, Known, ValueAt

LEMMA HistoryStays ==
    ASSUME ChainInv, [Next]_vars, NEW s \in Stocks, NEW t \in Times, t <= clock,
           \A w \in Workers : At(w, "idle") \/ t < job[w].kt
    PROVE  AsOf(s, t)' = AsOf(s, t)
<1>1. ASSUME NEW f \in Filings
      PROVE  /\ Known(versions'[f], t) <=> Known(versions[f], t)
             /\ Known(versions[f], t) => ValueAt(versions'[f], t) = ValueAt(versions[f], t)
  <2>1. versions[f] \in Seq(Rows) /\ Chained(versions[f]) /\ Chained(versions'[f])
    BY ChainInvNext DEF ChainInv, TypeOK, Chained
  <2>2. CASE versions'[f] = versions[f]
    BY <2>2
  <2>3. ASSUME NEW w \in Workers, CommitStock(w), Wrote(w, f)
        PROVE  /\ Known(versions'[f], t) <=> Known(versions[f], t)
               /\ Known(versions[f], t) => ValueAt(versions'[f], t) = ValueAt(versions[f], t)
    <3>1. PICK v \in Kept : versions'[f] = Versioned(versions[f], v, job[w].kt)
      BY <2>3, CommitMoves
    <3>2. job[w].kt \in Times /\ t < job[w].kt
      BY <2>3, CommitMoves DEF CommitStock, At
    <3>3. QED
      BY <2>1, <3>1, <3>2, EarlierViewStays
  <2>4. versions'[f] = versions[f] \/ \E w \in Workers : CommitStock(w) /\ Wrote(w, f)
    <3>1. CASE UNCHANGED vars \/ \E g \in Filings, v \in Values : Restate(g, v)
      BY <3>1 DEF vars, Restate
    <3>2. QED
      BY <3>1, StepSplits, WorkerTables, CommitMoves
  <2>5. QED
    BY <2>2, <2>3, <2>4
<1>2. KnownAt(s, t)' = KnownAt(s, t)
  BY <1>1, Universe DEF KnownAt, Known
<1>3. CASE KnownAt(s, t) = {}
  BY <1>2, <1>3, AsOfIs, AsOfWillBe
<1>4. CASE KnownAt(s, t) # {}
  <2> DEFINE K == KnownAt(s, t)
             n == CHOOSE n \in K : \A m \in K : n <= m
  <2>1. K \subseteq Nat
    BY Universe DEF KnownAt
  <2>2. \E x \in K : \A y \in K : x <= y
    <3> HIDE DEF K
    <3>1. QED
      BY <1>4, <2>1, LeastElement DEF K
  <2>3. n \in K
    BY <2>2
  <2>4. FilingsOf[s][n] \in Filings /\ Known(versions[FilingsOf[s][n]], t)
    BY <2>3, Universe DEF KnownAt
  <2>5. AsOf(s, t) = ValueAt(versions[FilingsOf[s][n]], t)
    BY <1>4, AsOfIs
  <2>6. AsOf(s, t)' = ValueAt(versions'[FilingsOf[s][n]], t)
    BY <1>2, <1>4, AsOfWillBe
  <2>7. QED
    BY <1>1, <2>4, <2>5, <2>6
<1>5. QED
  BY <1>3, <1>4

(* What was known as of a time that every running attempt has passed never   *)
(* changes again (fundamentals_as_of).                                       *)
THEOREM HistoryIsAlwaysFixed == Spec => HistoryIsFixed
<1>1. ChainInv /\ [Next]_vars =>
        [\A s \in Stocks, t \in Times :
          (t <= clock /\ \A w \in Workers : At(w, "idle") \/ t < job[w].kt)
              => AsOf(s, t)' = AsOf(s, t)]_vars
  BY HistoryStays
<1>2. QED
  BY <1>1, ChainInvHolds, PTL DEF Spec, HistoryIsFixed

-----------------------------------------------------------------------------
(* The table implements the append-only log *)

Entries == [value : Kept, from : Times]
Entry(r) == [value |-> r.value, from |-> r.from]
LogOf(rows) == [i \in DOMAIN rows |-> [value |-> rows[i].value, from |-> rows[i].from]]

LEMMA LogIsSequence ==
    ASSUME NEW rows \in Seq(Rows)
    PROVE  LogOf(rows) \in Seq(Entries) /\ Len(LogOf(rows)) = Len(rows)
<1>1. DOMAIN rows = 1..Len(rows) /\ Len(rows) \in Nat
  OBVIOUS
<1>2. \A i \in DOMAIN rows : [value |-> rows[i].value, from |-> rows[i].from] \in Entries
  BY <1>1, RowTimes DEF Rows, Entries
<1>3. QED
  BY <1>1, <1>2 DEF LogOf

(* A version more is an entry more: closing a row is not seen in the log. *)
LEMMA VersionedAppends ==
    ASSUME NEW rows \in Seq(Rows), NEW v \in Kept, NEW kt \in Times
    PROVE  LogOf(Versioned(rows, v, kt)) = Append(LogOf(rows), [value |-> v, from |-> kt])
<1> DEFINE new == Versioned(rows, v, kt)
           n == Len(rows)
           e == [value |-> v, from |-> kt]
           s == LogOf(new)
           a == Append(LogOf(rows), e)
<1>1. DOMAIN rows = 1..n /\ n \in Nat
  OBVIOUS
<1>2. /\ new \in Seq(Rows) /\ Len(new) = n + 1
      /\ \A i \in 1..n : new[i].value = rows[i].value /\ new[i].from = rows[i].from
      /\ new[n + 1] = [value |-> v, from |-> kt, to |-> Null]
  BY VersionedIs
<1>3. e \in Entries
  BY DEF Entries
<1>4. LogOf(rows) \in Seq(Entries) /\ Len(LogOf(rows)) = n
  BY LogIsSequence
<1>5. \A i \in 1..n : LogOf(rows)[i] = [value |-> rows[i].value, from |-> rows[i].from]
  BY <1>1 DEF LogOf
<1> HIDE DEF new, n, e
<1>6. s \in Seq(Entries) /\ Len(s) = n + 1
  BY <1>2, LogIsSequence
<1>7. \A i \in 1..(n + 1) : s[i] = [value |-> new[i].value, from |-> new[i].from]
  BY <1>1, <1>2 DEF LogOf
<1>8. /\ a \in Seq(Entries) /\ Len(a) = n + 1 /\ a[n + 1] = e
      /\ \A i \in 1..n : a[i] = LogOf(rows)[i]
  BY <1>1, <1>3, <1>4
<1>9. s[n + 1] = e
  BY <1>1, <1>2, <1>7 DEF e
<1>10. \A i \in 1..n : s[i] = a[i]
  <2> SUFFICES ASSUME NEW i \in 1..n PROVE s[i] = a[i]
    OBVIOUS
  <2>1. s[i] = [value |-> new[i].value, from |-> new[i].from]
    BY <1>1, <1>7
  <2>2. a[i] = [value |-> rows[i].value, from |-> rows[i].from]
    BY <1>5, <1>8
  <2>3. QED
    BY <1>2, <2>1, <2>2
<1>11. \A i \in 1..(n + 1) : s[i] = a[i]
  BY <1>1, <1>8, <1>9, <1>10
<1> HIDE DEF s, a
<1>12. s = a
  BY <1>1, <1>6, <1>8, <1>11
<1>13. QED
  BY <1>12 DEF s, a, new, e

TheLog == [f \in Filings |-> LogOf(versions[f])]

LEMMA LogStarts == Init => Log!LogInit
<1> SUFFICES ASSUME Init PROVE Log!LogInit
  OBVIOUS
<1>1. \A f \in Filings : versions[f] = <<>>
  BY DEF Init
<1>2. LogOf(<<>>) = <<>>
  BY DEF LogOf
<1>3. QED
  BY <1>1, <1>2 DEF Log!LogInit, LogOf

LEMMA LogGrows == ChainInv /\ [Next]_vars => Log!LogNext \/ TheLog' = TheLog
<1> SUFFICES ASSUME ChainInv, [Next]_vars PROVE Log!LogNext \/ TheLog' = TheLog
  OBVIOUS
<1>1. CASE versions' = versions
  BY <1>1 DEF TheLog
<1>2. ASSUME NEW w \in Workers, CommitStock(w) PROVE Log!LogNext
  <2> DEFINE kt == job[w].kt
             F == {f \in Filings : Wrote(w, f)}
             said == [f \in F |-> CHOOSE v \in Kept : versions'[f] = Versioned(versions[f], v, kt)]
  <2>1. /\ At(w, "read") /\ kt \in Times
        /\ \A f \in F : \E v \in Kept : versions'[f] = Versioned(versions[f], v, kt)
        /\ \A f \in Filings \ F : versions'[f] = versions[f]
    BY <1>2, CommitMoves DEF CommitStock
  <2>2. \A f \in Filings : versions[f] \in Seq(Rows) /\ Chained(versions[f])
    BY DEF ChainInv, TypeOK
  <2>3. \A f \in F : said[f] \in Kept /\ versions'[f] = Versioned(versions[f], said[f], kt)
    BY <2>1
  <2>4. said \in [F -> Kept] /\ F \in SUBSET Filings
    BY <2>3
  <2>5. \A f \in F : \A i \in DOMAIN versions[f] : versions[f][i].from < kt
    BY <2>1, <2>2, ClosesOlder, OpenIsLatest
  <2> HIDE DEF F, said, kt
  <2>6. \A f \in F : f \in Filings
    BY <2>4
  <2>7. \A f \in F : \A i \in DOMAIN LogOf(versions[f]) : LogOf(versions[f])[i].from < kt
    BY <2>5 DEF LogOf
  <2>8. \A f \in F : LogOf(versions'[f]) =
                       Append(LogOf(versions[f]), [value |-> said[f], from |-> kt])
    BY <2>1, <2>2, <2>3, <2>6, VersionedAppends
  <2>9. \A f \in F : Log!Follows(f, kt)
    BY <2>6, <2>7 DEF Log!Follows, LogOf
  <2>10. TheLog' = [f \in Filings |->
                      IF f \in F THEN Append(TheLog[f], [value |-> said[f], from |-> kt])
                      ELSE TheLog[f]]
    BY <2>1, <2>8 DEF TheLog
  <2>11. kt \in 1..MaxAttempts
    BY <2>1 DEF Times
  <2>12. \E t \in 1..MaxAttempts, G \in SUBSET Filings : \E x \in [G -> Kept] :
            /\ \A f \in G : Log!Follows(f, t)
            /\ TheLog' = [f \in Filings |->
                           IF f \in G THEN Append(TheLog[f], [value |-> x[f], from |-> t])
                           ELSE TheLog[f]]
    BY <2>4, <2>9, <2>10, <2>11
  <2>13. QED
    BY <2>12 DEF Log!LogNext, Log!Learn, TheLog, LogOf
<1>3. CASE UNCHANGED vars \/ \E g \in Filings, v \in Values : Restate(g, v)
  <2>1. versions' = versions
    BY <1>3 DEF vars, Restate
  <2>2. QED
    BY <1>1, <2>1
<1>4. QED
  BY <1>1, <1>2, <1>3, StepSplits, WorkerTables

(* Every step of the job is a step of the append-only log of KnowledgeLog or *)
(* leaves it alone: what is known only grows, a stock at a time, at later    *)
(* and later knowledge times (FundamentalsIngestionService.ingest).          *)
THEOREM ImplementsKnowledgeLog == Spec => LogSpec
<1>1. ChainInv /\ [Next]_vars => [Log!LogNext]_TheLog
  BY LogGrows
<1>2. QED
  BY <1>1, LogStarts, ChainInvHolds, PTL DEF Spec, LogSpec, Log!LogSpec, TheLog, LogOf

(* Nothing that was known is forgotten or rewritten, and a point-in-time     *)
(* reader sees again what it saw (KnowledgeLog and fundamentals_as_of).      *)
THEOREM KnowledgeIsAlwaysAppendOnly == Spec => KnowledgeIsAppendOnly
BY HistoryIsAlwaysFixed, ImplementsKnowledgeLog DEF KnowledgeIsAppendOnly
=============================================================================
