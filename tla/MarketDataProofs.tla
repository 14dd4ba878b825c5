--------------------------- MODULE MarketDataProofs ---------------------------
(***************************************************************************)
(* Proofs about the market data components and the backtest engine, each for *)
(* any value of its constants.                                             *)
(***************************************************************************)
EXTENDS MCMarketData, FiniteSetTheorems, WellFoundedInduction, TLAPS

-----------------------------------------------------------------------------
(* Partitions: only neglect fills the default *)

(* A table's bootstrap covers its first two months; as long as no row of a   *)
(* tended month has fallen, every tick covered the months ahead of it, for   *)
(* every table there was.                                                    *)
Clean == \A t \in Existing : Missed(t) = {}
TicksCover == Clean => \A t \in Existing, d \in 0..month : <<t, d>> \in ticked => d..(d + Ahead) \subseteq cover[t]

PartitionsInv == PartitionsTypeOK /\ TicksCover /\ OnlyNeglectFillsTheDefault

LEMMA PartitionsInvInit == PartitionsInit => PartitionsInv
BY PartitionsAssumption DEF PartitionsInit, PartitionsInv, PartitionsTypeOK, TicksCover,
   OnlyNeglectFillsTheDefault, Existing

LEMMA MigrateKeeps ==
    ASSUME PartitionsInv, NEW t \in Tables, Migrate(t)
    PROVE  PartitionsInv'
<1>1. /\ PartitionsTypeOK /\ month \in Nat /\ Ahead \in Nat
      /\ t \in Tables \ Existing /\ month' = month /\ ticked' = ticked
  BY PartitionsAssumption DEF PartitionsInv, PartitionsTypeOK, Migrate
<1>2. /\ Existing' = Existing \cup {t}
      /\ \A x \in Existing : born'[x] = born[x] /\ cover'[x] = cover[x] /\ fallen'[x] = fallen[x]
      /\ born'[t] = month /\ cover'[t] = month..(month + 1) /\ fallen'[t] = {}
      /\ DOMAIN cover' = Existing' /\ DOMAIN fallen' = Existing'
  BY <1>1 DEF Migrate, With, Existing, PartitionsTypeOK
<1>3. PartitionsTypeOK'
  BY <1>1, <1>2 DEF PartitionsTypeOK, PastMonths
<1>4. /\ \A x \in Existing : Missed(x)' = Missed(x) /\ \A m : Untended(x, m)' <=> Untended(x, m)
      /\ Missed(t)' = {}
  BY <1>1, <1>2 DEF Missed, Untended
<1>5. \A d : <<t, d>> \notin ticked
  BY <1>1 DEF PartitionsTypeOK
<1>6. TicksCover'
  BY <1>1, <1>2, <1>4, <1>5 DEF PartitionsInv, TicksCover, Clean
<1>7. OnlyNeglectFillsTheDefault'
  BY <1>2, <1>4 DEF PartitionsInv, OnlyNeglectFillsTheDefault
<1>8. QED
  BY <1>3, <1>6, <1>7 DEF PartitionsInv

(* The row that falls first falls into a month that no tick covered. *)
LEMMA InsertRowKeeps ==
    ASSUME PartitionsInv, NEW t \in Tables, NEW m \in PastMonths, InsertRow(t, m)
    PROVE  PartitionsInv'
<1>1. /\ PartitionsTypeOK /\ month \in Nat /\ Ahead \in Nat /\ t \in Existing
      /\ month' = month /\ ticked' = ticked /\ born' = born /\ cover' = cover
      /\ m \in -1..month
  BY PartitionsAssumption DEF PartitionsInv, PartitionsTypeOK, InsertRow, PastMonths
<1>2. /\ DOMAIN fallen' = DOMAIN fallen
      /\ \A x \in Existing \ {t} : fallen'[x] = fallen[x]
      /\ fallen'[t] = IF m \in cover[t] THEN fallen[t] ELSE fallen[t] \cup {m}
  BY <1>1 DEF InsertRow, PartitionsTypeOK
<1>3. Existing' = Existing /\ PastMonths' = PastMonths
  BY <1>1 DEF Existing, PastMonths
<1>4. PartitionsTypeOK'
  BY <1>1, <1>2, <1>3 DEF PartitionsTypeOK
<1>5. \A x \in Existing : Missed(x) \subseteq Missed(x)' /\ \A n : Untended(x, n)' <=> Untended(x, n)
  BY <1>1, <1>2 DEF Missed, Untended
<1>6. TicksCover'
  <2>1. Clean' => Clean
    BY <1>3, <1>5 DEF Clean
  <2>2. QED
    BY <1>1, <1>3, <2>1 DEF PartitionsInv, TicksCover
<1>7. OnlyNeglectFillsTheDefault'
  <2> SUFFICES ASSUME NEW x \in Existing, Missed(x)' # {}
               PROVE  \E y \in Existing : \E n \in Missed(y)' : Untended(y, n)'
    BY <1>3 DEF OnlyNeglectFillsTheDefault
  <2>1. CASE ~Clean
    BY <1>5, <2>1 DEF PartitionsInv, OnlyNeglectFillsTheDefault, Clean
  <2>2. CASE Clean
    <3>1. \A y \in Existing \ {t} : Missed(y)' = {}
      BY <1>1, <1>2, <2>2 DEF Clean, Missed
    <3>2. x = t /\ m \notin cover[t] /\ m \in Missed(t)' /\ born[t] <= m
      BY <1>1, <1>2, <2>2, <3>1 DEF Clean, Missed
    <3>3. Untended(t, m)
      <4> SUFFICES ASSUME NEW d \in born[t]..(m - 1), d >= m - Ahead, <<t, d>> \in ticked
                   PROVE  FALSE
        BY DEF Untended
      <4>1. born[t] \in 0..month /\ d \in 0..month /\ m \in d..(d + Ahead)
        BY <1>1 DEF PartitionsTypeOK
      <4>2. QED
        BY <1>1, <2>2, <3>2, <4>1 DEF PartitionsInv, TicksCover
    <3>4. QED
      BY <1>1, <1>5, <3>2, <3>3
  <2>3. QED
    BY <2>1, <2>2
<1>8. QED
  BY <1>4, <1>6, <1>7 DEF PartitionsInv

(* While nothing has fallen, no month is refused. *)
LEMMA EnsureMonthsKeeps ==
    ASSUME PartitionsInv, EnsureMonths
    PROVE  PartitionsInv'
<1>1. /\ PartitionsTypeOK /\ month \in Nat /\ Ahead \in Nat
      /\ month' = month /\ born' = born /\ fallen' = fallen
      /\ ticked' = ticked \cup (Existing \X {month})
      /\ UpcomingMonths = month..(month + Ahead)
  BY PartitionsAssumption DEF PartitionsInv, PartitionsTypeOK, EnsureMonths, UpcomingMonths
<1>2. Existing' = Existing /\ PastMonths' = PastMonths
  BY <1>1 DEF Existing, PastMonths
<1>3. \/ cover' = cover /\ \E t \in Existing : fallen[t] \cap (UpcomingMonths \ cover[t]) # {}
      \/ /\ DOMAIN cover' = Existing
         /\ \A t \in Existing : /\ cover'[t] = cover[t] \cup UpcomingMonths
                                /\ fallen[t] \cap (UpcomingMonths \ cover[t]) = {}
  BY DEF EnsureMonths
<1>4. PartitionsTypeOK'
  <2>1. CASE cover' = cover
    BY <1>1, <1>2, <2>1 DEF PartitionsTypeOK
  <2>2. CASE /\ DOMAIN cover' = Existing
             /\ \A t \in Existing : /\ cover'[t] = cover[t] \cup UpcomingMonths
                                    /\ fallen[t] \cap (UpcomingMonths \ cover[t]) = {}
    <3>1. ASSUME NEW t \in Existing
          PROVE  /\ cover'[t] \subseteq born[t]..(month + Ahead + 1)
                 /\ fallen[t] \subseteq PastMonths \ cover'[t]
      BY <1>1, <2>2 DEF PartitionsTypeOK
    <3>2. QED
      BY <1>1, <1>2, <2>2, <3>1 DEF PartitionsTypeOK
  <2>3. QED
    BY <1>3, <2>1, <2>2
<1>5. /\ \A t \in Existing : Missed(t)' = Missed(t)
      /\ \A t \in Existing : \A m \in Missed(t) : Untended(t, m)' <=> Untended(t, m)
  <2>1. \A t \in Existing : Missed(t)' = Missed(t)
    BY <1>1 DEF Missed
  <2>2. \A t \in Existing : \A m \in Missed(t) : m \in Int /\ m <= month /\ born[t] \in Nat
    BY <1>1 DEF Missed, PartitionsTypeOK, PastMonths
  <2>3. \A t \in Existing : \A m \in Missed(t) : Untended(t, m)' <=> Untended(t, m)
    BY <1>1, <2>2 DEF Untended
  <2>4. QED
    BY <2>1, <2>3
<1>6. TicksCover'
  <2> SUFFICES ASSUME Clean, NEW t \in Existing, NEW d \in 0..month, <<t, d>> \in ticked'
               PROVE  d..(d + Ahead) \subseteq cover'[t]
    BY <1>1, <1>2, <1>5 DEF TicksCover, Clean
  <2>1. \A x \in Existing : fallen[x] \cap (UpcomingMonths \ cover[x]) = {}
    <3> SUFFICES ASSUME NEW x \in Existing, NEW n \in fallen[x], n \in UpcomingMonths
                 PROVE  FALSE
      OBVIOUS
    <3>1. n >= born[x]
      BY <1>1 DEF PartitionsTypeOK, PastMonths
    <3>2. QED
      BY <3>1 DEF Clean, Missed
  <2>2. cover'[t] = cover[t] \cup UpcomingMonths
    BY <1>3, <2>1
  <2>3. CASE <<t, d>> \in ticked
    BY <2>2, <2>3 DEF PartitionsInv, TicksCover
  <2>4. CASE d = month
    BY <1>1, <2>2, <2>4
  <2>5. QED
    BY <1>1, <2>3, <2>4
<1>7. OnlyNeglectFillsTheDefault'
  BY <1>2, <1>5 DEF PartitionsInv, OnlyNeglectFillsTheDefault
<1>8. QED
  BY <1>4, <1>6, <1>7 DEF PartitionsInv

LEMMA NextMonthKeeps ==
    ASSUME PartitionsInv, NextMonth
    PROVE  PartitionsInv'
<1>1. /\ PartitionsTypeOK /\ month \in Nat /\ Ahead \in Nat /\ month' = month + 1
      /\ month' \in 0..LastMonth
      /\ born' = born /\ cover' = cover /\ fallen' = fallen /\ ticked' = ticked
  BY PartitionsAssumption DEF PartitionsInv, PartitionsTypeOK, NextMonth
<1>2. Existing' = Existing
  BY <1>1 DEF Existing
<1>3. PartitionsTypeOK'
  BY <1>1, <1>2 DEF PartitionsTypeOK, PastMonths
<1>4. \A t \in Existing : Missed(t)' = Missed(t) /\ \A m : Untended(t, m)' <=> Untended(t, m)
  BY <1>1 DEF Missed, Untended
<1>5. \A t \in Existing : <<t, month + 1>> \notin ticked
  BY <1>1 DEF PartitionsTypeOK
<1>6. TicksCover'
  BY <1>1, <1>2, <1>4, <1>5 DEF PartitionsInv, TicksCover, Clean
<1>7. OnlyNeglectFillsTheDefault'
  BY <1>2, <1>4 DEF PartitionsInv, OnlyNeglectFillsTheDefault
<1>8. QED
  BY <1>3, <1>6, <1>7 DEF PartitionsInv

LEMMA PartitionsInvNext == PartitionsInv /\ [PartitionsNext]_partitionVars => PartitionsInv'
<1> SUFFICES ASSUME PartitionsInv, [PartitionsNext]_partitionVars PROVE PartitionsInv'
  OBVIOUS
<1>1. CASE UNCHANGED partitionVars
  BY <1>1 DEF partitionVars, PartitionsInv, PartitionsTypeOK, TicksCover, Clean,
     OnlyNeglectFillsTheDefault, Existing, Missed, Untended, PastMonths
<1>2. QED
  BY <1>1, MigrateKeeps, InsertRowKeeps, EnsureMonthsKeeps, NextMonthKeeps DEF PartitionsNext

(* Rows of a tended month fall into the default only when the maintenance    *)
(* stayed away from a table for as long as it works ahead, for any tables,   *)
(* horizon and order of migrations, loads and ticks (core/partitions.py).    *)
THEOREM OnlyNeglectEverFillsTheDefault == PartitionsSpec => []OnlyNeglectFillsTheDefault
<1>1. PartitionsInv => OnlyNeglectFillsTheDefault
  BY DEF PartitionsInv
<1>2. QED
  BY <1>1, PartitionsInvInit, PartitionsInvNext, PTL DEF PartitionsSpec

-----------------------------------------------------------------------------
(* Greatest and least days *)

(* What is at or after a day of a finite set: the smallest such set is that  *)
(* of the greatest day.                                                      *)
LEMMA GreatestElement ==
    ASSUME NEW T, T \subseteq Nat, IsFiniteSet(T), T # {}
    PROVE  Max(T) \in T /\ \A y \in T : y <= Max(T)
<1> DEFINE Up(x) == {y \in T : y >= x}
           D == {Up(x) : x \in T}
<1>1. \A x \in T : Up(x) \in FiniteSubsetsOf(T)
  BY FS_Subset DEF FiniteSubsetsOf
<1>2. D \subseteq FiniteSubsetsOf(T) /\ D # {}
  BY <1>1
<1>3. IsWellFoundedOn(StrictSubsetOrdering(T), FiniteSubsetsOf(T))
  BY FS_StrictSubsetOrderingWellFounded
<1>4. PICK d \in D : \A e \in D : ~(<<e, d>> \in StrictSubsetOrdering(T))
  <2> HIDE DEF D
  <2>1. QED
    BY <1>2, <1>3, WFMin
<1>5. PICK x \in T : d = Up(x)
  BY <1>4
<1>6. ASSUME NEW y \in T PROVE y <= x
  <2> SUFFICES ASSUME x < y PROVE FALSE
    OBVIOUS
  <2>1. x \in Nat /\ y \in Nat /\ T \subseteq Nat
    OBVIOUS
  <2>2. x \in Up(x) /\ x \notin Up(y)
    BY <2>1
  <2>3. \A z \in T : z >= y => z >= x
    BY <2>1
  <2>4. <<Up(y), Up(x)>> \in StrictSubsetOrdering(T)
    BY <2>2, <2>3 DEF StrictSubsetOrdering
  <2>5. QED
    BY <1>4, <1>5, <2>4
<1>7. QED
  BY <1>6 DEF Max

LEMMA LeastElement ==
    ASSUME NEW T, T \subseteq Nat, IsFiniteSet(T), T # {}
    PROVE  Min(T) \in T /\ \A y \in T : Min(T) <= y
<1> DEFINE Down(x) == {y \in T : y <= x}
           D == {Down(x) : x \in T}
<1>1. \A x \in T : Down(x) \in FiniteSubsetsOf(T)
  BY FS_Subset DEF FiniteSubsetsOf
<1>2. D \subseteq FiniteSubsetsOf(T) /\ D # {}
  BY <1>1
<1>3. IsWellFoundedOn(StrictSubsetOrdering(T), FiniteSubsetsOf(T))
  BY FS_StrictSubsetOrderingWellFounded
<1>4. PICK d \in D : \A e \in D : ~(<<e, d>> \in StrictSubsetOrdering(T))
  <2> HIDE DEF D
  <2>1. QED
    BY <1>2, <1>3, WFMin
<1>5. PICK x \in T : d = Down(x)
  BY <1>4
<1>6. ASSUME NEW y \in T PROVE x <= y
  <2> SUFFICES ASSUME y < x PROVE FALSE
    OBVIOUS
  <2>1. x \in Nat /\ y \in Nat /\ T \subseteq Nat
    OBVIOUS
  <2>2. x \in Down(x) /\ x \notin Down(y)
    BY <2>1
  <2>3. \A z \in T : z <= y => z <= x
    BY <2>1
  <2>4. <<Down(y), Down(x)>> \in StrictSubsetOrdering(T)
    BY <2>2, <2>3 DEF StrictSubsetOrdering
  <2>5. QED
    BY <1>4, <1>5, <2>4
<1>7. QED
  BY <1>6 DEF Min

-----------------------------------------------------------------------------
(* AdjustedPrices: the history of a stock is never torn *)

(* What a rebuild has written so far: of the splits it has applied, the      *)
(* latest ones, every row it owns is divided by those after the row; what it *)
(* does not own was inserted since its reset, and is raw.                    *)
RebuildInv(r) ==
    /\ run[r].got \subseteq announced
    /\ run[r].left \subseteq run[r].splits
    /\ run[r].splits \subseteq SplitDates(known \cup run[r].got)
    /\ run[r].alone /\ run[r].pc \in {"read", "reset"} =>
          run[r].splits = SplitDates(known \cup run[r].got)
    /\ run[r].pc = "read" => run[r].left = run[r].splits
    /\ run[r].pc # "reset" => \A d \in Days : run[r].mine[d] = NoBar
    /\ run[r].pc = "reset" =>
          /\ \E d \in Days : run[r].mine[d] # NoBar
          /\ \A x \in run[r].splits \ run[r].left, y \in run[r].left : y < x
          /\ \A d \in Days : run[r].mine[d] = NoBar => bars[d] \in {NoBar, {}}
          /\ \A d \in Days : run[r].mine[d] = NoBar /\ run[r].alone => bars[d] = NoBar
          /\ \A d \in Days : run[r].mine[d] # NoBar =>
                /\ bars[d] # NoBar
                /\ run[r].mine[d] = {x \in run[r].splits \ run[r].left : x > d}

OneRebuilds == \A r, q \in Runs : run[r].pc = "reset" /\ run[q].pc = "reset" => r = q

HasHistory == \E d \in Days : bars[d] # NoBar

PricesInv ==
    /\ PricesTypeOK /\ HasHistory /\ OneRebuilds /\ NoTornHistory
    /\ \A r \in Runs : RebuildInv(r)

RunRecords == [pc : {"idle", "fetched", "stored", "read", "reset", "done"},
               got : SUBSET Events, splits : SUBSET Days, left : SUBSET Days,
               mine : [Days -> Adjusted \cup {NoBar}], alone : BOOLEAN]

LEMMA RunsAreTyped == PricesTypeOK => run \in [Runs -> RunRecords]
BY DEF PricesTypeOK, RunRecords

LEMMA NoRunIsRecord == NoRun \in RunRecords
BY DEF NoRun, RunRecords

LEMMA RestingIsSound ==
    ASSUME NEW r \in Runs, run[r] = NoRun
    PROVE  RebuildInv(r)
BY DEF RebuildInv, NoRun

LEMMA PricesInvInit == PricesInit => PricesInv
<1> SUFFICES ASSUME PricesInit PROVE PricesInv
  OBVIOUS
<1>1. today \in Days
  BY LeastElement, CalendarAssumption DEF PricesInit
<1>2. bars \in [Days -> Adjusted \cup {NoBar}] /\ bars[today] = {}
      /\ \A d \in Days : bars[d] \in {NoBar, {}}
  BY <1>1 DEF PricesInit, Adjusted
<1>3. PricesTypeOK
  BY <1>1, <1>2, NoRunIsRecord, CalendarAssumption DEF PricesInit, PricesTypeOK, RunRecords
<1>4. HasHistory
  BY <1>1, <1>2, CalendarAssumption DEF HasHistory
<1>5. \A r \in Runs : run[r] = NoRun
  BY DEF PricesInit
<1>6. (\A r \in Runs : RebuildInv(r)) /\ \A r \in Runs : run[r].pc = "idle"
  <2>1. \A r \in Runs : RebuildInv(r)
    BY <1>5, RestingIsSound
  <2>2. \A r \in Runs : run[r].pc = "idle"
    BY <1>5 DEF NoRun
  <2>3. QED
    BY <2>1, <2>2
<1>7. NoTornHistory
  BY <1>2 DEF NoTornHistory
<1>8. QED
  BY <1>3, <1>4, <1>6, <1>7 DEF PricesInv, OneRebuilds

LEMMA SplitsAreDays ==
    ASSUME NEW A, A \subseteq Events
    PROVE  SplitDates(A) \subseteq Days
BY CalendarAssumption DEF SplitDates

LEMMA UntouchedIsSound ==
    ASSUME NEW q \in Runs, RebuildInv(q), run'[q] = run[q], known' = known, bars' = bars,
           announced \subseteq announced'
    PROVE  RebuildInv(q)'
BY DEF RebuildInv

(* A statement of one run that commits nothing. *)
LEMMA RunMovesAlone ==
    ASSUME PricesInv, NEW r \in Runs, run' \in [Runs -> RunRecords],
           \A q \in Runs \ {r} : run'[q] = run[q],
           UNCHANGED <<today, announced, known, bars, ingests>>, RebuildInv(r)',
           run'[r].pc = "reset" =>
               run[r].pc = "reset" \/ \A q \in Runs \ {r} : run[q].pc # "reset"
    PROVE  PricesInv'
<1>1. PricesTypeOK'
  BY DEF PricesInv, PricesTypeOK, RunRecords
<1>2. \A q \in Runs : RebuildInv(q)'
  BY UntouchedIsSound DEF PricesInv
<1>3. OneRebuilds'
  BY DEF PricesInv, OneRebuilds
<1>4. HasHistory' /\ NoTornHistory'
  BY DEF PricesInv, HasHistory, NoTornHistory, Explains
<1>5. QED
  BY <1>1, <1>2, <1>3, <1>4 DEF PricesInv

LEMMA FetchKeeps ==
    ASSUME PricesInv, NEW r \in Runs, NEW t \in Days, Fetch(r, t)
    PROVE  PricesInv'
<1> DEFINE got == {a \in announced : a.ex \in (t - Lookback)..t}
           R == [NoRun EXCEPT !.pc = "fetched", !.got = got]
<1>1. run \in [Runs -> RunRecords] /\ got \subseteq Events
  BY RunsAreTyped DEF PricesInv, PricesTypeOK
<1>2. R \in RunRecords
  BY <1>1, NoRunIsRecord DEF RunRecords
<1>3. R.pc = "fetched" /\ R.got \subseteq announced /\ R.left = {} /\ R.splits = {} /\ \A d \in Days : R.mine[d] = NoBar
  BY DEF NoRun
<1>4. run' = [run EXCEPT ![r] = R]
  BY DEF Fetch
<1> HIDE DEF R
<1>5. run' \in [Runs -> RunRecords] /\ (\A q \in Runs \ {r} : run'[q] = run[q]) /\ run'[r] = R
  BY <1>1, <1>2, <1>4
<1>6. RebuildInv(r)'
  BY <1>3, <1>5 DEF RebuildInv, Fetch
<1>7. QED
  BY <1>3, <1>5, <1>6, RunMovesAlone DEF Fetch

LEMMA StoreKeeps ==
    ASSUME PricesInv, NEW r \in Runs, StoreActions(r)
    PROVE  PricesInv'
<1>1. run \in [Runs -> RunRecords] /\ RebuildInv(r) /\ run[r].pc = "fetched"
  BY RunsAreTyped DEF PricesInv, StoreActions
<1>2. PICK b \in BOOLEAN : run' = [run EXCEPT ![r] = [run[r] EXCEPT !.pc = "stored", !.alone = b]]
  BY <1>1 DEF StoreActions
<1>3. /\ run' \in [Runs -> RunRecords] /\ \A q \in Runs \ {r} : run'[q] = run[q]
      /\ run'[r].pc = "stored" /\ run'[r].got = run[r].got /\ run'[r].splits = run[r].splits
      /\ run'[r].left = run[r].left /\ run'[r].mine = run[r].mine
  BY <1>1, <1>2 DEF RunRecords
<1>4. known' = known /\ bars' = bars /\ announced' = announced
  BY DEF StoreActions
<1>5. RebuildInv(r)'
  BY <1>1, <1>3, <1>4 DEF RebuildInv
<1>6. QED
  BY <1>3, <1>5, RunMovesAlone DEF StoreActions

LEMMA ReadSplitsKeeps ==
    ASSUME PricesInv, NEW r \in Runs, ReadSplits(r)
    PROVE  PricesInv'
<1> DEFINE splits == SplitDates(known \cup run[r].got)
<1>1. run \in [Runs -> RunRecords] /\ RebuildInv(r) /\ run[r].pc = "stored"
  BY RunsAreTyped DEF PricesInv, ReadSplits
<1>2. splits \subseteq Days
  BY <1>1, SplitsAreDays DEF PricesInv, PricesTypeOK, RunRecords
<1>3. run' = [run EXCEPT ![r] = [run[r] EXCEPT !.pc = "read", !.splits = splits, !.left = splits]]
  BY <1>1 DEF ReadSplits
<1>4. known' = known /\ bars' = bars /\ announced' = announced
  BY DEF ReadSplits
<1> HIDE DEF splits
<1>5. /\ run' \in [Runs -> RunRecords] /\ \A q \in Runs \ {r} : run'[q] = run[q]
      /\ run'[r].pc = "read" /\ run'[r].got = run[r].got /\ run'[r].splits = splits
      /\ run'[r].left = splits /\ run'[r].mine = run[r].mine
  BY <1>1, <1>2, <1>3 DEF RunRecords
<1>6. RebuildInv(r)'
  BY <1>1, <1>4, <1>5 DEF RebuildInv, splits
<1>7. QED
  BY <1>5, <1>6, RunMovesAlone DEF ReadSplits

LEMMA ResetKeeps ==
    ASSUME PricesInv, NEW r \in Runs, ResetAdjusted(r)
    PROVE  PricesInv'
<1> DEFINE mine == [d \in Days |-> IF bars[d] = NoBar THEN NoBar ELSE {}]
<1>1. /\ run \in [Runs -> RunRecords] /\ RebuildInv(r) /\ run[r].pc = "read"
      /\ known' = known /\ bars' = bars /\ announced' = announced /\ HasHistory
  BY RunsAreTyped DEF PricesInv, ResetAdjusted
<1>2. mine \in [Days -> Adjusted \cup {NoBar}] /\ NoBar # {}
  BY CalendarAssumption DEF Adjusted
<1>3. run' = [run EXCEPT ![r] = [run[r] EXCEPT !.pc = "reset", !.mine = mine]]
  BY <1>1 DEF ResetAdjusted
<1>4. \A d \in Days : mine[d] = IF bars[d] = NoBar THEN NoBar ELSE {}
  OBVIOUS
<1> HIDE DEF mine
<1>5. /\ run' \in [Runs -> RunRecords] /\ \A q \in Runs \ {r} : run'[q] = run[q]
      /\ run'[r].pc = "reset" /\ run'[r].got = run[r].got /\ run'[r].splits = run[r].splits
      /\ run'[r].left = run[r].left /\ run'[r].mine = mine /\ run'[r].alone = run[r].alone
  BY <1>1, <1>2, <1>3 DEF RunRecords
<1>6. \A q \in Runs : run[q].pc # "reset"
  BY DEF PricesInv, RebuildInv, ResetAdjusted, Locked
<1>7. RebuildInv(r)'
  <2>1. run'[r].splits \ run'[r].left = {}
    BY <1>1, <1>5 DEF RebuildInv
  <2>2. \E d \in Days : mine[d] # NoBar
    BY <1>1, <1>2, <1>4 DEF HasHistory
  <2>3. \A d \in Days : /\ mine[d] = NoBar => bars[d] = NoBar
                        /\ mine[d] # NoBar => bars[d] # NoBar /\ mine[d] = {}
    BY <1>2, <1>4
  <2>4. QED
    BY <1>1, <1>5, <2>1, <2>2, <2>3 DEF RebuildInv
<1>8. QED
  BY <1>5, <1>6, <1>7, RunMovesAlone DEF ResetAdjusted

LEMMA AbortKeeps ==
    ASSUME PricesInv, NEW r \in Runs, AbortRun(r)
    PROVE  PricesInv'
<1>1. run \in [Runs -> RunRecords]
  BY RunsAreTyped DEF PricesInv
<1>2. run' \in [Runs -> RunRecords] /\ (\A q \in Runs \ {r} : run'[q] = run[q]) /\ run'[r] = NoRun
  BY <1>1, NoRunIsRecord DEF AbortRun
<1>3. RebuildInv(r)' /\ run'[r].pc = "idle"
  BY <1>2 DEF RebuildInv, NoRun
<1>4. QED
  BY <1>2, <1>3, RunMovesAlone DEF AbortRun

(* The latest split not applied yet: the row's set grows by it, or by none. *)
LEMMA ApplyKeeps ==
    ASSUME PricesInv, NEW r \in Runs, ApplyStep(r)
    PROVE  PricesInv'
<1> DEFINE e == Max(run[r].left)
           Touched(d) == d < e /\ bars[d] # NoBar
           mine == [d \in Days |-> IF Touched(d) THEN Cumulative(r, e) ELSE run[r].mine[d]]
           S == run[r].splits
           L == run[r].left
<1>1. /\ run \in [Runs -> RunRecords] /\ RebuildInv(r) /\ run[r].pc = "reset"
      /\ known' = known /\ bars' = bars /\ announced' = announced /\ L # {}
  BY RunsAreTyped DEF PricesInv, ApplyStep
<1>2. L \subseteq Days /\ S \subseteq Days /\ Days \subseteq Nat /\ L \subseteq S
  BY <1>1, CalendarAssumption DEF RunRecords, RebuildInv
<1>3. e \in L /\ \A y \in L : y <= e
  <2>1. IsFiniteSet(L) /\ L \subseteq Nat
    BY <1>2, CalendarAssumption, FS_Subset
  <2>2. QED
    BY <1>1, <2>1, GreatestElement
<1>4. run' = [run EXCEPT ![r] = [run[r] EXCEPT !.left = L \ {e}, !.mine = mine]]
  BY <1>1 DEF ApplyStep, NextStep
<1>5. Cumulative(r, e) = {x \in S : x >= e}
  BY DEF Cumulative
<1>6. /\ \A d \in Days : mine[d] = IF Touched(d) THEN Cumulative(r, e) ELSE run[r].mine[d]
      /\ run[r].mine \in [Days -> Adjusted \cup {NoBar}]
  BY <1>1 DEF RunRecords
<1>7. mine \in [Days -> Adjusted \cup {NoBar}] /\ Cumulative(r, e) # NoBar
  <2>1. Cumulative(r, e) \in SUBSET Days
    BY <1>2, <1>5
  <2>2. QED
    BY <1>6, <2>1, CalendarAssumption DEF Adjusted
<1>8. \A x \in S \ L, y \in L : y < x
  BY <1>1 DEF RebuildInv
<1>9. S \ (L \ {e}) = {x \in S : x >= e}
  <2> HIDE DEF e
  <2> SUFFICES ASSUME NEW x \in S PROVE x \notin L \ {e} <=> x >= e
    OBVIOUS
  <2>1. x \in Nat /\ e \in Nat
    BY <1>2, <1>3
  <2>2. CASE x \in L
    BY <1>3, <2>1, <2>2
  <2>3. CASE x \notin L
    BY <1>3, <1>8, <2>1, <2>3
  <2>4. QED
    BY <2>2, <2>3
<1> HIDE DEF mine, e
<1>10. /\ run' \in [Runs -> RunRecords] /\ \A q \in Runs \ {r} : run'[q] = run[q]
       /\ run'[r].pc = "reset" /\ run'[r].got = run[r].got /\ run'[r].splits = S
       /\ run'[r].left = L \ {e} /\ run'[r].mine = mine /\ run'[r].alone = run[r].alone
  BY <1>1, <1>2, <1>4, <1>7 DEF RunRecords
<1>11. \A x \in S \ (L \ {e}), y \in L \ {e} : y < x
  <2> SUFFICES ASSUME NEW x \in S \ (L \ {e}), NEW y \in L \ {e} PROVE y < x
    OBVIOUS
  <2>1. x \in Nat /\ y \in Nat /\ e \in Nat /\ y # e
    BY <1>2, <1>3
  <2>2. x >= e /\ y <= e
    BY <1>3, <1>9
  <2>3. QED
    BY <2>1, <2>2
<1>12. \A d \in Days : mine[d] # NoBar =>
          bars[d] # NoBar /\ mine[d] = {x \in S \ (L \ {e}) : x > d}
  <2> SUFFICES ASSUME NEW d \in Days, mine[d] # NoBar
               PROVE  bars[d] # NoBar /\ mine[d] = {x \in S \ (L \ {e}) : x > d}
    OBVIOUS
  <2>1. CASE Touched(d)
    <3>1. mine[d] = {x \in S : x >= e}
      BY <1>5, <1>6, <2>1
    <3>2. \A x \in S : x >= e => x > d
      BY <1>2, <1>3, <2>1
    <3>3. QED
      BY <1>9, <2>1, <3>1, <3>2
  <2>2. CASE ~Touched(d)
    <3>1. mine[d] = run[r].mine[d]
      BY <1>6, <2>2
    <3>2. bars[d] # NoBar /\ run[r].mine[d] = {x \in S \ L : x > d}
      BY <1>1, <3>1 DEF RebuildInv
    <3>3. ~(e > d)
      BY <1>2, <1>3, <2>2, <3>2
    <3>4. QED
      BY <3>1, <3>2, <3>3
  <2>3. QED
    BY <2>1, <2>2
<1>13. \A d \in Days : mine[d] = NoBar => run[r].mine[d] = NoBar
  BY <1>6, <1>7
<1>14. RebuildInv(r)'
  <2>1. PICK d \in Days : run[r].mine[d] # NoBar
    BY <1>1 DEF RebuildInv
  <2>2. mine[d] # NoBar
    BY <1>13, <2>1
  <2>3. QED
    BY <1>1, <1>2, <1>10, <1>11, <1>12, <1>13, <2>2 DEF RebuildInv
<1>15. QED
  BY <1>1, <1>10, <1>14, RunMovesAlone DEF ApplyStep

(* What the price ingest writes is raw, and it waits for a row that an open  *)
(* rebuild owns; a rebuild that owns rows learns that it is not alone.       *)
LEMMA DisturbTells ==
    ASSUME run \in [Runs -> RunRecords], NEW f \in [Runs -> RunRecords], NEW who,
           run' = Disturb(f, who)
    PROVE  /\ run' \in [Runs -> RunRecords]
           /\ \A q \in Runs :
                 /\ run'[q].pc = f[q].pc /\ run'[q].got = f[q].got
                 /\ run'[q].splits = f[q].splits /\ run'[q].left = f[q].left
                 /\ run'[q].mine = f[q].mine
                 /\ q = who \/ ~InTransaction(q) => run'[q] = f[q]
                 /\ q # who /\ InTransaction(q) => ~run'[q].alone
<1> DEFINE g(q) == IF q = who \/ ~InTransaction(q) THEN f[q] ELSE [f[q] EXCEPT !.alone = FALSE]
<1>1. run' = [q \in Runs |-> g(q)]
  BY DEF Disturb
<1>2. ASSUME NEW q \in Runs
      PROVE  /\ g(q) \in RunRecords
             /\ g(q).pc = f[q].pc /\ g(q).got = f[q].got
             /\ g(q).splits = f[q].splits /\ g(q).left = f[q].left
             /\ g(q).mine = f[q].mine
             /\ q = who \/ ~InTransaction(q) => g(q) = f[q]
             /\ q # who /\ InTransaction(q) => ~g(q).alone
  <2>1. f[q] \in RunRecords
    OBVIOUS
  <2>2. CASE q = who \/ ~InTransaction(q)
    BY <2>1, <2>2
  <2>3. CASE ~(q = who \/ ~InTransaction(q))
    <3>1. g(q) = [f[q] EXCEPT !.alone = FALSE]
      BY <2>3
    <3>2. QED
      BY <2>1, <2>3, <3>1 DEF RunRecords
  <2>4. QED
    BY <2>2, <2>3
<1> HIDE DEF g
<1>3. QED
  BY <1>1, <1>2

LEMMA UpsertKeeps ==
    ASSUME PricesInv, NEW d \in Days, UpsertBar(d)
    PROVE  PricesInv'
<1>1. run \in [Runs -> RunRecords] /\ \A q \in Runs : RebuildInv(q)
  BY RunsAreTyped DEF PricesInv
<1>2. /\ run' \in [Runs -> RunRecords]
      /\ \A q \in Runs :
            /\ run'[q].pc = run[q].pc /\ run'[q].got = run[q].got
            /\ run'[q].splits = run[q].splits /\ run'[q].left = run[q].left
            /\ run'[q].mine = run[q].mine
            /\ InTransaction(q) => ~run'[q].alone
  <2>1. run' = Disturb(run, NoBar) /\ NoBar \notin Runs
    BY CalendarAssumption DEF UpsertBar
  <2>2. QED
    BY <1>1, <2>1, DisturbTells
<1>3. /\ known' = known /\ announced' = announced /\ today' = today
      /\ ingests' \in 0..MaxIngests /\ bars' = [bars EXCEPT ![d] = {}]
      /\ \A q \in Runs : run[q].mine[d] = NoBar
  BY CalendarAssumption DEF UpsertBar, Locked, PricesInv, PricesTypeOK
<1>4. bars \in [Days -> Adjusted \cup {NoBar}] /\ {} \in Adjusted /\ NoBar # {}
  BY CalendarAssumption DEF PricesInv, PricesTypeOK, Adjusted
<1>5. /\ bars' \in [Days -> Adjusted \cup {NoBar}]
      /\ \A x \in Days : bars'[x] = IF x = d THEN {} ELSE bars[x]
  BY <1>3, <1>4
<1>6. PricesTypeOK'
  BY <1>2, <1>3, <1>5 DEF PricesInv, PricesTypeOK, RunRecords
<1>7. HasHistory'
  BY <1>4, <1>5 DEF HasHistory
<1>8. OneRebuilds'
  BY <1>2 DEF PricesInv, OneRebuilds
<1>9. NoTornHistory'
  BY <1>3, <1>5 DEF PricesInv, NoTornHistory, Explains
<1>10. ASSUME NEW q \in Runs PROVE RebuildInv(q)'
  <2>1. RebuildInv(q)
    BY <1>1
  <2>2. run[q].pc \in {"read", "reset"} => ~run'[q].alone
    BY <1>2 DEF InTransaction
  <2>3. \A x \in Days : /\ bars[x] \in {NoBar, {}} => bars'[x] \in {NoBar, {}}
                        /\ bars[x] # NoBar => bars'[x] # NoBar
    BY <1>4, <1>5
  <2>4. /\ run'[q].got \subseteq announced'
        /\ run'[q].left \subseteq run'[q].splits
        /\ run'[q].splits \subseteq SplitDates(known' \cup run'[q].got)
        /\ run'[q].pc = "read" => run'[q].left = run'[q].splits
        /\ run'[q].pc # "reset" => \A x \in Days : run'[q].mine[x] = NoBar
    BY <1>2, <1>3, <2>1 DEF RebuildInv
  <2>5. CASE run[q].pc # "reset"
    BY <1>2, <2>2, <2>4, <2>5 DEF RebuildInv
  <2>6. CASE run[q].pc = "reset"
    <3>1. /\ \E x \in Days : run'[q].mine[x] # NoBar
          /\ \A x \in run'[q].splits \ run'[q].left, y \in run'[q].left : y < x
          /\ \A x \in Days : run'[q].mine[x] = NoBar => bars'[x] \in {NoBar, {}}
          /\ \A x \in Days : run'[q].mine[x] # NoBar =>
                /\ bars'[x] # NoBar
                /\ run'[q].mine[x] = {y \in run'[q].splits \ run'[q].left : y > x}
      BY <1>2, <2>1, <2>3, <2>6 DEF RebuildInv
    <3>2. ~run'[q].alone
      BY <2>2, <2>6
    <3>3. QED
      BY <2>4, <3>1, <3>2 DEF RebuildInv
  <2>7. QED
    BY <2>5, <2>6
<1>11. QED
  BY <1>6, <1>7, <1>8, <1>9, <1>10 DEF PricesInv

(* The commit: what the run owns is explained by the splits it has applied,  *)
(* all of which are then stored; what it does not own was raw.               *)
LEMMA CommitWrites ==
    ASSUME PricesInv, NEW r \in Runs, CommitRun(r)
    PROVE  /\ run[r].splits \subseteq SplitDates(known')
           /\ \A d \in Days :
                 /\ run[r].mine[d] = NoBar => bars'[d] = bars[d] /\ bars[d] \in {NoBar, {}}
                 /\ run[r].mine[d] = NoBar /\ run[r].alone => bars'[d] = NoBar
                 /\ run[r].mine[d] # NoBar =>
                       bars'[d] # NoBar /\ bars'[d] = {x \in run[r].splits : x > d}
<1>1. RebuildInv(r) /\ run[r].pc = "reset" /\ run[r].left = {}
  BY DEF PricesInv, CommitRun
<1>2. known' = known \cup run[r].got
  BY DEF CommitRun
<1>3. \A d \in Days : bars'[d] = IF run[r].mine[d] = NoBar THEN bars[d] ELSE run[r].mine[d]
  BY DEF CommitRun, Visible
<1>4. run[r].splits \ run[r].left = run[r].splits
  BY <1>1
<1>5. QED
  BY <1>1, <1>2, <1>3, <1>4 DEF RebuildInv

LEMMA CommitKeeps ==
    ASSUME PricesInv, NEW r \in Runs, CommitRun(r)
    PROVE  PricesInv'
<1> DEFINE f == [run EXCEPT ![r] = NoRun]
<1>1. run \in [Runs -> RunRecords] /\ \A q \in Runs : RebuildInv(q)
  BY RunsAreTyped DEF PricesInv
<1>2. f \in [Runs -> RunRecords] /\ f[r] = NoRun /\ \A q \in Runs \ {r} : f[q] = run[q]
  BY <1>1, NoRunIsRecord
<1>3. run' = Disturb(f, r)
  BY DEF CommitRun
<1> HIDE DEF f
<1>4. /\ run' \in [Runs -> RunRecords] /\ run'[r] = NoRun
      /\ \A q \in Runs \ {r} :
            /\ run'[q].pc = run[q].pc /\ run'[q].got = run[q].got
            /\ run'[q].splits = run[q].splits /\ run'[q].left = run[q].left
            /\ run'[q].mine = run[q].mine
            /\ InTransaction(q) => ~run'[q].alone
            /\ ~InTransaction(q) => run'[q] = run[q]
  BY <1>1, <1>2, <1>3, DisturbTells
<1>5. /\ run[r].pc = "reset" /\ known' = known \cup run[r].got /\ bars' = Visible(bars, r)
      /\ today' = today /\ announced' = announced /\ ingests' = ingests
  BY DEF CommitRun
<1>6. bars' \in [Days -> Adjusted \cup {NoBar}]
  BY <1>1, <1>5 DEF PricesInv, PricesTypeOK, Visible, RunRecords
<1>7. PricesTypeOK'
  BY <1>1, <1>4, <1>5, <1>6 DEF PricesInv, PricesTypeOK, RunRecords, RebuildInv
<1>8. \A q \in Runs \ {r} : run[q].pc # "reset"
  BY <1>5 DEF PricesInv, OneRebuilds
<1>9. OneRebuilds'
  BY <1>4, <1>8 DEF OneRebuilds
<1>10. HasHistory' /\ NoTornHistory'
  <2>1. HasHistory'
    BY <1>1, <1>5, CommitWrites DEF RebuildInv, HasHistory
  <2>2. run[r].splits \in SUBSET SplitDates(known')
    BY CommitWrites
  <2>3. \A d \in Days : bars'[d] \in {NoBar, {}} \/ bars'[d] = {x \in run[r].splits : x > d}
    BY CommitWrites
  <2>4. QED
    BY <2>1, <2>2, <2>3 DEF NoTornHistory, Explains
<1>11. ASSUME NEW q \in Runs PROVE RebuildInv(q)'
  <2>1. CASE q = r
    BY <1>4, <2>1, <1>5 DEF RebuildInv, NoRun
  <2>2. CASE q # r
    <3>1. RebuildInv(q) /\ run[q].pc # "reset"
      BY <1>1, <1>8, <2>2
    <3>2. run[q].pc \in {"read", "reset"} => ~run'[q].alone
      BY <1>4, <2>2 DEF InTransaction
    <3>3. SplitDates(known \cup run[q].got) \subseteq SplitDates(known' \cup run[q].got)
      BY <1>5 DEF SplitDates
    <3>4. QED
      BY <1>4, <1>5, <2>2, <3>1, <3>2, <3>3 DEF RebuildInv
  <2>3. QED
    BY <2>1, <2>2
<1>12. QED
  BY <1>7, <1>9, <1>10, <1>11 DEF PricesInv

(* The calendar and the provider only add. *)
LEMMA OutsideKeeps ==
    ASSUME PricesInv,
           \/ NextDay
           \/ \E a \in Events : Announce(a)
           \/ UNCHANGED priceVars
    PROVE  PricesInv'
<1>1. /\ today' \in Days /\ announced \subseteq announced' /\ announced' \subseteq Events
      /\ run' = run /\ known' = known /\ bars' = bars /\ ingests' = ingests
  BY DEF PricesInv, PricesTypeOK, NextDay, Announce, priceVars
<1>2. PricesTypeOK'
  BY <1>1 DEF PricesInv, PricesTypeOK
<1>3. \A q \in Runs : RebuildInv(q)'
  BY <1>1, UntouchedIsSound DEF PricesInv
<1>4. HasHistory' /\ OneRebuilds' /\ NoTornHistory'
  BY <1>1 DEF PricesInv, HasHistory, OneRebuilds, NoTornHistory, Explains
<1>5. QED
  BY <1>2, <1>3, <1>4 DEF PricesInv

LEMMA PricesInvNext == PricesInv /\ [PricesNext]_priceVars => PricesInv'
<1> SUFFICES ASSUME PricesInv, [PricesNext]_priceVars PROVE PricesInv'
  OBVIOUS
<1>1. CASE NextDay \/ (\E a \in Events : Announce(a)) \/ UNCHANGED priceVars
  BY <1>1, OutsideKeeps
<1>2. ASSUME NEW d \in Days, UpsertBar(d) PROVE PricesInv'
  BY <1>2, UpsertKeeps
<1>3. ASSUME NEW r \in Runs, RunStep(r) PROVE PricesInv'
  <2>1. ASSUME NEW t \in Days, Fetch(r, t) PROVE PricesInv'
    BY <2>1, FetchKeeps
  <2>2. CASE StoreActions(r)
    BY <2>2, StoreKeeps
  <2>3. CASE ReadSplits(r)
    BY <2>3, ReadSplitsKeeps
  <2>4. CASE ResetAdjusted(r)
    BY <2>4, ResetKeeps
  <2>5. CASE ApplyStep(r)
    BY <2>5, ApplyKeeps
  <2>6. CASE CommitRun(r)
    BY <2>6, CommitKeeps
  <2>7. CASE AbortRun(r)
    BY <2>7, AbortKeeps
  <2>8. QED
    BY <1>3, <2>1, <2>2, <2>3, <2>4, <2>5, <2>6, <2>7 DEF RunStep
<1>4. QED
  BY <1>1, <1>2, <1>3 DEF PricesNext

(* Only a commit stores actions, and of two rebuilds at most one is past its *)
(* reset, so the run that commits is the run the property is about.          *)
LEMMA KnownMovesAtCommit ==
    ASSUME PricesInv, [PricesNext]_priceVars, known' # known
    PROVE  \E q \in Runs : CommitRun(q)
BY DEF PricesNext, RunStep, NextDay, Announce, UpsertBar, Fetch, StoreActions, ReadSplits,
       ResetAdjusted, ApplyStep, AbortRun, priceVars

LEMMA LoneCommit ==
    ASSUME PricesInv, [PricesNext]_priceVars, NEW r \in Runs,
           run[r].pc = "reset", run[r].left = {}, run[r].alone, known' # known, NEW d \in Days
    PROVE  bars'[d] \in {NoBar, {e \in SplitDates(known') : e > d}}
<1>1. PICK q \in Runs : CommitRun(q)
  BY KnownMovesAtCommit
<1>2. q = r
  <2>1. run[q].pc = "reset"
    BY <1>1 DEF CommitRun
  <2>2. QED
    BY <2>1 DEF PricesInv, OneRebuilds
<1>3. CommitRun(r)
  BY <1>1, <1>2
<1>4. run[r].splits = SplitDates(known')
  BY <1>3 DEF PricesInv, RebuildInv, CommitRun
<1>5. QED
  BY <1>3, <1>4, CommitWrites

(* An adjusted close is what its name says, at every commit of every run,    *)
(* however price upserts and other runs fall between the statements of a     *)
(* rebuild, for every calendar, every set of actions and any number of runs. *)
THEOREM AdjustedCloseIsAlwaysAdjusted == PricesSpec => HistoryIsAdjusted
<1>1. PricesSpec => []PricesInv
  BY PricesInvInit, PricesInvNext, PTL DEF PricesSpec
<1>2. PricesInv => NoTornHistory
  BY DEF PricesInv
<1>3. PricesInv /\ [PricesNext]_priceVars =>
          [\A r \in Runs :
              run[r].pc = "reset" /\ run[r].left = {} /\ run[r].alone /\ known' # known =>
                  \A d \in Days :
                      bars'[d] \in {NoBar, {e \in SplitDates(known') : e > d}}]_priceVars
  BY LoneCommit
<1>4. QED
  BY <1>1, <1>2, <1>3, PTL DEF PricesSpec, HistoryIsAdjusted, LoneRunAdjustsAll

-----------------------------------------------------------------------------
(* IndexMembership: the past is fixed and the present is the list *)

RowRecords == [stock : Stocks, weight : Weights, from : Dates, to : Sessions \cup {Open}]

(* What a worker may hold between the statements of a reconciliation. *)
TxRecords ==
    {NoTx} \cup [pc : {"listed"}, asOf : Sessions, list : Lists, alone : BOOLEAN]
           \cup [pc : {"read"}, asOf : Sessions, list : Lists, open : SUBSET RowRecords,
                 alone : BOOLEAN]

Reading(w) == tx[w].pc = "read"

(* A reader that was not disturbed decides on the rows as they are: of two   *)
(* readers neither is alone, so whoever commits first disturbed the other.   *)
ReadsAreTrue ==
    /\ \A u, w \in Syncers : Reading(u) /\ Reading(w) /\ tx[w].alone => u = w
    /\ \A w \in Syncers : Reading(w) /\ tx[w].alone => tx[w].open = OpenRows

MembershipInv == MembershipTypeOK /\ tx \in [Syncers -> TxRecords] /\ ReadsAreTrue

LEMMA RowIsRecord ==
    ASSUME NEW s \in Stocks, NEW w \in Weights, NEW f \in Dates, NEW t \in Sessions \cup {Open}
    PROVE  /\ Row(s, w, f, t) \in RowRecords
           /\ Row(s, w, f, t).stock = s /\ Row(s, w, f, t).from = f /\ Row(s, w, f, t).to = t
BY DEF Row, RowRecords

LEMMA RecordsAreRows ==
    {Row(s, w, f, t) : s \in Stocks, w \in Weights, f \in Dates, t \in Sessions \cup {Open}}
        = RowRecords
<1>1. ASSUME NEW r \in RowRecords
      PROVE  \E s \in Stocks, w \in Weights, f \in Dates, t \in Sessions \cup {Open} :
                 r = Row(s, w, f, t)
  <2>1. r = Row(r.stock, r.weight, r.from, r.to)
    BY DEF Row, RowRecords
  <2>2. QED
    BY <2>1 DEF RowRecords
<1>2. QED
  BY <1>1, RowIsRecord

LEMMA NoWeightIsWeight == NoWeight \in Weights
<1>1. Min(Weights) \in Weights /\ \A v \in Weights : Min(Weights) <= v
  BY LeastElement, MembershipAssumption
<1>2. QED
  BY <1>1 DEF NoWeight

LEMMA ListsAreWeights ==
    ASSUME NEW f \in Lists
    PROVE  DOMAIN f \subseteq Stocks /\ \A s \in DOMAIN f : f[s] \in Weights
BY DEF Lists

LEMMA MembershipInvInit == MembershipInit => MembershipInv
<1> SUFFICES ASSUME MembershipInit PROVE MembershipInv
  OBVIOUS
<1>1. /\ 1 \in Sessions /\ LoadFrom \in Dates /\ Open \in Sessions \cup {Open}
      /\ Seeded \subseteq Stocks
  BY MembershipAssumption DEF Sessions, Dates
<1>2. \A s \in Seeded : /\ Row(s, NoWeight, LoadFrom, Open) \in RowRecords
                        /\ Row(s, NoWeight, LoadFrom, Open).stock = s
                        /\ Row(s, NoWeight, LoadFrom, Open).to = Open
  BY <1>1, RowIsRecord, NoWeightIsWeight
<1>3. /\ rows \subseteq RowRecords
      /\ \A r \in rows : r.to = Open /\ r = Row(r.stock, NoWeight, LoadFrom, Open)
  BY <1>2 DEF MembershipInit
<1>4. report \in Lists
  <2>1. report \in [Seeded -> Weights]
    BY NoWeightIsWeight DEF MembershipInit
  <2>2. QED
    BY <1>1, <2>1 DEF Lists
<1>5. MembershipTypeOK
  BY <1>1, <1>3, <1>4, RecordsAreRows DEF MembershipInit, MembershipTypeOK
<1>6. tx \in [Syncers -> TxRecords] /\ \A w \in Syncers : ~Reading(w)
  BY DEF MembershipInit, TxRecords, NoTx, Reading
<1>7. QED
  BY <1>5, <1>6 DEF MembershipInv, ReadsAreTrue

LEMMA DisturbedIsTyped ==
    ASSUME MembershipInv, NEW v \in Syncers
    PROVE  /\ Disturbed(v) \in TxRecords
           /\ Disturbed(v).pc = tx[v].pc
           /\ tx[v].pc = "read" => ~Disturbed(v).alone
<1>1. tx[v] \in TxRecords
  BY DEF MembershipInv
<1>2. CASE tx[v] = NoTx
  BY <1>1, <1>2 DEF Disturbed, NoTx
<1>3. CASE tx[v] # NoTx
  BY <1>1, <1>3 DEF Disturbed, NoTx, TxRecords
<1>4. QED
  BY <1>2, <1>3

(* A worker that leaves its transaction, or has read nothing yet, bothers no *)
(* reader.                                                                   *)
LEMMA OneWorkerMoves ==
    ASSUME MembershipInv, NEW w \in Syncers, NEW R \in TxRecords, R.pc # "read",
           tx' = [tx EXCEPT ![w] = R], rows' = rows
    PROVE  tx' \in [Syncers -> TxRecords] /\ ReadsAreTrue'
<1>1. /\ tx' \in [Syncers -> TxRecords] /\ tx'[w] = R
      /\ \A v \in Syncers \ {w} : tx'[v] = tx[v]
  BY DEF MembershipInv
<1>2. \A v \in Syncers : Reading(v)' => Reading(v) /\ tx'[v] = tx[v]
  BY <1>1 DEF Reading
<1>3. QED
  BY <1>1, <1>2 DEF MembershipInv, ReadsAreTrue, OpenRows

LEMMA NoTxIsRecord == NoTx \in TxRecords /\ NoTx.pc = "idle"
BY DEF NoTx, TxRecords

LEMMA QuietKeeps ==
    ASSUME MembershipInv, QuietStep
    PROVE  MembershipInv'
<1>1. rows' = rows /\ session' = session /\ synced' = synced
  BY DEF QuietStep, Reconstitute, SyncMaster, StartSync, Unresolved, ReadOpen, AbortSync
<1>2. report' \in Lists /\ master' \subseteq Stocks
  <2>1. master' = master \/ master' = master \cup DOMAIN report
    BY DEF QuietStep, Reconstitute, SyncMaster, StartSync, Unresolved, ReadOpen, AbortSync
  <2>2. report' = report \/ report' \in Lists
    BY DEF QuietStep, Reconstitute, SyncMaster, StartSync, Unresolved, ReadOpen, AbortSync
  <2>3. QED
    BY <2>1, <2>2, ListsAreWeights DEF MembershipInv, MembershipTypeOK
<1>3. MembershipTypeOK'
  BY <1>1, <1>2 DEF MembershipInv, MembershipTypeOK
<1>4. tx' \in [Syncers -> TxRecords] /\ ReadsAreTrue'
  <2>1. CASE tx' = tx
    BY <1>1, <2>1 DEF MembershipInv, ReadsAreTrue, Reading, OpenRows
  <2>2. ASSUME NEW w \in Syncers, Unresolved(w) \/ AbortSync(w)
        PROVE  tx' \in [Syncers -> TxRecords] /\ ReadsAreTrue'
    BY <1>1, <2>2, OneWorkerMoves, NoTxIsRecord DEF Unresolved, AbortSync
  <2>3. ASSUME NEW w \in Syncers, NEW d \in Sessions, StartSync(w, d)
        PROVE  tx' \in [Syncers -> TxRecords] /\ ReadsAreTrue'
    <3> DEFINE R == [pc |-> "listed", asOf |-> d, list |-> report,
                     alone |-> \A v \in Syncers \ {w} : tx[v].pc = "idle"]
    <3>1. R \in TxRecords /\ R.pc = "listed"
      BY DEF MembershipInv, MembershipTypeOK, TxRecords
    <3>2. tx' = [tx EXCEPT ![w] = R]
      BY <2>3 DEF StartSync
    <3> HIDE DEF R
    <3>3. QED
      BY <1>1, <3>1, <3>2, OneWorkerMoves
  <2>4. ASSUME NEW w \in Syncers, ReadOpen(w)
        PROVE  tx' \in [Syncers -> TxRecords] /\ ReadsAreTrue'
    <3> DEFINE R == [pc |-> "read", asOf |-> tx[w].asOf, list |-> tx[w].list,
                     open |-> OpenRows,
                     alone |-> \A u \in Syncers \ {w} : tx[u].pc = "idle"]
    <3>1. tx[w] \in TxRecords /\ tx[w].pc = "listed" /\ OpenRows \subseteq RowRecords
      BY <2>4, RecordsAreRows DEF MembershipInv, MembershipTypeOK, ReadOpen, OpenRows
    <3>2. R \in TxRecords /\ R.pc = "read" /\ R.open = OpenRows
      BY <3>1, NoTxIsRecord DEF TxRecords
    <3>3. R.alone => \A u \in Syncers \ {w} : tx[u].pc = "idle"
      OBVIOUS
    <3>4. tx' = [v \in Syncers |-> IF v = w THEN R ELSE Disturbed(v)]
      BY <2>4 DEF ReadOpen
    <3> HIDE DEF R
    <3>5. tx' \in [Syncers -> TxRecords] /\ tx'[w] = R
      BY <3>2, <3>4, DisturbedIsTyped
    <3>6. \A v \in Syncers \ {w} : /\ tx'[v].pc = tx[v].pc
                                   /\ tx'[v].pc = "read" => ~tx'[v].alone
      BY <3>4, DisturbedIsTyped
    <3>7. ReadsAreTrue'
      BY <1>1, <3>2, <3>3, <3>5, <3>6 DEF ReadsAreTrue, Reading, OpenRows
    <3>8. QED
      BY <3>5, <3>7
  <2>5. QED
    BY <2>1, <2>2, <2>3, <2>4 DEF QuietStep, Reconstitute, SyncMaster
<1>5. QED
  BY <1>3, <1>4 DEF MembershipInv

(* The loader never opens a second row for a stock, and every open           *)
(* reconciliation notices it.                                                *)
LEMMA LoadKeeps ==
    ASSUME MembershipInv, LoadUniverse
    PROVE  MembershipInv'
<1> DEFINE New(s) == Row(s, NoWeight, LoadFrom, Open)
<1>1. /\ rows \subseteq RowRecords
      /\ \A r \in rows : r.to = Open \/ r.to > r.from
      /\ \A r, q \in rows : r.to = Open /\ q.to = Open /\ r.stock = q.stock => r = q
      /\ Bundled \subseteq Stocks /\ LoadFrom \in Dates
  BY RecordsAreRows, MembershipAssumption DEF MembershipInv, MembershipTypeOK, Dates
<1>2. \A s \in Bundled : New(s) \in RowRecords /\ New(s).stock = s /\ New(s).to = Open
  BY <1>1, RowIsRecord, NoWeightIsWeight
<1>3. rows' = rows \cup {New(s) : s \in Bundled \ active_universe}
  BY DEF LoadUniverse
<1>4. \A s \in Bundled \ active_universe, r \in rows : r.to = Open => r.stock # s
  BY DEF active_universe, OpenRows
<1> HIDE DEF New
<1>5. rows' \subseteq RowRecords /\ \A r \in rows' : r.to = Open \/ r.to > r.from
  BY <1>1, <1>2, <1>3
<1>6. \A r \in rows' : r.to = Open =>
          r \in rows \/ (r = New(r.stock) /\ r.stock \in Bundled \ active_universe)
  BY <1>2, <1>3
<1>7. \A r, q \in rows' : r.to = Open /\ q.to = Open /\ r.stock = q.stock => r = q
  BY <1>1, <1>4, <1>6
<1>8. MembershipTypeOK'
  <2>1. session' = session /\ report' = report /\ synced' = synced /\ master' \subseteq Stocks
    BY <1>1 DEF MembershipInv, MembershipTypeOK, LoadUniverse
  <2>2. QED
    BY <1>5, <1>7, <2>1, RecordsAreRows DEF MembershipInv, MembershipTypeOK
<1>9. /\ tx' \in [Syncers -> TxRecords]
      /\ \A v \in Syncers : tx'[v].pc = tx[v].pc /\ (tx'[v].pc = "read" => ~tx'[v].alone)
  BY DisturbedIsTyped DEF LoadUniverse
<1>10. QED
  BY <1>8, <1>9 DEF MembershipInv, ReadsAreTrue, Reading

(* What a reconciliation makes of a row: the stock and the first day stay;   *)
(* an open row of a dropped stock ends at the date, which is later than its  *)
(* first day.                                                                *)
LEMMA RewrittenRow ==
    ASSUME MembershipInv, NEW w \in Syncers, Reading(w), ~Collides(w), NEW r \in rows
    PROVE  /\ Rewritten(w, r) \in RowRecords
           /\ Rewritten(w, r).stock = r.stock /\ Rewritten(w, r).from = r.from
           /\ r.to # Open => Rewritten(w, r) = r
           /\ r.to = Open /\ r.stock \in Drops(w) =>
                 Rewritten(w, r).to = tx[w].asOf /\ r.from < tx[w].asOf
           /\ r.to = Open /\ r.stock \notin Drops(w) => Rewritten(w, r).to = Open
<1>1. r \in RowRecords /\ tx[w] \in TxRecords /\ tx[w].pc = "read"
  BY RecordsAreRows DEF MembershipInv, MembershipTypeOK, Reading
<1>2. tx[w].asOf \in Sessions /\ tx[w].list \in Lists
  BY <1>1 DEF TxRecords, NoTx
<1>3. \A s \in DOMAIN tx[w].list : tx[w].list[s] \in Weights
  BY <1>2, ListsAreWeights
<1>4. CASE r.to # Open
  BY <1>1, <1>4 DEF Rewritten
<1>5. CASE r.to = Open /\ r.stock \in Drops(w)
  <2>1. Rewritten(w, r) = [r EXCEPT !.to = tx[w].asOf]
    BY <1>5 DEF Rewritten
  <2>2. ~(r.from >= tx[w].asOf)
    BY <1>5 DEF Collides, OpenRows
  <2>3. r.from \in Int /\ tx[w].asOf \in Int
    BY <1>1, <1>2 DEF RowRecords, Dates, Sessions, LoadFrom
  <2>4. QED
    BY <1>1, <1>2, <1>5, <2>1, <2>2, <2>3 DEF RowRecords
<1>6. CASE r.to = Open /\ r.stock \notin Drops(w)
  <2>1. CASE r.stock \in Kept(w)
    <3>1. Rewritten(w, r) = [r EXCEPT !.weight = tx[w].list[r.stock]]
      BY <1>6, <2>1 DEF Rewritten
    <3>2. tx[w].list[r.stock] \in Weights
      BY <1>3, <2>1 DEF Kept
    <3>3. QED
      BY <1>1, <1>6, <3>1, <3>2 DEF RowRecords
  <2>2. CASE r.stock \notin Kept(w)
    BY <1>1, <1>6, <2>2 DEF Rewritten
  <2>3. QED
    BY <2>1, <2>2
<1>7. QED
  BY <1>4, <1>5, <1>6

LEMMA AddedRow ==
    ASSUME MembershipInv, NEW w \in Syncers, Reading(w), NEW s \in Adds(w)
    PROVE  LET r == Row(s, tx[w].list[s], tx[w].asOf, Open)
           IN  r \in RowRecords /\ r.stock = s /\ r.from = tx[w].asOf /\ r.to = Open
<1>1. tx[w] \in TxRecords /\ tx[w].pc = "read"
  BY DEF MembershipInv, Reading
<1>2. tx[w].asOf \in Sessions /\ tx[w].list \in Lists /\ s \in DOMAIN tx[w].list
  BY <1>1 DEF TxRecords, NoTx, Adds
<1>3. s \in Stocks /\ tx[w].list[s] \in Weights
  BY <1>2, ListsAreWeights
<1>4. QED
  BY <1>2, <1>3, RowIsRecord DEF Dates

LEMMA ReconcileKeeps ==
    ASSUME MembershipInv, NEW w \in Syncers, NEW recorded \in BOOLEAN, Reconcile(w, recorded)
    PROVE  MembershipInv'
<1> DEFINE New(s) == Row(s, tx[w].list[s], tx[w].asOf, Open)
           Old(r) == Rewritten(w, r)
<1>1. Reading(w) /\ ~Collides(w)
  BY DEF Reconcile, Reading
<1>2. /\ rows \subseteq RowRecords
      /\ \A r \in rows : r.to = Open \/ r.to > r.from
      /\ \A r, q \in rows : r.to = Open /\ q.to = Open /\ r.stock = q.stock => r = q
      /\ tx[w].asOf \in Sessions
  <2>1. tx[w] \in TxRecords
    BY DEF MembershipInv
  <2>2. tx[w].asOf \in Sessions
    BY <1>1, <2>1 DEF TxRecords, NoTx, Reading
  <2>3. QED
    BY <2>2, RecordsAreRows DEF MembershipInv, MembershipTypeOK
<1>3. rows' = {Old(r) : r \in rows} \cup {New(s) : s \in Adds(w)}
  BY DEF Reconcile, Reconciled
<1>4. \A s \in Adds(w) : New(s) \in RowRecords /\ New(s).stock = s /\ New(s).to = Open
  BY <1>1, AddedRow
<1>5. \A r \in rows :
          /\ Old(r) \in RowRecords
          /\ Old(r).stock = r.stock /\ Old(r).from = r.from
          /\ r.to # Open => Old(r) = r
          /\ r.to = Open /\ r.stock \in Drops(w) => Old(r).to = tx[w].asOf /\ r.from < tx[w].asOf
          /\ r.to = Open /\ r.stock \notin Drops(w) => Old(r).to = Open
  BY <1>1, RewrittenRow
<1>6. \A s \in Adds(w), r \in rows : r.to = Open => r.stock # s
  BY <1>1 DEF Collides, active_universe, OpenRows
<1>7. tx[w].asOf # Open /\ \A r \in RowRecords : r.from \in Int
  BY <1>2, MembershipAssumption DEF Sessions, RowRecords, Dates, LoadFrom
<1> HIDE DEF Old, New
<1>8. rows' \subseteq RowRecords /\ \A r \in rows' : r.to = Open \/ r.to > r.from
  <2>1. \A r \in rows : Old(r) \in RowRecords /\ (Old(r).to = Open \/ Old(r).to > Old(r).from)
    <3> SUFFICES ASSUME NEW r \in rows
                 PROVE  Old(r) \in RowRecords /\ (Old(r).to = Open \/ Old(r).to > Old(r).from)
      OBVIOUS
    <3>1. r.from \in Int /\ tx[w].asOf \in Int
      BY <1>2, <1>7 DEF Sessions
    <3>2. CASE r.to # Open
      BY <1>2, <1>5, <3>2
    <3>3. CASE r.to = Open
      BY <1>5, <3>1, <3>3
    <3>4. QED
      BY <3>2, <3>3
  <2>2. QED
    BY <1>3, <1>4, <2>1
<1>9. \A r \in rows : Old(r).to = Open => r.to = Open
  BY <1>5
<1>10. \A r, q \in rows' : r.to = Open /\ q.to = Open /\ r.stock = q.stock => r = q
  <2> SUFFICES ASSUME NEW r \in rows', NEW q \in rows', r.to = Open, q.to = Open,
                      r.stock = q.stock
               PROVE  r = q
    OBVIOUS
  <2>1. CASE \E x, y \in rows : r = Old(x) /\ q = Old(y)
    BY <1>2, <1>5, <1>9, <2>1
  <2>2. CASE \E x \in rows, s \in Adds(w) : (r = Old(x) /\ q = New(s)) \/ (q = Old(x) /\ r = New(s))
    BY <1>4, <1>5, <1>6, <1>9, <2>2
  <2>3. CASE \E s, t \in Adds(w) : r = New(s) /\ q = New(t)
    BY <1>4, <2>3
  <2>4. QED
    BY <1>3, <2>1, <2>2, <2>3
<1>11. MembershipTypeOK'
  BY <1>2, <1>8, <1>10, RecordsAreRows DEF MembershipInv, MembershipTypeOK, Reconcile
<1>12. /\ tx' \in [Syncers -> TxRecords] /\ tx'[w] = NoTx
       /\ \A v \in Syncers \ {w} : tx'[v] = tx[v]
  BY NoTxIsRecord DEF MembershipInv, Reconcile
<1>13. \A v \in Syncers : Reading(v)' => v # w /\ Reading(v) /\ tx'[v] = tx[v]
  BY <1>12, NoTxIsRecord DEF Reading
<1>14. ReadsAreTrue'
  BY <1>1, <1>13 DEF MembershipInv, ReadsAreTrue
<1>15. QED
  BY <1>11, <1>12, <1>14 DEF MembershipInv

LEMMA SessionKeeps ==
    ASSUME MembershipInv, session' \in Sessions,
           UNCHANGED <<master, rows, report, synced, tx>>
    PROVE  MembershipInv'
BY DEF MembershipInv, MembershipTypeOK, ReadsAreTrue, Reading, OpenRows

LEMMA MembershipInvNext == MembershipInv /\ [EngineNext]_engineVars => MembershipInv'
<1> SUFFICES ASSUME MembershipInv, [EngineNext]_engineVars PROVE MembershipInv'
  OBVIOUS
<1>1. session \in Sessions
  BY DEF MembershipInv, MembershipTypeOK
<1>2. ASSUME NEW day \in MarketDays, NewSession(day) PROVE MembershipInv'
  BY <1>2, SessionKeeps DEF NewSession
<1>3. ASSUME NEW spec \in Specs, NEW start \in Sessions, RunBacktest(spec, start)
      PROVE  MembershipInv'
  BY <1>1, <1>3, SessionKeeps DEF RunBacktest, membershipVars
<1>4. ASSUME NEW w \in Syncers, NEW recorded \in BOOLEAN, Reconcile(w, recorded)
      PROVE  MembershipInv'
  BY <1>4, ReconcileKeeps
<1>5. CASE UNCHANGED membershipVars
  BY <1>1, <1>5, SessionKeeps DEF membershipVars
<1>6. ASSUME NEW d \in Sessions, ComputeIndicators(d) PROVE MembershipInv'
  BY <1>5, <1>6 DEF ComputeIndicators
<1>7. ASSUME NEW s \in Stocks, NEW d \in Sessions, NEW i \in Impacts, LearnSignal(s, d, i)
      PROVE  MembershipInv'
  BY <1>5, <1>7 DEF LearnSignal
<1>8. UNCHANGED engineVars => UNCHANGED membershipVars
  BY DEF engineVars
<1>9. QED
  BY <1>2, <1>3, <1>4, <1>5, <1>6, <1>7, <1>8, LoadKeeps, QuietKeeps DEF EngineNext

(* The rows change at the commit of the reconciliation that ends, and at no  *)
(* other step of its worker.                                                 *)
LEMMA CommitsAreReconciliations ==
    ASSUME MembershipInv, [EngineNext]_engineVars, NEW w \in Syncers, Commits(w)
    PROVE  \E recorded \in BOOLEAN : Reconcile(w, recorded)
<1>1. tx[w].pc = "read" /\ tx'[w].pc = "idle" /\ rows' # rows
  BY DEF Commits
<1>2. CASE UNCHANGED rows
  BY <1>1, <1>2
<1>3. CASE LoadUniverse
  BY <1>1, <1>3, DisturbedIsTyped DEF LoadUniverse
<1>4. ASSUME NEW v \in Syncers, NEW recorded \in BOOLEAN, Reconcile(v, recorded)
      PROVE  \E b \in BOOLEAN : Reconcile(w, b)
  <2>1. tx' = [tx EXCEPT ![v] = NoTx]
    BY <1>4 DEF Reconcile
  <2>2. v = w
    BY <1>1, <2>1 DEF MembershipInv
  <2>3. QED
    BY <1>4, <2>2
<1>5. QED
  <2>1. CASE UNCHANGED engineVars
    BY <1>2, <2>1 DEF engineVars, membershipVars
  <2>2. ASSUME NEW day \in MarketDays, NewSession(day) PROVE UNCHANGED rows
    BY <2>2 DEF NewSession
  <2>3. ASSUME NEW spec \in Specs, NEW start \in Sessions, RunBacktest(spec, start)
        PROVE  UNCHANGED rows
    BY <2>3 DEF RunBacktest, membershipVars
  <2>4. CASE QuietStep
    BY <1>2, <2>4 DEF QuietStep, Reconstitute, SyncMaster, StartSync, Unresolved, ReadOpen, AbortSync
  <2>5. ASSUME NEW d \in Sessions, ComputeIndicators(d) PROVE UNCHANGED rows
    BY <2>5 DEF ComputeIndicators, membershipVars
  <2>6. ASSUME NEW s \in Stocks, NEW d \in Sessions, NEW i \in Impacts, LearnSignal(s, d, i)
        PROVE  UNCHANGED rows
    BY <2>6 DEF LearnSignal, membershipVars
  <2>7. QED
    BY <1>2, <1>3, <1>4, <2>1, <2>2, <2>3, <2>4, <2>5, <2>6 DEF EngineNext

LEMMA PastStays ==
    ASSUME MembershipInv, [EngineNext]_engineVars, NEW w \in Syncers, Commits(w),
           NEW d \in Dates, d < tx[w].asOf
    PROVE  historical_universe(d)' = historical_universe(d)
<1> DEFINE New(s) == Row(s, tx[w].list[s], tx[w].asOf, Open)
           Old(r) == Rewritten(w, r)
<1>1. PICK recorded \in BOOLEAN : Reconcile(w, recorded)
  BY CommitsAreReconciliations
<1>2. Reading(w) /\ ~Collides(w)
  BY <1>1 DEF Reconcile, Reading
<1>3. rows' = {Old(r) : r \in rows} \cup {New(s) : s \in Adds(w)}
  BY <1>1 DEF Reconcile, Reconciled
<1>4. \A r \in rows :
          /\ Old(r).stock = r.stock /\ Old(r).from = r.from
          /\ r.to # Open => Old(r) = r
          /\ r.to = Open /\ r.stock \in Drops(w) => Old(r).to = tx[w].asOf
          /\ r.to = Open /\ r.stock \notin Drops(w) => Old(r).to = Open
  BY <1>2, RewrittenRow
<1>5. \A s \in Adds(w) : New(s).from = tx[w].asOf
  BY <1>2, AddedRow
<1>6. d \in Int /\ tx[w].asOf \in Int
  <2>1. tx[w] \in TxRecords
    BY DEF MembershipInv
  <2>2. QED
    BY <1>2, <2>1 DEF TxRecords, NoTx, Reading, Sessions, Dates, LoadFrom
<1> HIDE DEF Old, New
<1>7. \A r \in rows : Covers(Old(r), d) <=> Covers(r, d)
  BY <1>4, <1>6 DEF Covers
<1>8. \A s \in Adds(w) : ~Covers(New(s), d)
  BY <1>5, <1>6 DEF Covers
<1>9. {r.stock : r \in {q \in rows' : Covers(q, d)}} = {r.stock : r \in {q \in rows : Covers(q, d)}}
  BY <1>3, <1>4, <1>7, <1>8
<1>10. QED
  BY <1>9 DEF historical_universe, Covers

LEMMA SyncWritesTheList ==
    ASSUME MembershipInv, [EngineNext]_engineVars, NEW w \in Syncers, Commits(w),
           tx[w].alone, NEW d \in Sessions, d = tx[w].asOf,
           \A r \in rows : r.from < d /\ (r.to = Open \/ r.to <= d)
    PROVE  /\ active_universe' = DOMAIN tx[w].list
           /\ historical_universe(d)' = DOMAIN tx[w].list
<1> DEFINE New(s) == Row(s, tx[w].list[s], tx[w].asOf, Open)
           Old(r) == Rewritten(w, r)
           L == DOMAIN tx[w].list
<1>1. PICK recorded \in BOOLEAN : Reconcile(w, recorded)
  BY CommitsAreReconciliations
<1>2. Reading(w) /\ ~Collides(w)
  BY <1>1 DEF Reconcile, Reading
<1>3. rows' = {Old(r) : r \in rows} \cup {New(s) : s \in Adds(w)}
  BY <1>1 DEF Reconcile, Reconciled
<1>4. \A r \in rows :
          /\ Old(r).stock = r.stock /\ Old(r).from = r.from
          /\ r.to # Open => Old(r) = r
          /\ r.to = Open /\ r.stock \in Drops(w) => Old(r).to = d
          /\ r.to = Open /\ r.stock \notin Drops(w) => Old(r).to = Open
  BY <1>2, RewrittenRow
<1>5. \A s \in Adds(w) : New(s).stock = s /\ New(s).from = d /\ New(s).to = Open
  BY <1>2, AddedRow
<1>6. d \in Int /\ d # Open
  BY MembershipAssumption DEF Sessions
<1>7. tx[w].open = OpenRows
  BY <1>2 DEF MembershipInv, ReadsAreTrue
<1>8. /\ \A r \in rows : r.to = Open => (r.stock \in Drops(w) <=> r.stock \notin L)
      /\ \A s : s \in Adds(w) <=> s \in L /\ \A r \in rows : r.to = Open => r.stock # s
  BY <1>7 DEF Drops, Adds, OpenRows
<1> HIDE DEF Old, New, L
<1>9. \A r \in rows : (Old(r).to = Open <=> r.to = Open /\ r.stock \in L)
  BY <1>4, <1>6, <1>8
<1>10. \A r \in rows : Covers(Old(r), d) <=> Old(r).to = Open
  <2> SUFFICES ASSUME NEW r \in rows PROVE Covers(Old(r), d) <=> Old(r).to = Open
    OBVIOUS
  <2>1. Old(r).from = r.from /\ r.from < d
    BY <1>4
  <2>2. r \in RowRecords /\ r.from \in Int
    <3>1. r \in RowRecords
      BY RecordsAreRows DEF MembershipInv, MembershipTypeOK
    <3>2. QED
      BY <3>1 DEF RowRecords, Dates, Sessions, LoadFrom
  <2>3. CASE r.to # Open
    <3>1. r.to \in Int /\ r.to <= d /\ Old(r) = r
      BY <1>4, <2>2, <2>3 DEF RowRecords, Sessions
    <3>2. QED
      BY <1>6, <2>3, <3>1 DEF Covers
  <2>4. CASE r.to = Open
    BY <1>4, <1>6, <2>1, <2>2, <2>4 DEF Covers
  <2>5. QED
    BY <2>3, <2>4
<1>11. \A s \in Adds(w) : Covers(New(s), d)
  BY <1>5, <1>6 DEF Covers
<1>12. {r.stock : r \in {q \in rows' : q.to = Open}} = L
  <2>1. ASSUME NEW s \in L PROVE \E q \in rows' : q.to = Open /\ q.stock = s
    BY <1>3, <1>4, <1>5, <1>8, <1>9
  <2>2. ASSUME NEW q \in rows', q.to = Open PROVE q.stock \in L
    BY <1>3, <1>4, <1>5, <1>8, <1>9, <2>2
  <2>3. QED
    BY <2>1, <2>2
<1>13. \A q \in rows' : Covers(q, d) <=> q.to = Open
  BY <1>3, <1>5, <1>10, <1>11
<1>14. {r.stock : r \in {q \in rows' : Covers(q, d)}} = L
  BY <1>12, <1>13
<1>15. active_universe' = L
  BY <1>12 DEF active_universe, OpenRows
<1>16. historical_universe(d)' = L
  BY <1>14 DEF historical_universe, Covers
<1>17. QED
  BY <1>15, <1>16 DEF L

(* The membership of an index is a history: no reconciliation changes the    *)
(* members of a day before its date, and one that nobody overlapped, later   *)
(* than every boundary, leaves exactly the provider's list; for any stocks,  *)
(* lists, sessions and number of workers that reconcile at the same time.    *)
THEOREM MembershipIsAlwaysHistory == EngineSpec => MembershipIsHistory
<1>1. EngineInit => MembershipInv
  BY MembershipInvInit DEF EngineInit
<1>2. EngineSpec => []MembershipInv
  BY <1>1, MembershipInvNext, PTL DEF EngineSpec
<1>3. MembershipInv /\ [EngineNext]_engineVars =>
          [\A w \in Syncers : Commits(w) =>
              \A d \in Dates : d < tx[w].asOf =>
                  historical_universe(d)' = historical_universe(d)]_membershipVars
  BY PastStays
<1>4. MembershipInv /\ [EngineNext]_engineVars =>
          [\A w \in Syncers, d \in Sessions :
              Commits(w) /\ tx[w].alone /\ d = tx[w].asOf
              /\ (\A r \in rows : r.from < d /\ (r.to = Open \/ r.to <= d)) =>
                  /\ active_universe' = DOMAIN tx[w].list
                  /\ historical_universe(d)' = DOMAIN tx[w].list]_membershipVars
  BY SyncWritesTheList
<1>5. QED
  BY <1>2, <1>3, <1>4, PTL DEF EngineSpec, MembershipIsHistory, PastIsFixed, SyncIsExact
-----------------------------------------------------------------------------
(* BacktestEngine: the same past gives the same answer *)

(* Two pasts that are one up to session d: the bars, the members, the        *)
(* indicator rows and the signals that were to be seen.                      *)
SamePast(D, E, d) ==
    /\ \A s \in Stocks, e \in 1..d : /\ D.panel[s][e] = E.panel[s][e]
                                     /\ D.indicators[s][e] = E.indicators[s][e]
                                     /\ SignalsKnown(D, s, e) = SignalsKnown(E, s, e)
    /\ \A e \in 1..d : D.universe[e] = E.universe[e] /\ D.universe[e] \subseteq Stocks

LEMMA SameBars ==
    ASSUME NEW D, NEW E, NEW d \in Nat, SamePast(D, E, d)
    PROVE  \A s \in Stocks, e \in 1..d : HasBar(D, s, e) <=> HasBar(E, s, e)
BY DEF SamePast, HasBar

LEMMA SameScores ==
    ASSUME NEW D, NEW E, NEW d \in Nat, SamePast(D, E, d), NEW e \in 1..d, NEW s \in Stocks
    PROVE  /\ HasScore(D, s, e) <=> HasScore(E, s, e)
           /\ Score(D, s, e) = Score(E, s, e)
<1> DEFINE A == IndicatorRows(D, s, e)
<1>1. \A c \in 1..e : c \in 1..d
  OBVIOUS
<1>2. A = IndicatorRows(E, s, e)
  BY <1>1 DEF IndicatorRows, SamePast
<1>3. SignalsKnown(D, s, e) = SignalsKnown(E, s, e)
  BY DEF SamePast
<1>4. ASSUME A # {} PROVE Max(A) \in 1..e
  <2>1. A \subseteq 1..e /\ IsFiniteSet(1..e) /\ 1..e \subseteq Nat
    BY FS_Interval DEF IndicatorRows
  <2> HIDE DEF A
  <2>2. IsFiniteSet(A) /\ A \subseteq Nat
    BY <2>1, FS_Subset
  <2>3. Max(A) \in A
    BY <1>4, <2>2, GreatestElement
  <2>4. QED
    BY <2>1, <2>3
<1>5. indicator_as_of(D, s, e) = IF A = {} THEN 0 ELSE D.indicators[s][Max(A)]
  BY Zenon DEF indicator_as_of
<1>6. indicator_as_of(E, s, e) = IF A = {} THEN 0 ELSE E.indicators[s][Max(A)]
  BY <1>2, Zenon DEF indicator_as_of
<1> HIDE DEF A
<1>7. indicator_as_of(D, s, e) = indicator_as_of(E, s, e)
  BY <1>1, <1>4, <1>5, <1>6 DEF SamePast
<1>8. HasScore(D, s, e) <=> HasScore(E, s, e)
  BY <1>2, <1>3 DEF HasScore, A
<1>9. Score(D, s, e) = Score(E, s, e)
  BY <1>3, <1>7, Zenon DEF Score
<1>10. QED
  BY <1>8, <1>9

LEMMA SameRanks ==
    ASSUME NEW D, NEW E, NEW d \in Nat, SamePast(D, E, d), NEW e \in 1..d,
           NEW U, U \subseteq Stocks, NEW n
    PROVE  ranked_universe(D, e, U, n) = ranked_universe(E, e, U, n)
<1> DEFINE A == {s \in U : HasScore(D, s, e)}
           B == {s \in U : HasScore(E, s, e)}
<1>1. A = B /\ A \subseteq Stocks
  BY SameScores
<1>2. \A s, t \in A : Before(D, e, t, s) <=> Before(E, e, t, s)
  BY <1>1, SameScores DEF Before
<1>3. \A s \in A : {t \in A : Before(D, e, t, s)} = {t \in B : Before(E, e, t, s)}
  BY <1>1, <1>2
<1>4. {s \in A : Cardinality({t \in A : Before(D, e, t, s)}) < n}
          = {s \in B : Cardinality({t \in B : Before(E, e, t, s)}) < n}
  <2> DEFINE F(s) == {t \in A : Before(D, e, t, s)}
             G(s) == {t \in B : Before(E, e, t, s)}
  <2>1. A = B /\ \A s \in A : F(s) = G(s)
    BY <1>1, <1>3
  <2> HIDE DEF A, B, F, G
  <2>2. {s \in A : Cardinality(F(s)) < n} = {s \in B : Cardinality(G(s)) < n}
    BY <2>1
  <2>3. QED
    BY <2>2 DEF F, G
<1>5. QED
  BY <1>4 DEF ranked_universe

LEMMA SamePicks ==
    ASSUME NEW D, NEW E, NEW d \in Nat, SamePast(D, E, d), NEW e \in 1..d, NEW spec \in Specs
    PROVE  Picks(D, spec, e) = Picks(E, spec, e) /\ Picks(D, spec, e) \subseteq Stocks
<1>1. D.universe[e] = E.universe[e] /\ D.universe[e] \subseteq Stocks
  BY DEF SamePast
<1>2. ranked_universe(D, e, D.universe[e], spec.topN) = ranked_universe(E, e, E.universe[e], spec.topN)
  BY <1>1, SameRanks
<1>3. ranked_universe(D, e, D.universe[e], spec.topN) \subseteq Stocks
  BY <1>1 DEF ranked_universe
<1>4. QED
  BY <1>1, <1>2, <1>3, EngineAssumption DEF Picks

LEMMA SameTargets ==
    ASSUME NEW D, NEW E, NEW d \in Nat, SamePast(D, E, d), NEW e \in 1..d,
           NEW names, names \subseteq Stocks
    PROVE  Target(D, names, e) = Target(E, names, e) /\ Target(D, names, e).names \subseteq Stocks
<1>1. Priced(D, names, e) = Priced(E, names, e) /\ Priced(D, names, e) \subseteq Stocks
  BY SameBars DEF Priced
<1>2. QED
  BY <1>1 DEF Target, EqualWeight

LEMMA SameKept ==
    ASSUME NEW D, NEW E, NEW d \in Nat, SamePast(D, E, d), NEW e \in 1..d, NEW from \in 1..d,
           NEW held, held.names \subseteq Stocks
    PROVE  KeptUntil(D, held, from, e) = KeptUntil(E, held, from, e)
<1>1. \A c \in from..e : c \in 1..d
  OBVIOUS
<1>2. {s \in held.names : \A c \in from..e : HasBar(D, s, c)}
          = {s \in held.names : \A c \in from..e : HasBar(E, s, c)}
  BY <1>1, SameBars
<1>3. QED
  BY <1>2 DEF KeptUntil

LEMMA KeptIs ==
    ASSUME NEW D, NEW names, NEW from, NEW d
    PROVE  /\ EqualWeight(names).names = names
           /\ EqualWeight(names).each = IF names = {} THEN 0 ELSE W \div Cardinality(names)
           /\ KeptUntil(D, EqualWeight(names), from, d).names
                  = {s \in names : \A c \in from..d : HasBar(D, s, c)}
           /\ KeptUntil(D, EqualWeight(names), from, d).each = EqualWeight(names).each
<1>1. /\ EqualWeight(names).names = names
      /\ EqualWeight(names).each = IF names = {} THEN 0 ELSE W \div Cardinality(names)
      /\ DOMAIN EqualWeight(names) = {"names", "each"}
  BY DEF EqualWeight
<1>2. QED
  BY <1>1 DEF KeptUntil

(* The session of the last rebalance. *)
LastOf(picks, d) == Max({r \in DOMAIN picks : r <= d})

LEMMA LastRebalance ==
    ASSUME NEW picks, DOMAIN picks \subseteq Nat \ {0}, NEW d \in Nat,
           NEW first \in DOMAIN picks, first <= d
    PROVE  /\ LastOf(picks, d) \in DOMAIN picks /\ LastOf(picks, d) \in first..d
           /\ \A r \in DOMAIN picks : r <= d => r <= LastOf(picks, d)
<1> DEFINE T == {r \in DOMAIN picks : r <= d}
<1>1. T \subseteq 1..d /\ first \in T /\ T \subseteq Nat
  OBVIOUS
<1>2. IsFiniteSet(T)
  <2>1. IsFiniteSet(1..d)
    BY FS_Interval
  <2>2. QED
    BY <1>1, <2>1, FS_Subset
<1>3. Max(T) \in T /\ \A y \in T : y <= Max(T)
  <2> HIDE DEF T
  <2>1. QED
    BY <1>1, <1>2, GreatestElement
<1>4. QED
  BY <1>1, <1>3 DEF LastOf

LEMMA HeldIs ==
    ASSUME NEW D, NEW d, NEW picks
    PROVE  /\ Held(D, d, picks) = KeptUntil(D, Target(D, picks[LastOf(picks, d)], LastOf(picks, d)),
                                            LastOf(picks, d), d)
           /\ Held(D, d, picks).names
                  = {s \in Priced(D, picks[LastOf(picks, d)], LastOf(picks, d)) :
                         \A c \in LastOf(picks, d)..d : HasBar(D, s, c)}
           /\ Held(D, d, picks).each
                  = EqualWeight(Priced(D, picks[LastOf(picks, d)], LastOf(picks, d))).each
<1> DEFINE from == LastOf(picks, d)
           names == Priced(D, picks[from], from)
<1>1. Held(D, d, picks) = KeptUntil(D, EqualWeight(names), from, d)
  BY DEF Held, LastOf, Target
<1>2. QED
  <2> HIDE DEF from, names
  <2>1. /\ Held(D, d, picks).names = {s \in names : \A c \in from..d : HasBar(D, s, c)}
        /\ Held(D, d, picks).each = EqualWeight(names).each
    BY <1>1, KeptIs
  <2>2. QED
    BY <1>1, <2>1 DEF from, names, Target

(* Two choices of names that are one up to session d. *)
SameUntil(p, q, d) ==
    /\ DOMAIN p \subseteq Nat \ {0} /\ DOMAIN q \subseteq Nat \ {0}
    /\ \A r \in 1..d : /\ r \in DOMAIN p <=> r \in DOMAIN q
                       /\ r \in DOMAIN p => p[r] = q[r] /\ p[r] \subseteq Stocks

LEMMA SameHeld ==
    ASSUME NEW D, NEW E, NEW d \in Nat, SamePast(D, E, d), NEW p, NEW q, SameUntil(p, q, d),
           NEW first \in DOMAIN p, NEW e \in 1..d, first <= e
    PROVE  Held(D, e, p) = Held(E, e, q) /\ Held(D, e, p).names \subseteq Stocks
<1> DEFINE from == LastOf(p, e)
<1>1. {r \in DOMAIN p : r <= e} = {r \in DOMAIN q : r <= e}
  BY DEF SameUntil
<1>2. from = LastOf(q, e)
  BY <1>1 DEF LastOf
<1>3. from \in 1..d /\ from \in DOMAIN p
  BY LastRebalance DEF SameUntil
<1>4. p[from] = q[from] /\ p[from] \subseteq Stocks
  BY <1>3 DEF SameUntil
<1>5. /\ Held(D, e, p) = KeptUntil(D, Target(D, p[from], from), from, e)
      /\ Held(E, e, q) = KeptUntil(E, Target(E, q[from], from), from, e)
      /\ Held(D, e, p).names \subseteq Priced(D, p[from], from)
  BY <1>2, HeldIs
<1>6. Priced(D, p[from], from) \subseteq Stocks
  BY <1>4 DEF Priced
<1> HIDE DEF from
<1>7. Target(D, p[from], from) = Target(E, q[from], from) /\ Target(D, p[from], from).names \subseteq Stocks
  BY <1>3, <1>4, SameTargets
<1>8. KeptUntil(D, Target(D, p[from], from), from, e) = KeptUntil(E, Target(D, p[from], from), from, e)
  BY <1>3, <1>7, SameKept
<1>9. QED
  BY <1>5, <1>6, <1>7, <1>8

LEMMA SameStep ==
    ASSUME NEW D, NEW E, NEW d \in Nat, SamePast(D, E, d), d > 1, NEW held, held.names \subseteq Stocks
    PROVE  Step(D, held, d) = Step(E, held, d)
<1> DEFINE A == {s \in held.names : HasBar(D, s, d - 1) /\ HasBar(D, s, d)}
           B == {s \in held.names : HasBar(E, s, d - 1) /\ HasBar(E, s, d)}
           f(X, s) == held.each * ((X.panel[s][d] - X.panel[s][d-1]) * (P \div X.panel[s][d-1]))
<1>1. d \in 1..d /\ d - 1 \in 1..d
  OBVIOUS
<1>2. A = B /\ A \subseteq Stocks
  BY <1>1, SameBars
<1>3. \A s \in A : f(D, s) = f(E, s)
  <2> SUFFICES ASSUME NEW s \in A PROVE f(D, s) = f(E, s)
    OBVIOUS
  <2>1. D.panel[s][d] = E.panel[s][d] /\ D.panel[s][d-1] = E.panel[s][d-1]
    BY <1>1, <1>2 DEF SamePast
  <2>2. QED
    BY <2>1
<1> HIDE DEF A, B, f
<1>4. [s \in A |-> f(D, s)] = [s \in B |-> f(E, s)]
  BY <1>2, <1>3
<1>5. SumFunctionOnSet([s \in A |-> f(D, s)], A) = SumFunctionOnSet([s \in B |-> f(E, s)], B)
  BY <1>2, <1>4
<1>6. QED
  BY <1>5 DEF A, B, f, Step

LEMMA SameSimulation ==
    ASSUME NEW D, NEW E, NEW d \in Nat, SamePast(D, E, d), NEW p, NEW q, SameUntil(p, q, d),
           NEW start \in DOMAIN p, start <= d, NEW m \in Nat, NEW n \in Nat, d <= m, d <= n
    PROVE  Simulate(D, start, m, p)[d] = Simulate(E, start, n, q)[d]
<1> DEFINE Into(X, k) == IF d = start THEN EqualWeight({}) ELSE Held(X, d - 1, k)
           Day(X, k) == [held |-> Held(X, d, k),
                         step |-> IF d = start THEN 0 ELSE Step(X, Into(X, k), d),
                         turnover |-> IF d \in DOMAIN k
                                      THEN Turnover(Held(X, d, k), KeptUntil(X, Into(X, k), d, d)) ELSE 0]
<1>1. start \in 1..d /\ d \in 1..d /\ d \in start..m /\ d \in start..n
  BY DEF SameUntil
<1>2. Simulate(D, start, m, p)[d] = Day(D, p) /\ Simulate(E, start, n, q)[d] = Day(E, q)
  BY <1>1 DEF Simulate
<1>3. Held(D, d, p) = Held(E, d, q)
  BY <1>1, SameHeld
<1>4. Into(D, p) = Into(E, q) /\ Into(D, p).names \subseteq Stocks
  <2>1. CASE d = start
    BY <2>1 DEF EqualWeight
  <2>2. CASE d # start
    <3>1. d - 1 \in 1..d /\ start <= d - 1
      BY <1>1, <2>2
    <3>2. Held(D, d - 1, p) = Held(E, d - 1, q) /\ Held(D, d - 1, p).names \subseteq Stocks
      BY <3>1, SameHeld
    <3>3. QED
      BY <2>2, <3>2
  <2>3. QED
    BY <2>1, <2>2
<1> HIDE DEF Into
<1>5. KeptUntil(D, Into(D, p), d, d) = KeptUntil(E, Into(E, q), d, d)
  BY <1>1, <1>4, SameKept
<1>6. d # start => Step(D, Into(D, p), d) = Step(E, Into(E, q), d)
  BY <1>1, <1>4, SameStep
<1>7. d \in DOMAIN p <=> d \in DOMAIN q
  BY <1>1 DEF SameUntil
<1>8. Day(D, p) = Day(E, q)
  BY <1>3, <1>5, <1>6, <1>7
<1>9. QED
  BY <1>2, <1>8

(* What a backtest answers for session d depends on nothing after it. *)
LEMMA SameAnswers ==
    ASSUME NEW D, NEW E, NEW d \in Nat, SamePast(D, E, d), NEW spec \in Specs,
           NEW start \in 1..d, NEW m \in Nat, NEW n \in Nat, d <= m, d <= n
    PROVE  /\ Strategy(D, spec, start, m)[d] = Strategy(E, spec, start, n)[d]
           /\ Benchmark(D, start, m)[d] = Benchmark(E, start, n)[d]
<1> DEFINE A == rebalance_dates(start, m, spec.every)
           B == rebalance_dates(start, n, spec.every)
           p == [r \in A |-> Picks(D, spec, r)]
           q == [r \in B |-> Picks(E, spec, r)]
           k == [r \in {start} |-> D.universe[r]]
           l == [r \in {start} |-> E.universe[r]]
<1>1. /\ A \subseteq Nat \ {0} /\ B \subseteq Nat \ {0} /\ start \in A
      /\ \A r \in 1..d : r \in A <=> r \in B
  BY DEF rebalance_dates
<1>2. \A r \in 1..d : Picks(D, spec, r) = Picks(E, spec, r) /\ Picks(D, spec, r) \subseteq Stocks
  BY SamePicks
<1>3. SameUntil(p, q, d) /\ start \in DOMAIN p
  <2> HIDE DEF A, B
  <2>1. QED
    BY <1>1, <1>2 DEF SameUntil
<1>4. SameUntil(k, l, d) /\ start \in DOMAIN k
  BY DEF SameUntil, SamePast
<1> HIDE DEF p, q, k, l
<1>5. /\ Simulate(D, start, m, p)[d] = Simulate(E, start, n, q)[d]
      /\ Simulate(D, start, m, k)[d] = Simulate(E, start, n, l)[d]
  BY <1>3, <1>4, SameSimulation
<1>6. QED
  BY <1>5 DEF p, q, k, l, A, B, Strategy, Benchmark

-----------------------------------------------------------------------------
(* BacktestEngine: the money of a run adds up *)

(* Of a set of names the weights add up to the whole, or to nothing.         *)
LEMMA WholeOrNothing ==
    ASSUME NEW names, names \subseteq Stocks
    PROVE  /\ IsFiniteSet(names) /\ Cardinality(names) \in Nat
           /\ EqualWeight(names).each \in Int
           /\ Cardinality(names) * EqualWeight(names).each \in {0, W}
<1>1. IsFiniteSet(names) /\ Cardinality(names) \in Nat /\ Cardinality(names) <= Cardinality(Stocks)
      /\ Cardinality(Stocks) \in Nat
  BY EngineAssumption, FS_Subset, FS_CardinalityType
<1>2. CASE names = {}
  <2>1. EqualWeight(names).each = 0
    BY <1>2 DEF EqualWeight
  <2>2. QED
    BY <1>1, <2>1
<1>3. CASE names # {}
  <2> DEFINE n == Cardinality(names)
  <2>1. n # 0
    BY <1>1, <1>3, FS_EmptySet
  <2>2. n \in 1..Cardinality(Stocks) /\ n \in Nat /\ n > 0
    BY <1>1, <2>1
  <2>3. W % n = 0 /\ W \in Nat
    BY <2>2, EngineAssumption
  <2>4. EqualWeight(names).each = W \div n
    BY <1>3 DEF EqualWeight
  <2> HIDE DEF n
  <2>5. \A a, b \in Nat : b > 0 /\ a % b = 0 => a \div b \in Int /\ b * (a \div b) = a
    OBVIOUS
  <2>6. W \div n \in Int /\ n * (W \div n) = W
    BY <2>2, <2>3, <2>5
  <2>7. QED
    BY <1>1, <2>4, <2>6 DEF n
<1>4. QED
  BY <1>2, <1>3

(* On a rebalance day what is held is what was bought on it. *)
LEMMA BoughtToday ==
    ASSUME NEW D, NEW d \in Nat, NEW picks, DOMAIN picks \subseteq Nat \ {0}, d \in DOMAIN picks,
           picks[d] \subseteq Stocks
    PROVE  Exposure(Held(D, d, picks)) \in {0, W}
<1>1. LastOf(picks, d) = d
  <2>1. LastOf(picks, d) \in d..d
    BY LastRebalance
  <2>2. QED
    BY <2>1
<1> DEFINE names == Priced(D, picks[d], d)
<1>2. names \subseteq Stocks /\ \A s \in names : HasBar(D, s, d)
  BY DEF Priced
<1>3. d..d = {d}
  OBVIOUS
<1>4. /\ Held(D, d, picks).names = {s \in names : \A c \in d..d : HasBar(D, s, c)}
      /\ Held(D, d, picks).each = EqualWeight(names).each
  BY <1>1, HeldIs
<1> HIDE DEF names
<1>5. Held(D, d, picks).names = names
  BY <1>2, <1>3, <1>4
<1>6. QED
  BY <1>2, <1>4, <1>5, WholeOrNothing DEF Exposure

(* On any other day the invested share loses what stopped trading.           *)
LEMMA OnlySold ==
    ASSUME NEW D, NEW d \in Nat, NEW picks, DOMAIN picks \subseteq Nat \ {0}, d \notin DOMAIN picks,
           NEW first \in DOMAIN picks, first < d,
           \A r \in DOMAIN picks : picks[r] \subseteq Stocks,
           NEW sold, sold = {s \in Held(D, d - 1, picks).names : ~HasBar(D, s, d)}
    PROVE  Exposure(Held(D, d, picks))
               = Exposure(Held(D, d - 1, picks)) - Cardinality(sold) * Held(D, d - 1, picks).each
<1> DEFINE from == LastOf(picks, d)
           names == Priced(D, picks[from], from)
           after == Held(D, d, picks)
           before == Held(D, d - 1, picks)
<1>1. d - 1 \in Nat /\ first <= d - 1 /\ DOMAIN picks \subseteq Nat
  OBVIOUS
<1>2. {r \in DOMAIN picks : r <= d} = {r \in DOMAIN picks : r <= d - 1}
  BY <1>1
<1>3. LastOf(picks, d - 1) = from
  BY <1>2 DEF LastOf
<1>4. from \in DOMAIN picks /\ from \in Nat /\ from <= d - 1
  BY <1>1, <1>3, LastRebalance
<1>5. names \subseteq Stocks
  BY <1>4 DEF Priced
<1>6. /\ after.names = {s \in names : \A c \in from..d : HasBar(D, s, c)}
      /\ before.names = {s \in names : \A c \in from..(d - 1) : HasBar(D, s, c)}
      /\ after.each = EqualWeight(names).each /\ before.each = EqualWeight(names).each
  BY <1>3, HeldIs
<1> HIDE DEF from, names, after, before
<1>7. \A c : c \in from..d <=> c \in from..(d - 1) \/ c = d
  BY <1>1, <1>4
<1>8. /\ after.names \subseteq before.names /\ sold = before.names \ after.names
      /\ before.names \subseteq Stocks
  BY <1>5, <1>6, <1>7 DEF before
<1>9. IsFiniteSet(before.names) /\ EqualWeight(names).each \in Int
  BY <1>5, <1>8, WholeOrNothing
<1>10. Cardinality(sold) = Cardinality(before.names) - Cardinality(after.names)
       /\ Cardinality(before.names) \in Nat /\ Cardinality(after.names) \in Nat
  <2>1. before.names \cap after.names = after.names
    BY <1>8
  <2>2. Cardinality(before.names \ after.names)
            = Cardinality(before.names) - Cardinality(before.names \cap after.names)
    BY <1>9, FS_Difference
  <2>3. Cardinality(before.names) \in Nat /\ Cardinality(after.names) \in Nat
    BY <1>8, <1>9, FS_CardinalityType, FS_Subset
  <2>4. QED
    BY <1>8, <2>1, <2>2, <2>3
<1>11. \A a, b, e \in Int : b * e = a * e - (a - b) * e
  OBVIOUS
<1>12. Cardinality(after.names) * after.each
           = Cardinality(before.names) * before.each - Cardinality(sold) * before.each
  BY <1>6, <1>9, <1>10, <1>11
<1>13. QED
  BY <1>12 DEF Exposure, after, before

(* No position without a price of the session. *)
LEMMA HeldIsPriced ==
    ASSUME NEW D, NEW d \in Nat, NEW picks, DOMAIN picks \subseteq Nat \ {0},
           NEW first \in DOMAIN picks, first <= d, NEW s \in Held(D, d, picks).names
    PROVE  HasBar(D, s, d)
<1>1. LastOf(picks, d) \in first..d /\ first \in Nat
  BY LastRebalance
<1>2. d \in LastOf(picks, d)..d
  BY <1>1
<1>3. QED
  BY <1>2, HeldIs

LEMMA MoneyAddsUp ==
    ASSUME \A e \in Sessions : Data.universe[e] \subseteq Stocks
    PROVE  AccountsBalance
<1> SUFFICES ASSUME NEW spec \in Specs, NEW start \in Sessions, NEW end \in Sessions, start < end,
                    NEW d \in start..end
             PROVE  LET walk == Strategy(Data, spec, start, end)
                        rebalances == rebalance_dates(start, end, spec.every)
                        sold == {s \in walk[d-1].held.names : ~HasBar(Data, s, d)}
                    IN  /\ \A s \in walk[d].held.names : HasBar(Data, s, d)
                        /\ d \in rebalances => Exposure(walk[d].held) \in {0, W}
                        /\ d \notin rebalances =>
                               Exposure(walk[d].held) =
                                   Exposure(walk[d-1].held) - Cardinality(sold) * walk[d-1].held.each
  BY DEF AccountsBalance
<1> DEFINE A == rebalance_dates(start, end, spec.every)
           p == [r \in A |-> Picks(Data, spec, r)]
           walk == Strategy(Data, spec, start, end)
<1>1. /\ A \subseteq Nat \ {0} /\ A \subseteq Sessions /\ start \in A /\ start \in Nat
      /\ d \in Nat /\ d \in Sessions /\ start <= d
  BY MembershipAssumption DEF rebalance_dates, Sessions
<1>2. \A r \in A : Picks(Data, spec, r) \subseteq Stocks
  BY <1>1, EngineAssumption DEF Picks, ranked_universe
<1>3. \A e \in start..end : walk[e].held = Held(Data, e, p)
  BY DEF Strategy, Simulate
<1>4. DOMAIN p = A /\ \A r \in A : p[r] \subseteq Stocks
  BY <1>2
<1> HIDE DEF p, walk, A
<1>5. \A s \in walk[d].held.names : HasBar(Data, s, d)
  BY <1>1, <1>3, <1>4, HeldIsPriced
<1>6. ASSUME d \in A PROVE Exposure(walk[d].held) \in {0, W}
  BY <1>1, <1>3, <1>4, <1>6, BoughtToday
<1>7. ASSUME d \notin A, NEW sold, sold = {s \in walk[d-1].held.names : ~HasBar(Data, s, d)}
      PROVE  Exposure(walk[d].held) =
                 Exposure(walk[d-1].held) - Cardinality(sold) * walk[d-1].held.each
  <2>1. start < d /\ d - 1 \in start..end
    <3>1. start # d
      BY <1>1, <1>7
    <3>2. QED
      BY <1>1, <3>1
  <2> DEFINE dates == DOMAIN p
  <2>4. /\ dates \subseteq Nat \ {0} /\ start \in dates /\ d \notin dates
        /\ \A r \in dates : p[r] \subseteq Stocks
    BY <1>1, <1>4, <1>7
  <2>2. walk[d-1].held = Held(Data, d - 1, p) /\ walk[d].held = Held(Data, d, p)
    BY <1>3, <2>1
  <2>3. sold = {s \in Held(Data, d - 1, p).names : ~HasBar(Data, s, d)}
    BY <1>7, <2>2
  <2>5. Exposure(Held(Data, d, p))
            = Exposure(Held(Data, d - 1, p)) - Cardinality(sold) * Held(Data, d - 1, p).each
    BY <1>1, <2>1, <2>3, <2>4, OnlySold
  <2>6. QED
    BY <2>2, <2>5
<1>8. QED
  BY <1>5, <1>6, <1>7 DEF A, walk

-----------------------------------------------------------------------------
(* BacktestEngine: a stored answer stays the answer *)

SavedIsTyped ==
    saved = NoResult \/
    /\ DOMAIN saved = {"spec", "start", "end", "undoubted", "strategy", "benchmark"}
    /\ saved.spec \in Specs /\ saved.start \in Sessions /\ saved.end \in Sessions
    /\ saved.end <= session /\ saved.undoubted \in Int

EngineInv ==
    /\ MembershipInv
    /\ \A s \in Stocks : DOMAIN panel[s] = Sessions /\ DOMAIN indicators[s] = Sessions
    /\ SavedIsTyped
    /\ KnowsNothingOfTheFuture

LEMMA MembersAreStocks ==
    ASSUME MembershipInv
    PROVE  \A d \in Sessions : Data.universe[d] \subseteq Stocks
<1>1. rows \subseteq RowRecords
  BY RecordsAreRows DEF MembershipInv, MembershipTypeOK
<1>2. QED
  BY <1>1 DEF Data, historical_universe, RowRecords

LEMMA LesserOfTwo ==
    ASSUME NEW a \in Int, NEW b \in Int
    PROVE  Min({a, b}) = IF a <= b THEN a ELSE b
<1>1. \E x \in {a, b} : \A y \in {a, b} : x <= y
  OBVIOUS
<1>2. Min({a, b}) \in {a, b} /\ \A y \in {a, b} : Min({a, b}) <= y
  BY <1>1 DEF Min
<1>3. QED
  BY <1>2

(* What the tables say as of session e does not change. *)
Untouched(e) ==
    /\ historical_universe(e)' = historical_universe(e)
    /\ \A s \in Stocks : /\ indicators'[s][e] = indicators[s][e]
                         /\ SignalsKnown(Data', s, e) = SignalsKnown(Data, s, e)

(* What a stored answer rests on has not moved: nothing of the past the      *)
(* later rows are not about.                                                 *)
LEMMA AnswerStays ==
    ASSUME EngineInv, MembershipInv', saved # NoResult, saved' # NoResult,
           session \in Sessions, session' \in Sessions, session <= session',
           saved'.spec = saved.spec, saved'.start = saved.start, saved'.end = saved.end,
           saved'.strategy = saved.strategy, saved'.benchmark = saved.benchmark,
           NEW u, u = saved.undoubted, NEW v \in Int, v = saved'.undoubted, v <= u,
           \A s \in Stocks, d \in 1..session : panel'[s][d] = panel[s][d],
           \A d \in Sessions : d <= v => Untouched(d)
    PROVE  KnowsNothingOfTheFuture'
<1> DEFINE D == Data
           E == Data'
<1>1. /\ saved.spec \in Specs /\ saved.start \in Sessions /\ saved.end \in Sessions
      /\ saved.end <= session /\ u \in Int /\ session \in Nat /\ session' \in Nat
      /\ Sessions = 1..LastSession /\ LastSession \in Nat /\ saved.start \in Nat /\ saved.end \in Nat
  BY MembershipAssumption DEF EngineInv, SavedIsTyped, Sessions
<1> SUFFICES ASSUME NEW d \in saved.start..Min({saved.end, v})
             PROVE  /\ Strategy(E, saved.spec, saved.start, session')[d] = saved.strategy[d]
                    /\ Benchmark(E, saved.start, session')[d] = saved.benchmark[d]
  BY DEF KnowsNothingOfTheFuture
<1>2. /\ d \in Nat /\ saved.start \in 1..d /\ d <= saved.end /\ d <= v
      /\ d \in saved.start..Min({saved.end, u}) /\ d <= session /\ d <= session'
  <2> DEFINE low == Min({saved.end, v})
             high == Min({saved.end, u})
             first == saved.start
             last == saved.end
  <2>1. /\ low = (IF last <= v THEN last ELSE v)
        /\ high = (IF last <= u THEN last ELSE u)
    BY <1>1, LesserOfTwo
  <2>2. d \in first..low /\ first \in 1..LastSession
    BY <1>1
  <2> HIDE DEF low, high
  <2>3. /\ d \in Nat /\ first \in 1..d /\ d <= last /\ d <= v
        /\ d \in first..high /\ d <= session /\ d <= session'
    BY <1>1, <2>1, <2>2
  <2>4. QED
    BY <2>3 DEF high
<1>3. \A e \in 1..d : e \in Sessions /\ e <= v /\ e \in 1..session
  BY <1>1, <1>2
<1>4. SamePast(D, E, d)
  <2>1. /\ D.panel = panel /\ E.panel = panel'
        /\ D.indicators = indicators /\ E.indicators = indicators'
        /\ \A e \in Sessions : D.universe[e] = historical_universe(e)
                              /\ E.universe[e] = historical_universe(e)'
    BY DEF Data
  <2>2. \A e \in Sessions : D.universe[e] \subseteq Stocks
    BY MembersAreStocks DEF EngineInv
  <2>3. \A e \in 1..d : /\ historical_universe(e)' = historical_universe(e)
                        /\ \A s \in Stocks : /\ indicators'[s][e] = indicators[s][e]
                                             /\ SignalsKnown(E, s, e) = SignalsKnown(D, s, e)
    BY <1>3 DEF Untouched
  <2> HIDE DEF D, E
  <2>4. QED
    BY <1>3, <2>1, <2>2, <2>3 DEF SamePast
<1>5. /\ Strategy(D, saved.spec, saved.start, session)[d] = saved.strategy[d]
      /\ Benchmark(D, saved.start, session)[d] = saved.benchmark[d]
  BY <1>2 DEF EngineInv, KnowsNothingOfTheFuture
<1> HIDE DEF D, E
<1>6. /\ Strategy(D, saved.spec, saved.start, session)[d] = Strategy(E, saved.spec, saved.start, session')[d]
      /\ Benchmark(D, saved.start, session)[d] = Benchmark(E, saved.start, session')[d]
  BY <1>1, <1>2, <1>4, SameAnswers
<1>7. QED
  BY <1>5, <1>6

LEMMA EngineInvInit == EngineInit => EngineInv
<1> SUFFICES ASSUME EngineInit PROVE EngineInv
  OBVIOUS
<1>1. MembershipInv
  BY MembershipInvInit DEF EngineInit
<1>2. /\ saved = NoResult
      /\ \A s \in Stocks : DOMAIN panel[s] = Sessions /\ DOMAIN indicators[s] = Sessions
  BY DEF EngineInit
<1>3. QED
  BY <1>1, <1>2 DEF EngineInv, SavedIsTyped, KnowsNothingOfTheFuture

LEMMA NewSessionKeepsAnswers ==
    ASSUME EngineInv, MembershipInv', NEW day \in MarketDays, NewSession(day)
    PROVE  EngineInv'
<1>1. /\ session \in Sessions /\ session' = session + 1 /\ session' \in Sessions /\ session <= session'
      /\ saved' = saved /\ rows' = rows /\ session \in Nat
      /\ indicators' = indicators /\ signals' = signals
      /\ panel' = [s \in Stocks |-> [panel[s] EXCEPT ![session + 1] = day[s]]]
  BY MembershipAssumption DEF EngineInv, MembershipInv, MembershipTypeOK, NewSession, Sessions
<1>2. \A s \in Stocks : /\ DOMAIN panel'[s] = Sessions
                        /\ \A d \in 1..session : panel'[s][d] = panel[s][d]
  <2> SUFFICES ASSUME NEW s \in Stocks
               PROVE  /\ DOMAIN panel'[s] = Sessions
                      /\ \A d \in 1..session : panel'[s][d] = panel[s][d]
    OBVIOUS
  <2>1. panel'[s] = [panel[s] EXCEPT ![session + 1] = day[s]] /\ DOMAIN panel[s] = Sessions
    BY <1>1 DEF EngineInv
  <2>2. \A d \in 1..session : d \in Sessions /\ d # session + 1
    BY <1>1, MembershipAssumption DEF Sessions
  <2>3. QED
    BY <2>1, <2>2
<1>3. \A d \in Sessions : Untouched(d)
  <2>1. \A d \in Sessions : historical_universe(d)' = historical_universe(d)
    BY <1>1 DEF historical_universe, Covers
  <2>2. \A s \in Stocks, d \in Sessions : SignalsKnown(Data', s, d) = SignalsKnown(Data, s, d)
    BY <1>1 DEF SignalsKnown, Data
  <2>3. QED
    BY <1>1, <2>1, <2>2 DEF Untouched
<1>4. SavedIsTyped'
  <2>1. CASE saved = NoResult
    BY <1>1, <2>1 DEF SavedIsTyped
  <2>2. CASE saved # NoResult
    <3>1. saved.end \in Int /\ saved.end <= session
      BY <2>2, MembershipAssumption DEF EngineInv, SavedIsTyped, Sessions
    <3>2. saved.end <= session'
      BY <1>1, <3>1
    <3>3. QED
      BY <1>1, <2>2, <3>2 DEF EngineInv, SavedIsTyped
  <2>3. QED
    BY <2>1, <2>2
<1>5. KnowsNothingOfTheFuture'
  <2>1. CASE saved = NoResult
    BY <1>1, <2>1 DEF KnowsNothingOfTheFuture
  <2>2. CASE saved # NoResult
    <3>1. saved.undoubted \in Int
      BY <2>2 DEF EngineInv, SavedIsTyped
    <3>2. saved.undoubted <= saved.undoubted
      BY <3>1
    <3>3. QED
      BY <1>1, <1>2, <1>3, <2>2, <3>1, <3>2, AnswerStays
  <2>3. QED
    BY <2>1, <2>2
<1>6. QED
  BY <1>1, <1>2, <1>4, <1>5 DEF EngineInv

LEMMA RunKeepsAnswers ==
    ASSUME EngineInv, MembershipInv', NEW spec \in Specs, NEW start \in Sessions,
           RunBacktest(spec, start)
    PROVE  EngineInv'
<1>1. /\ session \in Sessions /\ session \in Nat /\ session' = session /\ rows' = rows /\ panel' = panel
      /\ indicators' = indicators /\ signals' = signals
      /\ saved' = [spec |-> spec, start |-> start, end |-> session, undoubted |-> session,
                   strategy |-> Strategy(Data, spec, start, session),
                   benchmark |-> Benchmark(Data, start, session)]
  BY MembershipAssumption DEF EngineInv, MembershipInv, MembershipTypeOK, RunBacktest, membershipVars, Sessions
<1>2. Data' = Data
  BY <1>1 DEF Data, historical_universe, Covers
<1>3. SavedIsTyped'
  BY <1>1 DEF SavedIsTyped
<1>4. KnowsNothingOfTheFuture'
  <2> DEFINE a == Strategy(Data, spec, start, session)
             b == Benchmark(Data, start, session)
  <2>1. /\ saved'.spec = spec /\ saved'.start = start
        /\ saved'.strategy = a /\ saved'.benchmark = b
    BY <1>1
  <2>2. /\ Strategy(Data', saved'.spec, saved'.start, session') = a
        /\ Benchmark(Data', saved'.start, session') = b
    BY <1>1, <1>2, <2>1
  <2> HIDE DEF a, b
  <2>3. QED
    BY <2>1, <2>2 DEF KnowsNothingOfTheFuture
<1>5. QED
  BY <1>1, <1>3, <1>4 DEF EngineInv

LEMMA SameEvidence == ASSUME evidence' = evidence PROVE \A e \in Sessions : Untouched(e)
<1>1. rows' = rows /\ indicators' = indicators /\ signals' = signals
  BY DEF evidence
<1>2. \A e \in Sessions : historical_universe(e)' = historical_universe(e)
  BY <1>1 DEF historical_universe, Covers
<1>3. \A s \in Stocks, e \in Sessions : SignalsKnown(Data', s, e) = SignalsKnown(Data, s, e)
  BY <1>1 DEF SignalsKnown, Data
<1>4. QED
  BY <1>1, <1>2, <1>3 DEF Untouched

(* A write: what it is about is no longer vouched for. *)
LEMMA WriteKeepsAnswers ==
    ASSUME EngineInv, MembershipInv', session' = session, NEW d \in Int, WriteFrom(d),
           \A s \in Stocks : DOMAIN indicators'[s] = Sessions,
           evidence' # evidence => \A e \in Sessions : e < d => Untouched(e)
    PROVE  EngineInv'
<1>1. session \in Sessions /\ session \in Nat /\ panel' = panel
  BY MembershipAssumption DEF EngineInv, MembershipInv, MembershipTypeOK, WriteFrom, Sessions
<1>2. CASE saved = NoResult
  <2>1. saved' = NoResult
    BY <1>2 DEF WriteFrom
  <2>2. QED
    BY <1>1, <2>1 DEF EngineInv, SavedIsTyped, KnowsNothingOfTheFuture
<1>3. CASE saved # NoResult
  <2> DEFINE u == saved.undoubted
             v == saved'.undoubted
  <2>1. /\ DOMAIN saved = {"spec", "start", "end", "undoubted", "strategy", "benchmark"}
        /\ u \in Int /\ saved.spec \in Specs /\ saved.start \in Sessions
        /\ saved.end \in Sessions /\ saved.end <= session
    BY <1>3 DEF EngineInv, SavedIsTyped
  <2>2. /\ DOMAIN saved' = DOMAIN saved
        /\ saved'.spec = saved.spec /\ saved'.start = saved.start /\ saved'.end = saved.end
        /\ saved'.strategy = saved.strategy /\ saved'.benchmark = saved.benchmark
        /\ v = IF evidence' = evidence THEN u ELSE Min({u, d - 1})
    BY <1>3, <2>1 DEF WriteFrom
  <2>3. v \in Int /\ v <= u /\ (evidence' # evidence => v <= d - 1)
    <3> HIDE DEF u, v
    <3>1. d - 1 \in Int
      OBVIOUS
    <3>2. Min({u, d - 1}) = IF u <= d - 1 THEN u ELSE d - 1
      BY <2>1, <3>1, LesserOfTwo
    <3>3. QED
      BY <2>1, <2>2, <3>1, <3>2
  <2>4. \A e \in Sessions : e <= v => Untouched(e)
    <3>1. CASE evidence' = evidence
      BY <3>1, SameEvidence
    <3>2. CASE evidence' # evidence
      <4>1. \A e \in Sessions : e \in Int
        BY MembershipAssumption DEF Sessions
      <4>2. \A e \in Int : e <= v => e < d
        BY <2>3, <3>2
      <4>3. QED
        BY <3>2, <4>1, <4>2
    <3>3. QED
      BY <3>1, <3>2
  <2>5. SavedIsTyped'
    BY <2>1, <2>2, <2>3 DEF SavedIsTyped
  <2>6. saved' # NoResult
    <3>1. "spec" \in DOMAIN saved' /\ "spec" \notin DOMAIN NoResult
      BY <2>1, <2>2 DEF NoResult
    <3>2. QED
      BY <3>1
  <2>7. session' \in Sessions /\ session <= session'
    BY <1>1
  <2>8. KnowsNothingOfTheFuture'
    BY <1>1, <1>3, <2>2, <2>3, <2>4, <2>6, <2>7, AnswerStays
  <2>9. QED
    BY <1>1, <2>5, <2>8 DEF EngineInv
<1>4. QED
  BY <1>2, <1>3

LEMMA QuietKeepsAnswers ==
    ASSUME EngineInv, MembershipInv', UNCHANGED <<rows, session, panel, indicators, signals, saved>>
    PROVE  EngineInv'
<1>1. Data' = Data
  BY DEF Data, historical_universe, Covers
<1>2. SavedIsTyped' /\ KnowsNothingOfTheFuture'
  BY <1>1 DEF EngineInv, SavedIsTyped, KnowsNothingOfTheFuture
<1>3. QED
  BY <1>2 DEF EngineInv

LEMMA IndicatorsKeepAnswers ==
    ASSUME EngineInv, MembershipInv', NEW d \in Sessions, ComputeIndicators(d), WriteFrom(d)
    PROVE  EngineInv'
<1> DEFINE found == {s \in active_universe : panel[s][d] # NoPrice}
<1>1. /\ session' = session /\ rows' = rows /\ signals' = signals
      /\ indicators' = [s \in Stocks |->
             IF s \in found THEN [indicators[s] EXCEPT ![d] = panel[s][d]] ELSE indicators[s]]
  BY DEF ComputeIndicators, membershipVars
<1> HIDE DEF found
<1>2. \A s \in Stocks : /\ DOMAIN indicators'[s] = Sessions
                        /\ \A e \in Sessions : e # d => indicators'[s][e] = indicators[s][e]
  BY <1>1 DEF EngineInv
<1>3. d \in Int
  BY MembershipAssumption DEF Sessions
<1>4. \A e \in Sessions : e < d => Untouched(e)
  <2>1. \A e \in Sessions : historical_universe(e)' = historical_universe(e)
    BY <1>1 DEF historical_universe, Covers
  <2>2. \A s \in Stocks, e \in Sessions : SignalsKnown(Data', s, e) = SignalsKnown(Data, s, e)
    BY <1>1 DEF SignalsKnown, Data
  <2>3. \A e \in Sessions : e < d => e # d
    BY <1>3, MembershipAssumption DEF Sessions
  <2>4. QED
    BY <1>2, <2>1, <2>2, <2>3 DEF Untouched
<1>5. QED
  BY <1>1, <1>2, <1>3, <1>4, WriteKeepsAnswers

LEMMA SignalsKeepAnswers ==
    ASSUME EngineInv, MembershipInv', NEW s \in Stocks, NEW d \in Sessions, NEW i \in Impacts,
           LearnSignal(s, d, i), WriteFrom(session)
    PROVE  EngineInv'
<1> DEFINE new == [stock |-> s, dated |-> d, known |-> session, impact |-> i]
<1>1. /\ session' = session /\ rows' = rows /\ indicators' = indicators
      /\ signals' = signals \cup {new} /\ new.known = session
  BY DEF LearnSignal, membershipVars
<1> HIDE DEF new
<1>2. session \in Int /\ \A e \in Sessions : e \in Int
  BY MembershipAssumption DEF EngineInv, MembershipInv, MembershipTypeOK, Sessions
<1>3. \A e \in Sessions : e < session => Untouched(e)
  <2>1. \A e \in Sessions : historical_universe(e)' = historical_universe(e)
    BY <1>1 DEF historical_universe, Covers
  <2>2. ASSUME NEW e \in Sessions, e < session, NEW t \in Stocks
        PROVE  SignalsKnown(Data', t, e) = SignalsKnown(Data, t, e)
    <3>1. ~(new.known <= e)
      BY <1>1, <1>2, <2>2
    <3>2. Data'.signals = signals \cup {new} /\ Data.signals = signals
      BY <1>1 DEF Data
    <3>3. QED
      BY <3>1, <3>2 DEF SignalsKnown
  <2>3. QED
    BY <1>1, <2>1, <2>2 DEF Untouched
<1>4. \A t \in Stocks : DOMAIN indicators'[t] = Sessions
  BY <1>1 DEF EngineInv
<1>5. QED
  BY <1>1, <1>2, <1>3, <1>4, WriteKeepsAnswers

LEMMA EngineInvNext == EngineInv /\ [EngineNext]_engineVars => EngineInv'
<1> SUFFICES ASSUME EngineInv, [EngineNext]_engineVars PROVE EngineInv'
  OBVIOUS
<1>1. MembershipInv /\ MembershipInv'
  BY MembershipInvNext DEF EngineInv
<1>2. \A e \in Sessions : e \in Dates /\ e \in Int /\ e > 0
  BY MembershipAssumption DEF Sessions, Dates
<1>3. ASSUME UNCHANGED <<indicators, signals>>, NEW e \in Sessions,
             historical_universe(e)' = historical_universe(e)
      PROVE  Untouched(e)
  BY <1>3 DEF Untouched, SignalsKnown, Data
<1>4. \A s \in Stocks : DOMAIN indicators[s] = Sessions
  BY DEF EngineInv
<1>5. ASSUME NEW w \in Syncers, NEW recorded \in BOOLEAN, Reconcile(w, recorded),
             UNCHANGED <<indicators, signals>>, WriteFrom(tx[w].asOf)
      PROVE  EngineInv'
  <2>1. /\ tx[w] \in TxRecords /\ tx[w].pc = "read" /\ tx' = [tx EXCEPT ![w] = NoTx]
        /\ session' = session /\ tx \in [Syncers -> TxRecords]
    BY <1>1, <1>5 DEF MembershipInv, Reconcile
  <2>2. tx[w].asOf \in Int
    BY <1>2, <2>1 DEF TxRecords, NoTx
  <2>3. tx'[w].pc = "idle"
    BY <2>1 DEF NoTx
  <2>4. evidence' # evidence => \A e \in Sessions : e < tx[w].asOf => Untouched(e)
    <3>1. evidence' # evidence => rows' # rows
      BY <1>5 DEF evidence
    <3>2. rows' # rows => \A e \in Sessions : e < tx[w].asOf => historical_universe(e)' = historical_universe(e)
      BY <1>1, <1>2, <2>1, <2>3, PastStays DEF Commits
    <3>3. QED
      BY <1>5, <1>3, <3>1, <3>2
  <2>5. QED
    BY <1>1, <1>5, <1>4, <2>1, <2>2, <2>4, WriteKeepsAnswers
<1>6. CASE LoadUniverse /\ UNCHANGED <<indicators, signals>> /\ WriteFrom(LoadFrom)
  <2>1. session' = session /\ LoadFrom \in Int /\ \A e \in Sessions : ~(e < LoadFrom)
    BY <1>2, <1>6 DEF LoadUniverse, LoadFrom
  <2>2. QED
    BY <1>1, <1>6, <1>4, <2>1, WriteKeepsAnswers
<1>7. CASE QuietStep /\ UNCHANGED <<panel, indicators, signals, saved>>
  <2>1. UNCHANGED <<rows, session>>
    BY <1>7 DEF QuietStep, Reconstitute, SyncMaster, StartSync, Unresolved, ReadOpen, AbortSync
  <2>2. QED
    BY <1>1, <1>7, <2>1, QuietKeepsAnswers
<1>8. CASE UNCHANGED engineVars
  BY <1>1, <1>8, QuietKeepsAnswers DEF engineVars, membershipVars
<1>9. QED
  BY <1>1, <1>5, <1>6, <1>7, <1>8, NewSessionKeepsAnswers, RunKeepsAnswers,
     IndicatorsKeepAnswers, SignalsKeepAnswers DEF EngineNext

(* A backtest is honest: what it says of a session depends on no bar, member *)
(* or indicator row of a later one and on no signal learnt later, so that    *)
(* every longer run of the same specification says the same of it, and its   *)
(* positions are priced and add up between rebalances; for any market, index *)
(* history, indicators computed at any time, signals, specification and      *)
(* length of run (BacktestEngine.run over BacktestDataAccess).               *)
THEOREM BacktestIsAlwaysHonest == EngineSpec => []BacktestIsHonest
<1>1. EngineInv => BacktestIsHonest
  BY MembersAreStocks, MoneyAddsUp DEF EngineInv, BacktestIsHonest
<1>2. QED
  BY <1>1, EngineInvInit, EngineInvNext, PTL DEF EngineSpec

-----------------------------------------------------------------------------
(* Resync: what a resync reports is what it left *)

UnitsAt(i, o) == UnitsOf(STAGES[i], o)

LEMMA StagePositions ==
    /\ DOMAIN STAGES = 1..16
    /\ STAGES[3] = "prices" /\ STAGES[5] = "corpactions" /\ STAGES[6] = "fundamentals"
    /\ STAGES[8] = "macro" /\ STAGES[9] = "news" /\ STAGES[11] = "sentiment"
    /\ STAGES[12] = "indicators" /\ STAGES[13] = "factors_scores"
    /\ \A i \in 1..16 : /\ STAGES[i] \notin {"corpact", "ind", "fac", "score"}
                        /\ STAGES[i] = "prices" => i = 3
                        /\ STAGES[i] = "corpactions" => i = 5
                        /\ STAGES[i] = "fundamentals" => i = 6
                        /\ STAGES[i] = "macro" => i = 8
                        /\ STAGES[i] = "news" => i = 9
                        /\ STAGES[i] = "sentiment" => i = 11
                        /\ STAGES[i] = "indicators" => i = 12
                        /\ STAGES[i] = "factors_scores" => i = 13
BY DEF STAGES

LEMMA MacroUnitsAre ==
    \A j \in DOMAIN MacroUnits : j \in Int /\ MacroUnits[j][1] = "macro"
<1> DEFINE S == {<<"macro", x>> : x \in Series}
           n == Cardinality(S)
<1>1. IsFiniteSet(S)
  <2> DEFINE g == [x \in Series |-> <<"macro", x>>]
  <2>1. g \in Surjection(Series, S)
    BY DEF Surjection
  <2>2. QED
    BY <2>1, ResyncAssumption, FS_Surjection
<1> HIDE DEF S
<1>2. PICK f \in [1..n -> S] : IsInjective(f)
  <2>1. n \in Nat /\ ExistsBijection(1..n, S)
    BY <1>1, FS_CardinalityType
  <2>2. PICK f : f \in Bijection(1..n, S)
    BY <2>1 DEF ExistsBijection
  <2>3. f \in [1..n -> S] /\ IsInjective(f)
    BY <2>2 DEF Bijection, Injection, IsInjective
  <2>4. QED
    BY <2>3
<1>3. SetToSeq(S) \in [1..n -> S]
  BY <1>2 DEF SetToSeq
<1>4. MacroUnits \in [1..n -> S]
  BY <1>3 DEF MacroUnits, S
<1>5. QED
  BY <1>4 DEF S

LEMMA UnitsAre ==
    ASSUME NEW i \in 1..16, NEW o
    PROVE  /\ i = 3 => UnitsAt(i, o) = << <<"prices", 0>> >>
           /\ i = 5 => UnitsAt(i, o) = << <<"corpact", 0>> >>
           /\ i = 8 => UnitsAt(i, o) = MacroUnits
           /\ i = 12 => UnitsAt(i, o) = [d \in Window |-> <<"ind", d>>]
           /\ i = 13 => UnitsAt(i, o) = ScoreUnits(o.lastDay)
           /\ i \notin {3, 5, 8, 12, 13} => UnitsAt(i, o) = << <<STAGES[i], 0>> >>
<1>1. /\ STAGES[3] = "prices" /\ STAGES[5] = "corpactions" /\ STAGES[8] = "macro"
      /\ STAGES[12] = "indicators" /\ STAGES[13] = "factors_scores"
      /\ STAGES[i] = "prices" => i = 3
      /\ STAGES[i] = "corpactions" => i = 5
      /\ STAGES[i] = "macro" => i = 8
      /\ STAGES[i] = "indicators" => i = 12
      /\ STAGES[i] = "factors_scores" => i = 13
  BY StagePositions
<1>2. QED
  BY <1>1 DEF UnitsAt, UnitsOf, PricesUnits, CorpactUnits, IndicatorUnits

LEMMA ScoreUnitsAre ==
    ASSUME NEW o
    PROVE  /\ o.lastDay => ScoreUnits(o.lastDay) = << <<"fac", N>>, <<"score", N>> >>
           /\ ~o.lastDay => /\ DOMAIN ScoreUnits(o.lastDay) = 1..2*N
                            /\ \A j \in 1..2*N :
                                  ScoreUnits(o.lastDay)[j] = IF j % 2 = 1 THEN <<"fac", (j + 1) \div 2>>
                                                             ELSE <<"score", j \div 2>>
BY DEF ScoreUnits

(* A session's factors come before its scores, and no unit comes twice. *)
LEMMA ScoreOrder ==
    ASSUME NEW o, NEW j \in DOMAIN ScoreUnits(o.lastDay), NEW m \in DOMAIN ScoreUnits(o.lastDay)
    PROVE  /\ j \in Int /\ ScoreUnits(o.lastDay)[j][1] \in {"fac", "score"}
           /\ ScoreUnits(o.lastDay)[j] = ScoreUnits(o.lastDay)[m] => j = m
           /\ (/\ ScoreUnits(o.lastDay)[j][1] = "score"
               /\ ScoreUnits(o.lastDay)[m] = <<"fac", ScoreUnits(o.lastDay)[j][2]>>) => m < j
<1>1. CASE o.lastDay
  <2> DEFINE S == ScoreUnits(o.lastDay)
  <2>1. S = << <<"fac", N>>, <<"score", N>> >>
    BY <1>1, ScoreUnitsAre
  <2>2. DOMAIN S = {1, 2} /\ S[1] = <<"fac", N>> /\ S[2] = <<"score", N>>
    BY <2>1
  <2> HIDE DEF S
  <2>3. j \in {1, 2} /\ m \in {1, 2}
    BY <2>2 DEF S
  <2>4. \A a, b \in {1, 2} :
            /\ a \in Int /\ S[a][1] \in {"fac", "score"}
            /\ S[a] = S[b] => a = b
            /\ (S[a][1] = "score" /\ S[b] = <<"fac", S[a][2]>>) => b < a
    BY <2>2
  <2>5. /\ j \in Int /\ S[j][1] \in {"fac", "score"}
        /\ S[j] = S[m] => j = m
        /\ (S[j][1] = "score" /\ S[m] = <<"fac", S[j][2]>>) => m < j
    BY <2>3, <2>4
  <2>6. QED
    BY <2>5 DEF S
<1>2. CASE ~o.lastDay
  <2> DEFINE S == ScoreUnits(o.lastDay)
  <2>1. /\ j \in 1..2*N /\ m \in 1..2*N /\ N \in Nat
        /\ S[j] = IF j % 2 = 1 THEN <<"fac", (j + 1) \div 2>> ELSE <<"score", j \div 2>>
        /\ S[m] = IF m % 2 = 1 THEN <<"fac", (m + 1) \div 2>> ELSE <<"score", m \div 2>>
    BY <1>2, ScoreUnitsAre, ResyncAssumption
  <2> HIDE DEF S
  <2>2. j \in Int /\ m \in Int
    BY <2>1
  <2>3. \A a, b \in Int : /\ a % 2 = 1 /\ b % 2 = 1 /\ (a + 1) \div 2 = (b + 1) \div 2 => a = b
                          /\ a % 2 # 1 /\ b % 2 # 1 /\ a \div 2 = b \div 2 => a = b
                          /\ a % 2 # 1 /\ b % 2 = 1 /\ (b + 1) \div 2 = a \div 2 => b < a
    OBVIOUS
  <2>4. S[j][1] \in {"fac", "score"} /\ (S[j] = S[m] => j = m)
    BY <2>1, <2>2, <2>3
  <2>5. S[j][1] = "score" /\ S[m] = <<"fac", S[j][2]>> => m < j
    BY <2>1, <2>2, <2>3
  <2>6. QED
    BY <2>2, <2>4, <2>5 DEF S
<1>3. QED
  BY <1>1, <1>2

LEMMA ScoreUnitsOrder ==
    ASSUME NEW o, NEW j \in DOMAIN UnitsAt(13, o), NEW m \in DOMAIN UnitsAt(13, o)
    PROVE  /\ j \in Int /\ UnitsAt(13, o)[j][1] \in {"fac", "score"}
           /\ UnitsAt(13, o)[j] = UnitsAt(13, o)[m] => j = m
           /\ (/\ UnitsAt(13, o)[j][1] = "score"
               /\ UnitsAt(13, o)[m] = <<"fac", UnitsAt(13, o)[j][2]>>) => m < j
<1>1. UnitsAt(13, o) = ScoreUnits(o.lastDay)
  BY UnitsAre
<1>2. j \in DOMAIN ScoreUnits(o.lastDay) /\ m \in DOMAIN ScoreUnits(o.lastDay)
  BY <1>1
<1> DEFINE S == ScoreUnits(o.lastDay)
<1>3. /\ j \in Int /\ S[j][1] \in {"fac", "score"}
      /\ S[j] = S[m] => j = m
      /\ (S[j][1] = "score" /\ S[m] = <<"fac", S[j][2]>>) => m < j
  BY <1>2, ScoreOrder
<1>4. UnitsAt(13, o) = S
  BY <1>1
<1> HIDE DEF S
<1>5. QED
  BY <1>3, <1>4, Zenon

LEMMA UnitKinds ==
    ASSUME NEW i \in 1..16, NEW o, NEW j \in DOMAIN UnitsAt(i, o)
    PROVE  /\ j \in Int
           /\ i \notin {5, 8, 12, 13} => UnitsAt(i, o)[j][1] = STAGES[i]
           /\ i = 5 => UnitsAt(i, o)[j] = <<"corpact", 0>> /\ j = 1
           /\ i = 8 => UnitsAt(i, o)[j][1] = "macro"
           /\ i = 12 => UnitsAt(i, o)[j] = <<"ind", j>>
           /\ i = 13 => UnitsAt(i, o)[j][1] \in {"fac", "score"}
<1> DEFINE U == UnitsAt(i, o)
<1>1. CASE i = 12
  <2>1. U = [d \in Window |-> <<"ind", d>>] /\ j \in Window /\ Window \subseteq Int
    BY <1>1, UnitsAre, ResyncAssumption DEF Window
  <2>2. U[j] = <<"ind", j>> /\ j \in Int
    BY <2>1
  <2>3. QED
    BY <1>1, <2>2
<1>2. CASE i = 13
  BY <1>2, ScoreUnitsOrder
<1>3. CASE i = 8
  <2>1. U = MacroUnits
    BY <1>3, UnitsAre
  <2>2. QED
    BY <1>3, <2>1, MacroUnitsAre
<1>4. CASE i \notin {8, 12, 13}
  <2> DEFINE x == IF i = 3 THEN <<"prices", 0>> ELSE IF i = 5 THEN <<"corpact", 0>> ELSE <<STAGES[i], 0>>
  <2>1. U = <<x>>
    BY <1>4, UnitsAre
  <2> HIDE DEF x
  <2>2. j = 1 /\ U[j] = x
    BY <2>1
  <2>3. QED
    BY <1>4, <2>2, StagePositions DEF x
<1>5. QED
  BY <1>1, <1>2, <1>3, <1>4

(* The stage a unit belongs to. *)
LEMMA StageOfUnit ==
    ASSUME NEW i \in 1..16, NEW o, NEW j \in DOMAIN UnitsAt(i, o), NEW k, k = UnitsAt(i, o)[j][1]
    PROVE  /\ k = "prices" => i = 3
           /\ k = "corpact" => i = 5
           /\ k = "fundamentals" => i = 6
           /\ k = "sentiment" => i = 11
           /\ k = "ind" => i = 12
           /\ k \in {"fac", "score"} => i = 13
BY UnitKinds, StagePositions

(* Nothing a unit was computed from is done after it: the stages are in the  *)
(* order of their dependencies.                                              *)
LEMMA InputsComeFirst ==
    ASSUME NEW o, NEW i \in 1..16, NEW j \in DOMAIN UnitsAt(i, o),
           NEW k \in 1..16, NEW m \in DOMAIN UnitsAt(k, o),
           UnitsAt(k, o)[m] \in InputsOf(UnitsAt(i, o)[j])
    PROVE  k < i \/ (k = i /\ m < j)
<1> DEFINE x == UnitsAt(i, o)[j]
           u == UnitsAt(k, o)[m]
           a == x[1]
           b == u[1]
<1>1. /\ a = "corpact" => i = 5
      /\ a = "ind" => i = 12
      /\ a \in {"fac", "score"} => i = 13
  BY StageOfUnit
<1>2. /\ b = "prices" => k = 3
      /\ b = "corpact" => k = 5
      /\ b = "fundamentals" => k = 6
      /\ b = "sentiment" => k = 11
      /\ b = "ind" => k = 12
      /\ b \in {"fac", "score"} => k = 13
  BY StageOfUnit
<1>3. /\ a \in {"corpact", "ind", "fac", "score"}
      /\ a = "corpact" => b = "prices"
      /\ a = "ind" => b \in {"prices", "corpact"}
      /\ a = "fac" => b \in {"ind", "sentiment", "fundamentals"}
      /\ a = "score" => u = <<"fac", x[2]>>
  BY DEF InputsOf, IndicatorInputs, FactorInputs, ScoreInputs
<1>4. CASE a = "score"
  <2>1. i = 13 /\ k = 13
    BY <1>1, <1>2, <1>3, <1>4
  <2>2. m < j
    BY <1>3, <1>4, <2>1, ScoreUnitsOrder
  <2>3. QED
    BY <2>1, <2>2
<1> HIDE DEF a, b
<1>5. QED
  BY <1>1, <1>2, <1>3, <1>4

LEMMA NotItsOwnInput ==
    ASSUME NEW x PROVE x \notin InputsOf(x)
BY DEF InputsOf, IndicatorInputs, FactorInputs, ScoreInputs

(* The stages whose units are derived data. *)
Deriving == {5, 12, 13}

LEMMA UnitsDiffer ==
    ASSUME NEW o, NEW i \in Deriving, NEW j \in DOMAIN UnitsAt(i, o),
           NEW k \in 1..16, NEW m \in DOMAIN UnitsAt(k, o), UnitsAt(i, o)[j] = UnitsAt(k, o)[m]
    PROVE  i = k /\ j = m
<1>1. i \in 1..16
  BY DEF Deriving
<1>2. UnitsAt(i, o)[j][1] \in {"corpact", "ind", "fac", "score"}
  BY <1>1, UnitKinds DEF Deriving
<1>3. i = k
  BY <1>1, <1>2, StageOfUnit
<1>4. CASE i = 5
  BY <1>3, <1>4, UnitKinds
<1>5. CASE i = 12
  BY <1>3, <1>5, UnitKinds
<1>6. CASE i = 13
  BY <1>3, <1>6, ScoreUnitsOrder
<1>7. QED
  BY <1>3, <1>4, <1>5, <1>6 DEF Deriving

(* The units of the derived data are all of it, or all of the last session.  *)
LEMMA DerivedAreUnits ==
    ASSUME NEW o, NEW x \in Derived
    PROVE  \/ \E i \in Deriving : \E j \in DOMAIN UnitsAt(i, o) : x = UnitsAt(i, o)[j]
           \/ o.lastDay /\ x[1] \in {"fac", "score"} /\ x[2] # N
<1>1. UnitsAt(5, o) = << <<"corpact", 0>> >> /\ UnitsAt(12, o) = [d \in Window |-> <<"ind", d>>]
      /\ UnitsAt(13, o) = ScoreUnits(o.lastDay)
  BY UnitsAre
<1>2. \/ x = <<"corpact", 0>>
      \/ \E d \in Window : x \in {<<"ind", d>>, <<"fac", d>>, <<"score", d>>}
  BY DEF Derived
<1>3. CASE x = <<"corpact", 0>>
  <2>1. 1 \in DOMAIN UnitsAt(5, o) /\ UnitsAt(5, o)[1] = x
    BY <1>1, <1>3
  <2>2. QED
    BY <2>1 DEF Deriving
<1>4. ASSUME NEW d \in Window, x = <<"ind", d>>
      PROVE  \E j \in DOMAIN UnitsAt(12, o) : x = UnitsAt(12, o)[j]
  BY <1>1, <1>4
<1>5. ASSUME NEW d \in Window, x \in {<<"fac", d>>, <<"score", d>>}
      PROVE  \/ \E j \in DOMAIN UnitsAt(13, o) : x = UnitsAt(13, o)[j]
             \/ o.lastDay /\ x[1] \in {"fac", "score"} /\ x[2] # N
  <2> DEFINE S == ScoreUnits(o.lastDay)
  <2>1. CASE o.lastDay
    <3>1. S = << <<"fac", N>>, <<"score", N>> >>
      BY <2>1, ScoreUnitsAre
    <3>2. 1 \in DOMAIN S /\ 2 \in DOMAIN S /\ S[1] = <<"fac", N>> /\ S[2] = <<"score", N>>
      BY <3>1
    <3>3. x[2] = d /\ x[1] \in {"fac", "score"}
      BY <1>5
    <3> HIDE DEF S
    <3>4. x[2] = N => \E j \in DOMAIN S : x = S[j]
      BY <1>5, <3>2, <3>3
    <3>5. QED
      BY <1>1, <2>1, <3>3, <3>4 DEF S
  <2>2. CASE ~o.lastDay
    <3>1. d \in Int /\ 1 <= d /\ d <= N /\ N \in Int
      BY ResyncAssumption DEF Window
    <3>2. /\ 2 * d - 1 \in 1..2*N /\ (2 * d - 1) % 2 = 1 /\ (2 * d - 1 + 1) \div 2 = d
          /\ 2 * d \in 1..2*N /\ (2 * d) % 2 # 1 /\ (2 * d) \div 2 = d
      BY <3>1
    <3>3. /\ DOMAIN S = 1..2*N
          /\ \A j \in 1..2*N :
                S[j] = IF j % 2 = 1 THEN <<"fac", (j + 1) \div 2>> ELSE <<"score", j \div 2>>
      BY <2>2, ScoreUnitsAre
    <3> HIDE DEF S
    <3>4. S[2 * d - 1] = <<"fac", d>> /\ S[2 * d] = <<"score", d>>
      BY <3>2, <3>3
    <3>5. QED
      BY <1>1, <1>5, <3>2, <3>3, <3>4 DEF S
  <2>3. QED
    BY <2>1, <2>2
<1>6. QED
  BY <1>2, <1>3, <1>4, <1>5 DEF Deriving

-----------------------------------------------------------------------------
(* Resync: the runner *)

(* A unit the runner still has before it, and one it is past. *)
Left(i, j) == Running /\ (i > rs.at \/ (i = rs.at /\ j >= rs.unit))
Over(i, j) == i < rs.at \/ (i = rs.at /\ (~Running \/ j < rs.unit))

RunnerFields == {"pc", "plan", "opt", "at", "unit", "touched", "results"}

RunnerIsTyped ==
    /\ rs.pc \in {"idle", "running", "finished"}
    /\ rs.pc # "idle" =>
          /\ DOMAIN rs = RunnerFields
          /\ rs.plan \subseteq 1..16 /\ rs.at \in rs.plan /\ rs.unit \in Nat \ {0}
          /\ DOMAIN rs.results = {i \in rs.plan : i < rs.at \/ (~Running /\ i = rs.at)}

(* What a run computed is current: nothing it was made from comes later.     *)
TouchedIsFresh ==
    rs.pc # "idle" =>
        \A x \in rs.touched :
            /\ x \notin stale
            /\ \E i \in rs.plan : \E j \in DOMAIN UnitsAt(i, rs.opt) :
                  x = UnitsAt(i, rs.opt)[j] /\ Over(i, j)

OkIsTouched ==
    rs.pc # "idle" =>
        \A i \in DOMAIN rs.results :
            i # 13 /\ rs.results[i] = "ok" => Range(UnitsAt(i, rs.opt)) \subseteq rs.touched

(* A forced run finds none of the keys ahead of it taken, and so does every  *)
(* unit of the stages that do not fail.                                      *)
ForcedIsDone ==
    rs.pc # "idle" /\ rs.opt.force =>
        \A i \in rs.plan \cap Deriving : \A j \in DOMAIN UnitsAt(i, rs.opt) :
            /\ Left(i, j) => UnitsAt(i, rs.opt)[j] \notin done
            /\ (/\ i <= rs.at /\ ~Left(i, j)
                /\ i \in DOMAIN rs.results => rs.results[i] # "failed")
               => UnitsAt(i, rs.opt)[j] \in rs.touched

ResyncInv ==
    /\ stale \subseteq Derived
    /\ RunnerIsTyped /\ TouchedIsFresh /\ OkIsTouched /\ ForcedIsDone

LEMMA RangeIs ==
    ASSUME NEW f
    PROVE  Range(f) = {f[x] : x \in DOMAIN f}
BY DEF Range

LEMMA NotAfter == \A a, b \in 1..16 : a < b \/ a = b => a <= b
OBVIOUS

LEMMA ResyncInvGives == ResyncInv => ReportsAreTrue
<1> SUFFICES ASSUME ResyncInv PROVE ReportsAreTrue
  OBVIOUS
<1>1. ASSUME Finished PROVE OkLeavesNothingStale
  <2>1. /\ rs.pc # "idle" /\ rs.plan \subseteq 1..16 /\ DOMAIN rs.results \subseteq rs.plan
    BY <1>1 DEF Finished, ResyncInv, RunnerIsTyped
  <2>2. SUFFICES ASSUME NEW i \in DOMAIN rs.results, STAGES[i] # "factors_scores", rs.results[i] = "ok"
                 PROVE  Range(UnitsOf(STAGES[i], rs.opt)) \cap stale = {}
    BY DEF OkLeavesNothingStale
  <2>3. i # 13
    BY <2>2, StagePositions
  <2>4. Range(UnitsAt(i, rs.opt)) \subseteq rs.touched
    BY <2>1, <2>2, <2>3 DEF ResyncInv, OkIsTouched
  <2>5. \A x \in rs.touched : x \notin stale
    BY <2>1 DEF ResyncInv, TouchedIsFresh
  <2>6. QED
    BY <2>4, <2>5 DEF UnitsAt
<1>2. ForcedRunRefreshes
  <2> SUFFICES ASSUME Exit0, rs.opt.force, rs.plan = SelectStages({}, {}, ""), NEW x \in stale
               PROVE  rs.opt.lastDay /\ x[1] \in {"fac", "score"} /\ x[2] # N
    BY DEF ForcedRunRefreshes
  <2>1. /\ rs.pc # "idle" /\ ~Running /\ DOMAIN rs.results = rs.plan
        /\ \A i \in rs.plan : rs.results[i] # "failed"
        /\ DOMAIN rs.results = {i \in rs.plan : i < rs.at \/ (~Running /\ i = rs.at)}
    BY RangeIs DEF Exit0, Finished, Running, ResyncInv, RunnerIsTyped
  <2>2. Deriving \subseteq rs.plan
    BY StagePositions DEF SelectStages, Deriving, Optional
  <2>3. SUFFICES ASSUME NEW i \in Deriving, NEW j \in DOMAIN UnitsAt(i, rs.opt), x = UnitsAt(i, rs.opt)[j]
                 PROVE  FALSE
    BY DerivedAreUnits DEF ResyncInv
  <2>4. i \in rs.plan \cap Deriving /\ i <= rs.at /\ ~Left(i, j) /\ rs.results[i] # "failed"
    <3>1. i \in rs.plan /\ i \in Deriving
      BY <2>2, <2>3
    <3>2. rs.at \in 1..16 /\ i \in 1..16
      BY <2>1, <3>1 DEF ResyncInv, RunnerIsTyped
    <3>3. i < rs.at \/ i = rs.at
      BY <2>1, <3>1
    <3>4. i <= rs.at
      BY <3>2, <3>3, NotAfter
    <3>5. ~Left(i, j) /\ rs.results[i] # "failed"
      BY <2>1, <3>1 DEF Left
    <3>6. QED
      BY <3>1, <3>4, <3>5
  <2>5. x \in rs.touched
    BY <2>1, <2>3, <2>4 DEF ResyncInv, ForcedIsDone
  <2>6. QED
    BY <2>1, <2>5 DEF ResyncInv, TouchedIsFresh
<1>3. ~Finished => OkLeavesNothingStale
  BY DEF OkLeavesNothingStale
<1>4. QED
  BY <1>1, <1>2, <1>3 DEF ReportsAreTrue

(* The runner passes a unit without doing it: a skip, or a macro series.     *)
LEMMA PassKeeps ==
    ASSUME ResyncInv, UnitLeft, rs' = [rs EXCEPT !.unit = @ + 1], UNCHANGED <<done, stale>>,
           rs.opt.force => rs.at \notin Deriving
    PROVE  ResyncInv'
<1>1. /\ rs.pc = "running" /\ Running /\ DOMAIN rs = RunnerFields
      /\ rs.plan \subseteq 1..16 /\ rs.at \in rs.plan /\ rs.at \in Int /\ rs.unit \in Nat
      /\ DOMAIN rs.results = {i \in rs.plan : i < rs.at}
  BY DEF UnitLeft, Running, ResyncInv, RunnerIsTyped
<1>2. /\ rs'.pc = rs.pc /\ rs'.plan = rs.plan /\ rs'.opt = rs.opt /\ rs'.at = rs.at
      /\ rs'.touched = rs.touched /\ rs'.results = rs.results /\ rs'.unit = rs.unit + 1
      /\ DOMAIN rs' = RunnerFields /\ Running'
  BY <1>1 DEF RunnerFields, Running
<1>3. RunnerIsTyped'
  BY <1>1, <1>2 DEF RunnerIsTyped
<1>4. ASSUME NEW i \in rs.plan, NEW j \in DOMAIN UnitsAt(i, rs.opt)
      PROVE  /\ i \in Int /\ j \in Int
             /\ Over(i, j) => Over(i, j)'
             /\ Left(i, j)' => Left(i, j)
             /\ i # rs.at => (Left(i, j)' <=> Left(i, j))
  <2>1. i \in Int /\ j \in Int
    BY <1>1, UnitKinds
  <2>2. QED
    BY <1>1, <1>2, <2>1 DEF Over, Left
<1>5. TouchedIsFresh'
  <2>1. \A x \in rs.touched :
            /\ x \notin stale
            /\ \E i \in rs.plan : \E j \in DOMAIN UnitsAt(i, rs.opt) :
                  x = UnitsAt(i, rs.opt)[j] /\ Over(i, j)'
    BY <1>1, <1>4 DEF ResyncInv, TouchedIsFresh
  <2>2. QED
    BY <1>2, <2>1 DEF TouchedIsFresh, UnitsAt
<1>6. OkIsTouched'
  BY <1>1, <1>2 DEF ResyncInv, OkIsTouched, UnitsAt
<1>7. ForcedIsDone'
  <2> SUFFICES ASSUME rs.opt.force, NEW i \in rs.plan \cap Deriving, NEW j \in DOMAIN UnitsAt(i, rs.opt)
               PROVE  /\ Left(i, j)' => UnitsAt(i, rs.opt)[j] \notin done
                      /\ (/\ i <= rs.at /\ ~Left(i, j)'
                          /\ i \in DOMAIN rs.results => rs.results[i] # "failed")
                         => UnitsAt(i, rs.opt)[j] \in rs.touched
    BY <1>2 DEF ForcedIsDone, UnitsAt
  <2>1. i # rs.at
    OBVIOUS
  <2>2. QED
    BY <1>1, <1>4, <2>1 DEF ResyncInv, ForcedIsDone
<1>8. QED
  BY <1>3, <1>5, <1>6, <1>7 DEF ResyncInv

LEMMA DoUnitKeeps ==
    ASSUME ResyncInv, DoUnit
    PROVE  ResyncInv'
<1> DEFINE u == UnitsAt(rs.at, rs.opt)[rs.unit]
<1>1. /\ rs.pc = "running" /\ Running /\ DOMAIN rs = RunnerFields
      /\ rs.plan \subseteq 1..16 /\ rs.at \in rs.plan /\ rs.at \in 1..16 /\ rs.unit \in Nat
      /\ DOMAIN rs.results = {i \in rs.plan : i < rs.at}
      /\ rs.unit \in DOMAIN UnitsAt(rs.at, rs.opt)
  BY DEF DoUnit, UnitLeft, Running, ResyncInv, RunnerIsTyped, Units, Stage, UnitsAt
<1>2. /\ rs' = [rs EXCEPT !.unit = @ + 1, !.touched = @ \cup {u}]
      /\ stale' = Recompute(u) /\ done' \subseteq done \cup {u}
  BY DEF DoUnit, Unit, Units, Stage, UnitsAt
<1> HIDE DEF u
<1>3. /\ rs'.pc = rs.pc /\ rs'.plan = rs.plan /\ rs'.opt = rs.opt /\ rs'.at = rs.at
      /\ rs'.touched = rs.touched \cup {u} /\ rs'.results = rs.results /\ rs'.unit = rs.unit + 1
      /\ DOMAIN rs' = RunnerFields /\ Running'
  BY <1>1, <1>2 DEF RunnerFields, Running
<1>4. RunnerIsTyped'
  BY <1>1, <1>3 DEF RunnerIsTyped
<1>5. ASSUME NEW i \in rs.plan, NEW j \in DOMAIN UnitsAt(i, rs.opt)
      PROVE  /\ i \in 1..16 /\ i \in Int /\ j \in Int
             /\ Over(i, j) => Over(i, j)'
             /\ Left(i, j)' => Left(i, j) /\ ~(i = rs.at /\ j = rs.unit)
             /\ Left(i, j) => Left(i, j)' \/ (i = rs.at /\ j = rs.unit)
             /\ Over(i, j) => i < rs.at \/ (i = rs.at /\ j < rs.unit)
             /\ i = rs.at /\ j = rs.unit => Over(i, j)'
  <2>1. i \in 1..16 /\ i \in Int /\ j \in Int /\ rs.at \in Int
    BY <1>1, UnitKinds
  <2>2. QED
    BY <1>1, <1>3, <2>1 DEF Over, Left
<1>6. TouchedIsFresh'
  <2>1. ASSUME NEW x \in rs.touched
        PROVE  /\ x \notin Recompute(u)
               /\ \E i \in rs.plan : \E j \in DOMAIN UnitsAt(i, rs.opt) :
                     x = UnitsAt(i, rs.opt)[j] /\ Over(i, j)'
    <3>1. PICK i \in rs.plan : \E j \in DOMAIN UnitsAt(i, rs.opt) :
                                  x = UnitsAt(i, rs.opt)[j] /\ Over(i, j)
      BY <1>1 DEF ResyncInv, TouchedIsFresh
    <3> PICK j \in DOMAIN UnitsAt(i, rs.opt) : x = UnitsAt(i, rs.opt)[j] /\ Over(i, j)
      BY <3>1
    <3>2. u \in InputsOf(x) => rs.at < i \/ (rs.at = i /\ rs.unit < j)
      BY <1>1, <1>5, InputsComeFirst DEF u
    <3>3. u \notin InputsOf(x)
      BY <1>1, <1>5, <3>2
    <3>4. x \notin stale
      BY <1>1 DEF ResyncInv, TouchedIsFresh
    <3>5. QED
      BY <1>5, <3>3, <3>4 DEF Recompute
  <2>2. /\ u \notin Recompute(u)
        /\ \E i \in rs.plan : \E j \in DOMAIN UnitsAt(i, rs.opt) :
              u = UnitsAt(i, rs.opt)[j] /\ Over(i, j)'
    BY <1>1, <1>5, NotItsOwnInput DEF Recompute, u
  <2>3. \A x \in rs.touched \cup {u} :
            /\ x \notin stale'
            /\ \E i \in rs.plan : \E j \in DOMAIN UnitsAt(i, rs.opt) :
                  x = UnitsAt(i, rs.opt)[j] /\ Over(i, j)'
    BY <1>2, <2>1, <2>2
  <2>4. QED
    BY <1>3, <2>3 DEF TouchedIsFresh, UnitsAt
<1>7. OkIsTouched'
  BY <1>1, <1>3 DEF ResyncInv, OkIsTouched, UnitsAt
<1>8. ForcedIsDone'
  <2> SUFFICES ASSUME rs.opt.force, NEW i \in rs.plan \cap Deriving, NEW j \in DOMAIN UnitsAt(i, rs.opt)
               PROVE  /\ Left(i, j)' => UnitsAt(i, rs.opt)[j] \notin done'
                      /\ (/\ i <= rs.at /\ ~Left(i, j)'
                          /\ i \in DOMAIN rs.results => rs.results[i] # "failed")
                         => UnitsAt(i, rs.opt)[j] \in rs.touched \cup {u}
    BY <1>3 DEF ForcedIsDone, UnitsAt
  <2>1. UnitsAt(i, rs.opt)[j] = u => i = rs.at /\ j = rs.unit
    BY <1>1, UnitsDiffer DEF u
  <2>2. i = rs.at /\ j = rs.unit => UnitsAt(i, rs.opt)[j] = u
    BY DEF u
  <2>3. /\ Left(i, j) => UnitsAt(i, rs.opt)[j] \notin done
        /\ (/\ i <= rs.at /\ ~Left(i, j)
            /\ i \in DOMAIN rs.results => rs.results[i] # "failed")
           => UnitsAt(i, rs.opt)[j] \in rs.touched
    BY <1>1 DEF ResyncInv, ForcedIsDone
  <2>4. Left(i, j)' => UnitsAt(i, rs.opt)[j] \notin done'
    BY <1>2, <1>5, <2>1, <2>3
  <2>5. QED
    BY <1>5, <2>2, <2>3, <2>4
<1>9. stale' \subseteq Derived
  BY <1>2 DEF ResyncInv, Recompute
<1>10. QED
  BY <1>4, <1>6, <1>7, <1>8, <1>9 DEF ResyncInv

LEMMA UnitsAreListed ==
    ASSUME NEW i \in Deriving, NEW o
    PROVE  \E n \in Nat : DOMAIN UnitsAt(i, o) = 1..n
<1>1. i \in 1..16
  BY DEF Deriving
<1>2. CASE i = 5
  <2>1. UnitsAt(5, o) = << <<"corpact", 0>> >>
    BY UnitsAre
  <2>2. DOMAIN << <<"corpact", 0>> >> = 1..1
    OBVIOUS
  <2>3. QED
    BY <1>2, <2>1, <2>2
<1>3. CASE i = 12
  BY <1>1, <1>3, UnitsAre, ResyncAssumption DEF Window
<1>4. CASE i = 13
  <2>1. DOMAIN ScoreUnits(o.lastDay) = 1..2 \/ DOMAIN ScoreUnits(o.lastDay) = 1..2*N
    BY ScoreUnitsAre
  <2>2. UnitsAt(13, o) = ScoreUnits(o.lastDay)
    BY UnitsAre
  <2>3. 2 \in Nat /\ 2*N \in Nat
    BY ResyncAssumption
  <2>4. QED
    BY <1>4, <2>1, <2>2, <2>3
<1>5. QED
  BY <1>2, <1>3, <1>4 DEF Deriving

LEMMA FirstOfPlan ==
    ASSUME NEW p, p \subseteq 1..16, p # {}
    PROVE  Min(p) \in p /\ \A i \in p : Min(p) <= i
<1>1. \A n \in Nat : IsFiniteSet(1..n)
  BY FS_Interval
<1>2. IsFiniteSet(1..16)
  BY <1>1
<1>3. IsFiniteSet(p)
  BY <1>2, FS_Subset
<1>4. p \subseteq Nat
  OBVIOUS
<1>5. QED
  BY <1>3, <1>4, LeastElement

(* The runner leaves a stage with a verdict. *)
LEMMA ReportKeeps ==
    ASSUME ResyncInv, Running, NEW status, NEW abort \in BOOLEAN,
           rs' = Report(status, abort), UNCHANGED <<done, stale>>,
           rs.at # 13 /\ status = "ok" => Range(UnitsAt(rs.at, rs.opt)) \subseteq rs.touched,
           rs.opt.force /\ rs.at \in Deriving /\ status # "failed" =>
               \A j \in DOMAIN UnitsAt(rs.at, rs.opt) : UnitsAt(rs.at, rs.opt)[j] \in rs.touched
    PROVE  ResyncInv'
<1> DEFINE rest == {i \in rs.plan : i > rs.at}
           results == [i \in DOMAIN rs.results \cup {rs.at} |->
                          IF i = rs.at THEN status ELSE rs.results[i]]
           ends == abort \/ rest = {}
<1>1. /\ rs.pc = "running" /\ DOMAIN rs = RunnerFields
      /\ rs.plan \subseteq 1..16 /\ rs.plan \subseteq Int /\ rs.at \in rs.plan /\ rs.at \in Int
      /\ rs.unit \in Nat \ {0}
      /\ DOMAIN rs.results = {i \in rs.plan : i < rs.at}
  BY DEF Running, ResyncInv, RunnerIsTyped
<1>2. /\ DOMAIN results = {i \in rs.plan : i <= rs.at} /\ results[rs.at] = status
      /\ \A i \in DOMAIN rs.results : results[i] = rs.results[i]
  BY <1>1
<1>3. rs' = IF ends THEN [rs EXCEPT !.pc = "finished", !.results = results, !.unit = 1]
            ELSE [rs EXCEPT !.results = results, !.at = Min(rest), !.unit = 1]
  BY DEF Report
<1>4. ~ends => Min(rest) \in rest /\ \A i \in rest : Min(rest) <= i
  <2>1. rest \subseteq 1..16
    BY <1>1
  <2> HIDE DEF rest
  <2>2. QED
    BY <2>1, FirstOfPlan DEF ends
<1> DEFINE at == IF ends THEN rs.at ELSE Min(rest)
<1>5. /\ at \in rs.plan /\ at >= rs.at /\ at \in Int
      /\ ends => at = rs.at
      /\ ~ends => at > rs.at /\ \A i \in rs.plan : i > rs.at => i >= at
  <2>1. \A i \in rest : i \in rs.plan /\ i \in Int /\ i > rs.at
    BY <1>1
  <2>2. \A i \in rs.plan : i > rs.at => i \in rest
    OBVIOUS
  <2>3. CASE ends
    <3> HIDE DEF rest, ends, results
    <3>1. QED
      BY <1>1, <2>3
  <2>4. CASE ~ends
    <3> HIDE DEF rest, ends, results
    <3>1. at \in rest /\ \A i \in rest : at <= i
      BY <1>4, <2>4
    <3> HIDE DEF at
    <3>2. QED
      BY <1>1, <2>1, <2>2, <2>4, <3>1
  <2>5. QED
    BY <2>3, <2>4
<1> HIDE DEF results
<1>6. /\ rs'.pc = (IF ends THEN "finished" ELSE "running") /\ rs'.plan = rs.plan
      /\ rs'.opt = rs.opt /\ rs'.at = at
      /\ rs'.touched = rs.touched /\ rs'.results = results /\ rs'.unit = 1
      /\ DOMAIN rs' = RunnerFields /\ (Running' <=> ~ends)
  <2> HIDE DEF ends
  <2>1. CASE ends
    BY <1>1, <1>3, <2>1 DEF RunnerFields, Running
  <2>2. CASE ~ends
    BY <1>1, <1>3, <2>2 DEF RunnerFields, Running
  <2>3. QED
    BY <2>1, <2>2
<1> HIDE DEF ends, rest, at
<1>7. DOMAIN results = {i \in rs.plan : i < at \/ (ends /\ i = at)}
  BY <1>1, <1>2, <1>5
<1>8. RunnerIsTyped'
  BY <1>1, <1>5, <1>6, <1>7 DEF RunnerIsTyped
<1>9. ASSUME NEW i \in rs.plan, NEW j
      PROVE  Over(i, j) => Over(i, j)'
  BY <1>1, <1>5, <1>6 DEF Over
<1>10. TouchedIsFresh'
  <2>1. \A x \in rs.touched :
            /\ x \notin stale
            /\ \E i \in rs.plan : \E j \in DOMAIN UnitsAt(i, rs.opt) :
                  x = UnitsAt(i, rs.opt)[j] /\ Over(i, j)'
    BY <1>1, <1>9 DEF ResyncInv, TouchedIsFresh
  <2>2. QED
    BY <1>6, <2>1 DEF TouchedIsFresh, UnitsAt
<1>11. OkIsTouched'
  <2>1. ASSUME NEW i \in DOMAIN results, i # 13, results[i] = "ok"
        PROVE  Range(UnitsAt(i, rs.opt)) \subseteq rs.touched
    <3>1. CASE i = rs.at
      BY <1>2, <2>1, <3>1
    <3>2. CASE i # rs.at
      <4>1. i \in DOMAIN rs.results /\ results[i] = rs.results[i]
        BY <1>1, <1>2, <2>1, <3>2
      <4>2. QED
        BY <1>1, <2>1, <4>1 DEF ResyncInv, OkIsTouched
    <3>3. QED
      BY <3>1, <3>2
  <2>2. QED
    BY <1>6, <2>1 DEF OkIsTouched, UnitsAt
<1>12. ForcedIsDone'
  <2> SUFFICES ASSUME rs.opt.force, NEW i \in rs.plan \cap Deriving, NEW j \in DOMAIN UnitsAt(i, rs.opt)
               PROVE  /\ Left(i, j)' => UnitsAt(i, rs.opt)[j] \notin done
                      /\ (/\ i <= at /\ ~Left(i, j)'
                          /\ i \in DOMAIN results => results[i] # "failed")
                         => UnitsAt(i, rs.opt)[j] \in rs.touched
    BY <1>6 DEF ForcedIsDone, UnitsAt
  <2>1. i \in Int /\ j \in Int /\ j >= 1
    BY <1>1, UnitsAreListed
  <2>2. Left(i, j)' => Left(i, j)
    BY <1>1, <1>5, <1>6, <2>1 DEF Left
  <2>3. i <= at /\ ~Left(i, j)' => i <= rs.at
    BY <1>1, <1>5, <1>6, <2>1 DEF Left
  <2>4. i < rs.at => ~Left(i, j) /\ i \in DOMAIN rs.results /\ results[i] = rs.results[i]
    BY <1>1, <1>2, <2>1 DEF Left
  <2>5. i = rs.at => results[i] = status /\ i \in DOMAIN results
    BY <1>1, <1>2
  <2>6. i < rs.at => i \in DOMAIN results
    BY <1>1, <1>2
  <2>7. /\ Left(i, j) => UnitsAt(i, rs.opt)[j] \notin done
        /\ (/\ i <= rs.at /\ ~Left(i, j)
            /\ i \in DOMAIN rs.results => rs.results[i] # "failed")
           => UnitsAt(i, rs.opt)[j] \in rs.touched
    BY <1>1 DEF ResyncInv, ForcedIsDone
  <2>8. i = rs.at /\ status # "failed" => UnitsAt(i, rs.opt)[j] \in rs.touched
    OBVIOUS
  <2>9. QED
    <3>1. ASSUME i <= at, ~Left(i, j)', i \in DOMAIN results => results[i] # "failed"
          PROVE  UnitsAt(i, rs.opt)[j] \in rs.touched
      <4>1. i < rs.at \/ i = rs.at
        BY <1>1, <2>1, <2>3, <3>1
      <4>2. CASE i = rs.at
        BY <2>5, <2>8, <3>1, <4>2
      <4>3. CASE i < rs.at
        BY <1>1, <2>1, <2>4, <2>6, <2>7, <3>1, <4>3
      <4>4. QED
        BY <4>1, <4>2, <4>3
    <3>2. QED
      BY <2>2, <2>7, <3>1
<1>13. QED
  BY <1>8, <1>10, <1>11, <1>12 DEF ResyncInv

LEMMA StartKeeps ==
    ASSUME ResyncInv, NEW o \in Requests, Start(o)
    PROVE  ResyncInv'
<1> DEFINE plan == SelectStages(o.only, o.skip, o.from)
<1>0. plan \subseteq DOMAIN STAGES /\ DOMAIN STAGES = 1..16
  BY StagePositions DEF SelectStages
<1>1. /\ plan \subseteq 1..16 /\ plan \subseteq Int /\ plan # {}
      /\ done' = (IF o.force THEN done \ Released(plan) ELSE done)
      /\ rs' = Begin(plan, o) /\ stale' = stale
  BY <1>0 DEF Start
<1> HIDE DEF plan
<1>2. Min(plan) \in plan
  BY <1>1, FirstOfPlan
<1>3. \A i \in plan : Min(plan) <= i
  BY <1>1, FirstOfPlan
<1>4. /\ rs'.pc = "running" /\ rs'.plan = plan /\ rs'.opt = o /\ rs'.at = Min(plan) /\ rs'.unit = 1
      /\ rs'.touched = {} /\ DOMAIN rs'.results = {} /\ DOMAIN rs' = RunnerFields /\ Running'
  BY <1>1 DEF Begin, RunnerFields, Running
<1>5. RunnerIsTyped'
  <2>1. \A i \in plan : ~(i < Min(plan))
    <3>1. \A a, b \in Int : a <= b => ~(b < a)
      OBVIOUS
    <3>2. plan \subseteq Int /\ Min(plan) \in Int
      BY <1>1, <1>2
    <3>3. QED
      BY <1>3, <3>1, <3>2
  <2>2. {i \in plan : i < Min(plan) \/ (~Running' /\ i = Min(plan))} = {}
    BY <1>4, <2>1
  <2>3. QED
    BY <1>1, <1>2, <1>4, <2>2 DEF RunnerIsTyped
<1>6. TouchedIsFresh' /\ OkIsTouched'
  BY <1>4 DEF TouchedIsFresh, OkIsTouched
<1>7. ForcedIsDone'
  <2> SUFFICES ASSUME o.force, NEW i \in plan \cap Deriving, NEW j \in DOMAIN UnitsAt(i, o)
               PROVE  /\ UnitsAt(i, o)[j] \notin done'
                      /\ i <= Min(plan) => Left(i, j)'
    BY <1>4 DEF ForcedIsDone, UnitsAt
  <2>1. i \in 1..16 /\ i \in Int /\ j \in Int /\ j >= 1
    BY <1>1, UnitsAreListed
  <2>2. i <= Min(plan) => Left(i, j)'
    <3>1. Min(plan) \in Int /\ Min(plan) <= i
      BY <1>1, <1>2, <1>3
    <3>2. i <= Min(plan) => i = Min(plan)
      BY <2>1, <3>1
    <3>3. i = Min(plan) => Left(i, j)'
      BY <1>1, <1>4, <2>1 DEF Left
    <3>4. QED
      BY <3>2, <3>3
  <2>3. UnitsAt(i, o)[j][1] \in LedgerJobs(plan)
    <3> DEFINE plain == [tolerant |-> FALSE, lastDay |-> FALSE]
               k == UnitsAt(i, o)[j][1]
    <3>1. \E m \in DOMAIN UnitsAt(i, plain) : UnitsAt(i, plain)[m][1] = k
      <4>1. CASE i = 5
        <5>1. UnitsAt(5, plain) = << <<"corpact", 0>> >> /\ UnitsAt(5, o) = << <<"corpact", 0>> >>
          BY UnitsAre
        <5>2. QED
          BY <4>1, <5>1
      <4>2. CASE i = 12
        <5>1. /\ UnitsAt(12, plain) = [d \in Window |-> <<"ind", d>>]
              /\ UnitsAt(12, o) = [d \in Window |-> <<"ind", d>>]
          BY UnitsAre
        <5>2. QED
          BY <4>2, <5>1
      <4>3. CASE i = 13
        <5>1. ~plain.lastDay
          OBVIOUS
        <5> HIDE DEF plain
        <5>2. UnitsAt(13, plain) = ScoreUnits(plain.lastDay)
          BY UnitsAre
        <5>3. /\ DOMAIN UnitsAt(13, plain) = 1..2*N
              /\ \A m \in 1..2*N :
                    UnitsAt(13, plain)[m] = IF m % 2 = 1 THEN <<"fac", (m + 1) \div 2>>
                                            ELSE <<"score", m \div 2>>
          BY <5>1, <5>2, ScoreUnitsAre
        <5>4. 1 \in 1..2*N /\ 2 \in 1..2*N /\ 1 % 2 = 1 /\ 2 % 2 # 1
          BY ResyncAssumption
        <5>5. UnitsAt(13, plain)[1][1] = "fac" /\ UnitsAt(13, plain)[2][1] = "score"
          <6>1. /\ UnitsAt(13, plain)[1] = <<"fac", (1 + 1) \div 2>>
                /\ UnitsAt(13, plain)[2] = <<"score", 2 \div 2>>
            BY <5>3, <5>4
          <6>2. QED
            BY <6>1
        <5>6. k \in {"fac", "score"}
          BY <4>3, UnitKinds
        <5>7. QED
          BY <4>3, <5>3, <5>4, <5>5, <5>6
      <4>4. QED
        BY <4>1, <4>2, <4>3 DEF Deriving
    <3> HIDE DEF plain, k
    <3>2. \E m \in DOMAIN UnitsOf(STAGES[i], plain) : UnitsOf(STAGES[i], plain)[m][1] = k
      BY <3>1 DEF UnitsAt
    <3>3. \E x \in Range(UnitsOf(STAGES[i], plain)) : x[1] = k
      BY <3>2, RangeIs
    <3>4. k \in LedgerJobs(plan)
      BY <3>3 DEF LedgerJobs, plain
    <3>5. QED
      BY <3>4 DEF k
  <2>4. QED
    BY <1>1, <2>2, <2>3 DEF Released
<1>8. QED
  BY <1>1, <1>5, <1>6, <1>7 DEF ResyncInv

LEMMA ResyncInvInit == ResyncInit => ResyncInv
BY DEF ResyncInit, Idle, ResyncInv, RunnerIsTyped, TouchedIsFresh, OkIsTouched, ForcedIsDone

LEMMA IdleKeeps ==
    ASSUME rs' = Idle, stale' \subseteq Derived
    PROVE  ResyncInv'
BY DEF Idle, ResyncInv, RunnerIsTyped, TouchedIsFresh, OkIsTouched, ForcedIsDone

LEMMA SkipKeeps ==
    ASSUME ResyncInv, SkipUnit
    PROVE  ResyncInv'
<1>1. UnitLeft /\ rs' = [rs EXCEPT !.unit = @ + 1] /\ UNCHANGED <<done, stale>> /\ Unit \in done
  BY DEF SkipUnit
<1>2. rs.opt.force => rs.at \notin Deriving
  <2> SUFFICES ASSUME rs.opt.force, rs.at \in Deriving PROVE FALSE
    OBVIOUS
  <2>1. /\ rs.pc # "idle" /\ rs.at \in rs.plan /\ rs.unit \in Nat
        /\ rs.unit \in DOMAIN UnitsAt(rs.at, rs.opt) /\ Unit = UnitsAt(rs.at, rs.opt)[rs.unit]
        /\ Running
    BY <1>1 DEF UnitLeft, Running, ResyncInv, RunnerIsTyped, Unit, Units, Stage, UnitsAt
  <2>2. Left(rs.at, rs.unit)
    BY <2>1 DEF Left
  <2>3. QED
    BY <1>1, <2>1, <2>2 DEF ResyncInv, ForcedIsDone
<1>3. QED
  BY <1>1, <1>2, PassKeeps

LEMMA FailKeeps ==
    ASSUME ResyncInv, FailUnit
    PROVE  ResyncInv'
<1>1. UnitLeft /\ UNCHANGED <<done, stale>> /\ Running
  BY DEF FailUnit, UnitLeft
<1>2. rs.at \in 1..16
  BY <1>1 DEF Running, ResyncInv, RunnerIsTyped
<1>3. CASE Stage = "macro"
  <2>1. rs.at \notin Deriving
    BY <1>2, <1>3, StagePositions DEF Stage, Deriving
  <2>2. QED
    BY <1>1, <1>3, <2>1, PassKeeps DEF FailUnit
<1>4. CASE Stage # "macro"
  <2> DEFINE stops == ~rs.opt.carryOn
  <2>1. rs' = Report("failed", stops) /\ stops \in BOOLEAN
    BY <1>4 DEF FailUnit
  <2> HIDE DEF stops
  <2>2. QED
    BY <1>1, <2>1, ReportKeeps
<1>5. QED
  BY <1>3, <1>4

LEMMA NoNewsKeeps ==
    ASSUME ResyncInv, NoNews
    PROVE  ResyncInv'
<1>1. /\ UNCHANGED <<done, stale>> /\ Running /\ rs' = Report("no-op", FALSE) /\ Stage = "news"
  BY DEF NoNews, UnitLeft
<1>2. rs.at \in 1..16
  BY <1>1 DEF Running, ResyncInv, RunnerIsTyped
<1>3. rs.at \notin Deriving
  BY <1>1, <1>2, StagePositions DEF Stage, Deriving
<1>4. QED
  BY <1>1, <1>3, ReportKeeps

(* Past all units of a stage, a forced run did every one that is derived.    *)
LEMMA EndStageKeeps ==
    ASSUME ResyncInv, EndStage
    PROVE  ResyncInv'
<1> DEFINE U == UnitsAt(rs.at, rs.opt)
<1>1. /\ UNCHANGED <<done, stale>> /\ Running /\ rs' = Report(Verdict, FALSE)
      /\ rs.unit \notin DOMAIN U /\ Units = U /\ Stage = STAGES[rs.at]
  BY DEF EndStage, Units, Stage, UnitsAt
<1>2. /\ rs.pc # "idle" /\ rs.at \in rs.plan /\ rs.at \in 1..16 /\ rs.at \in Int
      /\ rs.unit \in Nat \ {0}
      /\ DOMAIN rs.results = {i \in rs.plan : i < rs.at}
  BY <1>1 DEF Running, ResyncInv, RunnerIsTyped
<1>3. ASSUME rs.at # 13, Verdict = "ok" PROVE Range(U) \subseteq rs.touched
  <2>1. Stage # "factors_scores"
    BY <1>1, <1>2, <1>3, StagePositions
  <2>2. Counted = Range(U)
    BY <1>1, <2>1 DEF Counted
  <2>3. QED
    BY <1>3, <2>1, <2>2 DEF Verdict
<1>4. ASSUME rs.opt.force, rs.at \in Deriving, NEW j \in DOMAIN U PROVE U[j] \in rs.touched
  <2>1. PICK n \in Nat : DOMAIN U = 1..n
    BY <1>4, UnitsAreListed
  <2>2. j \in Int /\ j < rs.unit
    BY <1>1, <1>2, <2>1
  <2>3. ~Left(rs.at, j)
    BY <1>2, <2>2 DEF Left
  <2>4. rs.at \notin DOMAIN rs.results /\ rs.at <= rs.at
    BY <1>2
  <2>5. QED
    BY <1>2, <1>4, <2>3, <2>4 DEF ResyncInv, ForcedIsDone
<1> HIDE DEF U
<1>5. QED
  BY <1>1, <1>3, <1>4, ReportKeeps DEF U

LEMMA ResyncInvNext == ResyncInv /\ [ResyncNext]_resyncVars => ResyncInv'
<1> SUFFICES ASSUME ResyncInv, [ResyncNext]_resyncVars PROVE ResyncInv'
  OBVIOUS
<1>1. ASSUME NEW k \in NightlyKeys, NightlyJob(k) PROVE ResyncInv'
  <2>1. rs.pc = "idle" /\ rs' = rs /\ stale' = Recompute(k)
    BY <1>1 DEF NightlyJob
  <2>2. stale' \subseteq Derived
    BY <2>1 DEF Recompute, ResyncInv
  <2>3. QED
    BY <2>1, <2>2 DEF ResyncInv, RunnerIsTyped, TouchedIsFresh, OkIsTouched, ForcedIsDone
<1>2. CASE Kill
  BY <1>2, IdleKeeps DEF Kill, ResyncInv
<1>3. CASE UNCHANGED resyncVars
  BY <1>3 DEF resyncVars, ResyncInv, RunnerIsTyped, TouchedIsFresh, OkIsTouched, ForcedIsDone,
     Over, Left, Running
<1>4. QED
  BY <1>1, <1>2, <1>3, StartKeeps, SkipKeeps, DoUnitKeeps, FailKeeps, EndStageKeeps, NoNewsKeeps
     DEF ResyncNext, RunStage

(* What a resync reports is what it left: a stage that says ok leaves none   *)
(* of its units behind their inputs, and a forced run of the whole plan that *)
(* exits 0 leaves nothing derived behind, whatever the ledger, earlier runs, *)
(* kills and failures were; for any window, series, command lines and number *)
(* of runs (run_stages, release_ledger).                                     *)
THEOREM ReportsAreAlwaysTrue == ResyncSpec => []ReportsAreTrue
<1>1. QED
  BY ResyncInvInit, ResyncInvNext, ResyncInvGives, PTL DEF ResyncSpec

-----------------------------------------------------------------------------
(* The components side by side *)

(* A behaviour of the composition is one of every component: the part it     *)
(* exercises moves as that component does, the others stand still.  So what  *)
(* holds of each component holds in the composition.                         *)
THEOREM PartsKeepTheirWord ==
    MCSpec => PricesSpec /\ ResyncSpec /\ EngineSpec /\ PartitionsSpec
<1>1. MCInit => PricesInit /\ ResyncInit /\ EngineInit /\ PartitionsInit
  BY DEF MCInit
<1>2. [MCNext]_allVars => /\ [PricesNext]_priceVars /\ [ResyncNext]_resyncVars
                          /\ [EngineNext]_engineVars /\ [PartitionsNext]_partitionVars
  BY Zenon DEF MCNext, EnginePart, allVars
<1>3. QED
  BY <1>1, <1>2, PTL DEF MCSpec, PricesSpec, ResyncSpec, EngineSpec, PartitionsSpec

(* The components stay within their types: dates, bars and announced actions *)
(* of a price history and the snapshots of its rebuilds, index rows that     *)
(* close after they open with one open row a stock, and partitions that only *)
(* cover months from their table's birth on.                                 *)
THEOREM MarketDataIsWellFormed == MCSpec => []WellFormed
<1>1. PricesSpec => []PricesTypeOK
  <2>1. PricesInv => PricesTypeOK
    BY DEF PricesInv
  <2>2. QED
    BY <2>1, PricesInvInit, PricesInvNext, PTL DEF PricesSpec
<1>2. EngineSpec => []MembershipTypeOK
  <2>1. MembershipInv => MembershipTypeOK
    BY DEF MembershipInv
  <2>2. EngineInit => MembershipInv
    BY MembershipInvInit DEF EngineInit
  <2>3. QED
    BY <2>1, <2>2, MembershipInvNext, PTL DEF EngineSpec
<1>3. PartitionsSpec => []PartitionsTypeOK
  <2>1. PartitionsInv => PartitionsTypeOK
    BY DEF PartitionsInv
  <2>2. QED
    BY <2>1, PartitionsInvInit, PartitionsInvNext, PTL DEF PartitionsSpec
<1>4. QED
  BY <1>1, <1>2, <1>3, PartsKeepTheirWord, PTL DEF WellFormed
===============================================================================
