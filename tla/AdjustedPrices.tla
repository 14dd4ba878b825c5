---------------------------- MODULE AdjustedPrices ----------------------------
(***************************************************************************)
(* daily_prices.adj_close of one stock: price upserts write the raw close  *)
(* as a placeholder, corporate-action runs store the splits they fetch and *)
(* rebuild the whole history from them, each stock in one transaction of   *)
(* several statements (read committed).  Stocks do not interact, so one is *)
(* enough.                                                                 *)
(*                                                                         *)
(* A price is not a number here: an adjusted close is the set of splits    *)
(* whose ratio divides it.  The raw close is the empty set.                *)
(***************************************************************************)
EXTENDS Integers, FiniteSets, FiniteSetsExt

CONSTANTS
    Days,        \* sessions, an interval of naturals
    Events,      \* what the exchange will announce: [kind, ex] records
    Lookback,    \* how far behind its session a run asks the provider
    Runs,        \* corporate-action runs (a nightly one, a late or backfill one)
    NoBar,       \* no row for this session
    MaxIngests   \* bound: price upserts

ASSUME CalendarAssumption ==
    /\ Days \subseteq Nat /\ IsFiniteSet(Days) /\ Days # {}
    /\ (\A K \in SUBSET Days : NoBar # K) /\ NoBar \notin Runs
    /\ Events \subseteq [kind : {"split", "dividend"}, ex : Days]
    /\ Lookback \in Nat /\ MaxIngests \in Nat

VARIABLES
    today,      \* the last completed session
    announced,  \* what the provider reports so far
    known,      \* committed corporate_actions
    bars,       \* committed adj_close per session
    run,        \* the corporate-action runs
    ingests

priceVars == <<today, announced, known, bars, run, ingests>>

Adjusted == SUBSET Days          \* ex-dates whose ratios are divided out
NoRun == [pc |-> "idle", got |-> {}, splits |-> {}, left |-> {},
          mine |-> [d \in Days |-> NoBar], alone |-> TRUE]

PricesTypeOK ==
    /\ today \in Days
    /\ announced \subseteq Events /\ known \subseteq announced
    /\ bars \in [Days -> Adjusted \cup {NoBar}]
    /\ run \in [Runs -> [pc : {"idle", "fetched", "stored", "read", "reset", "done"},
                         got : SUBSET Events, splits : SUBSET Days, left : SUBSET Days,
                         mine : [Days -> Adjusted \cup {NoBar}], alone : BOOLEAN]]
    /\ ingests \in 0..MaxIngests

(* The stock has a first bar: of two overlapping runs the later one then    *)
(* waits for its row.  (Over an empty history nothing makes it wait, and    *)
(* the two could interleave their prefix updates.)                          *)
PricesInit ==
    /\ today = Min(Days)
    /\ announced = {} /\ known = {}
    /\ bars = [[d \in Days |-> NoBar] EXCEPT ![today] = {}]
    /\ run = [r \in Runs |-> NoRun]
    /\ ingests = 0

(* The split rows of corporate_actions: dividends are stored, never applied. *)
SplitDates(actions) == {a.ex : a \in {b \in actions : b.kind = "split"}}

(* A row an open run has updated is locked until that run ends. *)
Locked(d) == \E r \in Runs : run[r].mine[d] # NoBar
InTransaction(r) == run[r].pc \notin {"idle", "fetched"}

(* Everyone whose transaction is open notices that somebody else wrote. *)
Disturb(f, who) == [r \in Runs |-> IF r = who \/ ~InTransaction(r) THEN f[r]
                                   ELSE [f[r] EXCEPT !.alone = FALSE]]

-----------------------------------------------------------------------------
NextDay ==
    /\ today + 1 \in Days
    /\ today' = today + 1
    /\ UNCHANGED <<announced, known, bars, run, ingests>>

Announce(a) ==
    /\ a \in Events \ announced /\ a.ex <= today
    /\ announced' = announced \cup {a}
    /\ UNCHANGED <<today, known, bars, run, ingests>>

(* The provider's bar for session d is upserted: adj_close becomes close.   *)
(* (A bar without a close is skipped and writes nothing.)                   *)
UpsertBar(d) ==
    /\ d <= today /\ ~Locked(d) /\ ingests < MaxIngests
    /\ bars' = [bars EXCEPT ![d] = {}]
    /\ run' = Disturb(run, NoBar)
    /\ ingests' = ingests + 1
    /\ UNCHANGED <<today, announced, known>>

(* A run for session t asks for the actions of [t - Lookback, t]. *)
Fetch(r, t) ==
    /\ run[r].pc = "idle" /\ t \in Days /\ t <= today
    /\ run' = [run EXCEPT ![r] =
           [NoRun EXCEPT !.pc = "fetched",
                         !.got = {a \in announced : a.ex \in (t - Lookback)..t}]]
    /\ UNCHANGED <<today, announced, known, bars, ingests>>

(* The upsert waits for a transaction that is inserting the same action. *)
StoreActions(r) ==
    /\ run[r].pc = "fetched"
    /\ \A q \in Runs \ {r} : InTransaction(q) => run[q].got \cap run[r].got = {}
    /\ run' = [run EXCEPT ![r].pc = "stored",
                          ![r].alone = \A q \in Runs \ {r} : ~InTransaction(q)]
    /\ UNCHANGED <<today, announced, known, bars, ingests>>

ReadSplits(r) ==
    /\ run[r].pc = "stored"
    /\ LET splits == SplitDates(known \cup run[r].got)
       IN  run' = [run EXCEPT ![r].pc = "read", ![r].splits = splits, ![r].left = splits]
    /\ UNCHANGED <<today, announced, known, bars, ingests>>

(* UPDATE ... SET adj_close = close: waits for the rows of another run. *)
ResetAdjusted(r) ==
    /\ run[r].pc = "read"
    /\ \A d \in Days : ~Locked(d)
    /\ run' = [run EXCEPT ![r].pc = "reset",
                          ![r].mine = [d \in Days |-> IF bars[d] = NoBar THEN NoBar ELSE {}]]
    /\ UNCHANGED <<today, announced, known, bars, ingests>>

(* What walking the splits in the order of the calendar would do. *)
EarliestStep(r) == Min(run[r].left)
(* split_adjustment_steps: the latest ex-date first, with the ratios of the *)
(* splits on or after it accumulated.                                       *)
NextStep(r) == Max(run[r].left)
Cumulative(r, e) == {x \in run[r].splits : x >= e}

(* One prefix UPDATE: every row dated before the ex-date, those inserted    *)
(* since the reset included.                                                *)
ApplyStep(r) ==
    /\ run[r].pc = "reset" /\ run[r].left # {}
    /\ LET e == NextStep(r)
           Touched(d) == d < e /\ bars[d] # NoBar
       IN  run' = [run EXCEPT
               ![r].left = @ \ {e},
               ![r].mine = [d \in Days |-> IF Touched(d) THEN Cumulative(r, e) ELSE @[d]]]
    /\ UNCHANGED <<today, announced, known, bars, ingests>>

Visible(f, r) == [d \in Days |-> IF run[r].mine[d] = NoBar THEN f[d] ELSE run[r].mine[d]]

CommitRun(r) ==
    /\ run[r].pc = "reset" /\ run[r].left = {}
    /\ known' = known \cup run[r].got
    /\ bars' = Visible(bars, r)
    /\ run' = Disturb([run EXCEPT ![r] = NoRun], r)
    /\ UNCHANGED <<today, announced, ingests>>

(* An exception rolls the stock's transaction back; the loop goes on. *)
AbortRun(r) ==
    /\ InTransaction(r)
    /\ run' = [run EXCEPT ![r] = NoRun]
    /\ UNCHANGED <<today, announced, known, bars, ingests>>

RunStep(r) ==
    \/ \E t \in Days : Fetch(r, t)
    \/ StoreActions(r) \/ ReadSplits(r) \/ ResetAdjusted(r)
    \/ ApplyStep(r) \/ CommitRun(r) \/ AbortRun(r)

PricesNext ==
    \/ NextDay
    \/ \E a \in Events : Announce(a)
    \/ \E d \in Days : UpsertBar(d)
    \/ \E r \in Runs : RunStep(r)

PricesSpec == PricesInit /\ [][PricesNext]_priceVars

-----------------------------------------------------------------------------
(* Properties *)

Explains(K, d) == bars[d] = {e \in K : e > d}

(* The history is never torn: one set of splits explains every bar that is  *)
(* not raw, whatever price upserts and other runs committed while the       *)
(* rebuild's statements ran.  A torn history shows a return that no market  *)
(* made, which is what adj_close exists to prevent.                         *)
NoTornHistory ==
    \E K \in SUBSET SplitDates(known) :
        \A d \in Days : bars[d] \in {NoBar, {}} \/ Explains(K, d)

(* A run that nobody else wrote around leaves the whole history, bars of    *)
(* any age included, adjusted for every split stored so far; late actions   *)
(* reach back, and dividends do not count.                                  *)
LoneRunAdjustsAll ==
    [][\A r \in Runs :
          run[r].pc = "reset" /\ run[r].left = {} /\ run[r].alone /\ known' # known =>
              \A d \in Days :
                  bars'[d] \in {NoBar, {e \in SplitDates(known') : e > d}}]_priceVars

(* The two together: adj_close is what its name says, for any reader and at *)
(* any time (market_data/repositories.py:321, adjustments.py:30).           *)
HistoryIsAdjusted == []NoTornHistory /\ LoneRunAdjustsAll
=============================================================================
