----------------------------- MODULE PipelineProofs -----------------------------
(***************************************************************************)
(* Proofs about Pipeline, for any universe, thresholds, workers, retries   *)
(* and faults: the chain is ordered, and a night in which nothing was lost *)
(* or exhausted scores every stock that has a price.                       *)
(***************************************************************************)
EXTENDS Pipeline, FiniteSetTheorems, TLAPS

Labels == {"claim", "work", "commit", "publish", "return", "fail"}

(* What a stage has read was committed, and the tables only grow. *)
ReadsCommitted(s, in) ==
    \/ s = "ind" /\ in.inds \subseteq prices
    \/ s = "fac" /\ in.inds \subseteq indicators
    \/ s = "score" /\ factors # None /\ in.inds \subseteq factors.inds

(* The rows p, holding b, were in the database after the gate's job was      *)
(* triggered: whatever was written since is late.                            *)
WasRead(p, b) ==
    /\ p \subseteq prices
    /\ \A s \in prices \ late : s \in p /\ b[s] = bars[s]

(* What a stage is about to announce is in the database. *)
HasWritten(s, in) ==
    /\ s = "dq" => in \in Inputs /\ in.inds \subseteq prices
    /\ s = "fac" => factors # None
    /\ s = "score" => scores # None

SeenOK(w) ==
    /\ At(w, "work") => StageAt(w) # "recompute"
    /\ At(w, "commit") => job[w].seen \in Inputs /\ ReadsCommitted(StageAt(w), job[w].seen)
    /\ At(w, "publish") => HasWritten(StageAt(w), job[w].seen)

SeenInv == \A w \in Workers : SeenOK(w)

ScoresHaveFactors == scores # None => factors # None

(* What a gate is about to judge, and what some gate passed before the first *)
(* indicator job, are the rows that are not late.                            *)
GateInv ==
    /\ \A w \in Workers :
           At(w, "publish") /\ StageAt(w) = "dq" => WasRead(job[w].seen.inds, job[w].bars)
    /\ Started("ind") =>
           /\ Started("dq")
           /\ \E p \in SUBSET Stocks, b \in [Stocks -> Bars] : GatePasses(p, b) /\ WasRead(p, b)

RevisionsAreCounted == fundVersion = used["revision"]

ChainInv == TypeOK /\ SeenInv /\ ScoresHaveFactors /\ RevisionsAreCounted
                /\ GateInv /\ IndicatorsReadGatedPrices /\ NoPhantomEvents /\ LineageExists

-----------------------------------------------------------------------------
(* Lemmas about the operators of the model *)

LEMMA InputsAreSomething == None \notin Inputs
BY NoneAssumption, BoundsAssumption DEF Inputs

LEMMA BusyJob ==
    ASSUME TypeOK, NEW w \in Workers, ~At(w, "idle")
    PROVE  /\ job[w] \in Jobs /\ job[w].pc \in Labels /\ job[w].msg \in Msgs
           /\ StageAt(w) \in Stages /\ job[w].msg.retries \in 0..MaxRetries
           /\ job[w].seen \in Inputs \cup {None} /\ job[w].todo \subseteq Stocks
           /\ job[w].missed \in BOOLEAN /\ job[w].bars \in [Stocks -> Bars]
BY DEF TypeOK, At, Idle, Jobs, Msgs, StageAt, Labels

LEMMA StepMoves ==
    ASSUME TypeOK, NEW w \in Workers, ~At(w, "idle"), NEW l \in Labels, Step(w, l)
    PROVE  /\ job' \in [Workers -> Jobs \cup {Idle}]
           /\ job'[w].pc = l /\ job'[w].msg = job[w].msg
           /\ job'[w].seen = job[w].seen /\ job'[w].todo = job[w].todo
           /\ job'[w].bars = job[w].bars
           /\ \A v \in Workers \ {w} : job'[v] = job[v]
<1>1. job[w] \in Jobs
  BY BusyJob
<1>2. [job[w] EXCEPT !.pc = l] \in Jobs
  BY <1>1 DEF Jobs, Labels
<1>3. QED
  BY <1>1, <1>2 DEF Step, TypeOK, Jobs

LEMMA GoesIdle ==
    ASSUME TypeOK, NEW w \in Workers, job' = [job EXCEPT ![w] = Idle]
    PROVE  /\ job' \in [Workers -> Jobs \cup {Idle}]
           /\ job'[w].pc = "idle"
           /\ \A v \in Workers \ {w} : job'[v] = job[v]
BY DEF TypeOK, Idle

LEMMA FreshMsg ==
    ASSUME NEW s \in Stages
    PROVE  Fresh(s) \in Msgs /\ Fresh(s).stage = s
BY BoundsAssumption DEF Fresh, Msgs

LEMMA PutAdds ==
    ASSUME TypeOK, NEW m \in Msgs, queue' = [queue EXCEPT ![m] = @ + 1]
    PROVE  /\ queue' \in [Msgs -> Nat] /\ queue'[m] > 0
           /\ \A n \in Msgs : queue[n] > 0 => queue'[n] > 0
           /\ \A n \in Msgs \ {m} : queue'[n] = queue[n]
BY DEF TypeOK

LEMMA RetriedMsg ==
    ASSUME NEW m \in Msgs, m.retries < MaxRetries
    PROVE  /\ [m EXCEPT !.retries = @ + 1] \in Msgs
           /\ [m EXCEPT !.retries = @ + 1].stage = m.stage
BY BoundsAssumption DEF Msgs

LEMMA BoundsType == \A b \in DOMAIN Bounds : Bounds[b] \in Nat
BY BoundsAssumption DEF Bounds

LEMMA SpendType ==
    ASSUME TypeOK, NEW b \in DOMAIN Bounds, Spend(b)
    PROVE  /\ DOMAIN used' = DOMAIN Bounds
           /\ \A c \in DOMAIN Bounds : used'[c] \in 0..Bounds[c]
           /\ used'[b] = used[b] + 1
           /\ \A c \in DOMAIN Bounds \ {b} : used'[c] = used[c]
BY BoundsType DEF TypeOK, Spend

LEMMA BoundNames ==
    DOMAIN Bounds = {"fetch", "flaw", "error", "crash", "lost", "revision", "nightly"}
BY DEF Bounds

(* Upserts only add. *)
LEMMA MergeGrows ==
    ASSUME NEW old \in Inputs \cup {None}, NEW new \in Inputs
    PROVE  /\ Merge(old, new) \in Inputs
           /\ new.inds \subseteq Merge(old, new).inds
           /\ old # None => /\ old.inds \subseteq Merge(old, new).inds
                            /\ Merge(old, new).inds = new.inds \cup old.inds
           /\ old = None => Merge(old, new) = new
BY DEF Merge, Inputs

LEMMA WholeIsABar == Whole \in Bars
BY DEF Whole, Bars

LEMMA CellsAreFinite ==
    ASSUME NEW p \in SUBSET Stocks, NEW b \in [Stocks -> Bars]
    PROVE  IsFiniteSet(EmptyCells(p, b))
<1>1. IsFiniteSet(p)
  BY UniverseAssumption, FS_Subset
<1>2. IsFiniteSet({"open", "high", "low", "volume"})
  <2>1. IsFiniteSet({"open"})
    BY FS_Singleton
  <2>2. IsFiniteSet({"open"} \cup {"high"})
    BY <2>1, FS_AddElement, Zenon
  <2>3. IsFiniteSet(({"open"} \cup {"high"}) \cup {"low"})
    BY <2>2, FS_AddElement, Zenon
  <2>4. IsFiniteSet((({"open"} \cup {"high"}) \cup {"low"}) \cup {"volume"})
    BY <2>3, FS_AddElement, Zenon
  <2>5. (({"open"} \cup {"high"}) \cup {"low"}) \cup {"volume"}
        = {"open", "high", "low", "volume"}
    OBVIOUS
  <2>6. QED
    BY <2>4, <2>5
<1>3. IsFiniteSet(p \X {"open", "high", "low", "volume"})
  BY <1>1, <1>2, FS_Product
<1>4. EmptyCells(p, b) \in SUBSET (p \X {"open", "high", "low", "volume"})
  BY DEF EmptyCells
<1>5. QED
  BY <1>3, <1>4, FS_Subset

(* A gate that rows passed is passed by more rows, as long as what was added *)
(* or rewritten is whole.                                                    *)
LEMMA GateIsMonotone ==
    ASSUME NEW p \in SUBSET Stocks, NEW q \in SUBSET Stocks,
           NEW b \in [Stocks -> Bars], NEW c \in [Stocks -> Bars],
           p \subseteq q, \A s \in q : c[s] = Whole \/ (s \in p /\ c[s] = b[s]),
           GatePasses(p, b)
    PROVE  GatePasses(q, c)
<1>1. /\ IsFiniteSet(q) /\ IsFiniteSet(p)
      /\ IsFiniteSet(Stocks \ p) /\ IsFiniteSet(Stocks \ q)
  BY UniverseAssumption, FS_Subset
<1>2. Cardinality(p) <= Cardinality(q)
  BY <1>1, FS_Subset
<1>3. Cardinality(Stocks \ q) <= Cardinality(Stocks \ p)
  <2>1. (Stocks \ q) \in SUBSET (Stocks \ p)
    OBVIOUS
  <2>2. QED
    BY <1>1, <2>1, FS_Subset
<1>4. /\ Cardinality(p) \in Nat /\ Cardinality(q) \in Nat /\ Cardinality(Stocks) \in Nat
      /\ Cardinality(Stocks \ p) \in Nat /\ Cardinality(Stocks \ q) \in Nat
  BY <1>1, UniverseAssumption, FS_CardinalityType
<1>5. /\ MinCoveragePct * Cardinality(Stocks) \in Int
      /\ MaxMissingPct * Cardinality(Stocks) \in Int
  BY <1>4, ThresholdAssumption
<1>6. /\ Cardinality(EmptyCells(q, c)) <= Cardinality(EmptyCells(p, b))
      /\ Cardinality(EmptyCells(q, c)) \in Nat /\ Cardinality(EmptyCells(p, b)) \in Nat
  <2>1. EmptyCells(q, c) \in SUBSET EmptyCells(p, b)
    BY DEF EmptyCells, Whole
  <2>2. IsFiniteSet(EmptyCells(p, b)) /\ IsFiniteSet(EmptyCells(q, c))
    BY CellsAreFinite
  <2>3. QED
    BY <2>1, <2>2, FS_Subset, FS_CardinalityType
<1>7. MaxNullPct * (5 * Cardinality(p)) <= MaxNullPct * (5 * Cardinality(q))
  <2>1. \A m, i, j \in Nat : i <= j => m * (5 * i) <= m * (5 * j)
    OBVIOUS
  <2>2. MaxNullPct \in Nat
    BY ThresholdAssumption
  <2>3. QED
    BY <1>2, <1>4, <2>1, <2>2
<1>8. \A s \in q : c[s].sane
  BY DEF GatePasses, Whole
<1>9. /\ MaxNullPct * (5 * Cardinality(p)) \in Int
      /\ MaxNullPct * (5 * Cardinality(q)) \in Int
  BY <1>4, ThresholdAssumption
<1>10. 100 * Cardinality(q) >= MinCoveragePct * Cardinality(Stocks)
  BY <1>2, <1>4, <1>5 DEF GatePasses
<1>11. 100 * Cardinality(Stocks \ q) <= MaxMissingPct * Cardinality(Stocks)
  BY <1>3, <1>4, <1>5 DEF GatePasses
<1>12. 100 * Cardinality(EmptyCells(q, c)) <= MaxNullPct * (5 * Cardinality(q))
  BY <1>6, <1>7, <1>9 DEF GatePasses
<1>13. QED
  BY <1>8, <1>10, <1>11, <1>12 DEF GatePasses

-----------------------------------------------------------------------------
(* What one action does to the job of its worker *)

LEMMA ReceiveMoves ==
    ASSUME TypeOK, NEW w \in Workers, NEW m \in Msgs, Receive(w, m)
    PROVE  /\ job' \in [Workers -> Jobs \cup {Idle}]
           /\ job'[w].pc = "claim" /\ job'[w].msg = m
           /\ \A v \in Workers \ {w} : job'[v] = job[v]
           /\ queue' \in [Msgs -> Nat]
           /\ queue[m] > 0 /\ \A n \in Msgs : n # m => queue'[n] = queue[n]
<1>1. [pc |-> "claim", msg |-> m, seen |-> None, bars |-> [s \in Stocks |-> Whole],
       todo |-> {}, missed |-> FALSE] \in Jobs
  BY WholeIsABar DEF Jobs
<1>2. QED
  BY <1>1 DEF Receive, TypeOK

LEMMA ClaimMoves ==
    ASSUME TypeOK, NEW w \in Workers, Claim(w)
    PROVE  /\ job' \in [Workers -> Jobs \cup {Idle}]
           /\ job'[w].pc = FirstStep(StageAt(w)) /\ job'[w].msg = job[w].msg
           /\ StageAt(w) = "prices" => job'[w].todo = Stocks
           /\ \A v \in Workers \ {w} : job'[v] = job[v]
           /\ row' \in [Stages -> RowStatus]
<1>1. job[w] \in Jobs /\ StageAt(w) \in Stages
  BY BusyJob DEF Claim, At
<1>2. [job[w] EXCEPT !.pc = FirstStep(StageAt(w)),
                     !.todo = IF StageAt(w) = "prices" THEN Stocks ELSE {}] \in Jobs
  BY <1>1 DEF Jobs, FirstStep
<1>3. QED
  BY <1>1, <1>2 DEF Claim, TypeOK, Jobs, RowStatus

LEMMA FailMoves ==
    ASSUME TypeOK, NEW w \in Workers, Fail(w)
    PROVE  /\ job' \in [Workers -> Jobs \cup {Idle}]
           /\ job'[w].pc = "idle" /\ \A v \in Workers \ {w} : job'[v] = job[v]
           /\ queue' \in [Msgs -> Nat] /\ gaveUp' \subseteq Stages
           /\ \A m \in Msgs : queue'[m] > 0 => queue[m] > 0 \/ m.stage = StageAt(w)
           /\ \A m \in Msgs : queue[m] > 0 => queue'[m] > 0
           /\ (\E m \in Msgs : m.stage = StageAt(w) /\ queue'[m] > 0) \/ StageAt(w) \in gaveUp'
           /\ gaveUp \subseteq gaveUp'
<1>1. /\ job' \in [Workers -> Jobs \cup {Idle}]
      /\ job'[w].pc = "idle" /\ \A v \in Workers \ {w} : job'[v] = job[v]
  BY GoesIdle DEF Fail
<1>2. job[w].msg \in Msgs /\ StageAt(w) \in Stages /\ StageAt(w) = job[w].msg.stage
  BY BusyJob DEF Fail, At, StageAt
<1>3. CASE /\ job[w].msg.retries < MaxRetries
           /\ queue' = [queue EXCEPT ![[job[w].msg EXCEPT !.retries = @ + 1]] = @ + 1]
           /\ UNCHANGED gaveUp
  <2>1. DEFINE again == [job[w].msg EXCEPT !.retries = @ + 1]
  <2>2. again \in Msgs /\ again.stage = StageAt(w)
    BY <1>2, <1>3, RetriedMsg
  <2>3. /\ queue' \in [Msgs -> Nat] /\ queue'[again] > 0
        /\ \A n \in Msgs : queue[n] > 0 => queue'[n] > 0
        /\ \A n \in Msgs \ {again} : queue'[n] = queue[n]
    BY <1>3, <2>2, PutAdds
  <2>4. gaveUp' = gaveUp /\ gaveUp \subseteq Stages
    BY <1>3 DEF TypeOK
  <2>5. QED
    BY <1>1, <2>2, <2>3, <2>4
<1>4. CASE gaveUp' = gaveUp \cup {StageAt(w)} /\ UNCHANGED queue
  BY <1>1, <1>2, <1>4 DEF TypeOK
<1>5. QED
  BY <1>3, <1>4 DEF Fail

LEMMA ReadMoves ==
    ASSUME TypeOK, SeenInv, NEW w \in Workers, Read(w)
    PROVE  /\ job' \in [Workers -> Jobs \cup {Idle}]
           /\ job'[w].pc = AfterRead(StageAt(w)) /\ job'[w].msg = job[w].msg
           /\ job'[w].seen = InputOf(StageAt(w))
           /\ StageAt(w) \in {"dq", "ind"} => job'[w].bars = bars
           /\ StageAt(w) \in {"dq", "ind", "fac", "score", "alerts"}
           /\ \A v \in Workers \ {w} : job'[v] = job[v]
<1>1. job[w] \in Jobs /\ StageAt(w) \in {"dq", "ind", "fac", "score", "alerts"}
  BY BusyJob DEF Read, At, SeenInv, SeenOK, Stages
<1>2. InputOf(StageAt(w)) \in Inputs \cup {None}
  BY <1>1, BoundsAssumption DEF InputOf, TypeOK, Inputs
<1>3. [job[w] EXCEPT !.seen = InputOf(StageAt(w)),
                     !.bars = IF StageAt(w) \in {"dq", "ind"} THEN bars ELSE @,
                     !.pc = AfterRead(StageAt(w))] \in Jobs
  BY <1>1, <1>2 DEF Jobs, AfterRead, TypeOK
<1>4. QED
  BY <1>1, <1>3 DEF Read, TypeOK, Jobs

LEMMA FetchMoves ==
    ASSUME TypeOK, NEW w \in Workers, NEW s \in Stocks,
           FetchBar(w, s) \/ FetchNothing(w, s) \/ FetchFails(w, s)
    PROVE  /\ job' \in [Workers -> Jobs \cup {Idle}]
           /\ job'[w].pc = "work" /\ job[w].pc = "work" /\ job'[w].msg = job[w].msg
           /\ StageAt(w) = "prices" /\ job'[w].todo = job[w].todo \ {s}
           /\ \A v \in Workers \ {w} : job'[v] = job[v]
<1>1. job[w] \in Jobs /\ job[w].pc = "work" /\ StageAt(w) = "prices"
  BY BusyJob DEF FetchBar, FetchNothing, FetchFails, Ingesting, At
<1>2. /\ [job[w] EXCEPT !.todo = @ \ {s}] \in Jobs
      /\ [job[w] EXCEPT !.todo = @ \ {s}, !.missed = TRUE] \in Jobs
  BY <1>1 DEF Jobs
<1>3. CASE FetchBar(w, s) \/ FetchNothing(w, s)
  BY <1>1, <1>2, <1>3 DEF FetchBar, FetchNothing, TypeOK, Jobs
<1>4. CASE FetchFails(w, s)
  BY <1>1, <1>2, <1>4 DEF FetchFails, TypeOK, Jobs
<1>5. QED
  BY <1>3, <1>4

LEMMA PublishMoves ==
    ASSUME TypeOK, NEW w \in Workers, PublishNext(w)
    PROVE  /\ job' \in [Workers -> Jobs \cup {Idle}]
           /\ job'[w].pc \in {"return", "fail"} /\ job'[w].msg = job[w].msg
           /\ \A v \in Workers \ {w} : job'[v] = job[v]
           /\ StageAt(w) \in {"prices", "dq", "ind", "fac", "score"}
           /\ Successor[StageAt(w)] \in Stages
           /\ \/ /\ queue' \in [Msgs -> Nat] /\ UNCHANGED used
                 /\ queue'[Fresh(Successor[StageAt(w)])] > 0
                 /\ \A n \in Msgs : queue[n] > 0 => queue'[n] > 0
                 /\ \A n \in Msgs : n # Fresh(Successor[StageAt(w)]) => queue'[n] = queue[n]
              \/ UNCHANGED queue /\ Spend("lost")
<1>1. StageAt(w) \in {"prices", "dq", "ind", "fac", "score"}
  BY DEF PublishNext, Successor
<1>2. Successor[StageAt(w)] \in Stages
  BY <1>1 DEF Successor, Stages
<1>3. AfterPublish(w) \in {"return", "fail"}
  BY DEF AfterPublish
<1>4. /\ job' \in [Workers -> Jobs \cup {Idle}]
      /\ job'[w].pc = AfterPublish(w) /\ job'[w].msg = job[w].msg
      /\ \A v \in Workers \ {w} : job'[v] = job[v]
  BY <1>3, StepMoves DEF PublishNext, At, Labels
<1>5. CASE Enqueue(Successor[StageAt(w)]) /\ UNCHANGED used
  <2>1. Fresh(Successor[StageAt(w)]) \in Msgs
    BY <1>2, FreshMsg
  <2>2. QED
    BY <1>1, <1>2, <1>3, <1>4, <1>5, <2>1, PutAdds DEF Enqueue
<1>6. CASE Spend("lost") /\ UNCHANGED queue
  BY <1>1, <1>2, <1>3, <1>4, <1>6
<1>7. QED
  BY <1>5, <1>6 DEF PublishNext

LEMMA RecomputeMoves ==
    ASSUME TypeOK, NEW w \in Workers, RecomputeFactors(w)
    PROVE  /\ job' \in [Workers -> Jobs \cup {Idle}]
           /\ job'[w].pc = "return" /\ job'[w].msg = job[w].msg
           /\ \A v \in Workers \ {w} : job'[v] = job[v]
           /\ queue' \in [Msgs -> Nat] /\ queue'[Fresh("fac")] > 0
           /\ \A n \in Msgs : queue[n] > 0 => queue'[n] > 0
           /\ \A n \in Msgs : n # Fresh("fac") => queue'[n] = queue[n]
<1>1. Fresh("fac") \in Msgs
  BY FreshMsg DEF Stages
<1>2. /\ job' \in [Workers -> Jobs \cup {Idle}]
      /\ job'[w].pc = "return" /\ job'[w].msg = job[w].msg
      /\ \A v \in Workers \ {w} : job'[v] = job[v]
  BY StepMoves DEF RecomputeFactors, At, Labels
<1>3. QED
  BY <1>1, <1>2, PutAdds DEF RecomputeFactors, Enqueue

LEMMA CrashMoves ==
    ASSUME TypeOK, NEW w \in Workers, Crash(w)
    PROVE  /\ job' \in [Workers -> Jobs \cup {Idle}]
           /\ job'[w].pc = "idle"
           /\ \A v \in Workers \ {w} : job'[v] = job[v]
           /\ job[w].msg \in Msgs
           /\ queue' \in [Msgs -> Nat] /\ queue'[job[w].msg] > 0
           /\ \A n \in Msgs : queue[n] > 0 => queue'[n] > 0
           /\ \A n \in Msgs : n # job[w].msg => queue'[n] = queue[n]
<1>1. job[w].msg \in Msgs
  BY BusyJob DEF Crash
<1>2. QED
  BY <1>1, PutAdds, GoesIdle DEF Crash

(* The steps that only move the program counter. *)
Turns(w) ==
    \/ WorkRaises(w) \/ IngestDone(w) \/ GateFails(w) \/ AlertsDone(w)
    \/ WriteIndicators(w) \/ WriteFactors(w) \/ WriteScores(w)

LEMMA TurnMoves ==
    ASSUME TypeOK, NEW w \in Workers, Turns(w)
    PROVE  /\ job' \in [Workers -> Jobs \cup {Idle}]
           /\ job'[w].pc = IF WorkRaises(w) \/ GateFails(w) THEN "fail"
                           ELSE IF AlertsDone(w) THEN "return" ELSE "publish"
           /\ job'[w].msg = job[w].msg /\ job'[w].seen = job[w].seen
           /\ \A v \in Workers \ {w} : job'[v] = job[v]
           /\ UNCHANGED <<queue, row, gaveUp>>
           /\ ~At(w, "idle")
<1>1. CASE WorkRaises(w)
  <2>1. ~At(w, "idle") /\ Step(w, "fail")
    BY <1>1 DEF WorkRaises, At
  <2>2. QED
    BY <1>1, <2>1, StepMoves DEF WorkRaises, Labels
<1>2. CASE GateFails(w)
  BY <1>2, StepMoves DEF GateFails, Labels, At
<1>3. CASE AlertsDone(w)
  <2>1. ~WorkRaises(w) /\ ~GateFails(w)
    <3>1. job'[w].pc = "return"
      BY <1>3, StepMoves DEF AlertsDone, At, Labels
    <3>2. (WorkRaises(w) \/ GateFails(w)) => job'[w].pc = "fail"
      BY <1>1, <1>2, StepMoves DEF WorkRaises, GateFails, At, Labels
    <3>3. QED
      BY <3>1, <3>2
  <2>2. QED
    BY <1>3, <2>1, StepMoves DEF AlertsDone, Labels, At
<1>4. CASE IngestDone(w) \/ WriteIndicators(w) \/ WriteFactors(w) \/ WriteScores(w)
  <2>1. ~At(w, "idle") /\ Step(w, "publish") /\ UNCHANGED <<queue, row, gaveUp>>
    BY <1>4 DEF IngestDone, WriteIndicators, WriteFactors, WriteScores, At
  <2>2. job'[w].pc = "publish"
    BY <2>1, StepMoves DEF Labels
  <2>3. (WorkRaises(w) \/ GateFails(w)) => job'[w].pc = "fail"
    BY StepMoves DEF WorkRaises, GateFails, At, Labels
  <2>4. AlertsDone(w) => job'[w].pc = "return"
    BY StepMoves DEF AlertsDone, At, Labels
  <2>5. QED
    BY <2>1, <2>2, <2>3, <2>4, StepMoves DEF Labels
<1>5. QED
  BY <1>1, <1>2, <1>3, <1>4 DEF Turns

LEMMA WorkerSteps ==
    ASSUME NEW w \in Workers, WorkerStep(w)
    PROVE  \/ Claim(w) \/ Skip(w) \/ Succeed(w) \/ Fail(w) \/ Read(w) \/ PublishNext(w)
           \/ RecomputeFactors(w) \/ Turns(w)
           \/ \E s \in Stocks : FetchBar(w, s) \/ FetchNothing(w, s) \/ FetchFails(w, s)
BY DEF WorkerStep, Turns

-----------------------------------------------------------------------------
(* The tables.  A stage writes only what it read, and nothing is taken away. *)

DataGrows ==
    /\ prices \subseteq prices' /\ indicators \subseteq indicators'
    /\ factors # None => factors' # None /\ factors.inds \subseteq factors'.inds
    /\ scores # None => scores' # None

DataType ==
    /\ late \subseteq prices /\ prices \subseteq Stocks /\ indicators \subseteq prices
    /\ bars \in [Stocks -> Bars]
    /\ factors \in Inputs \cup {None} /\ scores \in Inputs \cup {None}

LEMMA WorkerData ==
    ASSUME TypeOK, SeenInv, NEW w \in Workers, WorkerStep(w)
    PROVE  /\ \/ UNCHANGED data
              \/ \E s \in Stocks : FetchBar(w, s)
              \/ WriteIndicators(w) \/ WriteFactors(w) \/ WriteScores(w)
           /\ UNCHANGED fundVersion /\ DataGrows /\ DataType'
<1> DEFINE P == /\ \/ UNCHANGED data
                   \/ \E s \in Stocks : FetchBar(w, s)
                   \/ WriteIndicators(w) \/ WriteFactors(w) \/ WriteScores(w)
                /\ UNCHANGED fundVersion /\ DataGrows /\ DataType'
<1>1. DataType
  BY DEF TypeOK, DataType
<1>2. CASE UNCHANGED data
  BY <1>1, <1>2 DEF data, DataGrows, DataType
<1>3. ASSUME NEW s \in Stocks, FetchBar(w, s) PROVE P
  <2>1. PICK b \in FlawedBars \cup {Whole} : bars' = [bars EXCEPT ![s] = b]
    BY <1>3 DEF FetchBar
  <2>2. b \in Bars
    BY BarsAssumption, WholeIsABar
  <2>3. bars' \in [Stocks -> Bars]
    BY <1>1, <2>1, <2>2 DEF DataType
  <2>4. QED
    BY <1>1, <1>3, <2>3 DEF FetchBar, DataGrows, DataType
<1>4. CASE WriteIndicators(w)
  <2>1. job[w].seen \in Inputs /\ job[w].seen.inds \subseteq prices
    BY <1>4 DEF WriteIndicators, SeenInv, SeenOK, ReadsCommitted
  <2>2. QED
    BY <1>1, <1>4, <2>1 DEF WriteIndicators, DataGrows, DataType
<1>5. CASE WriteFactors(w)
  <2>1. job[w].seen \in Inputs
    BY <1>5 DEF WriteFactors, SeenInv, SeenOK
  <2>2. QED
    BY <1>1, <1>5, <2>1, MergeGrows, InputsAreSomething DEF WriteFactors, DataGrows, DataType
<1>6. CASE WriteScores(w)
  <2>1. job[w].seen \in Inputs
    BY <1>6 DEF WriteScores, SeenInv, SeenOK
  <2>2. QED
    BY <1>1, <1>6, <2>1, InputsAreSomething DEF WriteScores, DataGrows, DataType
<1>7. UNCHANGED data \/ (\E s \in Stocks : FetchBar(w, s)) \/ WriteIndicators(w)
        \/ WriteFactors(w) \/ WriteScores(w)
  BY DEF WorkerStep, Claim, Skip, Succeed, Fail, FetchNothing, FetchFails, IngestDone, Read,
         PublishNext, GateFails, AlertsDone, RecomputeFactors, WorkRaises
<1>8. QED
  BY <1>2, <1>3, <1>4, <1>5, <1>6, <1>7 DEF data

-----------------------------------------------------------------------------
LEMMA TypeInit == Init => TypeOK
<1> SUFFICES ASSUME Init PROVE TypeOK
  OBVIOUS
<1>1. used \in [DOMAIN Bounds -> Nat] /\ \A b \in DOMAIN Bounds : used[b] \in 0..Bounds[b]
  BY BoundsType DEF Init
<1>2. fundVersion \in 0..MaxRevisions
  BY BoundsAssumption DEF Init
<1>3. bars \in [Stocks -> Bars]
  BY WholeIsABar DEF Init
<1>4. QED
  BY <1>1, <1>2, <1>3 DEF Init, TypeOK, RowStatus

LEMMA TypeNext ==
    ASSUME TypeOK, SeenInv, RevisionsAreCounted, [Next]_vars PROVE TypeOK'
<1>1. CASE UNCHANGED vars
  BY <1>1 DEF vars, data, TypeOK
<1>2. CASE StartNight
  <2>1. queue' \in [Msgs -> Nat]
    BY <1>2, FreshMsg, PutAdds DEF StartNight, Enqueue, Stages
  <2>2. DOMAIN used' = DOMAIN Bounds /\ \A b \in DOMAIN Bounds : used'[b] \in 0..Bounds[b]
    BY <1>2, SpendType, BoundNames DEF StartNight
  <2>3. QED
    BY <1>2, <2>1, <2>2 DEF StartNight, data, TypeOK
<1>3. CASE ReviseFundamentals
  <2>1. queue' \in [Msgs -> Nat]
    BY <1>3, FreshMsg, PutAdds DEF ReviseFundamentals, Enqueue, Stages
  <2>2. DOMAIN used' = DOMAIN Bounds /\ \A b \in DOMAIN Bounds : used'[b] \in 0..Bounds[b]
    BY <1>3, SpendType, BoundNames DEF ReviseFundamentals
  <2>3. fundVersion' \in 0..MaxRevisions
    <3>1. used["revision"] \in Nat /\ used["revision"] < MaxRevisions
      <4>1. used["revision"] < Bounds["revision"] /\ Bounds["revision"] = MaxRevisions
        BY <1>3 DEF ReviseFundamentals, Spend, Bounds
      <4>2. used["revision"] \in 0..Bounds["revision"]
        BY BoundNames DEF TypeOK
      <4>3. QED
        BY <4>1, <4>2, BoundsAssumption
    <3>2. QED
      BY <1>3, <3>1, BoundsAssumption DEF ReviseFundamentals, RevisionsAreCounted
  <2>4. QED
    BY <1>3, <2>1, <2>2, <2>3 DEF ReviseFundamentals, data, TypeOK
<1>4. ASSUME NEW w \in Workers, NEW m \in Msgs, Receive(w, m) PROVE TypeOK'
  BY <1>4, ReceiveMoves DEF Receive, data, TypeOK
<1>5. ASSUME NEW w \in Workers, Crash(w) PROVE TypeOK'
  <2>1. DOMAIN used' = DOMAIN Bounds /\ \A b \in DOMAIN Bounds : used'[b] \in 0..Bounds[b]
    BY <1>5, SpendType, BoundNames DEF Crash
  <2>2. QED
    BY <1>5, <2>1, CrashMoves DEF Crash, data, TypeOK
<1>6. ASSUME NEW w \in Workers, WorkerStep(w) PROVE TypeOK'
  <2>1. DataType' /\ fundVersion' = fundVersion
    BY <1>6, WorkerData
  <2>2. job' \in [Workers -> Jobs \cup {Idle}]
    BY <1>6, WorkerSteps, ClaimMoves, GoesIdle, FailMoves, ReadMoves, PublishMoves,
       RecomputeMoves, TurnMoves, FetchMoves DEF Skip, Succeed
  <2>3. row' \in [Stages -> RowStatus]
    <3>1. CASE Claim(w)
      BY <3>1, ClaimMoves
    <3>2. CASE Succeed(w) \/ Fail(w)
      BY <3>2 DEF Succeed, Fail, TypeOK, RowStatus
    <3>3. CASE ~Claim(w) /\ ~Succeed(w) /\ ~Fail(w)
      <4>1. row' = row
        BY <1>6, <3>3 DEF WorkerStep, Skip, FetchBar, FetchNothing, FetchFails, IngestDone,
           Read, WriteIndicators, WriteFactors, WriteScores, PublishNext, GateFails,
           AlertsDone, RecomputeFactors, WorkRaises
      <4>2. QED
        BY <4>1 DEF TypeOK
    <3>4. QED
      BY <3>1, <3>2, <3>3
  <2>4. queue' \in [Msgs -> Nat] /\ gaveUp' \subseteq Stages
    <3>1. CASE Fail(w)
      BY <3>1, FailMoves
    <3>2. CASE PublishNext(w)
      BY <3>2, PublishMoves DEF PublishNext, TypeOK
    <3>3. CASE RecomputeFactors(w)
      BY <3>3, RecomputeMoves DEF RecomputeFactors, TypeOK
    <3>4. CASE ~Fail(w) /\ ~PublishNext(w) /\ ~RecomputeFactors(w)
      <4>1. UNCHANGED <<queue, gaveUp>>
        BY <1>6, <3>4 DEF WorkerStep, Claim, Skip, Succeed, FetchBar, FetchNothing,
           FetchFails, IngestDone, Read, WriteIndicators, WriteFactors, WriteScores,
           GateFails, AlertsDone, WorkRaises
      <4>2. QED
        BY <4>1 DEF TypeOK
    <3>5. QED
      BY <3>1, <3>2, <3>3, <3>4
  <2>5. UNCHANGED used \/ \E b \in DOMAIN Bounds : Spend(b)
    BY <1>6, BoundNames DEF WorkerStep, Claim, Skip, Succeed, Fail, FetchBar, FetchNothing,
       FetchFails, IngestDone, Read, WriteIndicators, WriteFactors, WriteScores, PublishNext,
       GateFails, AlertsDone, RecomputeFactors, WorkRaises
  <2>6. DOMAIN used' = DOMAIN Bounds /\ \A b \in DOMAIN Bounds : used'[b] \in 0..Bounds[b]
    BY <2>5, SpendType DEF TypeOK
  <2>7. QED
    BY <2>1, <2>2, <2>3, <2>4, <2>6 DEF TypeOK, DataType
<1>7. QED
  BY <1>1, <1>2, <1>3, <1>4, <1>5, <1>6 DEF Next

LEMMA WorkerSpends ==
    ASSUME TypeOK, NEW w \in Workers, WorkerStep(w)
    PROVE  /\ used'["revision"] = used["revision"] /\ used'["nightly"] = used["nightly"]
           /\ \A b \in DOMAIN Bounds : used'[b] >= used[b]
<1>1. \A b \in DOMAIN Bounds : used[b] \in Nat
  BY BoundsType DEF TypeOK
<1>2. UNCHANGED used \/ Spend("fetch") \/ Spend("flaw") \/ Spend("error") \/ Spend("lost")
  BY DEF WorkerStep, Claim, Skip, Succeed, Fail, FetchBar, FetchNothing, FetchFails,
     IngestDone, Read, WriteIndicators, WriteFactors, WriteScores, PublishNext, GateFails,
     AlertsDone, RecomputeFactors, WorkRaises
<1>3. CASE UNCHANGED used
  BY <1>1, <1>3
<1>4. ASSUME NEW b \in {"fetch", "flaw", "error", "lost"}, Spend(b)
      PROVE  /\ used'["revision"] = used["revision"] /\ used'["nightly"] = used["nightly"]
             /\ \A c \in DOMAIN Bounds : used'[c] >= used[c]
  BY <1>1, <1>4, SpendType, BoundNames
<1>5. QED
  BY <1>2, <1>3, <1>4

LEMMA RevisionsNext ==
    ASSUME TypeOK, SeenInv, RevisionsAreCounted, [Next]_vars PROVE RevisionsAreCounted'
<1>1. CASE UNCHANGED vars
  BY <1>1 DEF vars, data, RevisionsAreCounted
<1>2. CASE StartNight
  BY <1>2, SpendType, BoundNames DEF StartNight, data, RevisionsAreCounted
<1>3. CASE ReviseFundamentals
  BY <1>3, SpendType, BoundNames DEF ReviseFundamentals, RevisionsAreCounted
<1>4. ASSUME NEW w \in Workers, NEW m \in Msgs, Receive(w, m) PROVE RevisionsAreCounted'
  BY <1>4 DEF Receive, data, RevisionsAreCounted
<1>5. ASSUME NEW w \in Workers, Crash(w) PROVE RevisionsAreCounted'
  BY <1>5, SpendType, BoundNames DEF Crash, data, RevisionsAreCounted
<1>6. ASSUME NEW w \in Workers, WorkerStep(w) PROVE RevisionsAreCounted'
  BY <1>6, WorkerData, WorkerSpends DEF RevisionsAreCounted
<1>7. QED
  BY <1>1, <1>2, <1>3, <1>4, <1>5, <1>6 DEF Next

-----------------------------------------------------------------------------
(* Which step starts a stage *)

LEMMA WorkerIsBusy ==
    ASSUME NEW w \in Workers, WorkerStep(w) \/ Crash(w) PROVE ~At(w, "idle")
BY DEF WorkerStep, Crash, Claim, Skip, Succeed, Fail, FetchBar, FetchNothing, FetchFails,
   Ingesting, IngestDone, Read, WriteIndicators, WriteFactors, WriteScores, PublishNext,
   GateFails, AlertsDone, RecomputeFactors, WorkRaises, At

LEMMA WorkerMovesAlone ==
    ASSUME TypeOK, SeenInv, NEW w \in Workers, WorkerStep(w) \/ Crash(w)
    PROVE  /\ \A v \in Workers \ {w} : job'[v] = job[v]
           /\ job'[w].pc = "idle" \/ job'[w].msg = job[w].msg
<1>1. CASE Crash(w)
  BY <1>1, CrashMoves
<1>2. CASE WorkerStep(w)
  BY <1>2, WorkerSteps, ClaimMoves, GoesIdle, FailMoves, ReadMoves, PublishMoves,
     RecomputeMoves, TurnMoves, FetchMoves DEF Skip, Succeed
<1>3. QED
  BY <1>1, <1>2

LEMMA RowOfOwnStage ==
    ASSUME TypeOK, NEW w \in Workers, WorkerStep(w) \/ Crash(w),
           NEW s \in Stages, s # StageAt(w)
    PROVE  row'[s] = row[s]
<1>1. row' = row \/ \E x \in RowStatus : row' = [row EXCEPT ![StageAt(w)] = x]
  BY DEF WorkerStep, Crash, Claim, Skip, Succeed, Fail, FetchBar, FetchNothing, FetchFails,
     IngestDone, Read, WriteIndicators, WriteFactors, WriteScores, PublishNext, GateFails,
     AlertsDone, RecomputeFactors, WorkRaises, RowStatus
<1>2. QED
  BY <1>1 DEF TypeOK

LEMMA QueueOfOwnStage ==
    ASSUME TypeOK, NEW w \in Workers, WorkerStep(w) \/ Crash(w), NEW m \in Msgs,
           queue'[m] > 0
    PROVE  \/ queue[m] > 0 \/ m.stage = StageAt(w)
           \/ PublishNext(w) /\ m.stage = Successor[StageAt(w)]
           \/ RecomputeFactors(w) /\ m.stage = "fac"
<1>1. CASE Crash(w)
  BY <1>1, CrashMoves DEF StageAt
<1>2. CASE Fail(w)
  BY <1>2, FailMoves
<1>3. CASE PublishNext(w)
  <2>1. Successor[StageAt(w)] \in Stages
    BY <1>3, PublishMoves
  <2>2. queue[m] > 0 \/ m = Fresh(Successor[StageAt(w)])
    BY <1>3, PublishMoves
  <2>3. QED
    BY <1>3, <2>1, <2>2, FreshMsg
<1>4. CASE RecomputeFactors(w)
  BY <1>4, RecomputeMoves, FreshMsg DEF Stages
<1>5. CASE WorkerStep(w) /\ ~Fail(w) /\ ~PublishNext(w) /\ ~RecomputeFactors(w)
  BY <1>5 DEF WorkerStep, Claim, Skip, Succeed, FetchBar, FetchNothing, FetchFails,
     IngestDone, Read, WriteIndicators, WriteFactors, WriteScores, GateFails, AlertsDone,
     WorkRaises
<1>6. QED
  BY <1>1, <1>2, <1>3, <1>4, <1>5

(* A stage starts with the night, a revision, an event of its predecessor,   *)
(* or the recomputation of the factors.                                      *)
LEMMA StartedBy ==
    ASSUME TypeOK, SeenInv, Next, NEW s \in Stages, Started(s)', ~Started(s)
    PROVE  \/ StartNight /\ s = "prices"
           \/ ReviseFundamentals /\ s = "recompute"
           \/ \E w \in Workers :
                 /\ WorkerStep(w) /\ Started(StageAt(w)) /\ ~At(w, "idle")
                 /\ \/ PublishNext(w) /\ s = Successor[StageAt(w)]
                    \/ RecomputeFactors(w) /\ s = "fac"
<1>1. CASE StartNight
  <2>1. \A m \in Msgs : m # Fresh("prices") => queue'[m] = queue[m]
    BY <1>1 DEF StartNight, Enqueue, TypeOK
  <2>2. job' = job /\ row' = row
    BY <1>1 DEF StartNight
  <2>3. QED
    BY <1>1, <2>1, <2>2, FreshMsg DEF Started, Running, At, StageAt, Stages
<1>2. CASE ReviseFundamentals
  <2>1. \A m \in Msgs : m # Fresh("recompute") => queue'[m] = queue[m]
    BY <1>2 DEF ReviseFundamentals, Enqueue, TypeOK
  <2>2. job' = job /\ row' = row
    BY <1>2 DEF ReviseFundamentals
  <2>3. QED
    BY <1>2, <2>1, <2>2, FreshMsg DEF Started, Running, At, StageAt, Stages
<1>3. ASSUME NEW w \in Workers, NEW m \in Msgs, Receive(w, m) PROVE FALSE
  <2>1. row' = row /\ queue[m] > 0 /\ job'[w].msg = m
    BY <1>3, ReceiveMoves DEF Receive
  <2>2. \A v \in Workers \ {w} : job'[v] = job[v]
    BY <1>3, ReceiveMoves
  <2>3. \A n \in Msgs : n # m => queue'[n] = queue[n]
    BY <1>3, ReceiveMoves
  <2>4. QED
    BY <2>1, <2>2, <2>3 DEF Started, Running, At, StageAt
<1>4. ASSUME NEW w \in Workers, WorkerStep(w) \/ Crash(w)
      PROVE  /\ WorkerStep(w) /\ Started(StageAt(w)) /\ ~At(w, "idle")
             /\ \/ PublishNext(w) /\ s = Successor[StageAt(w)]
                \/ RecomputeFactors(w) /\ s = "fac"
  <2>1. ~At(w, "idle") /\ w \in Running(StageAt(w)) /\ Started(StageAt(w))
    BY <1>4, WorkerIsBusy DEF Started, Running
  <2>2. s # StageAt(w)
    BY <2>1
  <2>3. row'[s] = row[s]
    BY <1>4, <2>2, RowOfOwnStage
  <2>4. Running(s)' \subseteq Running(s)
    BY <1>4, <2>2, WorkerMovesAlone DEF Running, At, StageAt
  <2>5. PICK m \in Msgs : m.stage = s /\ queue'[m] > 0
    BY <2>3, <2>4 DEF Started
  <2>6. ~(queue[m] > 0)
    BY <2>5 DEF Started
  <2>7. \/ PublishNext(w) /\ s = Successor[StageAt(w)]
        \/ RecomputeFactors(w) /\ s = "fac"
    BY <1>4, <2>2, <2>5, <2>6, QueueOfOwnStage
  <2>8. QED
    BY <2>1, <2>7 DEF WorkerStep
<1>5. QED
  BY <1>1, <1>2, <1>3, <1>4 DEF Next

(* A stage that started stays so: its message is in the broker or with a     *)
(* worker until its key has a row, and the row stays.                        *)
LEMMA StartedStays ==
    ASSUME TypeOK, SeenInv, Next, NEW s \in Stages, Started(s)
    PROVE  Started(s)'
<1>1. CASE StartNight \/ ReviseFundamentals
  <2>1. \A m \in Msgs : queue[m] > 0 => queue'[m] > 0
    BY <1>1, FreshMsg, PutAdds DEF StartNight, ReviseFundamentals, Enqueue, Stages
  <2>2. job' = job /\ row' = row
    BY <1>1 DEF StartNight, ReviseFundamentals
  <2>3. QED
    BY <2>1, <2>2 DEF Started, Running, At, StageAt
<1>2. ASSUME NEW w \in Workers, NEW m \in Msgs, Receive(w, m) PROVE Started(s)'
  <2>1. /\ row' = row /\ At(w, "idle") /\ job'[w].pc = "claim" /\ job'[w].msg = m
        /\ \A v \in Workers \ {w} : job'[v] = job[v]
        /\ \A n \in Msgs : n # m => queue'[n] = queue[n]
    BY <1>2, ReceiveMoves DEF Receive
  <2>2. Running(s) \subseteq Running(s)'
    BY <2>1 DEF Running, At, StageAt
  <2>3. m.stage = s => w \in Running(s)'
    BY <2>1 DEF Running, At, StageAt
  <2>4. QED
    BY <2>1, <2>2, <2>3 DEF Started
<1>3. ASSUME NEW w \in Workers, Crash(w) PROVE Started(s)'
  <2>1. /\ row' = row /\ \A v \in Workers \ {w} : job'[v] = job[v]
        /\ \A n \in Msgs : queue[n] > 0 => queue'[n] > 0
        /\ job[w].msg \in Msgs /\ queue'[job[w].msg] > 0
    BY <1>3, CrashMoves DEF Crash
  <2>2. \A v \in Workers \ {w} : v \in Running(s) => v \in Running(s)'
    BY <2>1 DEF Running, At, StageAt
  <2>3. w \in Running(s) => job[w].msg.stage = s
    BY DEF Running, StageAt
  <2>4. QED
    BY <2>1, <2>2, <2>3 DEF Started, Running
<1>4. ASSUME NEW w \in Workers, WorkerStep(w) PROVE Started(s)'
  <2>1. \A m \in Msgs : queue[m] > 0 => queue'[m] > 0
    <3>1. CASE Fail(w)
      BY <3>1, FailMoves
    <3>2. CASE PublishNext(w)
      BY <3>2, PublishMoves
    <3>3. CASE RecomputeFactors(w)
      BY <3>3, RecomputeMoves
    <3>4. CASE ~Fail(w) /\ ~PublishNext(w) /\ ~RecomputeFactors(w)
      BY <1>4, <3>4 DEF WorkerStep, Claim, Skip, Succeed, FetchBar, FetchNothing, FetchFails,
         IngestDone, Read, WriteIndicators, WriteFactors, WriteScores, GateFails, AlertsDone,
         WorkRaises
    <3>5. QED
      BY <3>1, <3>2, <3>3, <3>4
  <2>2. \A v \in Workers \ {w} : v \in Running(s) => v \in Running(s)'
    BY <1>4, WorkerMovesAlone DEF Running, At, StageAt
  <2>3. row[s] # "absent" => row'[s] # "absent"
    <3>1. \/ row' = row
          \/ \E x \in RowStatus \ {"absent"} : row' = [row EXCEPT ![StageAt(w)] = x]
      BY <1>4 DEF WorkerStep, Claim, Skip, Succeed, Fail, FetchBar, FetchNothing, FetchFails,
         IngestDone, Read, WriteIndicators, WriteFactors, WriteScores, PublishNext, GateFails,
         AlertsDone, RecomputeFactors, WorkRaises, RowStatus
    <3>2. QED
      BY <3>1 DEF TypeOK
  <2>4. CASE w \notin Running(s)
    BY <2>1, <2>2, <2>3, <2>4 DEF Started, Running
  <2>5. CASE w \in Running(s)
    <3>1. StageAt(w) = s
      BY <2>5 DEF Running
    <3>2. CASE Fail(w) \/ Succeed(w) \/ Skip(w)
      <4>1. row'[s] # "absent"
        BY <3>1, <3>2 DEF Fail, Succeed, Skip, TypeOK
      <4>2. QED
        BY <4>1 DEF Started
    <3>3. CASE ~Fail(w) /\ ~Succeed(w) /\ ~Skip(w)
      <4>1. job'[w].pc # "idle" /\ job'[w].msg = job[w].msg
        BY <1>4, <3>3, WorkerSteps, ClaimMoves, ReadMoves, PublishMoves, RecomputeMoves,
           TurnMoves, FetchMoves DEF FirstStep, AfterRead
      <4>2. w \in Running(s)'
        BY <3>1, <4>1 DEF Running, At, StageAt
      <4>3. QED
        BY <4>2 DEF Started
    <3>4. QED
      BY <3>2, <3>3
  <2>6. QED
    BY <2>4, <2>5
<1>5. QED
  BY <1>1, <1>2, <1>3, <1>4 DEF Next

-----------------------------------------------------------------------------
(* The invariant is inductive: one lemma for each part of it *)

LEMMA StepGrows == ASSUME TypeOK, SeenInv, Next PROVE DataGrows
<1>1. CASE UNCHANGED <<prices, indicators, factors, scores>>
  BY <1>1 DEF DataGrows
<1>2. ASSUME NEW w \in Workers, WorkerStep(w) PROVE DataGrows
  BY <1>2, WorkerData
<1>3. QED
  BY <1>1, <1>2 DEF Next, StartNight, ReviseFundamentals, Receive, Crash, data

(* What was read or written stays there. *)
LEMMA SeenStays ==
    ASSUME SeenInv, DataGrows, NEW w \in Workers, job'[w] = job[w]
    PROVE  SeenOK(w)'
BY DEF SeenInv, SeenOK, DataGrows, At, StageAt, ReadsCommitted, HasWritten

(* The worker that moves *)
LEMMA SeenMoves ==
    ASSUME TypeOK, SeenInv, NoPhantomEvents, NEW w \in Workers, WorkerStep(w)
    PROVE  SeenOK(w)'
<1>1. CASE Claim(w)
  <2>1. job'[w].pc = FirstStep(StageAt(w)) /\ job'[w].msg.stage = StageAt(w)
    BY <1>1, ClaimMoves DEF StageAt
  <2>2. QED
    BY <2>1 DEF FirstStep, HasWritten, SeenOK, At, StageAt
<1>2. CASE Skip(w) \/ Succeed(w) \/ Fail(w)
  <2>1. job'[w].pc = "idle"
    BY <1>2, GoesIdle, FailMoves DEF Skip, Succeed
  <2>2. QED
    BY <2>1 DEF SeenOK, At
<1>3. CASE Read(w)
  <2>1. /\ job'[w].pc = AfterRead(StageAt(w)) /\ job'[w].msg.stage = StageAt(w)
        /\ job'[w].seen = InputOf(StageAt(w))
        /\ StageAt(w) \in {"dq", "ind", "fac", "score", "alerts"}
    BY <1>3, ReadMoves DEF StageAt
  <2>2. UNCHANGED <<prices, indicators, factors, scores>> /\ ~At(w, "idle")
    BY <1>3 DEF Read, data, At
  <2>3. CASE StageAt(w) \in {"dq", "ind"}
    BY <2>1, <2>2, <2>3, BoundsAssumption
    DEF AfterRead, InputOf, ReadsCommitted, HasWritten, Inputs, TypeOK, SeenOK, At, StageAt
  <2>4. CASE StageAt(w) = "fac"
    BY <2>1, <2>2, <2>4, BoundsAssumption
    DEF AfterRead, InputOf, ReadsCommitted, HasWritten, Inputs, TypeOK, SeenOK, At, StageAt
  <2>5. CASE StageAt(w) = "score"
    <3>1. Started("score")
      BY <2>2, <2>5 DEF Started, Running
    <3>2. factors # None /\ factors \in Inputs
      BY <3>1 DEF NoPhantomEvents, TypeOK
    <3>3. QED
      BY <2>1, <2>2, <2>5, <3>2 DEF AfterRead, InputOf, ReadsCommitted, HasWritten,
         SeenOK, At, StageAt
  <2>6. CASE StageAt(w) = "alerts"
    BY <2>1, <2>2, <2>6 DEF AfterRead, HasWritten, SeenOK, At, StageAt
  <2>7. QED
    BY <2>1, <2>3, <2>4, <2>5, <2>6
<1>4. CASE PublishNext(w)
  BY <1>4, PublishMoves DEF SeenOK, At
<1>5. CASE RecomputeFactors(w)
  BY <1>5, RecomputeMoves DEF SeenOK, At
<1>6. ASSUME NEW s \in Stocks, FetchBar(w, s) \/ FetchNothing(w, s) \/ FetchFails(w, s) PROVE SeenOK(w)'
  BY <1>6, FetchMoves DEF StageAt, SeenOK, At
<1>7. CASE WorkRaises(w) \/ GateFails(w) \/ AlertsDone(w)
  BY <1>7, TurnMoves DEF Turns, SeenOK, At
<1>8. CASE IngestDone(w)
  <2>1. job'[w].pc \in {"publish", "fail", "return"} /\ job'[w].msg.stage = "prices"
    BY <1>8, TurnMoves DEF Turns, IngestDone, StageAt
  <2>2. QED
    BY <2>1 DEF HasWritten, SeenOK, At, StageAt
<1>9. CASE WriteIndicators(w)
  <2>1. job'[w].pc \in {"publish", "fail", "return"} /\ job'[w].msg.stage = "ind"
    BY <1>9, TurnMoves DEF Turns, WriteIndicators, StageAt
  <2>2. QED
    BY <2>1 DEF HasWritten, SeenOK, At, StageAt
<1>10. CASE WriteFactors(w)
  <2>1. job'[w].pc \in {"publish", "fail", "return"} /\ job'[w].msg.stage = "fac"
    BY <1>10, TurnMoves DEF Turns, WriteFactors, StageAt
  <2>2. job[w].seen \in Inputs
    BY <1>10 DEF WriteFactors, SeenInv, SeenOK
  <2>3. factors' # None
    BY <1>10, <2>2, MergeGrows, InputsAreSomething DEF WriteFactors, TypeOK
  <2>4. QED
    BY <2>1, <2>3 DEF HasWritten, SeenOK, At, StageAt
<1>11. CASE WriteScores(w)
  <2>1. job'[w].pc \in {"publish", "fail", "return"} /\ job'[w].msg.stage = "score"
    BY <1>11, TurnMoves DEF Turns, WriteScores, StageAt
  <2>2. job[w].seen \in Inputs
    BY <1>11 DEF WriteScores, SeenInv, SeenOK
  <2>3. scores' # None
    BY <1>11, <2>2, InputsAreSomething DEF WriteScores
  <2>4. QED
    BY <2>1, <2>3 DEF HasWritten, SeenOK, At, StageAt
<1>12. QED
  BY <1>1, <1>2, <1>3, <1>4, <1>5, <1>6, <1>7, <1>8, <1>9, <1>10, <1>11 DEF WorkerStep

LEMMA SeenNext ==
    ASSUME TypeOK, SeenInv, NoPhantomEvents, Next PROVE SeenInv'
<1> SUFFICES ASSUME NEW v \in Workers
             PROVE  SeenOK(v)'
  BY DEF SeenInv
<1>1. DataGrows
  BY StepGrows
<1>2. CASE job'[v] = job[v]
  BY <1>1, <1>2, SeenStays
<1>3. CASE job'[v].pc \in {"idle", "claim"}
  BY <1>3 DEF At, SeenOK
<1>4. CASE WorkerStep(v)
  BY <1>4, SeenMoves
<1>5. StartNight \/ ReviseFundamentals => job' = job
  BY DEF StartNight, ReviseFundamentals
<1>6. ASSUME NEW w \in Workers, NEW m \in Msgs, Receive(w, m)
      PROVE  job'[v] = job[v] \/ job'[v].pc \in {"idle", "claim"}
  BY <1>6, ReceiveMoves
<1>7. ASSUME NEW w \in Workers, Crash(w)
      PROVE  job'[v] = job[v] \/ job'[v].pc \in {"idle", "claim"}
  BY <1>7, CrashMoves
<1>8. ASSUME NEW w \in Workers, WorkerStep(w), w # v PROVE job'[v] = job[v]
  BY <1>8, WorkerMovesAlone
<1>9. QED
  BY <1>2, <1>3, <1>4, <1>5, <1>6, <1>7, <1>8 DEF Next

(* Whatever was written after the trigger of the gate is late. *)
LEMMA WasReadStays ==
    ASSUME TypeOK, SeenInv, Next, Started("dq"), NEW p, NEW b, WasRead(p, b)
    PROVE  WasRead(p, b)'
<1>1. CASE UNCHANGED <<prices, bars, late>>
  BY <1>1 DEF WasRead
<1>2. ASSUME NEW w \in Workers, NEW s \in Stocks, FetchBar(w, s) PROVE WasRead(p, b)'
  <2>1. prices' = prices \cup {s} /\ late' = late \cup {s}
    BY <1>2 DEF FetchBar
  <2>2. \A t \in Stocks \ {s} : bars'[t] = bars[t]
    BY <1>2 DEF FetchBar, TypeOK
  <2>3. prices \subseteq Stocks
    BY DEF TypeOK
  <2>4. QED
    BY <2>1, <2>2, <2>3 DEF WasRead
<1>3. ASSUME NEW w \in Workers, WorkerStep(w) PROVE WasRead(p, b)'
  <2>1. CASE UNCHANGED data
    BY <1>1, <2>1 DEF data
  <2>2. CASE WriteIndicators(w) \/ WriteFactors(w) \/ WriteScores(w)
    BY <1>1, <2>2 DEF WriteIndicators, WriteFactors, WriteScores
  <2>3. QED
    BY <1>2, <1>3, <2>1, <2>2, WorkerData
<1>4. CASE StartNight \/ ReviseFundamentals
  BY <1>1, <1>4 DEF StartNight, ReviseFundamentals, data
<1>5. ASSUME NEW w \in Workers, Crash(w) \/ \E m \in Msgs : Receive(w, m)
      PROVE  WasRead(p, b)'
  BY <1>1, <1>5 DEF Crash, Receive, data
<1>6. QED
  BY <1>3, <1>4, <1>5 DEF Next

(* The worker that moves: only reading brings a gate before its verdict. *)
LEMMA GateMoves ==
    ASSUME TypeOK, SeenInv, NEW w \in Workers, WorkerStep(w),
           At(w, "publish")', StageAt(w)' = "dq"
    PROVE  WasRead(job[w].seen.inds, job[w].bars)'
<1>1. StageAt(w) = "dq"
  BY WorkerMovesAlone DEF At, StageAt
<1>2. ~WriteIndicators(w) /\ ~WriteFactors(w) /\ ~WriteScores(w) /\ ~IngestDone(w)
  BY <1>1 DEF WriteIndicators, WriteFactors, WriteScores, IngestDone
<1>3. Read(w)
  BY <1>1, <1>2, WorkerSteps, ClaimMoves, GoesIdle, FailMoves, PublishMoves, RecomputeMoves,
     TurnMoves, FetchMoves DEF At, Skip, Succeed, FirstStep, Turns
<1>4. job'[w].seen = InputOf("dq") /\ job'[w].bars = bars
  BY <1>1, <1>3, ReadMoves
<1>5. InputOf("dq").inds = prices
  BY DEF InputOf
<1>6. UNCHANGED <<prices, bars, late>>
  BY <1>3 DEF Read, data
<1>7. QED
  BY <1>4, <1>5, <1>6 DEF WasRead

LEMMA GateNext ==
    ASSUME TypeOK, SeenInv, GateInv, Next PROVE GateInv'
<1>1. ASSUME NEW v \in Workers, At(v, "publish")', StageAt(v)' = "dq"
      PROVE  WasRead(job[v].seen.inds, job[v].bars)'
  <2>1. CASE job'[v] = job[v]
    <3>1. At(v, "publish") /\ StageAt(v) = "dq"
      BY <1>1, <2>1 DEF At, StageAt
    <3>2. Started("dq")
      BY <3>1 DEF Started, Running, At
    <3>3. WasRead(job[v].seen.inds, job[v].bars)
      BY <3>1 DEF GateInv
    <3>4. DEFINE P == job[v].seen.inds
                 B == job[v].bars
    <3>5. WasRead(P, B)
      BY <3>3
    <3> HIDE DEF P, B
    <3>6. P \subseteq prices' /\ \A s \in prices' \ late' : s \in P /\ B[s] = bars'[s]
      BY <3>2, <3>5, WasReadStays DEF WasRead
    <3>7. job'[v].seen.inds = P /\ job'[v].bars = B
      BY <2>1 DEF P, B
    <3>8. QED
      BY <3>6, <3>7 DEF WasRead
  <2>2. CASE WorkerStep(v)
    BY <1>1, <2>2, GateMoves
  <2>3. StartNight \/ ReviseFundamentals => job' = job
    BY DEF StartNight, ReviseFundamentals
  <2>4. ASSUME NEW w \in Workers, NEW m \in Msgs, Receive(w, m)
        PROVE  job'[v] = job[v] \/ job'[v].pc = "claim"
    BY <2>4, ReceiveMoves
  <2>5. ASSUME NEW w \in Workers, Crash(w)
        PROVE  job'[v] = job[v] \/ job'[v].pc = "idle"
    BY <2>5, CrashMoves
  <2>6. ASSUME NEW w \in Workers, WorkerStep(w), w # v PROVE job'[v] = job[v]
    BY <2>6, WorkerMovesAlone
  <2>7. job'[v].pc = "publish"
    BY <1>1 DEF At
  <2>8. QED
    BY <2>1, <2>2, <2>3, <2>4, <2>5, <2>6, <2>7 DEF Next
<1>2. ASSUME Started("ind")'
      PROVE  /\ Started("dq")'
             /\ \E p \in SUBSET Stocks, b \in [Stocks -> Bars] :
                    GatePasses(p, b)' /\ WasRead(p, b)'
  <2>0. \A p \in SUBSET Stocks, b \in [Stocks -> Bars] : GatePasses(p, b) => GatePasses(p, b)'
    BY DEF GatePasses, EmptyCells
  <2>1. CASE Started("ind")
    <3>1. PICK p \in SUBSET Stocks, b \in [Stocks -> Bars] : GatePasses(p, b) /\ WasRead(p, b)
      BY <2>1 DEF GateInv
    <3>2. Started("dq")
      BY <2>1 DEF GateInv
    <3>3. WasRead(p, b)'
      BY <3>1, <3>2, WasReadStays
    <3>4. Started("dq")'
      BY <3>2, StartedStays DEF Stages
    <3>5. QED
      BY <2>0, <3>1, <3>3, <3>4
  <2>2. CASE ~Started("ind")
    <3>1. PICK w \in Workers : /\ WorkerStep(w) /\ PublishNext(w) /\ Started(StageAt(w))
                               /\ ~At(w, "idle") /\ "ind" = Successor[StageAt(w)]
      BY <1>2, <2>2, StartedBy DEF Stages
    <3>2. StageAt(w) = "dq"
      BY <3>1, PublishMoves DEF Successor
    <3>3. At(w, "publish") /\ GatePasses(job[w].seen.inds, job[w].bars)
      BY <3>1, <3>2 DEF PublishNext
    <3>4. WasRead(job[w].seen.inds, job[w].bars)
      BY <3>2, <3>3 DEF GateInv
    <3>5. job[w].seen.inds \in SUBSET Stocks /\ job[w].bars \in [Stocks -> Bars]
      <4>1. job[w].seen \in Inputs
        BY <3>2, <3>3 DEF SeenInv, SeenOK, HasWritten
      <4>2. QED
        BY <3>1, <4>1, BusyJob DEF Inputs
    <3>6. PICK p \in SUBSET Stocks, b \in [Stocks -> Bars] : GatePasses(p, b) /\ WasRead(p, b)
      BY <3>3, <3>4, <3>5
    <3>7. Started("dq")
      BY <3>1, <3>2
    <3>8. WasRead(p, b)'
      BY <3>6, <3>7, WasReadStays
    <3>9. Started("dq")'
      BY <3>7, StartedStays DEF Stages
    <3>10. QED
      BY <2>0, <3>6, <3>8, <3>9
  <2>3. QED
    BY <2>1, <2>2
<1>3. QED
  BY <1>1, <1>2 DEF GateInv

(* Flawed bars are late, or were before the gate. *)
LEMMA GateHolds == ASSUME TypeOK, GateInv PROVE GateGuardsIndicators
<1> SUFFICES ASSUME Started("ind"), \A s \in late : bars[s] = Whole
             PROVE  GatePasses(prices, bars)
  BY DEF GateGuardsIndicators
<1>1. PICK p \in SUBSET Stocks, b \in [Stocks -> Bars] : GatePasses(p, b) /\ WasRead(p, b)
  BY DEF GateInv
<1>2. \A s \in prices : bars[s] = Whole \/ (s \in p /\ bars[s] = b[s])
  BY <1>1 DEF WasRead
<1>3. prices \in SUBSET Stocks /\ bars \in [Stocks -> Bars] /\ p \subseteq prices
  BY <1>1 DEF TypeOK, WasRead
<1>4. QED
  BY <1>1, <1>2, <1>3, GateIsMonotone

LEMMA LateGrows == ASSUME TypeOK, SeenInv, Next PROVE late \subseteq late'
<1>1. ASSUME NEW w \in Workers, WorkerStep(w) PROVE late \subseteq late'
  <2>1. ASSUME NEW s \in Stocks, FetchBar(w, s) PROVE late \subseteq late'
    BY <2>1 DEF FetchBar
  <2>2. CASE UNCHANGED data
    BY <2>2 DEF data
  <2>3. CASE WriteIndicators(w) \/ WriteFactors(w) \/ WriteScores(w)
    BY <2>3 DEF WriteIndicators, WriteFactors, WriteScores
  <2>4. QED
    BY <1>1, <2>1, <2>2, <2>3, WorkerData
<1>2. CASE StartNight \/ ReviseFundamentals
  BY <1>2 DEF StartNight, ReviseFundamentals, data
<1>3. ASSUME NEW w \in Workers, Crash(w) \/ \E m \in Msgs : Receive(w, m)
      PROVE  late \subseteq late'
  BY <1>3 DEF Crash, Receive, data
<1>4. QED
  BY <1>1, <1>2, <1>3 DEF Next

(* What an indicator job has just read is the table. *)
LEMMA IndicatorsRead ==
    ASSUME TypeOK, SeenInv, NEW w \in Workers, WorkerStep(w),
           At(w, "commit")', StageAt(w)' = "ind"
    PROVE  /\ Started("ind") /\ UNCHANGED late
           /\ job'[w].seen.inds = prices /\ job'[w].bars = bars
<1>1. StageAt(w) = "ind" /\ ~At(w, "idle")
  BY WorkerMovesAlone, WorkerIsBusy DEF At, StageAt
<1>2. Read(w)
  BY <1>1, WorkerSteps, ClaimMoves, GoesIdle, FailMoves, PublishMoves, RecomputeMoves,
     TurnMoves, FetchMoves DEF At, Skip, Succeed, FirstStep
<1>3. job'[w].seen = InputOf("ind") /\ job'[w].bars = bars
  BY <1>1, <1>2, ReadMoves
<1>4. QED
  BY <1>1, <1>2, <1>3 DEF Started, Running, InputOf, Read, data

(* What an indicator job holds does not change, and late rows stay late; what *)
(* it reads passes the gates as long as the table does.                       *)
LEMMA ReadsGatedNext ==
    ASSUME TypeOK, SeenInv, GateInv, IndicatorsReadGatedPrices, Next
    PROVE  IndicatorsReadGatedPrices'
<1> SUFFICES ASSUME NEW v \in Workers, At(v, "commit")', StageAt(v)' = "ind"
             PROVE  \/ \E s \in late' : job'[v].bars[s] # Whole
                    \/ GatePasses(job[v].seen.inds, job[v].bars)'
  BY DEF IndicatorsReadGatedPrices
<1>1. CASE job'[v] = job[v]
  <2>1. At(v, "commit") /\ StageAt(v) = "ind"
    BY <1>1 DEF At, StageAt
  <2>2. CASE \E s \in late : job[v].bars[s] # Whole
    BY <1>1, <2>2, LateGrows
  <2>3. CASE GatePasses(job[v].seen.inds, job[v].bars)
    BY <1>1, <2>3 DEF GatePasses, EmptyCells
  <2>4. QED
    BY <2>1, <2>2, <2>3 DEF IndicatorsReadGatedPrices
<1>2. CASE WorkerStep(v)
  <2>1. /\ Started("ind") /\ UNCHANGED late
        /\ job'[v].seen.inds = prices /\ job'[v].bars = bars
    BY <1>2, IndicatorsRead
  <2>2. CASE \A s \in late : bars[s] = Whole
    <3>1. GatePasses(prices, bars)
      BY <2>1, <2>2, GateHolds DEF GateGuardsIndicators
    <3>2. QED
      BY <2>1, <3>1 DEF GatePasses, EmptyCells
  <2>3. QED
    BY <2>1, <2>2
<1>3. StartNight \/ ReviseFundamentals => job' = job
  BY DEF StartNight, ReviseFundamentals
<1>4. ASSUME NEW w \in Workers, NEW m \in Msgs, Receive(w, m)
      PROVE  job'[v] = job[v] \/ job'[v].pc = "claim"
  BY <1>4, ReceiveMoves
<1>5. ASSUME NEW w \in Workers, Crash(w)
      PROVE  job'[v] = job[v] \/ job'[v].pc = "idle"
  BY <1>5, CrashMoves
<1>6. ASSUME NEW w \in Workers, WorkerStep(w), w # v PROVE job'[v] = job[v]
  BY <1>6, WorkerMovesAlone
<1>7. QED
  BY <1>1, <1>2, <1>3, <1>4, <1>5, <1>6 DEF Next, At

LEMMA PhantomNext ==
    ASSUME TypeOK, SeenInv, NoPhantomEvents, Next PROVE NoPhantomEvents'
<1>1. DataGrows
  BY StepGrows
<1>2. ASSUME Started("score")' PROVE factors' # None
  <2>1. CASE Started("score")
    BY <1>1, <2>1 DEF DataGrows, NoPhantomEvents
  <2>2. CASE ~Started("score")
    <3>1. PICK w \in Workers : PublishNext(w) /\ "score" = Successor[StageAt(w)]
      BY <1>2, <2>2, StartedBy DEF Stages
    <3>2. StageAt(w) = "fac" /\ At(w, "publish")
      BY <3>1, PublishMoves DEF Successor, PublishNext
    <3>3. QED
      BY <1>1, <3>2 DEF DataGrows, SeenInv, SeenOK, HasWritten
  <2>3. QED
    BY <2>1, <2>2
<1>3. ASSUME Started("alerts")' PROVE scores' # None
  <2>1. CASE Started("alerts")
    BY <1>1, <2>1 DEF DataGrows, NoPhantomEvents
  <2>2. CASE ~Started("alerts")
    <3>1. PICK w \in Workers : PublishNext(w) /\ "alerts" = Successor[StageAt(w)]
      BY <1>3, <2>2, StartedBy DEF Stages
    <3>2. StageAt(w) = "score" /\ At(w, "publish")
      BY <3>1, PublishMoves DEF Successor, PublishNext
    <3>3. QED
      BY <1>1, <3>2 DEF DataGrows, SeenInv, SeenOK, HasWritten
  <2>3. QED
    BY <2>1, <2>2
<1>4. QED
  BY <1>2, <1>3 DEF NoPhantomEvents

LEMMA LineageNext ==
    ASSUME TypeOK, SeenInv, ScoresHaveFactors, LineageExists, Next
    PROVE  ScoresHaveFactors' /\ LineageExists'
<1>1. DataGrows /\ factors \in Inputs \cup {None}
  BY StepGrows DEF TypeOK
<1>2. CASE UNCHANGED <<prices, indicators, factors, scores>>
  BY <1>2 DEF ScoresHaveFactors, LineageExists
<1>3. ASSUME NEW w \in Workers, WorkerStep(w)
      PROVE  ScoresHaveFactors' /\ LineageExists'
  <2>1. CASE UNCHANGED data
    BY <1>2, <2>1 DEF data
  <2>2. ASSUME NEW s \in Stocks, FetchBar(w, s) PROVE ScoresHaveFactors' /\ LineageExists'
    BY <2>2 DEF FetchBar, ScoresHaveFactors, LineageExists
  <2>3. CASE WriteIndicators(w)
    BY <2>3 DEF WriteIndicators, ScoresHaveFactors, LineageExists
  <2>4. CASE WriteFactors(w)
    <3>1. job[w].seen \in Inputs /\ job[w].seen.inds \subseteq indicators
      BY <2>4 DEF WriteFactors, SeenInv, SeenOK, ReadsCommitted
    <3>2. factors' = Merge(factors, job[w].seen) /\ UNCHANGED <<indicators, scores>>
      BY <2>4 DEF WriteFactors
    <3>3. factors' # None /\ factors'.inds \subseteq indicators
      <4>1. CASE factors = None
        BY <1>1, <3>1, <3>2, <4>1, MergeGrows, InputsAreSomething
      <4>2. CASE factors # None
        <5>1. factors.inds \subseteq indicators
          BY <4>2 DEF LineageExists
        <5>2. /\ Merge(factors, job[w].seen) \in Inputs
              /\ Merge(factors, job[w].seen).inds = job[w].seen.inds \cup factors.inds
          BY <1>1, <3>1, <4>2, MergeGrows
        <5>3. QED
          BY <3>1, <3>2, <5>1, <5>2, InputsAreSomething
      <4>3. QED
        BY <4>1, <4>2
    <3>4. QED
      BY <1>1, <3>2, <3>3 DEF DataGrows, ScoresHaveFactors, LineageExists
  <2>5. CASE WriteScores(w)
    <3>1. /\ job[w].seen \in Inputs
          /\ factors # None /\ job[w].seen.inds \subseteq factors.inds
      BY <2>5 DEF WriteScores, SeenInv, SeenOK, ReadsCommitted
    <3>2. scores' = job[w].seen /\ UNCHANGED <<indicators, factors>>
      BY <2>5, <3>1, InputsAreSomething DEF WriteScores
    <3>3. QED
      BY <3>1, <3>2 DEF ScoresHaveFactors, LineageExists
  <2>6. QED
    BY <1>3, <2>1, <2>2, <2>3, <2>4, <2>5, WorkerData
<1>4. QED
  BY <1>2, <1>3 DEF Next, StartNight, ReviseFundamentals, Receive, Crash, data

-----------------------------------------------------------------------------
LEMMA ChainInit == Init => ChainInv
<1> SUFFICES ASSUME Init PROVE ChainInv
  OBVIOUS
<1>1. \A s \in Stages : ~Started(s)
  BY DEF Init, Started, Running, At, Idle
<1>2. SeenInv
  BY DEF Init, SeenInv, SeenOK, At, Idle
<1>3. RevisionsAreCounted
  BY BoundNames DEF Init, RevisionsAreCounted
<1>4. ScoresHaveFactors /\ LineageExists
  BY DEF Init, ScoresHaveFactors, LineageExists
<1>5. GateInv /\ NoPhantomEvents /\ IndicatorsReadGatedPrices
  BY <1>1 DEF Init, GateInv, NoPhantomEvents, IndicatorsReadGatedPrices, Stages, At, Idle
<1>6. QED
  BY <1>2, <1>3, <1>4, <1>5, TypeInit DEF ChainInv

LEMMA ChainNext == ChainInv /\ [Next]_vars => ChainInv'
<1> SUFFICES ASSUME ChainInv, [Next]_vars PROVE ChainInv'
  OBVIOUS
<1>1. TypeOK' /\ RevisionsAreCounted'
  BY TypeNext, RevisionsNext DEF ChainInv
<1>2. CASE Next
  BY <1>1, <1>2, SeenNext, LineageNext, GateNext, ReadsGatedNext, PhantomNext DEF ChainInv
<1>3. CASE UNCHANGED vars
  <2>1. SeenInv'
    BY <1>3 DEF vars, data, ChainInv, SeenInv, SeenOK, At, StageAt, ReadsCommitted, HasWritten
  <2>2. ScoresHaveFactors' /\ LineageExists'
    BY <1>3 DEF vars, data, ChainInv, ScoresHaveFactors, LineageExists
  <2>3. NoPhantomEvents'
    BY <1>3 DEF vars, data, ChainInv, NoPhantomEvents, Started, Running, At, StageAt
  <2>4. GateInv'
    <3>1. \A p, b : (GatePasses(p, b) => GatePasses(p, b)') /\ (WasRead(p, b) => WasRead(p, b)')
      BY <1>3 DEF vars, data, GatePasses, EmptyCells, WasRead
    <3>2. Started("dq")' = Started("dq") /\ Started("ind")' = Started("ind") /\ job' = job
      BY <1>3 DEF vars, Started, Running, At, StageAt
    <3>3. \A w \in Workers : At(w, "publish")' /\ StageAt(w)' = "dq"
              => WasRead(job[w].seen.inds, job[w].bars)'
      <4>1. ASSUME NEW w \in Workers, At(w, "publish")', StageAt(w)' = "dq"
            PROVE  WasRead(job[w].seen.inds, job[w].bars)'
        BY <1>3, <4>1 DEF vars, data, ChainInv, GateInv, WasRead, At, StageAt
      <4>2. QED
        BY <4>1
    <3>4. QED
      BY <3>1, <3>2, <3>3 DEF ChainInv, GateInv
  <2>5. IndicatorsReadGatedPrices'
    BY <1>3 DEF vars, data, ChainInv, IndicatorsReadGatedPrices, At, StageAt, GatePasses,
       EmptyCells
  <2>6. QED
    BY <1>1, <2>1, <2>2, <2>3, <2>4, <2>5 DEF ChainInv
<1>4. QED
  BY <1>2, <1>3

(* The invariant of the order of the chain holds in every reachable state. *)
THEOREM ChainInvHolds == Spec => []ChainInv
BY ChainInit, ChainNext, PTL DEF Spec

(* However tasks are redelivered, retried, overlapped or lost, and whatever  *)
(* bars the provider returns: once an indicator job exists, the rows in the  *)
(* database, and those such a job has read, pass all four gates unless one   *)
(* of them is a flawed bar that came after the gate's trigger; a triggered   *)
(* job finds the data its event announces, and every snapshot is made of     *)
(* rows that exist (on_prices_ingested .. on_scores_computed and the jobs    *)
(* between them).                                                            *)
THEOREM ChainIsAlwaysOrdered == Spec => []ChainIsOrdered
<1>1. ChainInv => ChainIsOrdered
  BY GateHolds DEF ChainInv, ChainIsOrdered
<1>2. QED
  BY <1>1, ChainInvHolds, PTL

-----------------------------------------------------------------------------
(* A night without a late price or a correction: what a stage needs of every *)
(* traded stock is in the database before the stage starts.                  *)

Needs(s) ==
    /\ s # "recompute"
    /\ s \in {"dq", "ind"} => Traded \subseteq prices
    /\ s = "fac" => Traded \subseteq indicators
    /\ s = "score" => factors # None /\ Traded \subseteq factors.inds
    /\ s = "alerts" => scores # None /\ Traded \subseteq scores.inds

CoverOK(w) ==
    /\ At(w, "work") /\ StageAt(w) = "prices" => Traded \ job[w].todo \subseteq prices
    /\ At(w, "commit") => Traded \subseteq job[w].seen.inds
    /\ At(w, "publish") /\ StageAt(w) \in DOMAIN Successor => Needs(Successor[StageAt(w)])

NoSurprise == used["fetch"] = 0 /\ used["revision"] = 0

CoverInv ==
    /\ prices \subseteq Traded
    /\ NoSurprise => /\ \A s \in Stages : Started(s) => Needs(s)
                     /\ \A w \in Workers : CoverOK(w)

(* A night without a lost trigger or an exhausted task: a stage that is over *)
(* has left its successor queued, running or over.                           *)
Live(s) ==
    \/ row[s] = "succeeded"
    \/ \E m \in Msgs : m.stage = s /\ queue[m] > 0
    \/ Running(s) # {}

Done(s) == row[s] = "succeeded" \/ \E w \in Workers : At(w, "return") /\ StageAt(w) = s

LiveInv ==
    Undisturbed =>
        /\ NightStarted => Live("prices")
        /\ \A s \in DOMAIN Successor : Done(s) => Live(Successor[s])

NightInv == ChainInv /\ CoverInv /\ LiveInv

LEMMA SpendsUp ==
    ASSUME TypeOK, Next
    PROVE  /\ \A b \in DOMAIN Bounds : used'[b] >= used[b]
           /\ \A b \in DOMAIN Bounds : used[b] \in Nat
<1>1. \A b \in DOMAIN Bounds : used[b] \in Nat
  BY BoundsType DEF TypeOK
<1>2. CASE UNCHANGED used
  BY <1>1, <1>2
<1>3. ASSUME NEW b \in DOMAIN Bounds, Spend(b)
      PROVE  \A c \in DOMAIN Bounds : used'[c] >= used[c]
  BY <1>1, <1>3, SpendType
<1>4. StartNight => Spend("nightly")
  BY DEF StartNight
<1>5. ReviseFundamentals => Spend("revision")
  BY DEF ReviseFundamentals
<1>6. \A w \in Workers : Crash(w) => Spend("crash")
  BY DEF Crash
<1>7. \A w \in Workers, m \in Msgs : Receive(w, m) => UNCHANGED used
  BY DEF Receive
<1>8. QED
  BY <1>1, <1>2, <1>3, <1>4, <1>5, <1>6, <1>7, BoundNames, WorkerSpends DEF Next

LEMMA QuietBefore ==
    ASSUME TypeOK, Next
    PROVE  /\ NoSurprise' => NoSurprise
           /\ NoSurprise' => used'["fetch"] = used["fetch"] /\ ~ReviseFundamentals
           /\ used'["lost"] = 0 => used["lost"] = 0 /\ ~Spend("lost")
<1>1. NoSurprise' => NoSurprise
  BY SpendsUp, BoundNames DEF NoSurprise
<1>2. NoSurprise' => used'["fetch"] = used["fetch"]
  BY <1>1 DEF NoSurprise
<1>3. ReviseFundamentals => used'["revision"] # 0
  BY SpendType, SpendsUp, BoundNames DEF ReviseFundamentals
<1>4. Spend("lost") => used'["lost"] # 0
  BY SpendType, SpendsUp, BoundNames
<1>5. used'["lost"] = 0 => used["lost"] = 0
  BY SpendsUp, BoundNames
<1>6. QED
  BY <1>1, <1>2, <1>3, <1>4, <1>5 DEF NoSurprise

(* A score set is replaced whole, by one that covers as much. *)
LEMMA ScoresStayCovered ==
    ASSUME TypeOK, SeenInv, \A w \in Workers : CoverOK(w), Next
    PROVE  scores' = scores \/ (scores' # None /\ Traded \subseteq scores'.inds)
<1>1. ASSUME NEW w \in Workers, WriteScores(w)
      PROVE  scores' # None /\ Traded \subseteq scores'.inds
  <2>1. At(w, "commit") /\ job[w].seen \in Inputs
    BY <1>1 DEF WriteScores, SeenInv, SeenOK
  <2>2. scores' = job[w].seen
    BY <1>1, <2>1, InputsAreSomething DEF WriteScores
  <2>3. QED
    BY <2>1, <2>2, InputsAreSomething DEF CoverOK
<1>2. ASSUME NEW w \in Workers, WorkerStep(w), ~WriteScores(w) PROVE scores' = scores
  BY <1>2, WorkerData DEF data, FetchBar, WriteIndicators, WriteFactors
<1>3. QED
  BY <1>1, <1>2 DEF Next, StartNight, ReviseFundamentals, Receive, Crash, data

LEMMA NeedsStay ==
    ASSUME DataGrows, scores' = scores \/ (scores' # None /\ Traded \subseteq scores'.inds),
           NEW s \in Stages, Needs(s)
    PROVE  Needs(s)'
BY DEF DataGrows, Needs

LEMMA SuccessorStage ==
    /\ DOMAIN Successor = {"prices", "dq", "ind", "fac", "score"}
    /\ \A s \in DOMAIN Successor : s \in Stages /\ Successor[s] \in Stages
    /\ Successor["prices"] = "dq" /\ Successor["dq"] = "ind" /\ Successor["ind"] = "fac"
    /\ Successor["fac"] = "score" /\ Successor["score"] = "alerts"
BY DEF Successor, Stages

LEMMA ReachedNext ==
    ASSUME ChainInv, CoverInv, NoSurprise', Next, NEW s \in Stages, Started(s)'
    PROVE  Needs(s)'
<1>1. TypeOK /\ SeenInv
  BY DEF ChainInv
<1>2. NoSurprise /\ ~ReviseFundamentals
  BY <1>1, QuietBefore
<1>3. /\ \A t \in Stages : Started(t) => Needs(t)
      /\ \A w \in Workers : CoverOK(w)
  BY <1>2 DEF CoverInv
<1>4. /\ DataGrows
      /\ scores' = scores \/ (scores' # None /\ Traded \subseteq scores'.inds)
  BY <1>1, <1>3, StepGrows, ScoresStayCovered
<1>5. CASE Started(s)
  BY <1>3, <1>4, <1>5, NeedsStay
<1>6. CASE ~Started(s) /\ StartNight /\ s = "prices"
  BY <1>6 DEF Needs
<1>7. ASSUME NEW w \in Workers, PublishNext(w), s = Successor[StageAt(w)]
      PROVE  Needs(s)'
  <2>1. At(w, "publish") /\ StageAt(w) \in DOMAIN Successor
    BY <1>7 DEF PublishNext
  <2>2. Needs(s)
    BY <1>3, <1>7, <2>1 DEF CoverOK
  <2>3. QED
    BY <1>4, <2>2, NeedsStay
<1>8. ASSUME NEW w \in Workers, RecomputeFactors(w), Started(StageAt(w)), ~At(w, "idle")
      PROVE  FALSE
  BY <1>1, <1>3, <1>8, BusyJob DEF RecomputeFactors, Needs
<1>9. QED
  BY <1>1, <1>2, <1>5, <1>6, <1>7, <1>8, StartedBy

LEMMA CoverStays ==
    ASSUME DataGrows, scores' = scores \/ (scores' # None /\ Traded \subseteq scores'.inds),
           NEW w \in Workers, CoverOK(w), job'[w] = job[w]
    PROVE  CoverOK(w)'
<1>1. At(w, "publish")' /\ StageAt(w)' \in DOMAIN Successor => Needs(Successor[StageAt(w)])'
  <2> SUFFICES ASSUME At(w, "publish")', StageAt(w)' \in DOMAIN Successor
               PROVE  Needs(Successor[StageAt(w)])'
    OBVIOUS
  <2>1. StageAt(w)' = StageAt(w) /\ Successor[StageAt(w)] \in Stages
    BY SuccessorStage DEF StageAt
  <2>2. Needs(Successor[StageAt(w)])
    BY <2>1 DEF CoverOK, At
  <2>3. QED
    BY <2>1, <2>2, NeedsStay DEF Needs
<1>2. QED
  BY <1>1 DEF CoverOK, At, StageAt, DataGrows

LEMMA CoverMoves ==
    ASSUME ChainInv, CoverInv, NoSurprise', NEW w \in Workers, WorkerStep(w)
    PROVE  CoverOK(w)'
<1>1. TypeOK /\ SeenInv /\ NoPhantomEvents
  BY DEF ChainInv
<1>2. NoSurprise /\ used'["fetch"] = used["fetch"]
  BY <1>1, QuietBefore DEF Next
<1>3. /\ \A s \in Stages : Started(s) => Needs(s)
      /\ CoverOK(w)
  BY <1>2 DEF CoverInv
<1>4. ~At(w, "idle") /\ StageAt(w) \in Stages /\ Started(StageAt(w))
  BY <1>1, WorkerIsBusy, BusyJob DEF Started, Running
<1>5. Needs(StageAt(w))
  BY <1>3, <1>4
<1>6. CASE Claim(w)
  <2>1. /\ job'[w].pc = FirstStep(StageAt(w)) /\ StageAt(w)' = StageAt(w)
        /\ StageAt(w) = "prices" => job'[w].todo = Stocks
    BY <1>1, <1>6, ClaimMoves DEF StageAt
  <2>2. job'[w].pc = "work"
    BY <1>5, <2>1 DEF FirstStep, Needs
  <2>3. QED
    BY <2>1, <2>2, UniverseAssumption DEF CoverOK, At
<1>7. CASE Skip(w) \/ Succeed(w) \/ Fail(w)
  <2>1. job'[w].pc = "idle"
    BY <1>1, <1>7, GoesIdle, FailMoves DEF Skip, Succeed
  <2>2. QED
    BY <2>1 DEF CoverOK, At
<1>8. CASE Read(w)
  <2>1. /\ job'[w].pc = AfterRead(StageAt(w)) /\ StageAt(w)' = StageAt(w)
        /\ job'[w].seen = InputOf(StageAt(w))
        /\ StageAt(w) \in {"dq", "ind", "fac", "score", "alerts"}
    BY <1>1, <1>8, ReadMoves DEF StageAt
  <2>2. UNCHANGED <<prices, indicators, factors, scores>>
    BY <1>8 DEF Read, data
  <2>3. CASE StageAt(w) = "dq"
    <3>1. job'[w].pc = "publish" /\ Traded \subseteq prices'
      BY <1>5, <2>1, <2>2, <2>3 DEF AfterRead, Needs
    <3>2. Needs("ind")'
      BY <3>1 DEF Needs
    <3>3. QED
      BY <2>1, <2>3, <3>1, <3>2, SuccessorStage DEF CoverOK, At
  <2>4. CASE StageAt(w) \in {"ind", "fac", "score"}
    <3>1. job'[w].pc = "commit" /\ Traded \subseteq job'[w].seen.inds
      BY <1>5, <2>1, <2>4 DEF AfterRead, Needs, InputOf
    <3>2. QED
      BY <3>1 DEF CoverOK, At
  <2>5. CASE StageAt(w) = "alerts"
    BY <2>1, <2>5, SuccessorStage DEF CoverOK, At, AfterRead
  <2>6. QED
    BY <2>1, <2>3, <2>4, <2>5
<1>9. CASE PublishNext(w)
  BY <1>1, <1>9, PublishMoves DEF CoverOK, At
<1>10. CASE RecomputeFactors(w)
  BY <1>1, <1>10, RecomputeMoves DEF CoverOK, At
<1>11. ASSUME NEW s \in Stocks, FetchBar(w, s) \/ FetchNothing(w, s) \/ FetchFails(w, s)
       PROVE  CoverOK(w)'
  <2>1. /\ job'[w].pc = "work" /\ At(w, "work") /\ StageAt(w) = "prices"
        /\ StageAt(w)' = StageAt(w) /\ job'[w].todo = job[w].todo \ {s}
    BY <1>1, <1>11, FetchMoves DEF StageAt, At
  <2>2. Traded \ job[w].todo \subseteq prices
    BY <1>3, <2>1 DEF CoverOK
  <2>3. ~Spend("fetch")
    BY <1>1, <1>2, SpendType, SpendsUp, BoundNames DEF Next
  <2>4. (FetchBar(w, s) /\ prices' = prices \cup {s}) \/ (s \notin Traded /\ prices' = prices)
    BY <1>11, <2>3 DEF FetchBar, FetchNothing, FetchFails, data
  <2>5. Traded \ job'[w].todo \subseteq prices'
    BY <2>1, <2>2, <2>4
  <2>6. QED
    BY <2>1, <2>5 DEF CoverOK, At
<1>12. CASE WorkRaises(w) \/ GateFails(w) \/ AlertsDone(w)
  BY <1>1, <1>12, TurnMoves DEF Turns, CoverOK, At
<1>13. CASE IngestDone(w)
  <2>1. job'[w].pc \in {"publish", "fail", "return"} /\ StageAt(w)' = "prices"
    BY <1>1, <1>13, TurnMoves DEF Turns, IngestDone, StageAt
  <2>2. Traded \subseteq prices /\ prices' = prices
    BY <1>3, <1>13 DEF IngestDone, CoverOK, data
  <2>3. Needs("dq")'
    BY <2>2 DEF Needs
  <2>4. QED
    BY <2>1, <2>3, SuccessorStage DEF CoverOK, At
<1>14. CASE WriteIndicators(w)
  <2>1. job'[w].pc \in {"publish", "fail", "return"} /\ StageAt(w)' = "ind"
    BY <1>1, <1>14, TurnMoves DEF Turns, WriteIndicators, StageAt
  <2>2. Traded \subseteq indicators'
    BY <1>3, <1>14 DEF WriteIndicators, CoverOK
  <2>3. Needs("fac")'
    BY <2>2 DEF Needs
  <2>4. QED
    BY <2>1, <2>3, SuccessorStage DEF CoverOK, At
<1>15. CASE WriteFactors(w)
  <2>1. job'[w].pc \in {"publish", "fail", "return"} /\ StageAt(w)' = "fac"
    BY <1>1, <1>15, TurnMoves DEF Turns, WriteFactors, StageAt
  <2>2. job[w].seen \in Inputs /\ Traded \subseteq job[w].seen.inds
    BY <1>1, <1>3, <1>15 DEF WriteFactors, SeenInv, SeenOK, CoverOK
  <2>3. factors' # None /\ Traded \subseteq factors'.inds
    BY <1>1, <1>15, <2>2, MergeGrows, InputsAreSomething DEF WriteFactors, TypeOK
  <2>4. Needs("score")'
    BY <2>3 DEF Needs
  <2>5. QED
    BY <2>1, <2>4, SuccessorStage DEF CoverOK, At
<1>16. CASE WriteScores(w)
  <2>1. job'[w].pc \in {"publish", "fail", "return"} /\ StageAt(w)' = "score"
    BY <1>1, <1>16, TurnMoves DEF Turns, WriteScores, StageAt
  <2>2. job[w].seen \in Inputs /\ Traded \subseteq job[w].seen.inds
    BY <1>1, <1>3, <1>16 DEF WriteScores, SeenInv, SeenOK, CoverOK
  <2>3. scores' # None /\ Traded \subseteq scores'.inds
    BY <1>16, <2>2, InputsAreSomething DEF WriteScores
  <2>4. Needs("alerts")'
    BY <2>3 DEF Needs
  <2>5. QED
    BY <2>1, <2>4, SuccessorStage DEF CoverOK, At
<1>17. QED
  BY <1>6, <1>7, <1>8, <1>9, <1>10, <1>11, <1>12, <1>13, <1>14, <1>15, <1>16 DEF WorkerStep

LEMMA CoverNext == ASSUME ChainInv, CoverInv, Next PROVE CoverInv'
<1>1. TypeOK /\ SeenInv
  BY DEF ChainInv
<1>2. prices' \subseteq Traded
  <2>1. ASSUME NEW w \in Workers, WorkerStep(w) PROVE prices' \subseteq Traded
    BY <1>1, <2>1, WorkerData DEF data, FetchBar, WriteIndicators, WriteFactors, WriteScores,
       CoverInv
  <2>2. QED
    BY <2>1 DEF Next, StartNight, ReviseFundamentals, Receive, Crash, data, CoverInv
<1>3. ASSUME NoSurprise' PROVE \A s \in Stages : Started(s)' => Needs(s)'
  BY <1>3, ReachedNext
<1>4. ASSUME NoSurprise', NEW v \in Workers PROVE CoverOK(v)'
  <2>1. NoSurprise
    BY <1>1, <1>4, QuietBefore
  <2>2. \A w \in Workers : CoverOK(w)
    BY <2>1 DEF CoverInv
  <2>3. /\ DataGrows
        /\ scores' = scores \/ (scores' # None /\ Traded \subseteq scores'.inds)
    BY <1>1, <2>2, StepGrows, ScoresStayCovered
  <2>4. CASE job'[v] = job[v]
    BY <2>2, <2>3, <2>4, CoverStays
  <2>5. CASE job'[v].pc \in {"idle", "claim"}
    BY <2>5 DEF CoverOK, At
  <2>6. CASE WorkerStep(v)
    BY <1>4, <2>6, CoverMoves
  <2>7. StartNight \/ ReviseFundamentals => job' = job
    BY DEF StartNight, ReviseFundamentals
  <2>8. ASSUME NEW w \in Workers, NEW m \in Msgs, Receive(w, m)
        PROVE  job'[v] = job[v] \/ job'[v].pc \in {"idle", "claim"}
    BY <1>1, <2>8, ReceiveMoves
  <2>9. ASSUME NEW w \in Workers, Crash(w)
        PROVE  job'[v] = job[v] \/ job'[v].pc \in {"idle", "claim"}
    BY <1>1, <2>9, CrashMoves
  <2>10. ASSUME NEW w \in Workers, WorkerStep(w), w # v PROVE job'[v] = job[v]
    BY <1>1, <2>10, WorkerMovesAlone
  <2>11. QED
    BY <2>4, <2>5, <2>6, <2>7, <2>8, <2>9, <2>10 DEF Next
<1>5. QED
  BY <1>2, <1>3, <1>4 DEF CoverInv

-----------------------------------------------------------------------------
(* Work is not lost: a stage leaves Live only by giving up. *)
LEMMA LiveStays ==
    ASSUME TypeOK, SeenInv, Next, NEW s \in Stages, Live(s), s \notin gaveUp'
    PROVE  Live(s)'
<1>1. CASE StartNight \/ ReviseFundamentals
  <2>1. \A m \in Msgs : queue[m] > 0 => queue'[m] > 0
    BY <1>1, FreshMsg, PutAdds DEF StartNight, ReviseFundamentals, Enqueue, Stages
  <2>2. job' = job /\ row' = row
    BY <1>1 DEF StartNight, ReviseFundamentals
  <2>3. QED
    BY <2>1, <2>2 DEF Live, Running, At, StageAt
<1>2. ASSUME NEW w \in Workers, NEW m \in Msgs, Receive(w, m) PROVE Live(s)'
  <2>1. /\ row' = row /\ At(w, "idle") /\ job'[w].pc = "claim" /\ job'[w].msg = m
        /\ \A v \in Workers \ {w} : job'[v] = job[v]
        /\ \A n \in Msgs : n # m => queue'[n] = queue[n]
    BY <1>2, ReceiveMoves DEF Receive
  <2>2. Running(s) \subseteq Running(s)'
    BY <2>1 DEF Running, At, StageAt
  <2>3. m.stage = s => w \in Running(s)'
    BY <2>1 DEF Running, At, StageAt
  <2>4. QED
    BY <2>1, <2>2, <2>3 DEF Live
<1>3. ASSUME NEW w \in Workers, Crash(w) PROVE Live(s)'
  <2>1. /\ row' = row /\ \A v \in Workers \ {w} : job'[v] = job[v]
        /\ \A n \in Msgs : queue[n] > 0 => queue'[n] > 0
        /\ job[w].msg \in Msgs /\ queue'[job[w].msg] > 0
    BY <1>3, CrashMoves DEF Crash
  <2>2. \A v \in Workers \ {w} : v \in Running(s) => v \in Running(s)'
    BY <2>1 DEF Running, At, StageAt
  <2>3. w \in Running(s) => job[w].msg.stage = s
    BY DEF Running, StageAt
  <2>4. QED
    BY <2>1, <2>2, <2>3 DEF Live, Running
<1>4. ASSUME NEW w \in Workers, WorkerStep(w) PROVE Live(s)'
  <2>1. \A m \in Msgs : queue[m] > 0 => queue'[m] > 0
    <3>1. CASE Fail(w)
      BY <3>1, FailMoves
    <3>2. CASE PublishNext(w)
      BY <3>2, PublishMoves
    <3>3. CASE RecomputeFactors(w)
      BY <3>3, RecomputeMoves
    <3>4. CASE ~Fail(w) /\ ~PublishNext(w) /\ ~RecomputeFactors(w)
      BY <1>4, <3>4 DEF WorkerStep, Claim, Skip, Succeed, FetchBar, FetchNothing, FetchFails,
         IngestDone, Read, WriteIndicators, WriteFactors, WriteScores, GateFails, AlertsDone,
         WorkRaises
    <3>5. QED
      BY <3>1, <3>2, <3>3, <3>4
  <2>2. \A v \in Workers \ {w} : job'[v] = job[v]
    BY <1>4, WorkerMovesAlone
  <2>3. \A v \in Workers \ {w} : v \in Running(s) => v \in Running(s)'
    BY <2>2 DEF Running, At, StageAt
  <2>4. CASE StageAt(w) # s
    <3>1. row'[s] = row[s]
      BY <1>4, <2>4, RowOfOwnStage
    <3>2. w \notin Running(s)
      BY <2>4 DEF Running
    <3>3. QED
      BY <2>1, <2>3, <3>1, <3>2 DEF Live, Running
  <2>5. CASE StageAt(w) = s
    <3>1. CASE Fail(w)
      <4>1. \E m \in Msgs : m.stage = s /\ queue'[m] > 0
        BY <2>5, <3>1, FailMoves
      <4>2. QED
        BY <4>1 DEF Live
    <3>2. CASE Succeed(w)
      BY <2>5, <3>2 DEF Succeed, Live, TypeOK
    <3>3. CASE Skip(w)
      BY <2>5, <3>3 DEF Skip, Live
    <3>4. CASE ~Fail(w) /\ ~Succeed(w) /\ ~Skip(w)
      <4>1. job'[w].pc # "idle" /\ job'[w].msg = job[w].msg
        BY <1>4, <3>4, WorkerSteps, ClaimMoves, ReadMoves, PublishMoves, RecomputeMoves,
           TurnMoves, FetchMoves DEF FirstStep, AfterRead
      <4>2. w \in Running(s)'
        BY <2>5, <4>1 DEF Running, At, StageAt
      <4>3. QED
        BY <4>2 DEF Live
    <3>5. QED
      BY <3>1, <3>2, <3>3, <3>4
  <2>6. QED
    BY <2>4, <2>5
<1>5. QED
  BY <1>1, <1>2, <1>3, <1>4 DEF Next

(* A stage that triggers another is over only after it announced. *)
LEMMA DoneBy ==
    ASSUME TypeOK, SeenInv, Next, NEW s \in DOMAIN Successor, Done(s)', ~Done(s)
    PROVE  \E w \in Workers : PublishNext(w) /\ StageAt(w) = s
<1>1. s \in Stages /\ s \notin {"alerts", "recompute"}
  BY SuccessorStage
<1>2. CASE StartNight \/ ReviseFundamentals
  BY <1>2 DEF StartNight, ReviseFundamentals, Done, At, StageAt
<1>3. ASSUME NEW w \in Workers, NEW m \in Msgs, Receive(w, m) PROVE FALSE
  <2>1. /\ row' = row /\ job'[w].pc = "claim"
        /\ \A v \in Workers \ {w} : job'[v] = job[v]
    BY <1>3, ReceiveMoves DEF Receive
  <2>2. QED
    BY <2>1 DEF Done, At, StageAt
<1>4. ASSUME NEW w \in Workers, Crash(w) PROVE FALSE
  <2>1. /\ row' = row /\ job'[w].pc = "idle"
        /\ \A v \in Workers \ {w} : job'[v] = job[v]
    BY <1>4, CrashMoves DEF Crash
  <2>2. QED
    BY <2>1 DEF Done, At, StageAt
<1>5. ASSUME NEW w \in Workers, WorkerStep(w) PROVE PublishNext(w) /\ StageAt(w) = s
  <2>1. \A v \in Workers \ {w} : job'[v] = job[v]
    BY <1>5, WorkerMovesAlone
  <2>2. CASE row'[s] = "succeeded"
    <3>1. row[s] # "succeeded" /\ StageAt(w) = s
      BY <1>1, <1>5, <2>2, RowOfOwnStage DEF Done
    <3>2. Succeed(w)
      BY <1>1, <1>5, <2>2, <3>1 DEF WorkerStep, Claim, Skip, Fail, FetchBar, FetchNothing,
         FetchFails, IngestDone, Read, WriteIndicators, WriteFactors, WriteScores,
         PublishNext, GateFails, AlertsDone, RecomputeFactors, WorkRaises, TypeOK
    <3>3. QED
      BY <3>1, <3>2 DEF Succeed, Done
  <2>3. CASE row'[s] # "succeeded"
    <3>1. job'[w].pc = "return" /\ job'[w].msg.stage = s
      BY <2>1, <2>3 DEF Done, At, StageAt
    <3>2. StageAt(w) = s
      BY <1>5, <3>1, WorkerMovesAlone DEF StageAt
    <3>3. ~AlertsDone(w) /\ ~RecomputeFactors(w)
      BY <1>1, <3>2 DEF AlertsDone, RecomputeFactors
    <3>4. PublishNext(w)
      BY <1>5, <3>1, <3>3, WorkerSteps, ClaimMoves, GoesIdle, FailMoves, ReadMoves,
         TurnMoves, FetchMoves DEF Skip, Succeed, FirstStep, AfterRead
    <3>5. QED
      BY <3>2, <3>4
  <2>4. QED
    BY <2>2, <2>3
<1>6. QED
  BY <1>2, <1>3, <1>4, <1>5 DEF Next

LEMMA GaveUpGrows == ASSUME TypeOK, Next PROVE gaveUp \subseteq gaveUp'
<1>1. \A w \in Workers : Fail(w) => gaveUp \subseteq gaveUp'
  BY DEF Fail
<1>2. \A w \in Workers, s \in Stocks :
          FetchBar(w, s) \/ FetchNothing(w, s) \/ FetchFails(w, s) => gaveUp' = gaveUp
  BY Zenon DEF FetchBar, FetchNothing, FetchFails
<1>3. \A w \in Workers :
          \/ Claim(w) \/ Skip(w) \/ Succeed(w) \/ IngestDone(w)
          \/ Read(w) \/ WriteIndicators(w) \/ WriteFactors(w) \/ WriteScores(w)
          => gaveUp' = gaveUp
  BY DEF Claim, Skip, Succeed, IngestDone, Read, WriteIndicators, WriteFactors, WriteScores
<1>4. \A w \in Workers :
          \/ PublishNext(w) \/ GateFails(w) \/ AlertsDone(w) \/ RecomputeFactors(w)
          \/ WorkRaises(w) \/ Crash(w)
          => gaveUp' = gaveUp
  BY DEF PublishNext, GateFails, AlertsDone, RecomputeFactors, WorkRaises, Crash
<1>5. \A w \in Workers : WorkerStep(w) => gaveUp \subseteq gaveUp'
  BY <1>1, <1>2, <1>3, <1>4 DEF WorkerStep
<1>6. StartNight \/ ReviseFundamentals \/ (\E w \in Workers, m \in Msgs : Receive(w, m))
      => gaveUp' = gaveUp
  BY DEF StartNight, ReviseFundamentals, Receive
<1>7. QED
  BY <1>4, <1>5, <1>6 DEF Next

LEMMA LiveNext == ASSUME ChainInv, LiveInv, Next PROVE LiveInv'
<1> SUFFICES ASSUME Undisturbed'
             PROVE  /\ NightStarted' => Live("prices")'
                    /\ \A s \in DOMAIN Successor : Done(s)' => Live(Successor[s])'
  BY SuccessorStage DEF LiveInv, Live, Running, At, StageAt
<1>1. TypeOK /\ SeenInv
  BY DEF ChainInv
<1>2. gaveUp' = {} /\ used'["lost"] = 0
  BY DEF Undisturbed
<1>3. Undisturbed /\ ~Spend("lost")
  BY <1>1, <1>2, GaveUpGrows, QuietBefore DEF Undisturbed
<1>4. NightStarted' => Live("prices")'
  <2>1. CASE StartNight
    <3>1. Fresh("prices") \in Msgs /\ Fresh("prices").stage = "prices"
      BY FreshMsg DEF Stages
    <3>2. queue'[Fresh("prices")] > 0
      BY <1>1, <2>1, <3>1, PutAdds DEF StartNight, Enqueue
    <3>3. QED
      BY <3>1, <3>2 DEF Live
  <2>2. CASE NightStarted
    <3>1. Live("prices")
      BY <1>3, <2>2 DEF LiveInv
    <3>2. QED
      BY <1>1, <1>2, <3>1, LiveStays DEF Stages
  <2>3. CASE ~StartNight /\ ~NightStarted
    <3>1. used'["nightly"] = used["nightly"]
      <4>1. \A w \in Workers : WorkerStep(w) => used'["nightly"] = used["nightly"]
        BY <1>1, WorkerSpends
      <4>2. ReviseFundamentals => used'["nightly"] = used["nightly"]
        BY <1>1, SpendType, BoundNames DEF ReviseFundamentals
      <4>3. \A w \in Workers : Crash(w) => used'["nightly"] = used["nightly"]
        BY <1>1, SpendType, BoundNames DEF Crash
      <4>4. QED
        BY <2>3, <4>1, <4>2, <4>3 DEF Next, Receive
    <3>2. QED
      BY <2>3, <3>1 DEF NightStarted
  <2>4. QED
    BY <2>1, <2>2, <2>3
<1>5. ASSUME NEW s \in DOMAIN Successor, Done(s)' PROVE Live(Successor[s])'
  <2>1. Successor[s] \in Stages
    BY SuccessorStage
  <2>2. CASE Done(s)
    <3>1. Live(Successor[s])
      BY <1>3, <2>2 DEF LiveInv
    <3>2. QED
      BY <1>1, <1>2, <2>1, <3>1, LiveStays
  <2>3. CASE ~Done(s)
    <3>1. PICK w \in Workers : PublishNext(w) /\ StageAt(w) = s
      BY <1>1, <1>5, <2>3, DoneBy
    <3>2. queue'[Fresh(Successor[s])] > 0
      BY <1>1, <1>3, <3>1, PublishMoves
    <3>3. Fresh(Successor[s]) \in Msgs /\ Fresh(Successor[s]).stage = Successor[s]
      BY <2>1, FreshMsg
    <3>4. QED
      BY <3>2, <3>3 DEF Live, Successor
  <2>4. QED
    BY <2>2, <2>3
<1>6. QED
  BY <1>4, <1>5

-----------------------------------------------------------------------------
LEMMA NightInit == Init => NightInv
<1> SUFFICES ASSUME Init PROVE NightInv
  OBVIOUS
<1>1. \A s \in Stages : ~Started(s)
  BY DEF Init, Started, Running, At, Idle
<1>2. CoverInv
  BY <1>1 DEF Init, CoverInv, CoverOK, At, Idle
<1>3. ~NightStarted
  BY BoundNames DEF Init, NightStarted
<1>4. \A s \in DOMAIN Successor : ~Done(s)
  BY SuccessorStage DEF Init, Done, At, Idle
<1>5. QED
  BY <1>2, <1>3, <1>4, ChainInit DEF NightInv, LiveInv

LEMMA NightNext == NightInv /\ [Next]_vars => NightInv'
<1> SUFFICES ASSUME NightInv, [Next]_vars PROVE NightInv'
  OBVIOUS
<1>1. ChainInv'
  BY ChainNext DEF NightInv
<1>2. CASE Next
  BY <1>1, <1>2, CoverNext, LiveNext DEF NightInv
<1>3. CASE UNCHANGED vars
  <2>1. CoverInv'
    BY <1>3 DEF vars, data, NightInv, CoverInv, NoSurprise, CoverOK, Needs, Started, Running,
       At, StageAt
  <2>2. LiveInv'
    BY <1>3 DEF vars, NightInv, LiveInv, Undisturbed, NightStarted, Live, Done, Running, At,
       StageAt
  <2>3. QED
    BY <1>1, <2>1, <2>2 DEF NightInv
<1>4. QED
  BY <1>2, <1>3

(* What a night still owes to a stock with a price is always accounted for. *)
THEOREM NightInvHolds == Spec => []NightInv
BY NightInit, NightNext, PTL DEF Spec

(* A night at rest that lost no trigger and gave up no task, with no late    *)
(* price and no correction, has scored every stock that has a price,         *)
(* whatever crashed, was retried or ran twice.                               *)
THEOREM NightCoversPrices == Spec => []ScoresCoverPrices
<1>1. NightInv => ScoresCoverPrices
  <2> SUFFICES ASSUME NightInv, AtRest, NightStarted, Undisturbed, NoSurprise
               PROVE  scores.inds = prices
    BY DEF ScoresCoverPrices, NoSurprise
  <2>1. \A s \in Stages : Live(s) => row[s] = "succeeded"
    BY DEF AtRest, Live, Running
  <2>2. \A s \in DOMAIN Successor : Live(s) => Live(Successor[s])
    BY <2>1, SuccessorStage DEF NightInv, LiveInv, Done
  <2>3. Live("prices")
    BY DEF NightInv, LiveInv
  <2>4. Live("dq") /\ Live("ind")
    BY <2>2, <2>3, SuccessorStage
  <2>5. Live("fac") /\ Live("score") /\ Live("alerts")
    BY <2>2, <2>4, SuccessorStage
  <2>6. Started("alerts")
    BY <2>1, <2>5 DEF Stages, Started
  <2>7. scores # None /\ Traded \subseteq scores.inds
    BY <2>6 DEF NightInv, CoverInv, Needs, Stages
  <2>8. factors # None /\ scores.inds \subseteq factors.inds /\ factors.inds \subseteq indicators
    BY <2>7 DEF NightInv, ChainInv, ScoresHaveFactors, LineageExists
  <2>9. indicators \subseteq prices /\ prices \subseteq Traded
    BY DEF NightInv, ChainInv, CoverInv, TypeOK
  <2>10. QED
    BY <2>7, <2>8, <2>9
<1>2. QED
  BY <1>1, NightInvHolds, PTL
=============================================================================
