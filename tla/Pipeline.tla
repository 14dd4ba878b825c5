------------------------------- MODULE Pipeline -------------------------------
(***************************************************************************)
(* The nightly pipeline of one (market, date): an event-driven chain of    *)
(* jobs                                                                    *)
(*                                                                         *)
(*   prices -> dq -> ind -> fac -> score -> alerts                         *)
(*                           ^                                             *)
(*              recompute ---+   (self-heal after a fundamentals revision) *)
(*                                                                         *)
(* Every arrow is an event whose handler enqueues the next task, every job *)
(* runs under run_job with one ledger row per (stage, date), and any       *)
(* worker runs any task.  JobRuns models that protocol step by step; here  *)
(* retry, give-up and acknowledgement are one step with the ledger write   *)
(* that precedes them, and the stages' reads, writes and events are split, *)
(* because this module is about what the stages read from one another.     *)
(***************************************************************************)
EXTENDS Integers, FiniteSets

CONSTANTS
    None,              \* nothing written, nothing read
    Stocks,            \* the active universe of the index
    Traded,            \* the stocks the provider has a bar for on the date
    Workers,           \* celery worker processes
    MinCoveragePct,    \* QualityThresholds.min_coverage, in percent
    MaxNullPct,        \* QualityThresholds.max_null_rate, in percent
    MaxMissingPct,     \* QualityThresholds.max_missing_session_rate, in percent
    FlawedBars,        \* what a bar with something wrong in it may look like
    MaxRetries,        \* max_retries of every pipeline task
    MaxFetchFaults,    \* bound: provider calls that fail or answer "no data yet"
    MaxFlaws,          \* bound: flawed bars the provider returns
    MaxErrors,         \* bound: other exceptions inside a job's work
    MaxCrashes,        \* bound: worker losses
    MaxLostTriggers,   \* bound: handlers that raise (the bus swallows it)
    MaxRevisions,      \* bound: fundamentals corrections
    MaxUpsets          \* bound: all of the six above together

ASSUME NoneAssumption == None \notin [inds : SUBSET Stocks, fund : Nat]
ASSUME UniverseAssumption == IsFiniteSet(Stocks) /\ Traded \subseteq Stocks
ASSUME ThresholdAssumption ==
    MinCoveragePct \in 1..100 /\ {MaxNullPct, MaxMissingPct} \subseteq 0..100
ASSUME BoundsAssumption ==
    {MaxRetries, MaxFetchFaults, MaxFlaws, MaxErrors, MaxCrashes, MaxLostTriggers,
     MaxRevisions, MaxUpsets} \subseteq Nat

(* A bar as the gates see it: its empty cells (the adapter drops a bar       *)
(* without a close), and whether its prices are positive and in order.       *)
Bars == [empty : SUBSET {"open", "high", "low", "volume"}, sane : BOOLEAN]
Whole == [empty |-> {}, sane |-> TRUE]

ASSUME BarsAssumption == FlawedBars \subseteq Bars \ {Whole}

Stages == {"prices", "dq", "ind", "fac", "score", "alerts", "recompute"}
RowStatus == {"absent", "running", "succeeded", "failed"}
Msgs == [stage : Stages, retries : 0..MaxRetries]

(* What a stage reads or writes, as far as the chain is concerned: the stocks *)
(* whose prices or indicators are in it, and the version of the fundamentals. *)
Inputs == [inds : SUBSET Stocks, fund : 0..MaxRevisions]

VARIABLES
    queue,        \* broker: copies of each task message
    job,          \* what each worker is doing
    row,          \* jobs_runs.status of each stage's key
    prices,       \* stocks with a daily_prices row on the date
    bars,         \* what is in the daily_prices row of each of them
    late,         \* history: rows written after the gate's job was triggered
    indicators,   \* stocks with a technical_indicators row on the date
    fundVersion,  \* the open version of the fundamentals
    factors,      \* inputs of the factor_values of the date
    scores,       \* inputs of the scores of the date
    gaveUp,       \* stages some task of which ran out of retries
    used          \* how much of each bound is spent

vars == <<queue, job, row, prices, bars, late, indicators, fundVersion, factors,
          scores, gaveUp, used>>

data == <<prices, bars, late, indicators, fundVersion, factors, scores>>

Idle == [pc |-> "idle"]

(* seen: what the job has read and not yet written; bars: the price rows it  *)
(* read; todo and missed are price ingestion's loop over the universe and    *)
(* its count of failed stocks.                                               *)
Jobs == [pc : {"claim", "work", "commit", "publish", "return", "fail"},
         msg : Msgs,
         seen : {None} \cup Inputs,
         bars : [Stocks -> Bars],
         todo : SUBSET Stocks,
         missed : BOOLEAN]

Bounds == [fetch |-> MaxFetchFaults, flaw |-> MaxFlaws, error |-> MaxErrors, crash |-> MaxCrashes,
           lost |-> MaxLostTriggers, revision |-> MaxRevisions, nightly |-> 1]

TypeOK ==
    /\ queue \in [Msgs -> Nat]
    /\ job \in [Workers -> Jobs \cup {Idle}]
    /\ row \in [Stages -> RowStatus]
    /\ late \subseteq prices /\ prices \subseteq Stocks
    /\ bars \in [Stocks -> Bars]
    /\ indicators \subseteq prices
    /\ fundVersion \in 0..MaxRevisions
    /\ factors \in Inputs \cup {None}
    /\ scores \in Inputs \cup {None}
    /\ gaveUp \subseteq Stages
    /\ DOMAIN used = DOMAIN Bounds
    /\ \A b \in DOMAIN Bounds : used[b] \in 0..Bounds[b]

Init ==
    /\ queue = [m \in Msgs |-> 0]
    /\ job = [w \in Workers |-> Idle]
    /\ row = [s \in Stages |-> "absent"]
    /\ prices = {} /\ late = {}
    /\ bars = [s \in Stocks |-> Whole]
    /\ indicators = {}
    /\ fundVersion = 0
    /\ factors = None
    /\ scores = None
    /\ gaveUp = {}
    /\ used = [b \in DOMAIN Bounds |-> 0]

Upsets == used["fetch"] + used["flaw"] + used["error"] + used["crash"] + used["lost"]
              + used["revision"]

Spend(b) ==
    /\ used[b] < Bounds[b]
    /\ b # "nightly" => Upsets < MaxUpsets
    /\ used' = [used EXCEPT ![b] = @ + 1]

StageAt(w) == job[w].msg.stage

At(w, pc) == job[w].pc = pc
Step(w, pc) == job' = [job EXCEPT ![w].pc = pc]

Running(s) == {w \in Workers : ~At(w, "idle") /\ StageAt(w) = s}

Started(s) ==
    \/ row[s] # "absent"
    \/ \E m \in Msgs : m.stage = s /\ queue[m] > 0
    \/ Running(s) # {}

Fresh(s) == [stage |-> s, retries |-> 0]
Enqueue(s) == queue' = [queue EXCEPT ![Fresh(s)] = @ + 1]

-----------------------------------------------------------------------------
(* Roots: the nightly ingestion, and a revised filing.  The revision is      *)
(* committed and FundamentalsRevised delivered in one step.                  *)

StartNight ==
    /\ Spend("nightly")
    /\ Enqueue("prices")
    /\ UNCHANGED <<job, row, data, gaveUp>>

ReviseFundamentals ==
    /\ Spend("revision")
    /\ fundVersion' = fundVersion + 1
    /\ Enqueue("recompute")
    /\ UNCHANGED <<job, row, prices, bars, late, indicators, factors, scores, gaveUp>>

-----------------------------------------------------------------------------
(* run_job: the claim and the outcome *)

Receive(w, m) ==
    /\ At(w, "idle")
    /\ queue[m] > 0
    /\ queue' = [queue EXCEPT ![m] = @ - 1]
    /\ job' = [job EXCEPT ![w] = [pc |-> "claim", msg |-> m, seen |-> None,
                                  bars |-> [s \in Stocks |-> Whole],
                                  todo |-> {}, missed |-> FALSE]]
    /\ UNCHANGED <<row, data, gaveUp, used>>

FirstStep(s) == IF s = "recompute" THEN "publish" ELSE "work"

Claim(w) ==
    /\ At(w, "claim")
    /\ row[StageAt(w)] # "succeeded"
    /\ row' = [row EXCEPT ![StageAt(w)] = "running"]
    /\ job' = [job EXCEPT ![w].pc = FirstStep(StageAt(w)),
                          ![w].todo = IF StageAt(w) = "prices" THEN Stocks ELSE {}]
    /\ UNCHANGED <<queue, data, gaveUp, used>>

Skip(w) ==
    /\ At(w, "claim")
    /\ row[StageAt(w)] = "succeeded"
    /\ job' = [job EXCEPT ![w] = Idle]
    /\ UNCHANGED <<queue, row, data, gaveUp, used>>

Succeed(w) ==
    /\ At(w, "return")
    /\ row' = [row EXCEPT ![StageAt(w)] = "succeeded"]
    /\ job' = [job EXCEPT ![w] = Idle]
    /\ UNCHANGED <<queue, data, gaveUp, used>>

Fail(w) ==
    /\ At(w, "fail")
    /\ row' = [row EXCEPT ![StageAt(w)] = "failed"]
    /\ job' = [job EXCEPT ![w] = Idle]
    /\ \/ /\ job[w].msg.retries < MaxRetries
          /\ queue' = [queue EXCEPT ![[job[w].msg EXCEPT !.retries = @ + 1]] = @ + 1]
          /\ UNCHANGED gaveUp
       \/ /\ job[w].msg.retries = MaxRetries
          /\ gaveUp' = gaveUp \cup {StageAt(w)}
          /\ UNCHANGED queue
    /\ UNCHANGED <<data, used>>

WorkRaises(w) ==
    /\ job[w].pc \in {"work", "commit", "publish"}
    /\ Spend("error")
    /\ Step(w, "fail")
    /\ UNCHANGED <<queue, row, data, gaveUp>>

(* What early acknowledgement would do. *)
CrashLosesTask(w) ==
    /\ ~At(w, "idle")
    /\ Spend("crash")
    /\ job' = [job EXCEPT ![w] = Idle]
    /\ UNCHANGED <<queue, row, data, gaveUp>>

Crash(w) ==
    /\ ~At(w, "idle")
    /\ Spend("crash")
    /\ queue' = [queue EXCEPT ![job[w].msg] = @ + 1]
    /\ job' = [job EXCEPT ![w] = Idle]
    /\ UNCHANGED <<row, data, gaveUp>>

-----------------------------------------------------------------------------
(* prices: PriceIngestionService.ingest, one transaction per stock.  Nothing *)
(* looks into the bar before the gates do, and the upsert replaces the row.  *)

Ingesting(w, s) == At(w, "work") /\ StageAt(w) = "prices" /\ s \in job[w].todo

FetchBar(w, s) ==
    /\ Ingesting(w, s)
    /\ s \in Traded
    /\ prices' = prices \cup {s}
    /\ \E b \in FlawedBars \cup {Whole} :
          /\ bars' = [bars EXCEPT ![s] = b]
          /\ IF b = Whole THEN UNCHANGED used ELSE Spend("flaw")
    /\ late' = IF Started("dq") THEN late \cup {s} ELSE late
    /\ job' = [job EXCEPT ![w].todo = @ \ {s}]
    /\ UNCHANGED <<queue, row, indicators, fundVersion, factors, scores, gaveUp>>

FetchNothing(w, s) ==
    /\ Ingesting(w, s)
    /\ IF s \in Traded THEN Spend("fetch") ELSE UNCHANGED used
    /\ job' = [job EXCEPT ![w].todo = @ \ {s}]
    /\ UNCHANGED <<queue, row, data, gaveUp>>

FetchFails(w, s) ==
    /\ Ingesting(w, s)
    /\ Spend("fetch")
    /\ job' = [job EXCEPT ![w].todo = @ \ {s}, ![w].missed = TRUE]
    /\ UNCHANGED <<queue, row, data, gaveUp>>

(* What announcing the prices before the loop is over would do. *)
IngestDoneEarly(w) ==
    /\ At(w, "work") /\ StageAt(w) = "prices" /\ job[w].todo # Stocks
    /\ Step(w, "publish")
    /\ UNCHANGED <<queue, row, data, gaveUp, used>>

IngestDone(w) ==
    /\ At(w, "work") /\ StageAt(w) = "prices" /\ job[w].todo = {}
    /\ Step(w, "publish")
    /\ UNCHANGED <<queue, row, data, gaveUp, used>>

-----------------------------------------------------------------------------
(* The other stages: read, then write and commit *)

EmptyCells(p, b) == {c \in p \X {"open", "high", "low", "volume"} : c[2] \in b[c[1]].empty}

(* The four gates on the rows of a single session: coverage of the universe, *)
(* the null rate over the five columns, price sanity, continuity.            *)
GatePasses(p, b) ==
    /\ 100 * Cardinality(p) >= MinCoveragePct * Cardinality(Stocks)
    /\ 100 * Cardinality(EmptyCells(p, b)) <= MaxNullPct * (5 * Cardinality(p))
    /\ \A s \in p : b[s].sane
    /\ 100 * Cardinality(Stocks \ p) <= MaxMissingPct * Cardinality(Stocks)

InputOf(s) ==
    CASE s \in {"dq", "ind"} -> [inds |-> prices, fund |-> 0]
      [] s = "fac" -> [inds |-> indicators, fund |-> fundVersion]
      [] s = "score" -> factors
      [] s = "alerts" -> scores

AfterRead(s) == IF s \in {"dq", "alerts"} THEN "publish" ELSE "commit"

Read(w) ==
    /\ At(w, "work") /\ StageAt(w) # "prices"
    /\ job' = [job EXCEPT ![w].seen = InputOf(StageAt(w)),
                          ![w].bars = IF StageAt(w) \in {"dq", "ind"} THEN bars ELSE @,
                          ![w].pc = AfterRead(StageAt(w))]
    /\ UNCHANGED <<queue, row, data, gaveUp, used>>

(* Upserts only: a row of an earlier run that this run does not produce stays. *)
Merge(old, new) == IF old = None THEN new ELSE [new EXCEPT !.inds = @ \cup old.inds]

WriteIndicators(w) ==
    /\ At(w, "commit") /\ StageAt(w) = "ind"
    /\ indicators' = indicators \cup job[w].seen.inds
    /\ Step(w, "publish")
    /\ UNCHANGED <<queue, row, prices, bars, late, fundVersion, factors, scores, gaveUp, used>>

WriteFactors(w) ==
    /\ At(w, "commit") /\ StageAt(w) = "fac"
    /\ factors' = Merge(factors, job[w].seen)
    /\ Step(w, "publish")
    /\ UNCHANGED <<queue, row, prices, bars, late, indicators, fundVersion, scores, gaveUp,
                   used>>

(* A score row is replaced whole; without a snapshot there is nothing to write. *)
WriteScores(w) ==
    /\ At(w, "commit") /\ StageAt(w) = "score"
    /\ scores' = IF job[w].seen = None THEN scores ELSE job[w].seen
    /\ Step(w, "publish")
    /\ UNCHANGED <<queue, row, prices, bars, late, indicators, fundVersion, factors, gaveUp,
                   used>>

-----------------------------------------------------------------------------
(* Events.  The handler of an event runs inside publish; when it raises, the *)
(* bus logs and goes on, and the publisher does not notice.                  *)

Successor == [prices |-> "dq", dq |-> "ind", ind |-> "fac", fac |-> "score",
          score |-> "alerts"]

(* Ingestion reports its failed stocks, and validation its failed gate, by  *)
(* raising after the event.                                                 *)
AfterPublish(w) ==
    IF StageAt(w) = "prices" /\ job[w].missed THEN "fail" ELSE "return"

(* What announcing validated prices whatever the gates said would do. *)
PublishUngated(w) ==
    /\ At(w, "publish") /\ StageAt(w) \in DOMAIN Successor
    /\ \/ Enqueue(Successor[StageAt(w)]) /\ UNCHANGED used
       \/ Spend("lost") /\ UNCHANGED queue
    /\ Step(w, AfterPublish(w))
    /\ UNCHANGED <<row, data, gaveUp>>

PublishNext(w) ==
    /\ At(w, "publish") /\ StageAt(w) \in DOMAIN Successor
    /\ StageAt(w) = "dq" => GatePasses(job[w].seen.inds, job[w].bars)
    /\ \/ Enqueue(Successor[StageAt(w)]) /\ UNCHANGED used
       \/ Spend("lost") /\ UNCHANGED queue
    /\ Step(w, AfterPublish(w))
    /\ UNCHANGED <<row, data, gaveUp>>

(* DataQualityGateFailed has no subscriber; the job raises. *)
GateFails(w) ==
    /\ At(w, "publish") /\ StageAt(w) = "dq"
    /\ ~GatePasses(job[w].seen.inds, job[w].bars)
    /\ Step(w, "fail")
    /\ UNCHANGED <<queue, row, data, gaveUp, used>>

(* AlertsFired: delivery is AlertDelivery's. *)
AlertsDone(w) ==
    /\ At(w, "publish") /\ StageAt(w) = "alerts"
    /\ Step(w, "return")
    /\ UNCHANGED <<queue, row, data, gaveUp, used>>

(* recompute_on_correction enqueues the factor job itself: a failure to do *)
(* so is an exception of the job (WorkRaises).                             *)
RecomputeFactors(w) ==
    /\ At(w, "publish") /\ StageAt(w) = "recompute"
    /\ Enqueue("fac")
    /\ Step(w, "return")
    /\ UNCHANGED <<row, data, gaveUp, used>>

-----------------------------------------------------------------------------
WorkerStep(w) ==
    \/ Claim(w) \/ Skip(w) \/ Succeed(w) \/ Fail(w)
    \/ \E s \in Stocks : FetchBar(w, s) \/ FetchNothing(w, s) \/ FetchFails(w, s)
    \/ IngestDone(w)
    \/ Read(w) \/ WriteIndicators(w) \/ WriteFactors(w) \/ WriteScores(w)
    \/ PublishNext(w) \/ GateFails(w) \/ AlertsDone(w) \/ RecomputeFactors(w)
    \/ WorkRaises(w)

Next ==
    \/ StartNight
    \/ ReviseFundamentals
    \/ \E w \in Workers :
          \/ \E m \in Msgs : Receive(w, m)
          \/ WorkerStep(w)
          \/ Crash(w)

Spec == Init /\ [][Next]_vars

FairSpec ==
    /\ Spec
    /\ \A m \in Msgs : WF_vars(\E w \in Workers : Receive(w, m))
    /\ \A w \in Workers : WF_vars(WorkerStep(w))

-----------------------------------------------------------------------------
(* Properties *)

AtRest ==
    /\ \A m \in Msgs : queue[m] = 0
    /\ \A w \in Workers : At(w, "idle")

NightStarted == used["nightly"] = 1

Undisturbed == gaveUp = {} /\ used["lost"] = 0

(* The gate halts the pipeline: as soon as an indicator job exists, the rows *)
(* in the database pass all four gates, unless a flawed bar was written      *)
(* after the gate's job was triggered (which its key no longer looks at).    *)
GateGuardsIndicators ==
    Started("ind") /\ (\A s \in late : bars[s] = Whole) => GatePasses(prices, bars)

(* "Triggered by PricesValidated (gate-passed)" (jobs/compute.py:3): what an *)
(* indicator job has read and not yet written passes the gates as a whole,   *)
(* whatever was ingested between the gate's reading and its own, unless one  *)
(* of the rows it read is a flawed bar that came after the gate's trigger.   *)
IndicatorsReadGatedPrices ==
    \A w \in Workers :
        At(w, "commit") /\ StageAt(w) = "ind" =>
            \/ \E s \in late : job[w].bars[s] # Whole
            \/ GatePasses(job[w].seen.inds, job[w].bars)

(* "Events fire only after the commit (no phantom events)": a job that an   *)
(* event starts finds the data the event announces.                         *)
NoPhantomEvents ==
    /\ Started("score") => factors # None
    /\ Started("alerts") => scores # None

(* The factor snapshot uses only indicator rows that exist, and the score    *)
(* set only factors of the snapshot, whatever runs of the stages overlapped: *)
(* each stage reads committed rows and the upserts never delete.             *)
LineageExists ==
    /\ factors # None => factors.inds \subseteq indicators
    /\ scores # None => scores.inds \subseteq factors.inds

(* At rest after a night without a lost trigger or an exhausted task, in     *)
(* which no fetch failed and no correction intervened, the scores cover      *)
(* every stock that has a price, whatever crashed and whatever a bar held.   *)
ScoresCoverPrices ==
    AtRest /\ NightStarted /\ Undisturbed /\ used["fetch"] = 0 /\ used["revision"] = 0
        => scores.inds = prices

(* The chain never stops in the middle: whatever crashes, raises or is       *)
(* swallowed, the night comes to rest, with the alerts evaluated unless a    *)
(* trigger was lost or a task exhausted its retries.                         *)
NightSettles ==
    NightStarted ~> AtRest /\ (row["alerts"] = "succeeded" \/ ~Undisturbed)

(* "self-heal": a revision that was recomputed is in the factors             *)
(* (jobs/corrections.py:36).                                                 *)
CorrectionsReachFactors ==
    AtRest /\ Undisturbed /\ fundVersion > 0 => factors # None /\ factors.fund = fundVersion

(* One night, in order: types, the gate before the indicators, the event     *)
(* after the commit, and every snapshot made of rows that exist (on_prices_  *)
(* ingested .. on_scores_computed and the jobs between them).                *)
ChainIsOrdered == TypeOK /\ GateGuardsIndicators /\ IndicatorsReadGatedPrices
                      /\ NoPhantomEvents /\ LineageExists
=============================================================================
