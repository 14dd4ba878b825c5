-------------------------------- MODULE Resync --------------------------------
(***************************************************************************)
(* syncdatapipeline/resync_all.py: every pipeline stage in dependency      *)
(* order, in one process, each unit of work behind the jobs_runs ledger.   *)
(*                                                                         *)
(* Data is what its freshness is worth: an item is stale when something it *)
(* was computed from has been written since, or when it was never          *)
(* computed.  A ledger key is <<job, session>>, with 0 for the jobs that   *)
(* cover the whole window; a row in any state but succeeded is reclaimed   *)
(* by the next start, so only the succeeded keys are kept.                 *)
(***************************************************************************)
EXTENDS Integers, Sequences, FiniteSets, SequencesExt

CONSTANTS
    N,            \* sessions of the window, 1..N; N is the last completed one
    Series,       \* macro series
    Requests,     \* command lines: [only, skip, from, force, tolerant, lastDay, carryOn]
    MaxRuns,      \* bound: resync runs
    MaxNightly,   \* bound: jobs run by the nightly chain between resyncs
    MaxFaults     \* bound: jobs that raise

ASSUME ResyncAssumption ==
    /\ N \in Nat \ {0} /\ IsFiniteSet(Series)
    /\ MaxRuns \in Nat /\ MaxNightly \in Nat /\ MaxFaults \in Nat

VARIABLES
    done,     \* succeeded ledger keys
    stale,    \* items not computed from the current value of their inputs
    rs,       \* the runner
    runs, nightly, faults

resyncVars == <<done, stale, rs, runs, nightly, faults>>

Window == 1..N

STAGES == <<"partitions", "universe", "prices", "validate", "corpactions", "fundamentals",
            "shareholding", "macro", "news", "tag_news", "sentiment", "indicators",
            "factors_scores", "alerts", "notify", "parquet">>
Optional == {"parquet"}

(* A plan is the set of the positions of its stages; they run in their order. *)
SelectStages(only, skip, from) ==
    {i \in DOMAIN STAGES :
        /\ STAGES[i] \notin skip
        /\ IF only # {} THEN STAGES[i] \in only
           ELSE /\ STAGES[i] \notin Optional
                /\ from = "" \/ \E j \in 1..i : STAGES[j] = from}

-----------------------------------------------------------------------------
(* The units of work of each stage, in the order the stage runs them.       *)

PricesUnits == << <<"prices", 0>> >>
CorpactUnits == << <<"corpact", 0>> >>
IndicatorUnits == [d \in Window |-> <<"ind", d>>]
(* Factors land before the scores of the same session, session by session. *)
ScoreUnits(lastDay) ==
    IF lastDay THEN << <<"fac", N>>, <<"score", N>> >>
    ELSE [i \in 1..2*N |-> IF i % 2 = 1 THEN <<"fac", (i + 1) \div 2>> ELSE <<"score", i \div 2>>]
MacroUnits == SetToSeq({<<"macro", x>> : x \in Series})

UnitsOf(st, o) ==
    CASE st = "prices" -> PricesUnits
      [] st = "corpactions" -> CorpactUnits
      [] st = "indicators" -> IndicatorUnits
      [] st = "factors_scores" -> ScoreUnits(o.lastDay)
      [] st = "macro" -> MacroUnits
      [] OTHER -> << <<st, 0>> >>

(* Jobs that are not behind a ledger key that could already be succeeded:   *)
(* two stages run no job, three have a key of their own every second, and   *)
(* the tolerant price load calls the service directly.                      *)
Unguarded(k, o) ==
    \/ k[1] \in {"partitions", "universe", "tag_news", "sentiment", "notify"}
    \/ k[1] = "prices" /\ o.tolerant

(* What a job's work reads of the other items. *)
IndicatorInputs == {<<"prices", 0>>, <<"corpact", 0>>}
FactorInputs(d) == {<<"ind", d>>, <<"sentiment", 0>>, <<"fundamentals", 0>>}
ScoreInputs(d) == {<<"fac", d>>}
InputsOf(x) ==
    CASE x[1] = "corpact" -> {<<"prices", 0>>}
      [] x[1] = "ind" -> IndicatorInputs
      [] x[1] = "fac" -> FactorInputs(x[2])
      [] x[1] = "score" -> ScoreInputs(x[2])
      [] OTHER -> {}

Derived == {<<"corpact", 0>>} \cup ({"ind", "fac", "score"} \X Window)

(* Doing the work of x: x is current, whatever reads it no longer is. *)
Recompute(x) == (stale \ {x}) \cup {y \in Derived : x \in InputsOf(y)}

-----------------------------------------------------------------------------
Idle == [pc |-> "idle"]

ResyncInit ==
    /\ done = {} /\ stale = Derived /\ rs = Idle
    /\ runs = 0 /\ nightly = 0 /\ faults = 0

(* The nightly chain does one job, or redoes what the ledger lets it redo. *)
NightlyKeys == {<<"corpact", 0>>} \cup ({"ind", "fac", "score"} \X Window)
NightlyJob(k) ==
    /\ rs.pc = "idle" /\ nightly < MaxNightly
    /\ k \notin done
    /\ done' = done \cup {k}
    /\ stale' = Recompute(k)
    /\ nightly' = nightly + 1
    /\ UNCHANGED <<rs, runs, faults>>

(* Stage.ledger_jobs, the jobs whose rows --force releases.  The window     *)
(* filter reads the first date of the key: all keys of the model lie in it, *)
(* because the release runs through today.                                  *)
LedgerJobs(plan) ==
    {k[1] : k \in UNION {Range(UnitsOf(STAGES[i], [tolerant |-> FALSE, lastDay |-> FALSE]))
                            : i \in plan}}

Released(plan) == {k \in done : k[1] \in LedgerJobs(plan)}

(* The runner is at a unit of a stage of its plan; touched are the units it  *)
(* did, results the verdicts on the stages it has left.                      *)
Begin(plan, o) ==
    [pc |-> "running", plan |-> plan, opt |-> o, at |-> Min(plan), unit |-> 1,
     touched |-> {}, results |-> <<>>]

Start(o) ==
    LET plan == SelectStages(o.only, o.skip, o.from) IN
    /\ rs.pc \in {"idle", "finished"} /\ runs < MaxRuns
    /\ plan # {}
    /\ done' = IF o.force THEN done \ Released(plan) ELSE done
    /\ rs' = Begin(plan, o)
    /\ runs' = runs + 1
    /\ UNCHANGED <<stale, nightly, faults>>

Running == rs.pc = "running"
Stage == STAGES[rs.at]
Units == UnitsOf(Stage, rs.opt)
Unit == Units[rs.unit]
UnitLeft == Running /\ rs.unit \in DOMAIN Units

SkipUnit ==
    /\ UnitLeft
    /\ Unit \in done /\ ~Unguarded(Unit, rs.opt)
    /\ rs' = [rs EXCEPT !.unit = @ + 1]
    /\ UNCHANGED <<done, stale, runs, nightly, faults>>

DoUnit ==
    /\ UnitLeft
    /\ Unit \notin done \/ Unguarded(Unit, rs.opt)
    /\ done' = IF Unguarded(Unit, rs.opt) THEN done ELSE done \cup {Unit}
    /\ stale' = Recompute(Unit)
    /\ rs' = [rs EXCEPT !.unit = @ + 1, !.touched = @ \cup {Unit}]
    /\ UNCHANGED <<runs, nightly, faults>>

(* What ending the stage with this status does: the next stage, or the end. *)
Report(status, abort) ==
    LET results == [i \in DOMAIN rs.results \cup {rs.at} |->
                       IF i = rs.at THEN status ELSE rs.results[i]]
        rest == {i \in rs.plan : i > rs.at}
    IN  IF abort \/ rest = {}
        THEN [rs EXCEPT !.pc = "finished", !.results = results, !.unit = 1]
        ELSE [rs EXCEPT !.results = results, !.at = Min(rest), !.unit = 1]

(* A job raises.  A macro series does not sink the others; any other stage  *)
(* has failed, and a strict run stops there.                                *)
FailUnit ==
    /\ UnitLeft /\ faults < MaxFaults
    /\ Unit \notin done \/ Unguarded(Unit, rs.opt)
    /\ faults' = faults + 1
    /\ rs' = IF Stage = "macro" THEN [rs EXCEPT !.unit = @ + 1]
             ELSE Report("failed", ~rs.opt.carryOn)
    /\ UNCHANGED <<done, stale, runs, nightly>>

(* What a stage counts to choose its status: of the factor and score runs   *)
(* it looks at the factors only, unless just the last session is scored.    *)
Counted ==
    {k \in Range(Units) :
        Stage = "factors_scores" /\ ~rs.opt.lastDay => k[1] = "fac"}

(* What folding the skipped sessions into a plain ok would report. *)
VerdictFolded ==
    IF Counted \cap rs.touched = {} THEN "no-op" ELSE "ok"

Verdict ==
    IF Counted \cap rs.touched = {} THEN "no-op"
    ELSE IF Counted \subseteq rs.touched \/ (Stage = "factors_scores" /\ rs.opt.lastDay)
         THEN "ok" ELSE "partial"

EndStage ==
    /\ Running /\ rs.unit \notin DOMAIN Units
    /\ rs' = Report(Verdict, FALSE)
    /\ UNCHANGED <<done, stale, runs, nightly, faults>>

(* No news provider has a key: the stage says so and does nothing. *)
NoNews ==
    /\ UnitLeft /\ Stage = "news"
    /\ rs' = Report("no-op", FALSE)
    /\ UNCHANGED <<done, stale, runs, nightly, faults>>

(* The process is killed; the next command starts over. *)
Kill ==
    /\ Running /\ faults < MaxFaults
    /\ faults' = faults + 1
    /\ rs' = Idle
    /\ UNCHANGED <<done, stale, runs, nightly>>

RunStage == SkipUnit \/ DoUnit \/ FailUnit \/ EndStage \/ NoNews

ResyncNext ==
    \/ \E k \in NightlyKeys : NightlyJob(k)
    \/ \E o \in Requests : Start(o)
    \/ RunStage
    \/ Kill

ResyncSpec == ResyncInit /\ [][ResyncNext]_resyncVars

-----------------------------------------------------------------------------
(* Properties *)

Finished == rs.pc = "finished"
Exit0 == Finished /\ DOMAIN rs.results = rs.plan /\ "failed" \notin Range(rs.results)

(* A forced run of the whole plan that exits 0 leaves nothing derived behind *)
(* its inputs, whatever the ledger and earlier runs, killed ones included,   *)
(* left: the order of the stages is the dependency order and the release     *)
(* reaches every job that runs.                                              *)
ForcedRunRefreshes ==
    Exit0 /\ rs.opt.force /\ rs.plan = SelectStages({}, {}, "") =>
        \A x \in stale : rs.opt.lastDay /\ x[1] \in {"fac", "score"} /\ x[2] # N

(* "Collapsing that into a bare ok is how a resync silently leaves the data  *)
(* it was run to fix exactly as it was": a stage that reports ok leaves none *)
(* of its units stale.  (The stage of factors and scores counts the factors  *)
(* only, so its ok says nothing of the scores.)                              *)
OkLeavesNothingStale ==
    Finished => \A i \in DOMAIN rs.results :
        STAGES[i] # "factors_scores" /\ rs.results[i] = "ok" =>
            Range(UnitsOf(STAGES[i], rs.opt)) \cap stale = {}

(* What a resync reports is what it left (run_stages, release_ledger).       *)
ReportsAreTrue == ForcedRunRefreshes /\ OkLeavesNothingStale
=============================================================================
