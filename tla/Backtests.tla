------------------------------- MODULE Backtests -------------------------------
(***************************************************************************)
(* The asynchronous backtest: POST commits a queued row and then enqueues  *)
(* run_backtest; a worker moves the row to a terminal status; DELETE may   *)
(* come at any time; tenants poll.                                         *)
(*                                                                         *)
(* jobs/backtest.py runs mark_running, the engine and the terminal update  *)
(* in ONE transaction.  Postgres at READ COMMITTED decides what the rest   *)
(* of the system sees: uncommitted updates are invisible, the first update *)
(* locks the row until the transaction ends, and an update that waited for *)
(* the lock re-evaluates its WHERE clause on the committed row.            *)
(***************************************************************************)
EXTENDS Integers

CONSTANTS
    Backtests,         \* ids of the runs tenants may submit
    Workers,           \* celery workers on the `user` queue
    NoOne,             \* "no transaction holds the row lock"
    MaxRetries,        \* max_retries of run_backtest
    MaxDbErrors,       \* bound: database errors inside the worker's transaction
    MaxCrashes,        \* bound: worker losses
    MaxRedeliveries,   \* bound: visibility timeouts
    MaxLostSubmits     \* bound: API failures between the commit and the enqueue

ASSUME NoOneAssumption == NoOne \notin Workers
ASSUME BoundsAssumption ==
    {MaxRetries, MaxDbErrors, MaxCrashes, MaxRedeliveries, MaxLostSubmits} \subseteq Nat

Terminal == {"succeeded", "failed"}
Status == Terminal \cup {"none", "queued", "running", "deleted"}
LedgerStatus == {"absent", "running", "succeeded", "failed"}
Msgs == [id : Backtests, retries : 0..MaxRetries]

VARIABLES
    status,     \* the committed backtests.status ("none": no row yet)
    lock,       \* which worker's transaction holds the row
    pending,    \* rows committed by POST whose task is not enqueued yet
    queue,      \* broker: copies of each task message
    job,        \* what each worker is doing
    ledger,     \* jobs_runs.status of backtest:<id>
    computed,   \* history: how many runs of the engine were committed
    gaveUp,     \* runs whose task ran out of retries
    used        \* how much of each bound is spent

vars == <<status, lock, pending, queue, job, ledger, computed, gaveUp, used>>

rows == <<status, lock>>

Idle == [pc |-> "idle"]

(* outcome: the status the open transaction has given the row. *)
Jobs == [pc : {"claim", "mark", "engine", "commit", "return", "fail"},
         msg : Msgs,
         outcome : Terminal \cup {"none", "running"}]

Bounds == [error |-> MaxDbErrors, crash |-> MaxCrashes,
           redelivery |-> MaxRedeliveries, lost |-> MaxLostSubmits]

TypeOK ==
    /\ status \in [Backtests -> Status]
    /\ lock \in [Backtests -> Workers \cup {NoOne}]
    /\ pending \subseteq Backtests
    /\ queue \in [Msgs -> Nat]
    /\ job \in [Workers -> Jobs \cup {Idle}]
    /\ ledger \in [Backtests -> LedgerStatus]
    /\ computed \in [Backtests -> Nat]
    /\ gaveUp \subseteq Backtests
    /\ DOMAIN used = DOMAIN Bounds
    /\ \A b \in DOMAIN Bounds : used[b] \in 0..Bounds[b]

Init ==
    /\ status = [b \in Backtests |-> "none"]
    /\ lock = [b \in Backtests |-> NoOne]
    /\ pending = {}
    /\ queue = [m \in Msgs |-> 0]
    /\ job = [w \in Workers |-> Idle]
    /\ ledger = [b \in Backtests |-> "absent"]
    /\ computed = [b \in Backtests |-> 0]
    /\ gaveUp = {}
    /\ used = [b \in DOMAIN Bounds |-> 0]

Spend(b) ==
    /\ used[b] < Bounds[b]
    /\ used' = [used EXCEPT ![b] = @ + 1]

At(w, pc) == job[w].pc = pc
Step(w, pc) == job' = [job EXCEPT ![w].pc = pc]
Id(w) == job[w].msg.id

Put(m) == queue' = [queue EXCEPT ![m] = @ + 1]

(* The row locks a transaction of w holds are released when it ends. *)
Unlocked(w) == [b \in Backtests |-> IF lock[b] = w THEN NoOne ELSE lock[b]]

-----------------------------------------------------------------------------
(* The API *)

SubmitCommit(b) ==
    /\ status[b] = "none"
    /\ status' = [status EXCEPT ![b] = "queued"]
    /\ pending' = pending \cup {b}
    /\ UNCHANGED <<lock, queue, job, ledger, computed, gaveUp, used>>

SubmitEnqueue(b) ==
    /\ b \in pending
    /\ pending' = pending \ {b}
    /\ Put([id |-> b, retries |-> 0])
    /\ UNCHANGED <<rows, job, ledger, computed, gaveUp, used>>

(* The API process dies or the broker refuses the message: the client gets *)
(* an error, the row stays.                                                *)
SubmitLost(b) ==
    /\ b \in pending
    /\ Spend("lost")
    /\ pending' = pending \ {b}
    /\ UNCHANGED <<rows, queue, job, ledger, computed, gaveUp>>

(* What a delete that does not respect row locks would do. *)
DeleteThroughLock(b) ==
    /\ status[b] \notin {"none", "deleted"}
    /\ status' = [status EXCEPT ![b] = "deleted"]
    /\ UNCHANGED <<lock, pending, queue, job, ledger, computed, gaveUp, used>>

(* DELETE waits for the lock of a run in progress. *)
Delete(b) ==
    /\ status[b] \notin {"none", "deleted"}
    /\ lock[b] = NoOne
    /\ status' = [status EXCEPT ![b] = "deleted"]
    /\ UNCHANGED <<lock, pending, queue, job, ledger, computed, gaveUp, used>>

-----------------------------------------------------------------------------
(* run_job *)

Receive(w, m) ==
    /\ At(w, "idle")
    /\ queue[m] > 0
    /\ queue' = [queue EXCEPT ![m] = @ - 1]
    /\ job' = [job EXCEPT ![w] = [pc |-> "claim", msg |-> m, outcome |-> "none"]]
    /\ UNCHANGED <<rows, pending, ledger, computed, gaveUp, used>>

Claim(w) ==
    /\ At(w, "claim")
    /\ ledger[Id(w)] # "succeeded"
    /\ ledger' = [ledger EXCEPT ![Id(w)] = "running"]
    /\ Step(w, "mark")
    /\ UNCHANGED <<rows, pending, queue, computed, gaveUp, used>>

Skip(w) ==
    /\ At(w, "claim")
    /\ ledger[Id(w)] = "succeeded"
    /\ job' = [job EXCEPT ![w] = Idle]
    /\ UNCHANGED <<rows, pending, queue, ledger, computed, gaveUp, used>>

Succeed(w) ==
    /\ At(w, "return")
    /\ ledger' = [ledger EXCEPT ![Id(w)] = "succeeded"]
    /\ job' = [job EXCEPT ![w] = Idle]
    /\ UNCHANGED <<rows, pending, queue, computed, gaveUp, used>>

Fail(w) ==
    /\ At(w, "fail")
    /\ ledger' = [ledger EXCEPT ![Id(w)] = "failed"]
    /\ job' = [job EXCEPT ![w] = Idle]
    /\ \/ /\ job[w].msg.retries < MaxRetries
          /\ Put([job[w].msg EXCEPT !.retries = @ + 1])
          /\ UNCHANGED gaveUp
       \/ /\ job[w].msg.retries = MaxRetries
          /\ gaveUp' = gaveUp \cup {Id(w)}
          /\ UNCHANGED queue
    /\ UNCHANGED <<rows, pending, computed, used>>

(* What early acknowledgement would do. *)
CrashLosesTask(w) ==
    /\ ~At(w, "idle")
    /\ Spend("crash")
    /\ lock' = Unlocked(w)
    /\ job' = [job EXCEPT ![w] = Idle]
    /\ UNCHANGED <<status, pending, queue, ledger, computed, gaveUp>>

(* The process dies: Postgres rolls its transaction back, celery gives its *)
(* message to another worker.                                              *)
Crash(w) ==
    /\ ~At(w, "idle")
    /\ Spend("crash")
    /\ Put(job[w].msg)
    /\ lock' = Unlocked(w)
    /\ job' = [job EXCEPT ![w] = Idle]
    /\ UNCHANGED <<status, pending, ledger, computed, gaveUp>>

VisibilityTimeout(w) ==
    /\ ~At(w, "idle")
    /\ Spend("redelivery")
    /\ Put(job[w].msg)
    /\ UNCHANGED <<rows, pending, job, ledger, computed, gaveUp>>

-----------------------------------------------------------------------------
(* _run: one transaction *)

(* What mark_running would do without its status guard. *)
AnyRow(s) == s \in Status \ {"none", "deleted"}

Claimable(s) == s = "queued"

(* The update waits while another transaction holds the row. *)
MarkRunning(w) ==
    /\ At(w, "mark")
    /\ lock[Id(w)] = NoOne
    /\ Claimable(status[Id(w)])
    /\ lock' = [lock EXCEPT ![Id(w)] = w]
    /\ job' = [job EXCEPT ![w].pc = "engine", ![w].outcome = "running"]
    /\ UNCHANGED <<status, pending, queue, ledger, computed, gaveUp, used>>

(* Already handled, or deleted: a no-op that succeeds. *)
NotQueued(w) ==
    /\ At(w, "mark")
    /\ lock[Id(w)] = NoOne
    /\ ~Claimable(status[Id(w)])
    /\ Step(w, "return")
    /\ UNCHANGED <<rows, pending, queue, ledger, computed, gaveUp, used>>

(* The engine returns metrics, or raises: mark_succeeded or mark_failed. *)
Compute(w) ==
    /\ At(w, "engine")
    /\ \E s \in Terminal :
          job' = [job EXCEPT ![w].pc = "commit", ![w].outcome = s]
    /\ UNCHANGED <<rows, pending, queue, ledger, computed, gaveUp, used>>

Commit(w) ==
    /\ At(w, "commit")
    /\ status' = [status EXCEPT ![Id(w)] = job[w].outcome]
    /\ computed' = [computed EXCEPT ![Id(w)] = @ + 1]
    /\ lock' = Unlocked(w)
    /\ Step(w, "return")
    /\ UNCHANGED <<pending, queue, ledger, gaveUp, used>>

(* What swallowing the database error would do. *)
DbErrorSwallowed(w) ==
    /\ job[w].pc \in {"mark", "engine", "commit"}
    /\ Spend("error")
    /\ lock' = Unlocked(w)
    /\ Step(w, "return")
    /\ UNCHANGED <<status, pending, queue, ledger, computed, gaveUp>>

(* A database error aborts the transaction, so the mark_failed of the except *)
(* branch raises as well: everything rolls back and the task fails.          *)
DbError(w) ==
    /\ job[w].pc \in {"mark", "engine", "commit"}
    /\ Spend("error")
    /\ lock' = Unlocked(w)
    /\ Step(w, "fail")
    /\ UNCHANGED <<status, pending, queue, ledger, computed, gaveUp>>

-----------------------------------------------------------------------------
WorkerStep(w) ==
    \/ Claim(w) \/ Skip(w) \/ Succeed(w) \/ Fail(w)
    \/ MarkRunning(w) \/ NotQueued(w) \/ Compute(w) \/ Commit(w) \/ DbError(w)

Next ==
    \/ \E b \in Backtests :
          SubmitCommit(b) \/ SubmitEnqueue(b) \/ SubmitLost(b) \/ Delete(b)
    \/ \E w \in Workers :
          \/ \E m \in Msgs : Receive(w, m)
          \/ WorkerStep(w)
          \/ Crash(w)
          \/ VisibilityTimeout(w)

Spec == Init /\ [][Next]_vars

FairSpec ==
    /\ Spec
    /\ \A b \in Backtests : WF_vars(SubmitEnqueue(b) \/ SubmitLost(b))
    /\ \A m \in Msgs : WF_vars(\E w \in Workers : Receive(w, m))
    /\ \A w \in Workers : WF_vars(WorkerStep(w))

-----------------------------------------------------------------------------
(* Properties *)

Outstanding(b) ==
    \/ b \in pending
    \/ \E m \in Msgs : m.id = b /\ queue[m] > 0
    \/ \E w \in Workers : ~At(w, "idle") /\ Id(w) = b

(* The lock of a row is held exactly while a worker's transaction has      *)
(* touched it: no path (crash, database error, no-op) leaves a row locked, *)
(* which would block every later DELETE and every retry.                   *)
LockIsOwned ==
    \A b \in Backtests, w \in Workers :
        lock[b] = w <=> job[w].pc \in {"engine", "commit"} /\ Id(w) = b

(* A run's result is committed once however often its task is delivered:   *)
(* mark_running is the "guard against Celery at-least-once re-delivery".   *)
ComputedAtMostOnce == \A b \in Backtests : computed[b] <= 1

(* The two records of one run agree: a ledger row "succeeded" means the    *)
(* backtest is finished or deleted, never that it is still queued (its     *)
(* re-delivery would be skipped and the tenant would poll for ever).       *)
LedgerAgrees ==
    \A b \in Backtests :
        ledger[b] = "succeeded" => status[b] \in Terminal \cup {"deleted"}

(* A queued row has a task on its way, unless the submission failed half   *)
(* way or the task gave up: those are the only ways a run is stranded.     *)
QueuedHasTask ==
    \A b \in Backtests :
        status[b] = "queued" => Outstanding(b) \/ b \in gaveUp \/ used["lost"] > 0

(* What tenants see is the lifecycle of BacktestLifecycle. *)
Lifecycle == INSTANCE BacktestLifecycle

LifecycleSpec == Lifecycle!Spec

(* A submitted run ends: it is finished, deleted, or stranded for one of   *)
(* the two reasons above.                                                  *)
EveryBacktestEnds ==
    \A b \in Backtests :
        status[b] = "queued" ~> status[b] # "queued" \/ b \in gaveUp \/ used["lost"] > 0

(* The row, its lock, its task and its ledger entry agree, through every     *)
(* rollback, redelivery and DELETE (routes_backtests, jobs/backtest).        *)
RecordsAgree == TypeOK /\ LockIsOwned /\ QueuedHasTask /\ LedgerAgrees
=============================================================================
