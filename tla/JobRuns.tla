-------------------------------- MODULE JobRuns --------------------------------
(***************************************************************************)
(* run_job and the jobs_runs ledger, driven by celery workers.             *)
(*                                                                         *)
(* A task invocation is a broker message.  A worker receives it, runs the  *)
(* task body (run_job: claim the ledger row of the run key, do the work,   *)
(* record the outcome) and acknowledges the message LAST (task_acks_late). *)
(* A worker that dies gives its message back (task_reject_on_worker_lost); *)
(* a worker that is slow may see its message delivered a second time while *)
(* it is still running (the redis transport's visibility timeout, left at  *)
(* its default).  A task that raises is published again with a higher      *)
(* retry count until max_retries is used up (autoretry_for=(Exception,)).  *)
(*                                                                         *)
(* Every ledger statement is a transaction of its own, so a crash can fall *)
(* between any two of them.  The work is two steps, as in every pipeline   *)
(* job: commit the data, then publish the event.                           *)
(***************************************************************************)
EXTENDS Integers

CONSTANTS
    Tasks,            \* task invocations: one .delay() or one Beat tick each
    Keys,             \* run keys
    KeyOf,            \* the run key each task computes
    Workers,          \* celery worker processes
    NoMsg,            \* "this worker holds no message"
    MaxRetries,       \* max_retries of the task decorator
    MaxCrashes,       \* bound: worker losses
    MaxRedeliveries   \* bound: visibility timeouts

ASSUME RetriesAssumption == MaxRetries \in Nat
ASSUME BoundsAssumption == MaxCrashes \in Nat /\ MaxRedeliveries \in Nat
ASSUME KeysAssumption == KeyOf \in [Tasks -> Keys]

Msgs == [task : Tasks, retries : 0..MaxRetries]

ASSUME NoMsgAssumption == NoMsg \notin Msgs

RowStatus == {"absent", "running", "succeeded", "failed"}

Busy == {"start", "work", "publish", "return", "fail", "raise", "ack"}

VARIABLES
    submitted,     \* tasks that were ever enqueued
    queue,         \* broker: how many copies of each message wait
    held,          \* the message each worker has received and not acknowledged
    pc,            \* where each worker is in run_job
    row,           \* jobs_runs.status per run key
    committed,     \* run keys whose data some run committed
    published,     \* run keys whose event some run published
    succeededOnce, \* history: run keys whose row was set to succeeded
    gaveUp,        \* tasks that raised with no retry left
    crashes,       \* worker losses so far
    redeliveries   \* visibility timeouts so far

broker == <<submitted, queue>>
bounds == <<crashes, redeliveries>>
output == <<committed, published>>
ledger == <<row, succeededOnce>>

vars == <<submitted, queue, held, pc, row, committed, published,
          succeededOnce, gaveUp, crashes, redeliveries>>

TypeOK ==
    /\ submitted \subseteq Tasks
    /\ queue \in [Msgs -> Nat]
    /\ held \in [Workers -> Msgs \cup {NoMsg}]
    /\ pc \in [Workers -> Busy \cup {"idle"}]
    /\ \A w \in Workers : held[w] = NoMsg <=> pc[w] = "idle"
    /\ row \in [Keys -> RowStatus]
    /\ committed \subseteq Keys
    /\ published \subseteq Keys
    /\ succeededOnce \subseteq Keys
    /\ gaveUp \subseteq Tasks
    /\ crashes \in 0..MaxCrashes
    /\ redeliveries \in 0..MaxRedeliveries

Init ==
    /\ submitted = {}
    /\ queue = [m \in Msgs |-> 0]
    /\ held = [w \in Workers |-> NoMsg]
    /\ pc = [w \in Workers |-> "idle"]
    /\ row = [k \in Keys |-> "absent"]
    /\ committed = {}
    /\ published = {}
    /\ succeededOnce = {}
    /\ gaveUp = {}
    /\ crashes = 0
    /\ redeliveries = 0

KeyAt(w) == KeyOf[held[w].task]

Goto(w, from, to) ==
    /\ pc[w] = from
    /\ pc' = [pc EXCEPT ![w] = to]

Put(m) == queue' = [queue EXCEPT ![m] = @ + 1]

-----------------------------------------------------------------------------
(* The broker *)

Submit(t) ==
    /\ t \notin submitted
    /\ submitted' = submitted \cup {t}
    /\ Put([task |-> t, retries |-> 0])
    /\ UNCHANGED <<held, pc, ledger, output, gaveUp, bounds>>

Receive(w, m) ==
    /\ Goto(w, "idle", "start")
    /\ queue[m] > 0
    /\ queue' = [queue EXCEPT ![m] = @ - 1]
    /\ held' = [held EXCEPT ![w] = m]
    /\ UNCHANGED <<submitted, ledger, output, gaveUp, bounds>>

Ack(w) ==
    /\ Goto(w, "ack", "idle")
    /\ held' = [held EXCEPT ![w] = NoMsg]
    /\ UNCHANGED <<broker, ledger, output, gaveUp, bounds>>

(* What early acknowledgement would do: the message dies with its worker. *)
CrashAfterEarlyAck(w) ==
    /\ pc[w] # "idle"
    /\ crashes < MaxCrashes
    /\ crashes' = crashes + 1
    /\ held' = [held EXCEPT ![w] = NoMsg]
    /\ pc' = [pc EXCEPT ![w] = "idle"]
    /\ UNCHANGED <<broker, ledger, output, gaveUp, redeliveries>>

(* What a restart that keeps the dead process's message would do. *)
CrashKeepsMessage(w) ==
    /\ pc[w] # "idle"
    /\ crashes < MaxCrashes
    /\ crashes' = crashes + 1
    /\ Put(held[w])
    /\ pc' = [pc EXCEPT ![w] = "idle"]
    /\ UNCHANGED <<submitted, held, ledger, output, gaveUp, redeliveries>>

(* The process dies: its memory is gone, its message goes back. *)
Crash(w) ==
    /\ pc[w] # "idle"
    /\ crashes < MaxCrashes
    /\ crashes' = crashes + 1
    /\ Put(held[w])
    /\ held' = [held EXCEPT ![w] = NoMsg]
    /\ pc' = [pc EXCEPT ![w] = "idle"]
    /\ UNCHANGED <<submitted, ledger, output, gaveUp, redeliveries>>

(* The broker stops waiting for w and hands out a second copy; w goes on. *)
VisibilityTimeout(w) ==
    /\ pc[w] # "idle"
    /\ redeliveries < MaxRedeliveries
    /\ redeliveries' = redeliveries + 1
    /\ Put(held[w])
    /\ UNCHANGED <<submitted, held, pc, ledger, output, gaveUp, crashes>>

-----------------------------------------------------------------------------
(* run_job *)

(* _START_SQL: WHERE jobs_runs.status <> 'succeeded'. *)
Claimable(status) == status # "succeeded"

StartRun(w) ==
    /\ Goto(w, "start", "work")
    /\ Claimable(row[KeyAt(w)])
    /\ row' = [row EXCEPT ![KeyAt(w)] = "running"]
    /\ UNCHANGED <<broker, held, output, succeededOnce, gaveUp, bounds>>

Skip(w) ==
    /\ Goto(w, "start", "ack")
    /\ ~Claimable(row[KeyAt(w)])
    /\ UNCHANGED <<broker, held, ledger, output, gaveUp, bounds>>

WorkCommits(w) ==
    /\ Goto(w, "work", "publish")
    /\ committed' = committed \cup {KeyAt(w)}
    /\ UNCHANGED <<broker, held, ledger, published, gaveUp, bounds>>

WorkPublishes(w) ==
    /\ Goto(w, "publish", "return")
    /\ published' = published \cup {KeyAt(w)}
    /\ UNCHANGED <<broker, held, ledger, committed, gaveUp, bounds>>

(* The work raises before its commit, before its event, or (ingestion, which *)
(* reports failed stocks last) after both.                                   *)
WorkRaises(w) ==
    /\ pc[w] \in {"work", "publish", "return"}
    /\ pc' = [pc EXCEPT ![w] = "fail"]
    /\ UNCHANGED <<broker, held, ledger, output, gaveUp, bounds>>

(* What recording success before the event is out would do. *)
SucceedBeforePublish(w) ==
    /\ pc[w] = "publish"
    /\ pc' = [pc EXCEPT ![w] = "ack"]
    /\ row' = [row EXCEPT ![KeyAt(w)] = "succeeded"]
    /\ succeededOnce' = succeededOnce \cup {KeyAt(w)}
    /\ UNCHANGED <<broker, held, output, gaveUp, bounds>>

Succeed(w) ==
    /\ Goto(w, "return", "ack")
    /\ row' = [row EXCEPT ![KeyAt(w)] = "succeeded"]
    /\ succeededOnce' = succeededOnce \cup {KeyAt(w)}
    /\ UNCHANGED <<broker, held, output, gaveUp, bounds>>

Fail(w) ==
    /\ Goto(w, "fail", "raise")
    /\ row' = [row EXCEPT ![KeyAt(w)] = "failed"]
    /\ UNCHANGED <<broker, held, output, succeededOnce, gaveUp, bounds>>

(* The ledger's own transaction fails and rolls back: the row keeps whatever *)
(* it says and the exception leaves run_job.                                 *)
LedgerRaises(w) ==
    /\ pc[w] \in {"start", "return", "fail"}
    /\ pc' = [pc EXCEPT ![w] = "raise"]
    /\ UNCHANGED <<broker, held, ledger, output, gaveUp, bounds>>

-----------------------------------------------------------------------------
(* The task decorator: autoretry_for=(Exception,), max_retries *)

(* What a task without max_retries would do. *)
RetryForever(w) ==
    /\ Goto(w, "raise", "ack")
    /\ Put([held[w] EXCEPT !.retries = IF @ < MaxRetries THEN @ + 1 ELSE @])
    /\ UNCHANGED <<submitted, held, ledger, output, gaveUp, bounds>>

Retry(w) ==
    /\ Goto(w, "raise", "ack")
    /\ held[w].retries < MaxRetries
    /\ Put([held[w] EXCEPT !.retries = @ + 1])
    /\ UNCHANGED <<submitted, held, ledger, output, gaveUp, bounds>>

GiveUp(w) ==
    /\ Goto(w, "raise", "ack")
    /\ held[w].retries = MaxRetries
    /\ gaveUp' = gaveUp \cup {held[w].task}
    /\ UNCHANGED <<broker, held, ledger, output, bounds>>

-----------------------------------------------------------------------------
RunJob(w) ==
    \/ StartRun(w) \/ Skip(w)
    \/ WorkCommits(w) \/ WorkPublishes(w) \/ WorkRaises(w)
    \/ Succeed(w) \/ Fail(w) \/ LedgerRaises(w)

TaskStep(w) == RunJob(w) \/ Retry(w) \/ GiveUp(w) \/ Ack(w)

Next ==
    \/ \E t \in Tasks : Submit(t)
    \/ \E w \in Workers :
          \/ \E m \in Msgs : Receive(w, m)
          \/ TaskStep(w)
          \/ Crash(w)
          \/ VisibilityTimeout(w)

(* A live worker pool: a waiting message is received, a task that runs goes  *)
(* on (raising counts as going on).  Nothing is promised about submissions,  *)
(* crashes or timeouts.                                                      *)
Fairness ==
    /\ \A m \in Msgs : WF_vars(\E w \in Workers : Receive(w, m))
    /\ \A w \in Workers : WF_vars(TaskStep(w))

Spec == Init /\ [][Next]_vars

FairSpec == Spec /\ Fairness

-----------------------------------------------------------------------------
(* Properties *)

(* A copy of the task waits in the broker or is held by a worker. *)
Outstanding(t) ==
    \/ \E m \in Msgs : m.task = t /\ queue[m] > 0
    \/ \E w \in Workers : pc[w] # "idle" /\ held[w].task = t

(* A row that says "succeeded" stands for data that is committed and an event *)
(* that is published: ledger.succeed comes after work() on every path, also   *)
(* when several workers run the same key.                                     *)
SucceededHasOutput ==
    \A k \in Keys : row[k] = "succeeded" => k \in committed /\ k \in published

(* A task is dropped by the broker only when the event of its key was         *)
(* published or its retries are used up (acks_late, reject_on_worker_lost,    *)
(* autoretry): no interleaving of crashes, redeliveries and duplicates loses  *)
(* a request silently.                                                        *)
NoSilentLoss ==
    \A t \in submitted :
        Outstanding(t) \/ KeyOf[t] \in published \/ t \in gaveUp

(* A row left at "running" (a crash, or a ledger write that failed) has a     *)
(* task that will claim it again, unless that task ran out of retries: the    *)
(* ledger has no reaper, so this is what keeps rows from staying there.       *)
RunningHasOwner ==
    \A k \in Keys : row[k] = "running" =>
        \E t \in Tasks : KeyOf[t] = k /\ (Outstanding(t) \/ t \in gaveUp)

(* A copy of the task that will still run: waiting, or held before its ack. *)
Live(t) ==
    \/ \E m \in Msgs : m.task = t /\ queue[m] > 0
    \/ \E w \in Workers : pc[w] \notin {"idle", "ack"} /\ held[w].task = t

(* What a worker knows at each point of run_job. *)
OutputInv ==
    /\ SucceededHasOutput
    /\ \A w \in Workers :
          /\ pc[w] \in {"publish", "return"} => KeyAt(w) \in committed
          /\ pc[w] = "return" => KeyAt(w) \in published

SubmittedInv ==
    /\ \A m \in Msgs : queue[m] > 0 => m.task \in submitted
    /\ \A w \in Workers : pc[w] # "idle" => held[w].task \in submitted

LossInv == \A t \in submitted : Live(t) \/ KeyOf[t] \in published \/ t \in gaveUp

OwnerInv ==
    \A k \in Keys : row[k] = "running" =>
        \E t \in Tasks : KeyOf[t] = k /\ (Live(t) \/ t \in gaveUp)

(* The inductive invariant behind the three properties above: a task that is *)
(* only waiting for its acknowledgement does not count, since acknowledging  *)
(* it must not need a further reason.                                        *)
IndInv == TypeOK /\ OutputInv /\ SubmittedInv /\ LossInv /\ OwnerInv

(* Once a run of a key succeeded its row says so for good.  True while one     *)
(* worker process at a time runs the key, whatever is lost or redelivered.    *)
SucceededIsTerminal ==
    [][\A k \in Keys : row[k] = "succeeded" => row'[k] = "succeeded"]_vars

(* "a re-run of an already succeeded key is skipped" (jobs/framework.py:4):   *)
(* no run starts on a key that some run has completed.                        *)
SucceededKeyIsSkipped ==
    [][\A w \in Workers : StartRun(w) => KeyAt(w) \notin succeededOnce]_vars

(* Every enqueued task is settled: its output appears or it gives up, and the *)
(* broker is eventually rid of it.                                            *)
EveryTaskSettles ==
    \A t \in Tasks : t \in submitted ~> ~Outstanding(t)

(* The promise made to whoever enqueues a task. *)
Contract ==
    INSTANCE JobContract WITH
        requested <- submitted,
        outstanding <- {t \in Tasks : Outstanding(t)},
        produced <- published,
        exhausted <- gaveUp

ContractSpec == Contract!Spec
=============================================================================
