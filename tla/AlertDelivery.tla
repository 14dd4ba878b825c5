----------------------------- MODULE AlertDelivery -----------------------------
(***************************************************************************)
(* From fresh scores or news to a notification, for one cycle date:        *)
(*                                                                         *)
(*   ScoresComputed / NewsScored -> evaluate_alerts   (key: date, trigger) *)
(*   AlertsFired                 -> deliver_notifications (key: second)    *)
(*                                                                         *)
(* An evaluation is one transaction over every tenant's rules; a delivery  *)
(* run is one transaction over every undelivered event, with a savepoint   *)
(* per event.  Both run on any worker and may overlap; tenants delete      *)
(* rules meanwhile, which cascades to the rules' events.  There is one     *)
(* event per rule, since the cycle date is fixed.                          *)
(***************************************************************************)
EXTENDS Integers, FiniteSets

CONSTANTS
    Rules,          \* alert rules of all tenants
    EmailRules,     \* those whose channel is email; the others are in_app
    Workers,        \* celery workers
    NoOne, NoRule,
    MaxNews,        \* bound: NewsScored events of the day
    MaxSeconds,     \* bound: clock ticks
    MaxRetries,     \* max_retries of both tasks
    MaxSendFaults,  \* bound: sends that raise
    MaxCrashes,     \* bound: worker losses
    MaxDeletes,     \* bound: rules deleted
    MaxLostTriggers,\* bound: AlertsFired handlers that raise (the bus swallows it)
    MaxUpsets       \* bound: the last four together

ASSUME RuleAssumption == EmailRules \subseteq Rules /\ NoRule \notin Rules
ASSUME NoOneAssumption == NoOne \notin Workers
ASSUME BoundsAssumption ==
    {MaxNews, MaxSeconds, MaxRetries, MaxSendFaults, MaxCrashes, MaxDeletes,
     MaxLostTriggers, MaxUpsets} \subseteq Nat

Tasks == {"scores", "news", "deliver"}   \* evaluate_alerts is named by its trigger
Seconds == 0..MaxSeconds
RunKeys == Tasks \X Seconds   \* evaluations use second 0: their key is the date
Msgs == [task : Tasks, retries : 0..MaxRetries]
RowStatus == {"absent", "running", "succeeded", "failed"}
EventStatus == {"none", "pending", "delivered", "failed"}

VARIABLES
    rules,      \* the rules that exist and are active
    matching,   \* rules whose condition holds on the committed metrics
    event,      \* committed alert_events.status per rule ("none": no row)
    lock,       \* which delivery run's transaction holds the event row
    notified,   \* committed notifications rows per rule
    mailed,     \* e-mails handed to the provider per rule
    queue,      \* broker
    job,        \* what each worker is doing
    ledger,     \* jobs_runs.status per run key
    now,        \* the wall clock, in seconds
    skipped,    \* history: a delivery run was skipped as already succeeded
    overlapped, \* history: a delivery run read while another was in its loop
    gaveUp,     \* tasks that ran out of retries
    used        \* how much of each bound is spent

vars == <<rules, matching, event, lock, notified, mailed, queue, job, ledger,
          now, skipped, overlapped, gaveUp, used>>

world == <<rules, matching, now>>
events == <<event, lock, notified>>
history == <<skipped, overlapped>>
outcome == <<ledger, history, gaveUp>>

Idle == [pc |-> "idle"]

(* todo: events read and not handled; cur: the one being delivered;         *)
(* wrote: statuses written by the open transaction; notes: in-app rows it   *)
(* inserted.  key is computed when the task body starts.                    *)
Jobs == [pc : {"claim", "read", "insert", "publish", "next", "mark", "markFailed",
               "commit", "return", "fail"},
         msg : Msgs,
         key : RunKeys,
         todo : SUBSET Rules,
         cur : Rules \cup {NoRule},
         wrote : [Rules -> {"none", "delivered", "failed"}],
         notes : SUBSET Rules]

Bounds == [scores |-> 1, news |-> MaxNews, send |-> MaxSendFaults,
           crash |-> MaxCrashes, delete |-> MaxDeletes, lost |-> MaxLostTriggers]

TypeOK ==
    /\ rules \subseteq Rules
    /\ matching \subseteq Rules
    /\ event \in [Rules -> EventStatus]
    /\ lock \in [Rules -> Workers \cup {NoOne}]
    /\ notified \in [Rules -> Nat]
    /\ mailed \in [Rules -> Nat]
    /\ queue \in [Msgs -> Nat]
    /\ \A w \in Workers : job[w] = Idle \/ job[w] \in Jobs
    /\ ledger \in [RunKeys -> RowStatus]
    /\ now \in Seconds
    /\ skipped \in BOOLEAN /\ overlapped \in BOOLEAN
    /\ gaveUp \subseteq Tasks
    /\ \A b \in DOMAIN Bounds : used[b] \in 0..Bounds[b]
    /\ \A r \in Rules \ rules : event[r] = "none"

Init ==
    /\ rules = Rules
    /\ matching = {}
    /\ event = [r \in Rules |-> "none"]
    /\ lock = [r \in Rules |-> NoOne]
    /\ notified = [r \in Rules |-> 0]
    /\ mailed = [r \in Rules |-> 0]
    /\ queue = [m \in Msgs |-> 0]
    /\ job = [w \in Workers |-> Idle]
    /\ ledger = [k \in RunKeys |-> "absent"]
    /\ now = 0
    /\ skipped = FALSE /\ overlapped = FALSE
    /\ gaveUp = {}
    /\ used = [b \in DOMAIN Bounds |-> 0]

Upsets == used["send"] + used["crash"] + used["delete"] + used["lost"]

Spend(b) ==
    /\ used[b] < Bounds[b]
    /\ b \notin {"scores", "news"} => Upsets < MaxUpsets
    /\ used' = [used EXCEPT ![b] = @ + 1]

At(w, pc) == job[w].pc = pc
Step(w, pc) == job' = [job EXCEPT ![w].pc = pc]
Task(w) == job[w].msg.task

Enqueue(t) == queue' = [queue EXCEPT ![[task |-> t, retries |-> 0]] = @ + 1]

Unlocked(w) == [r \in Rules |-> IF lock[r] = w THEN NoOne ELSE lock[r]]

-----------------------------------------------------------------------------
(* The world: new metrics arrive with the event that announces them, tenants *)
(* delete rules, seconds pass.                                               *)

Trigger(t) ==
    /\ t \in {"scores", "news"}
    /\ Spend(t)
    /\ matching' \in SUBSET Rules
    /\ Enqueue(t)
    /\ UNCHANGED <<rules, now, events, mailed, job, outcome>>

(* The cascade waits for the lock of a delivery in progress. *)
DeleteRule(r) ==
    /\ r \in rules
    /\ lock[r] = NoOne
    /\ Spend("delete")
    /\ rules' = rules \ {r}
    /\ event' = [event EXCEPT ![r] = "none"]
    /\ UNCHANGED <<matching, now, lock, notified, mailed, queue, job, outcome>>

Tick ==
    /\ now < MaxSeconds
    /\ now' = now + 1
    /\ UNCHANGED <<rules, matching, events, mailed, queue, job, outcome, used>>

-----------------------------------------------------------------------------
(* run_job *)

(* What an evaluation key without the trigger would do. *)
ReceiveKeyedByDate(w, m) ==
    /\ At(w, "idle")
    /\ queue[m] > 0
    /\ queue' = [queue EXCEPT ![m] = @ - 1]
    /\ job' = [job EXCEPT ![w] =
                  [pc |-> "claim", msg |-> m,
                   key |-> IF m.task = "deliver" THEN <<"deliver", now>> ELSE <<"scores", 0>>,
                   todo |-> {}, cur |-> NoRule,
                   wrote |-> [r \in Rules |-> "none"], notes |-> {}]]
    /\ UNCHANGED <<world, events, mailed, outcome, used>>

Receive(w, m) ==
    /\ At(w, "idle")
    /\ queue[m] > 0
    /\ queue' = [queue EXCEPT ![m] = @ - 1]
    /\ job' = [job EXCEPT ![w] =
                  [pc |-> "claim", msg |-> m,
                   key |-> <<m.task, IF m.task = "deliver" THEN now ELSE 0>>,
                   todo |-> {}, cur |-> NoRule,
                   wrote |-> [r \in Rules |-> "none"], notes |-> {}]]
    /\ UNCHANGED <<world, events, mailed, outcome, used>>

Claim(w) ==
    /\ At(w, "claim")
    /\ ledger[job[w].key] # "succeeded"
    /\ ledger' = [ledger EXCEPT ![job[w].key] = "running"]
    /\ Step(w, "read")
    /\ UNCHANGED <<world, events, mailed, queue, history, gaveUp, used>>

Skip(w) ==
    /\ At(w, "claim")
    /\ ledger[job[w].key] = "succeeded"
    /\ skipped' = (skipped \/ Task(w) = "deliver")
    /\ job' = [job EXCEPT ![w] = Idle]
    /\ UNCHANGED <<world, events, mailed, queue, ledger, overlapped, gaveUp, used>>

Succeed(w) ==
    /\ At(w, "return")
    /\ ledger' = [ledger EXCEPT ![job[w].key] = "succeeded"]
    /\ job' = [job EXCEPT ![w] = Idle]
    /\ UNCHANGED <<world, events, mailed, queue, history, gaveUp, used>>

Fail(w) ==
    /\ At(w, "fail")
    /\ ledger' = [ledger EXCEPT ![job[w].key] = "failed"]
    /\ job' = [job EXCEPT ![w] = Idle]
    /\ \/ /\ job[w].msg.retries < MaxRetries
          /\ queue' = [queue EXCEPT ![[job[w].msg EXCEPT !.retries = @ + 1]] = @ + 1]
          /\ UNCHANGED gaveUp
       \/ /\ job[w].msg.retries = MaxRetries
          /\ gaveUp' = gaveUp \cup {Task(w)}
          /\ UNCHANGED queue
    /\ UNCHANGED <<world, events, mailed, history, used>>

Crash(w) ==
    /\ ~At(w, "idle")
    /\ Spend("crash")
    /\ queue' = [queue EXCEPT ![job[w].msg] = @ + 1]
    /\ lock' = Unlocked(w)
    /\ job' = [job EXCEPT ![w] = Idle]
    /\ UNCHANGED <<world, event, notified, mailed, outcome>>

-----------------------------------------------------------------------------
(* evaluate_alerts *)

EvalRead(w) ==
    /\ At(w, "read") /\ Task(w) # "deliver"
    /\ job' = [job EXCEPT ![w].todo = rules \cap matching, ![w].pc = "insert"]
    /\ UNCHANGED <<world, events, mailed, queue, outcome, used>>

(* ON CONFLICT DO NOTHING: an event that exists keeps its status. *)
EvalInsert(w) ==
    /\ At(w, "insert")
    /\ job[w].todo \subseteq rules
    /\ event' = [r \in Rules |-> IF r \in job[w].todo /\ event[r] = "none"
                                 THEN "pending" ELSE event[r]]
    /\ Step(w, "publish")
    /\ UNCHANGED <<world, lock, notified, mailed, queue, outcome, used>>

(* A rule deleted since the read violates the foreign key: the transaction  *)
(* of all tenants rolls back and the job fails.                             *)
EvalOrphan(w) ==
    /\ At(w, "insert")
    /\ ~(job[w].todo \subseteq rules)
    /\ Step(w, "fail")
    /\ UNCHANGED <<world, events, mailed, queue, outcome, used>>

(* A handler that raises (the broker refuses the task) is logged and swallowed *)
(* by the bus: the evaluation succeeds and nothing will deliver its events.    *)
PublishFired(w) ==
    /\ At(w, "publish")
    /\ \/ Enqueue("deliver") /\ UNCHANGED used
       \/ Spend("lost") /\ UNCHANGED queue
    /\ Step(w, "return")
    /\ UNCHANGED <<world, events, mailed, outcome>>

-----------------------------------------------------------------------------
(* deliver_notifications *)

(* What a delivery query without its status filter would read. *)
AnyStatus(status) == status # "none"

Undelivered(status) == status \in {"pending", "failed"}

InLoop(w) == job[w].pc \in {"next", "mark", "markFailed"}

DeliverRead(w) ==
    /\ At(w, "read") /\ Task(w) = "deliver"
    /\ job' = [job EXCEPT ![w].todo = {r \in rules : Undelivered(event[r])},
                          ![w].pc = "next"]
    /\ overlapped' = (overlapped \/ \E v \in Workers \ {w} : InLoop(v))
    /\ UNCHANGED <<world, events, mailed, queue, ledger, skipped, gaveUp, used>>

(* An e-mail is out when the provider takes it; an in-app row is part of    *)
(* the transaction.  Events of one evaluation carry one fired_at, so        *)
(* ORDER BY fired_at leaves their order open.                               *)
Send(w, r) ==
    /\ At(w, "next") /\ r \in job[w].todo
    /\ job' = [job EXCEPT ![w].todo = @ \ {r}, ![w].cur = r, ![w].pc = "mark",
                          ![w].notes = IF r \in EmailRules THEN @ ELSE @ \cup {r}]
    /\ mailed' = IF r \in EmailRules THEN [mailed EXCEPT ![r] = @ + 1] ELSE mailed
    /\ UNCHANGED <<world, events, queue, outcome, used>>

(* What a delivery without a savepoint would do: the in-app row survives. *)
SendFailsAfterInsert(w, r) ==
    /\ At(w, "next") /\ r \in job[w].todo
    /\ Spend("send")
    /\ job' = [job EXCEPT ![w].todo = @ \ {r}, ![w].cur = r, ![w].pc = "markFailed",
                          ![w].notes = IF r \in EmailRules THEN @ ELSE @ \cup {r}]
    /\ UNCHANGED <<world, events, mailed, queue, outcome>>

SendFails(w, r) ==
    /\ At(w, "next") /\ r \in job[w].todo
    /\ Spend("send")
    /\ job' = [job EXCEPT ![w].todo = @ \ {r}, ![w].cur = r, ![w].pc = "markFailed"]
    /\ UNCHANGED <<world, events, mailed, queue, outcome>>

(* mark_alert_event has no guard on the status it replaces; it waits for a  *)
(* transaction that has marked the same event, and touches nothing when the *)
(* event is gone.                                                           *)
Mark(w, r, status) ==
    /\ job[w].cur = r
    /\ lock[r] \in {NoOne, w}
    /\ IF event[r] = "none"
       THEN /\ job' = [job EXCEPT ![w].cur = NoRule, ![w].pc = "next"]
            /\ UNCHANGED lock
       ELSE /\ job' = [job EXCEPT ![w].cur = NoRule, ![w].pc = "next",
                                  ![w].wrote[r] = status]
            /\ lock' = [lock EXCEPT ![r] = w]
    /\ UNCHANGED <<world, event, notified, mailed, queue, outcome, used>>

MarkDelivered(w) == At(w, "mark") /\ \E r \in Rules : Mark(w, r, "delivered")
MarkFailed(w) == At(w, "markFailed") /\ \E r \in Rules : Mark(w, r, "failed")

WaitsFor(w, v) ==
    /\ job[w].pc \in {"mark", "markFailed"}
    /\ v # w /\ lock[job[w].cur] = v

(* Two runs that mark the same events in different orders deadlock; the     *)
(* database aborts a statement of one of them.  Inside the savepoint that   *)
(* undoes the delivery and the event is to be marked failed; outside it the *)
(* whole run rolls back.                                                    *)
DeadlockInSavepoint(w) ==
    /\ At(w, "mark")
    /\ \E v \in Workers : WaitsFor(w, v) /\ WaitsFor(v, w)
    /\ job' = [job EXCEPT ![w].pc = "markFailed", ![w].notes = @ \ {job[w].cur}]
    /\ UNCHANGED <<world, events, mailed, queue, outcome, used>>

DeadlockOutside(w) ==
    /\ At(w, "markFailed")
    /\ \E v \in Workers : WaitsFor(w, v) /\ WaitsFor(v, w)
    /\ lock' = Unlocked(w)
    /\ Step(w, "fail")
    /\ UNCHANGED <<world, event, notified, mailed, queue, outcome, used>>

(* What a transaction left open after the loop would do. *)
DeliverKeepsLocks(w) ==
    /\ At(w, "next") /\ job[w].todo = {}
    /\ event' = [r \in Rules |-> IF job[w].wrote[r] = "none" THEN event[r]
                                 ELSE job[w].wrote[r]]
    /\ notified' = [r \in Rules |-> IF r \in job[w].notes THEN notified[r] + 1
                                    ELSE notified[r]]
    /\ Step(w, "return")
    /\ UNCHANGED <<world, lock, mailed, queue, outcome, used>>

DeliverCommit(w) ==
    /\ At(w, "next") /\ job[w].todo = {}
    /\ event' = [r \in Rules |-> IF job[w].wrote[r] = "none" THEN event[r]
                                 ELSE job[w].wrote[r]]
    /\ notified' = [r \in Rules |-> IF r \in job[w].notes THEN notified[r] + 1
                                    ELSE notified[r]]
    /\ lock' = Unlocked(w)
    /\ Step(w, "return")
    /\ UNCHANGED <<world, mailed, queue, outcome, used>>

-----------------------------------------------------------------------------
WorkerStep(w) ==
    \/ Claim(w) \/ Skip(w) \/ Succeed(w) \/ Fail(w)
    \/ EvalRead(w) \/ EvalInsert(w) \/ EvalOrphan(w) \/ PublishFired(w)
    \/ DeliverRead(w)
    \/ \E r \in Rules : Send(w, r) \/ SendFails(w, r)
    \/ MarkDelivered(w) \/ MarkFailed(w)
    \/ DeadlockInSavepoint(w) \/ DeadlockOutside(w)
    \/ DeliverCommit(w)

Next ==
    \/ \E t \in Tasks : Trigger(t)
    \/ \E r \in Rules : DeleteRule(r)
    \/ Tick
    \/ \E w \in Workers :
          \/ \E m \in Msgs : Receive(w, m)
          \/ WorkerStep(w)
          \/ Crash(w)

Spec == Init /\ [][Next]_vars

FairSpec ==
    /\ Spec
    /\ \A m \in Msgs : WF_vars(\E w \in Workers : Receive(w, m))
    /\ \A w \in Workers : WF_vars(WorkerStep(w))

-----------------------------------------------------------------------------
(* Properties *)

AtRest ==
    /\ \A m \in Msgs : queue[m] = 0
    /\ \A w \in Workers : At(w, "idle")

Reached(r) == IF r \in EmailRules THEN mailed[r] > 0 ELSE notified[r] > 0

(* An event marked delivered has reached its user: the mark and the in-app  *)
(* row commit together, and an e-mail precedes its mark, whatever runs      *)
(* overlap, deadlock or crash.                                              *)
DeliveredWasSent == \A r \in Rules : event[r] = "delivered" => Reached(r)

(* A run that waits for an event's lock waits for a run that is still in    *)
(* its loop and has marked that event: a finished, crashed or rolled-back   *)
(* run holds none, so a wait can end.                                       *)
LocksAreHeldInLoop ==
    \A r \in Rules, w \in Workers :
        lock[r] = w => InLoop(w) /\ job[w].wrote[r] # "none"

(* No event stays pending once the workers are idle, unless a delivery was  *)
(* skipped as a repetition, gave up or lost its trigger.  True with one     *)
(* trigger of each kind in the day: with two, an evaluation that crashes    *)
(* between its commit and its publication can come back only to be skipped, *)
(* because the other one has succeeded under the same key.                  *)
NoEventStranded ==
    AtRest /\ gaveUp = {} /\ ~skipped /\ used["lost"] = 0
        => \A r \in Rules : event[r] # "pending"

(* "alert fires within one scoring cycle of the breach": at rest, every     *)
(* rule whose condition holds has its event.  True with one trigger of each *)
(* kind in the day.                                                         *)
MatchingRuleFires ==
    AtRest /\ gaveUp = {} => \A r \in rules \cap matching : event[r] # "none"

(* As long as delivery runs do not overlap, the user sees one in-app        *)
(* notification per event, through retries, crashes and failed sends.       *)
SerialRunsNotifyOnce == ~overlapped => \A r \in Rules : notified[r] <= 1

(* ... and an event that a later run will try again has left none so far:   *)
(* the savepoint takes the in-app row of a failed delivery with it.         *)
UndeliveredLeftNothing ==
    ~overlapped => \A r \in Rules : Undelivered(event[r]) => notified[r] = 0

(* The workers always come to rest after the last trigger: retries,         *)
(* deadlocks and lock waits end.                                            *)
DayEnds == <>[]AtRest

(* An event's state, its lock, its in-app row and its task agree             *)
(* (deliver_pending and its savepoints).                                     *)
DeliveryIsSound ==
    /\ TypeOK /\ LocksAreHeldInLoop
    /\ DeliveredWasSent /\ UndeliveredLeftNothing /\ NoEventStranded
=============================================================================
