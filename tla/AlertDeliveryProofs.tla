-------------------------- MODULE AlertDeliveryProofs --------------------------
(***************************************************************************)
(* Proofs about AlertDelivery, for any rules, workers, seconds, retries    *)
(* and faults: what is marked delivered was sent, locks are held by runs   *)
(* in their loop, runs that do not overlap notify once, and with one       *)
(* NewsScored in the day no matching rule and no event is left behind.     *)
(***************************************************************************)
EXTENDS AlertDelivery, TLAPS

Labels == {"claim", "read", "insert", "publish", "next", "mark", "markFailed", "commit",
           "return", "fail"}

(* The shape of the two functions that TypeOK describes by their values. *)
Shape == job \in [Workers -> Jobs \cup {Idle}] /\ DOMAIN used = DOMAIN Bounds

(* What a delivery run has done to r in its open transaction. *)
Sent(w, r) == IF r \in EmailRules THEN mailed[r] > 0 ELSE r \in job[w].notes

Touched(w, r) ==
    \/ r \in job[w].todo \/ r \in job[w].notes
    \/ r = job[w].cur \/ job[w].wrote[r] # "none"

Untouched(w) ==
    job[w].cur = NoRule /\ job[w].notes = {} /\ \A r \in Rules : job[w].wrote[r] = "none"

(* A delivery run takes each event once, and writes it at most once; the     *)
(* in-app row and the mark it writes belong together.                        *)
LoopIsOrderly(w) ==
    /\ At(w, "next") <=> job[w].cur = NoRule
    /\ \A r \in job[w].todo :
          r # job[w].cur /\ r \notin job[w].notes /\ job[w].wrote[r] = "none"
    /\ job[w].cur # NoRule => job[w].wrote[job[w].cur] = "none"
    /\ At(w, "mark") => Sent(w, job[w].cur)
    /\ At(w, "markFailed") => job[w].cur \notin job[w].notes
    /\ \A r \in Rules : job[w].wrote[r] = "delivered" => Sent(w, r)
    /\ \A r \in Rules : job[w].wrote[r] = "failed" => r \notin job[w].notes

(* Every mark of the open transaction is locked; an event vanishes only with *)
(* its rule.                                                                 *)
LoopIsCurrent(w) ==
    /\ \A r \in Rules : job[w].wrote[r] # "none" => lock[r] = w
    /\ \A r \in rules : Touched(w, r) => event[r] # "none"
    /\ \A r \in job[w].notes :
          r = job[w].cur \/ job[w].wrote[r] = "delivered" \/ r \notin rules

LoopOK(w) ==
    /\ job[w].pc \in {"claim", "read"} => Untouched(w)
    /\ InLoop(w) => LoopIsOrderly(w) /\ LoopIsCurrent(w)

LockedExists == \A r \in Rules : lock[r] # NoOne => event[r] # "none"

LoopInv ==
    /\ TypeOK /\ Shape
    /\ \A w \in Workers : LoopOK(w)
    /\ LocksAreHeldInLoop /\ LockedExists /\ DeliveredWasSent

-----------------------------------------------------------------------------
(* Lemmas about the operators of the model *)

LEMMA BusyJob ==
    ASSUME Shape, NEW w \in Workers, ~At(w, "idle")
    PROVE  /\ job[w] \in Jobs /\ job[w].pc \in Labels
           /\ job[w].msg \in Msgs /\ Task(w) \in Tasks /\ job[w].key \in RunKeys
           /\ job[w].msg.retries \in 0..MaxRetries
           /\ job[w].todo \subseteq Rules /\ job[w].cur \in Rules \cup {NoRule}
           /\ job[w].wrote \in [Rules -> {"none", "delivered", "failed"}]
           /\ job[w].notes \subseteq Rules
BY DEF Shape, At, Idle, Jobs, Msgs, Task, Labels

LEMMA StepMoves ==
    ASSUME Shape, NEW w \in Workers, ~At(w, "idle"), NEW l \in Labels, Step(w, l)
    PROVE  /\ job' \in [Workers -> Jobs \cup {Idle}]
           /\ job'[w].pc = l /\ job'[w].msg = job[w].msg /\ job'[w].key = job[w].key
           /\ job'[w].todo = job[w].todo /\ job'[w].cur = job[w].cur
           /\ job'[w].wrote = job[w].wrote /\ job'[w].notes = job[w].notes
           /\ \A v \in Workers \ {w} : job'[v] = job[v]
<1>1. job[w] \in Jobs
  BY BusyJob
<1>2. [job[w] EXCEPT !.pc = l] \in Jobs
  BY <1>1 DEF Jobs, Labels
<1>3. QED
  BY <1>1, <1>2 DEF Step, Shape, Jobs

LEMMA GoesIdle ==
    ASSUME Shape, NEW w \in Workers, job' = [job EXCEPT ![w] = Idle]
    PROVE  /\ job' \in [Workers -> Jobs \cup {Idle}]
           /\ job'[w].pc = "idle"
           /\ \A v \in Workers \ {w} : job'[v] = job[v]
BY DEF Shape, Idle

LEMMA PutAdds ==
    ASSUME TypeOK, NEW m \in Msgs, queue' = [queue EXCEPT ![m] = @ + 1]
    PROVE  /\ queue' \in [Msgs -> Nat] /\ queue'[m] > 0
           /\ \A n \in Msgs : queue[n] > 0 => queue'[n] > 0
           /\ \A n \in Msgs \ {m} : queue'[n] = queue[n]
           /\ queue'[m] = queue[m] + 1
BY DEF TypeOK

LEMMA NewMsg ==
    ASSUME NEW t \in Tasks
    PROVE  [task |-> t, retries |-> 0] \in Msgs
BY BoundsAssumption DEF Msgs

LEMMA RetriedMsg ==
    ASSUME NEW m \in Msgs, m.retries < MaxRetries
    PROVE  /\ [m EXCEPT !.retries = @ + 1] \in Msgs
           /\ [m EXCEPT !.retries = @ + 1].task = m.task
BY BoundsAssumption DEF Msgs

LEMMA BoundNames == DOMAIN Bounds = {"scores", "news", "send", "crash", "delete", "lost"}
BY DEF Bounds

LEMMA BoundsType == \A b \in DOMAIN Bounds : Bounds[b] \in Nat
BY BoundsAssumption DEF Bounds

LEMMA SpendType ==
    ASSUME TypeOK, Shape, NEW b \in DOMAIN Bounds, Spend(b)
    PROVE  /\ DOMAIN used' = DOMAIN Bounds
           /\ \A c \in DOMAIN Bounds : used'[c] \in 0..Bounds[c] /\ used'[c] >= used[c]
           /\ used'[b] = used[b] + 1
           /\ \A c \in DOMAIN Bounds \ {b} : used'[c] = used[c]
           /\ \A c \in DOMAIN Bounds : used[c] \in Nat
BY BoundsType DEF TypeOK, Shape, Spend

LEMMA UnlockedType ==
    ASSUME TypeOK, NEW w \in Workers
    PROVE  /\ Unlocked(w) \in [Rules -> Workers \cup {NoOne}]
           /\ \A r \in Rules, v \in Workers : Unlocked(w)[r] = v <=> (v # w /\ lock[r] = v)
           /\ \A r \in Rules : Unlocked(w)[r] # NoOne => lock[r] # NoOne
BY NoOneAssumption DEF Unlocked, TypeOK

-----------------------------------------------------------------------------
(* What one action does to the job of its worker *)

LEMMA ReceiveMoves ==
    ASSUME TypeOK, Shape, NEW w \in Workers, NEW m \in Msgs, Receive(w, m)
    PROVE  /\ job' \in [Workers -> Jobs \cup {Idle}]
           /\ job'[w].pc = "claim" /\ job'[w].msg = m
           /\ job'[w].cur = NoRule /\ job'[w].notes = {}
           /\ \A r \in Rules : job'[w].wrote[r] = "none"
           /\ m.task # "deliver" => job'[w].key = <<m.task, 0>>
           /\ m.task = "deliver" => job'[w].key[1] = "deliver"
           /\ \A v \in Workers \ {w} : job'[v] = job[v]
           /\ queue' \in [Msgs -> Nat]
           /\ queue[m] > 0 /\ queue'[m] = queue[m] - 1
           /\ \A n \in Msgs : n # m => queue'[n] = queue[n]
<1> DEFINE J == [pc |-> "claim", msg |-> m,
                 key |-> <<m.task, IF m.task = "deliver" THEN now ELSE 0>>,
                 todo |-> {}, cur |-> NoRule,
                 wrote |-> [r \in Rules |-> "none"], notes |-> {}]
<1>1. /\ <<m.task, IF m.task = "deliver" THEN now ELSE 0>> \in RunKeys
      /\ [r \in Rules |-> "none"] \in [Rules -> {"none", "delivered", "failed"}]
  BY BoundsAssumption DEF TypeOK, RunKeys, Seconds, Msgs
<1>2. J \in Jobs
  BY <1>1 DEF Jobs
<1>3. job'[w] = J /\ job' = [job EXCEPT ![w] = J]
  BY DEF Receive, Shape
<1>4. /\ queue' \in [Msgs -> Nat]
      /\ queue[m] > 0 /\ queue'[m] = queue[m] - 1
      /\ \A n \in Msgs : n # m => queue'[n] = queue[n]
  BY DEF Receive, TypeOK
<1> HIDE DEF J
<1>5. job' \in [Workers -> Jobs \cup {Idle}] /\ \A v \in Workers \ {w} : job'[v] = job[v]
  BY <1>2, <1>3 DEF Shape
<1>6. QED
  BY <1>3, <1>4, <1>5 DEF J

LEMMA FailMoves ==
    ASSUME TypeOK, Shape, NEW w \in Workers, Fail(w)
    PROVE  /\ job' \in [Workers -> Jobs \cup {Idle}]
           /\ job'[w].pc = "idle" /\ \A v \in Workers \ {w} : job'[v] = job[v]
           /\ queue' \in [Msgs -> Nat] /\ gaveUp' \subseteq Tasks
           /\ \/ \E m \in Msgs : /\ m.task = Task(w)
                                 /\ queue' = [queue EXCEPT ![m] = @ + 1]
              \/ queue' = queue /\ Task(w) \in gaveUp'
           /\ gaveUp \subseteq gaveUp'
<1>1. /\ job' \in [Workers -> Jobs \cup {Idle}]
      /\ job'[w].pc = "idle" /\ \A v \in Workers \ {w} : job'[v] = job[v]
  BY GoesIdle DEF Fail
<1>2. job[w].msg \in Msgs /\ Task(w) \in Tasks /\ Task(w) = job[w].msg.task
  BY BusyJob DEF Fail, At, Task
<1>3. CASE /\ job[w].msg.retries < MaxRetries
           /\ queue' = [queue EXCEPT ![[job[w].msg EXCEPT !.retries = @ + 1]] = @ + 1]
           /\ UNCHANGED gaveUp
  <2>1. DEFINE again == [job[w].msg EXCEPT !.retries = @ + 1]
  <2>2. again \in Msgs /\ again.task = Task(w)
    BY <1>2, <1>3, RetriedMsg
  <2>3. queue' \in [Msgs -> Nat]
    BY <1>3, <2>2, PutAdds
  <2>4. gaveUp' = gaveUp /\ gaveUp \subseteq Tasks
    BY <1>3 DEF TypeOK
  <2>5. queue' = [queue EXCEPT ![again] = @ + 1]
    BY <1>3
  <2> HIDE DEF again
  <2>6. QED
    BY <1>1, <2>2, <2>3, <2>4, <2>5
<1>4. CASE gaveUp' = gaveUp \cup {Task(w)} /\ UNCHANGED queue
  BY <1>1, <1>2, <1>4 DEF TypeOK
<1>5. QED
  BY <1>3, <1>4 DEF Fail

LEMMA EvalReadMoves ==
    ASSUME TypeOK, Shape, NEW w \in Workers, EvalRead(w)
    PROVE  /\ job' \in [Workers -> Jobs \cup {Idle}]
           /\ job'[w].pc = "insert" /\ job'[w].msg = job[w].msg /\ job'[w].key = job[w].key
           /\ job'[w].todo = rules \cap matching
           /\ \A v \in Workers \ {w} : job'[v] = job[v]
<1>1. job[w] \in Jobs
  BY BusyJob DEF EvalRead, At
<1>2. [job[w] EXCEPT !.todo = rules \cap matching, !.pc = "insert"] \in Jobs
  BY <1>1 DEF Jobs, TypeOK
<1>3. QED
  BY <1>1, <1>2 DEF EvalRead, Shape, Jobs

LEMMA DeliverReadMoves ==
    ASSUME TypeOK, Shape, NEW w \in Workers, DeliverRead(w)
    PROVE  /\ job' \in [Workers -> Jobs \cup {Idle}]
           /\ job'[w].pc = "next" /\ job'[w].msg = job[w].msg /\ job'[w].key = job[w].key
           /\ job'[w].todo = {r \in rules : Undelivered(event[r])}
           /\ job'[w].cur = job[w].cur /\ job'[w].wrote = job[w].wrote
           /\ job'[w].notes = job[w].notes
           /\ \A v \in Workers \ {w} : job'[v] = job[v]
<1>1. job[w] \in Jobs
  BY BusyJob DEF DeliverRead, At
<1>2. [job[w] EXCEPT !.todo = {r \in rules : Undelivered(event[r])}, !.pc = "next"] \in Jobs
  BY <1>1 DEF Jobs, TypeOK
<1>3. QED
  BY <1>1, <1>2 DEF DeliverRead, Shape, Jobs

LEMMA SendMoves ==
    ASSUME TypeOK, Shape, NEW w \in Workers, NEW r \in Rules, Send(w, r)
    PROVE  /\ job' \in [Workers -> Jobs \cup {Idle}]
           /\ job'[w].pc = "mark" /\ job'[w].msg = job[w].msg /\ job'[w].key = job[w].key
           /\ r \in job[w].todo /\ job'[w].todo = job[w].todo \ {r}
           /\ job'[w].cur = r /\ job'[w].wrote = job[w].wrote
           /\ job'[w].notes = IF r \in EmailRules THEN job[w].notes ELSE job[w].notes \cup {r}
           /\ \A v \in Workers \ {w} : job'[v] = job[v]
           /\ mailed' \in [Rules -> Nat] /\ \A q \in Rules : mailed'[q] >= mailed[q]
           /\ r \in EmailRules => mailed'[r] > 0
<1>1. job[w] \in Jobs
  BY BusyJob DEF Send, At
<1>2. [job[w] EXCEPT !.todo = @ \ {r}, !.cur = r, !.pc = "mark",
                     !.notes = IF r \in EmailRules THEN @ ELSE @ \cup {r}] \in Jobs
  BY <1>1 DEF Jobs
<1>3. /\ mailed' \in [Rules -> Nat] /\ \A q \in Rules : mailed'[q] >= mailed[q]
      /\ r \in EmailRules => mailed'[r] > 0
  BY DEF Send, TypeOK
<1>4. /\ r \in job[w].todo
      /\ job' = [job EXCEPT ![w] = [job[w] EXCEPT
                    !.todo = @ \ {r}, !.cur = r, !.pc = "mark",
                    !.notes = IF r \in EmailRules THEN @ ELSE @ \cup {r}]]
  BY DEF Send, Shape
<1>5. job' \in [Workers -> Jobs \cup {Idle}] /\ \A v \in Workers \ {w} : job'[v] = job[v]
  BY <1>2, <1>4 DEF Shape
<1>6. /\ job'[w].pc = "mark" /\ job'[w].msg = job[w].msg /\ job'[w].key = job[w].key
      /\ job'[w].todo = job[w].todo \ {r}
      /\ job'[w].cur = r /\ job'[w].wrote = job[w].wrote
      /\ job'[w].notes = IF r \in EmailRules THEN job[w].notes ELSE job[w].notes \cup {r}
  BY <1>1, <1>4 DEF Shape, Jobs
<1>7. QED
  BY <1>3, <1>4, <1>5, <1>6

LEMMA SendFailsMoves ==
    ASSUME TypeOK, Shape, NEW w \in Workers, NEW r \in Rules, SendFails(w, r)
    PROVE  /\ job' \in [Workers -> Jobs \cup {Idle}]
           /\ job'[w].pc = "markFailed" /\ job'[w].msg = job[w].msg
           /\ job'[w].key = job[w].key
           /\ r \in job[w].todo /\ job'[w].todo = job[w].todo \ {r}
           /\ job'[w].cur = r /\ job'[w].wrote = job[w].wrote
           /\ job'[w].notes = job[w].notes
           /\ \A v \in Workers \ {w} : job'[v] = job[v]
<1>1. job[w] \in Jobs
  BY BusyJob DEF SendFails, At
<1>2. [job[w] EXCEPT !.todo = @ \ {r}, !.cur = r, !.pc = "markFailed"] \in Jobs
  BY <1>1 DEF Jobs
<1>3. QED
  BY <1>1, <1>2 DEF SendFails, Shape, Jobs

(* A mark of an event that is gone writes and locks nothing. *)
LEMMA MarkMoves ==
    ASSUME TypeOK, Shape, NEW w \in Workers, NEW r \in Rules,
           NEW status \in {"delivered", "failed"}, ~At(w, "idle"), Mark(w, r, status)
    PROVE  /\ job' \in [Workers -> Jobs \cup {Idle}]
           /\ job'[w].pc = "next" /\ job'[w].msg = job[w].msg /\ job'[w].key = job[w].key
           /\ job[w].cur = r /\ job'[w].cur = NoRule
           /\ job'[w].todo = job[w].todo /\ job'[w].notes = job[w].notes
           /\ \A v \in Workers \ {w} : job'[v] = job[v]
           /\ lock[r] \in {NoOne, w} /\ lock' \in [Rules -> Workers \cup {NoOne}]
           /\ event[r] = "none" => job'[w].wrote = job[w].wrote /\ lock' = lock
           /\ event[r] # "none" =>
                 /\ job'[w].wrote[r] = status /\ lock'[r] = w
                 /\ \A q \in Rules \ {r} : job'[w].wrote[q] = job[w].wrote[q]
                 /\ \A q \in Rules \ {r} : lock'[q] = lock[q]
<1>1. job[w] \in Jobs
  BY BusyJob
<1>2. CASE event[r] = "none"
  <2>1. [job[w] EXCEPT !.cur = NoRule, !.pc = "next"] \in Jobs
    BY <1>1 DEF Jobs
  <2>2. QED
    BY <1>1, <1>2, <2>1 DEF Mark, Shape, Jobs, TypeOK
<1>3. CASE event[r] # "none"
  <2>1. [job[w].wrote EXCEPT ![r] = status] \in [Rules -> {"none", "delivered", "failed"}]
    BY <1>1 DEF Jobs
  <2>2. [job[w] EXCEPT !.cur = NoRule, !.pc = "next", !.wrote[r] = status] \in Jobs
    BY <1>1, <2>1 DEF Jobs
  <2>3. lock' = [lock EXCEPT ![r] = w] /\ lock' \in [Rules -> Workers \cup {NoOne}]
    BY <1>3 DEF Mark, TypeOK
  <2>4. job' = [job EXCEPT ![w] = [job[w] EXCEPT !.cur = NoRule, !.pc = "next",
                                                 !.wrote[r] = status]]
    BY <1>3 DEF Mark, Shape
  <2>5. /\ job' \in [Workers -> Jobs \cup {Idle}]
        /\ \A v \in Workers \ {w} : job'[v] = job[v]
        /\ job'[w] = [job[w] EXCEPT !.cur = NoRule, !.pc = "next", !.wrote[r] = status]
    BY <2>2, <2>4 DEF Shape
  <2>6. /\ job'[w].pc = "next" /\ job'[w].msg = job[w].msg /\ job'[w].key = job[w].key
        /\ job'[w].cur = NoRule
        /\ job'[w].todo = job[w].todo /\ job'[w].notes = job[w].notes
        /\ job'[w].wrote = [job[w].wrote EXCEPT ![r] = status]
    BY <1>1, <2>5 DEF Jobs
  <2>7. /\ job'[w].wrote[r] = status
        /\ \A q \in Rules \ {r} : job'[w].wrote[q] = job[w].wrote[q]
    BY <1>1, <2>6 DEF Jobs
  <2>8. lock'[r] = w /\ \A q \in Rules \ {r} : lock'[q] = lock[q]
    BY <2>3 DEF TypeOK
  <2>9. QED
    BY <1>3, <2>3, <2>5, <2>6, <2>7, <2>8 DEF Mark
<1>4. QED
  BY <1>2, <1>3

LEMMA DeadlockInMoves ==
    ASSUME TypeOK, Shape, NEW w \in Workers, DeadlockInSavepoint(w)
    PROVE  /\ job' \in [Workers -> Jobs \cup {Idle}]
           /\ job'[w].pc = "markFailed" /\ job'[w].msg = job[w].msg
           /\ job'[w].key = job[w].key
           /\ job'[w].todo = job[w].todo /\ job'[w].cur = job[w].cur
           /\ job'[w].wrote = job[w].wrote /\ job'[w].notes = job[w].notes \ {job[w].cur}
           /\ \A v \in Workers \ {w} : job'[v] = job[v]
<1>1. job[w] \in Jobs
  BY BusyJob DEF DeadlockInSavepoint, At
<1>2. [job[w] EXCEPT !.pc = "markFailed", !.notes = @ \ {job[w].cur}] \in Jobs
  BY <1>1 DEF Jobs
<1>3. QED
  BY <1>1, <1>2 DEF DeadlockInSavepoint, Shape, Jobs

(* What a commit leaves in an event and its in-app notifications. *)
LEMMA CommitMoves ==
    ASSUME TypeOK, Shape, NEW w \in Workers, DeliverCommit(w)
    PROVE  /\ job' \in [Workers -> Jobs \cup {Idle}] /\ job'[w].pc = "return"
           /\ At(w, "next") /\ job[w].todo = {}
           /\ job'[w].msg = job[w].msg /\ job'[w].key = job[w].key
           /\ \A v \in Workers \ {w} : job'[v] = job[v]
           /\ lock' = Unlocked(w)
           /\ event' \in [Rules -> EventStatus] /\ notified' \in [Rules -> Nat]
           /\ \A r \in Rules : event'[r] = IF job[w].wrote[r] = "none" THEN event[r]
                                            ELSE job[w].wrote[r]
           /\ \A r \in Rules : notified'[r] = IF r \in job[w].notes THEN notified[r] + 1
                                               ELSE notified[r]
<1>1. ~At(w, "idle") /\ Step(w, "return")
  BY DEF DeliverCommit, At
<1>2. job[w].wrote \in [Rules -> {"none", "delivered", "failed"}]
  BY <1>1, BusyJob
<1>3. event' \in [Rules -> EventStatus]
  BY <1>2 DEF DeliverCommit, TypeOK, EventStatus
<1>4. notified' \in [Rules -> Nat]
  BY DEF DeliverCommit, TypeOK
<1>5. /\ job' \in [Workers -> Jobs \cup {Idle}] /\ job'[w].pc = "return"
      /\ job'[w].msg = job[w].msg /\ job'[w].key = job[w].key
      /\ \A v \in Workers \ {w} : job'[v] = job[v]
  BY <1>1, StepMoves DEF Labels
<1>6. QED
  BY <1>3, <1>4, <1>5 DEF DeliverCommit

LEMMA CrashMoves ==
    ASSUME TypeOK, Shape, NEW w \in Workers, Crash(w)
    PROVE  /\ job' \in [Workers -> Jobs \cup {Idle}] /\ job'[w].pc = "idle"
           /\ \A v \in Workers \ {w} : job'[v] = job[v]
           /\ job[w].msg \in Msgs /\ queue' = [queue EXCEPT ![job[w].msg] = @ + 1]
           /\ queue' \in [Msgs -> Nat]
           /\ \A n \in Msgs : queue[n] > 0 => queue'[n] > 0
           /\ queue'[job[w].msg] > 0
           /\ lock' = Unlocked(w)
<1>1. job[w].msg \in Msgs
  BY BusyJob DEF Crash
<1>2. QED
  BY <1>1, PutAdds, GoesIdle DEF Crash

LEMMA InsertMoves ==
    ASSUME TypeOK, Shape, NEW w \in Workers, EvalInsert(w)
    PROVE  /\ job' \in [Workers -> Jobs \cup {Idle}] /\ job'[w].pc = "publish"
           /\ At(w, "insert") /\ job'[w].msg = job[w].msg /\ job'[w].key = job[w].key
           /\ \A v \in Workers \ {w} : job'[v] = job[v]
           /\ job[w].todo \subseteq rules
           /\ event' \in [Rules -> EventStatus]
           /\ \A r \in Rules : event'[r] = IF r \in job[w].todo /\ event[r] = "none"
                                            THEN "pending" ELSE event[r]
<1>1. ~At(w, "idle") /\ Step(w, "publish")
  BY DEF EvalInsert, At
<1>2. event' \in [Rules -> EventStatus]
  BY DEF EvalInsert, TypeOK, EventStatus
<1>3. QED
  BY <1>1, <1>2, StepMoves DEF EvalInsert, Labels

(* The steps that only move the program counter, or end the job. *)
Turns(w) == Claim(w) \/ EvalOrphan(w) \/ PublishFired(w) \/ DeadlockOutside(w)
Ends(w) == Skip(w) \/ Succeed(w) \/ Fail(w)

LEMMA TurnMoves ==
    ASSUME TypeOK, Shape, NEW w \in Workers, Turns(w)
    PROVE  /\ job' \in [Workers -> Jobs \cup {Idle}]
           /\ job'[w].pc = IF Claim(w) THEN "read" ELSE IF PublishFired(w) THEN "return"
                           ELSE "fail"
           /\ job'[w].msg = job[w].msg /\ job'[w].key = job[w].key
           /\ job'[w].cur = job[w].cur /\ job'[w].notes = job[w].notes
           /\ job'[w].wrote = job[w].wrote
           /\ \A v \in Workers \ {w} : job'[v] = job[v]
           /\ ~At(w, "idle")
<1>1. PICK l \in {"read", "return", "fail"} :
          /\ Step(w, l) /\ ~At(w, "idle")
          /\ l = IF Claim(w) THEN "read" ELSE IF PublishFired(w) THEN "return" ELSE "fail"
  BY DEF Turns, Claim, EvalOrphan, PublishFired, DeadlockOutside, At
<1>2. l \in Labels
  BY DEF Labels
<1>3. QED
  BY <1>1, <1>2, StepMoves

LEMMA EndMoves ==
    ASSUME TypeOK, Shape, NEW w \in Workers, Ends(w)
    PROVE  /\ job' \in [Workers -> Jobs \cup {Idle}] /\ job'[w].pc = "idle"
           /\ \A v \in Workers \ {w} : job'[v] = job[v]
           /\ job[w].pc \in {"claim", "return", "fail"}
BY GoesIdle, FailMoves DEF Ends, Skip, Succeed, Fail, At

LEMMA WorkerSteps ==
    ASSUME NEW w \in Workers, WorkerStep(w)
    PROVE  \/ Turns(w) \/ Ends(w) \/ EvalRead(w) \/ EvalInsert(w) \/ DeliverRead(w)
           \/ \E r \in Rules : Send(w, r) \/ SendFails(w, r)
           \/ MarkDelivered(w) \/ MarkFailed(w) \/ DeadlockInSavepoint(w) \/ DeliverCommit(w)
BY DEF WorkerStep, Turns, Ends

LEMMA WorkerIsBusy ==
    ASSUME NEW w \in Workers, WorkerStep(w) \/ Crash(w) PROVE ~At(w, "idle")
BY DEF WorkerStep, Crash, Claim, Skip, Succeed, Fail, EvalRead, EvalInsert, EvalOrphan,
   PublishFired, DeliverRead, Send, SendFails, MarkDelivered, MarkFailed,
   DeadlockInSavepoint, DeadlockOutside, DeliverCommit, At

LEMMA MarkSteps ==
    ASSUME NEW w \in Workers, MarkDelivered(w) \/ MarkFailed(w)
    PROVE  \E r \in Rules, status \in {"delivered", "failed"} :
              /\ Mark(w, r, status) /\ ~At(w, "idle")
              /\ status = "delivered" => At(w, "mark")
              /\ status = "failed" => At(w, "markFailed")
BY DEF MarkDelivered, MarkFailed, At

LEMMA WorkerMovesAlone ==
    ASSUME TypeOK, Shape, NEW w \in Workers, WorkerStep(w) \/ Crash(w)
    PROVE  /\ job' \in [Workers -> Jobs \cup {Idle}]
           /\ \A v \in Workers \ {w} : job'[v] = job[v]
           /\ job'[w].pc = "idle" \/ (job'[w].msg = job[w].msg /\ job'[w].key = job[w].key)
<1>1. CASE Crash(w)
  BY <1>1, CrashMoves
<1>2. CASE MarkDelivered(w) \/ MarkFailed(w)
  <2>1. PICK r \in Rules, status \in {"delivered", "failed"} :
            Mark(w, r, status) /\ ~At(w, "idle")
    BY <1>2, MarkSteps
  <2>2. /\ job' \in [Workers -> Jobs \cup {Idle}]
        /\ job'[w].msg = job[w].msg /\ job'[w].key = job[w].key
    BY <2>1, MarkMoves
  <2>3. \A v \in Workers \ {w} : job'[v] = job[v]
    BY <2>1 DEF Mark, Shape
  <2>4. QED
    BY <2>2, <2>3
<1>3. CASE WorkerStep(w)
  <2>1. CASE Turns(w) \/ Ends(w)
    BY <2>1, TurnMoves, EndMoves
  <2>2. CASE EvalRead(w) \/ EvalInsert(w)
    BY <2>2, EvalReadMoves, InsertMoves
  <2>3. CASE DeliverRead(w) \/ DeadlockInSavepoint(w) \/ DeliverCommit(w)
    BY <2>3, DeliverReadMoves, DeadlockInMoves, CommitMoves
  <2>4. ASSUME NEW r \in Rules, Send(w, r)
        PROVE  /\ job' \in [Workers -> Jobs \cup {Idle}]
               /\ \A v \in Workers \ {w} : job'[v] = job[v]
               /\ job'[w].msg = job[w].msg /\ job'[w].key = job[w].key
    BY <2>4, SendMoves
  <2>5. ASSUME NEW r \in Rules, SendFails(w, r)
        PROVE  /\ job' \in [Workers -> Jobs \cup {Idle}]
               /\ \A v \in Workers \ {w} : job'[v] = job[v]
               /\ job'[w].msg = job[w].msg /\ job'[w].key = job[w].key
    BY <2>5, SendFailsMoves
  <2>6. QED
    BY <1>2, <1>3, <2>1, <2>2, <2>3, <2>4, <2>5, WorkerSteps
<1>4. QED
  BY <1>1, <1>3

-----------------------------------------------------------------------------
(* The tables: which step writes which, and what it leaves *)

LEMMA WorkerTables ==
    ASSUME NEW w \in Workers, WorkerStep(w) \/ Crash(w)
    PROVE  /\ UNCHANGED world
           /\ UNCHANGED event \/ EvalInsert(w) \/ DeliverCommit(w)
           /\ UNCHANGED notified \/ DeliverCommit(w)
           /\ UNCHANGED mailed \/ \E r \in Rules : Send(w, r)
           /\ \/ UNCHANGED lock
              \/ MarkDelivered(w) \/ MarkFailed(w)
              \/ lock' = Unlocked(w) /\ (DeadlockOutside(w) \/ DeliverCommit(w) \/ Crash(w))
<1>1. CASE Crash(w)
  BY <1>1 DEF Crash
<1>2. CASE MarkDelivered(w) \/ MarkFailed(w)
  BY <1>2 DEF MarkDelivered, MarkFailed, Mark
<1>3. CASE WorkerStep(w) /\ ~MarkDelivered(w) /\ ~MarkFailed(w)
  BY <1>3 DEF WorkerStep, Claim, Skip, Succeed, Fail, EvalRead, EvalInsert, EvalOrphan,
     PublishFired, DeliverRead, Send, SendFails, DeadlockInSavepoint, DeadlockOutside,
     DeliverCommit, events
<1>4. QED
  BY <1>1, <1>2, <1>3

(* Across any step: rules only go, an event stays as long as its rule, and   *)
(* what was sent or inserted stays sent.                                     *)
TablesKeep ==
    /\ rules' \subseteq rules
    /\ \A r \in rules' : event[r] # "none" => event'[r] # "none"
    /\ \A r \in Rules : mailed[r] > 0 => mailed'[r] > 0
    /\ \A r \in Rules : notified[r] > 0 => notified'[r] > 0

LEMMA WorkerKeeps ==
    ASSUME TypeOK, Shape, NEW w \in Workers, WorkerStep(w) \/ Crash(w)
    PROVE  TablesKeep
<1>1. rules' = rules /\ rules \subseteq Rules
  BY WorkerTables DEF world, TypeOK
<1>2. \A r \in Rules : event[r] # "none" => event'[r] # "none"
  <2>1. CASE UNCHANGED event
    BY <2>1
  <2>2. CASE EvalInsert(w)
    BY <2>2, InsertMoves
  <2>3. CASE DeliverCommit(w)
    BY <2>3, CommitMoves
  <2>4. QED
    BY <2>1, <2>2, <2>3, WorkerTables
<1>3. \A r \in Rules : mailed[r] > 0 => mailed'[r] > 0
  <2>1. ASSUME NEW q \in Rules, Send(w, q)
        PROVE  \A r \in Rules : mailed[r] > 0 => mailed'[r] > 0
    <3>1. mailed' \in [Rules -> Nat] /\ mailed \in [Rules -> Nat]
      BY <2>1, SendMoves DEF TypeOK
    <3>2. \A r \in Rules : mailed'[r] >= mailed[r]
      BY <2>1, SendMoves
    <3>3. QED
      BY <3>1, <3>2
  <2>2. QED
    BY <2>1, WorkerTables
<1>4. \A r \in Rules : notified[r] > 0 => notified'[r] > 0
  BY WorkerTables, CommitMoves DEF TypeOK
<1>5. QED
  BY <1>1, <1>2, <1>3, <1>4 DEF TablesKeep

LEMMA StepKeeps == ASSUME TypeOK, Shape, Next PROVE TablesKeep
<1>1. CASE UNCHANGED <<rules, event, mailed, notified>>
  BY <1>1 DEF TablesKeep, TypeOK
<1>2. ASSUME NEW r \in Rules, DeleteRule(r) PROVE TablesKeep
  BY <1>2 DEF DeleteRule, TablesKeep, TypeOK
<1>3. QED
  BY <1>1, <1>2, WorkerKeeps DEF Next, Trigger, Tick, Receive, events, world

-----------------------------------------------------------------------------
(* Types *)

LEMMA TypeInit == Init => TypeOK /\ Shape
<1> SUFFICES ASSUME Init PROVE TypeOK /\ Shape
  OBVIOUS
<1>1. DOMAIN used = DOMAIN Bounds /\ \A b \in DOMAIN Bounds : used[b] \in 0..Bounds[b]
  BY BoundsType DEF Init
<1>2. now \in Seconds
  BY BoundsAssumption DEF Init, Seconds
<1>3. QED
  BY <1>1, <1>2 DEF Init, TypeOK, Shape, RowStatus, EventStatus

LEMMA WorkerSpends ==
    ASSUME NEW w \in Workers, WorkerStep(w) \/ Crash(w)
    PROVE  UNCHANGED used \/ Spend("send") \/ Spend("lost") \/ Spend("crash")
<1>1. CASE MarkDelivered(w) \/ MarkFailed(w)
  BY <1>1 DEF MarkDelivered, MarkFailed, Mark
<1>2. CASE ~MarkDelivered(w) /\ ~MarkFailed(w)
  BY <1>2 DEF WorkerStep, Crash, Claim, Skip, Succeed, Fail, EvalRead, EvalInsert, EvalOrphan,
     PublishFired, DeliverRead, Send, SendFails, DeadlockInSavepoint, DeadlockOutside,
     DeliverCommit
<1>3. QED
  BY <1>1, <1>2

UsedType == DOMAIN used = DOMAIN Bounds /\ \A b \in DOMAIN Bounds : used[b] \in 0..Bounds[b]

LEMMA UsedNext == ASSUME TypeOK, Shape, Next PROVE UsedType'
<1>1. UNCHANGED used \/ \E b \in DOMAIN Bounds : Spend(b)
  BY WorkerSpends, BoundNames DEF Next, Trigger, DeleteRule, Tick, Receive
<1>2. CASE UNCHANGED used
  BY <1>2 DEF TypeOK, Shape, UsedType
<1>3. ASSUME NEW b \in DOMAIN Bounds, Spend(b) PROVE UsedType'
  BY <1>3, SpendType DEF UsedType, Bounds
<1>4. QED
  BY <1>1, <1>2, <1>3

LEMMA WorkerQueue ==
    ASSUME TypeOK, Shape, NEW w \in Workers, WorkerStep(w) \/ Crash(w)
    PROVE  /\ queue' \in [Msgs -> Nat]
           /\ \A m \in Msgs : queue[m] > 0 => queue'[m] > 0
           /\ \/ UNCHANGED queue
              \/ \E m \in Msgs : /\ queue' = [queue EXCEPT ![m] = @ + 1]
                                 /\ \/ m.task = Task(w) /\ job'[w].pc = "idle"
                                    \/ PublishFired(w) /\ m.task = "deliver"
<1>1. CASE Crash(w)
  BY <1>1, CrashMoves DEF Task
<1>2. CASE Fail(w)
  BY <1>2, FailMoves, PutAdds
<1>3. CASE PublishFired(w)
  <2>1. CASE Enqueue("deliver")
    <3>1. [task |-> "deliver", retries |-> 0] \in Msgs
      BY NewMsg DEF Tasks
    <3>2. queue' = [queue EXCEPT ![[task |-> "deliver", retries |-> 0]] = @ + 1]
      BY <2>1 DEF Enqueue
    <3>3. [task |-> "deliver", retries |-> 0].task = "deliver"
      OBVIOUS
    <3>4. QED
      BY <1>3, <3>1, <3>2, <3>3, PutAdds
  <2>2. CASE UNCHANGED queue
    BY <2>2 DEF TypeOK
  <2>3. QED
    BY <1>3, <2>1, <2>2 DEF PublishFired
<1>4. CASE MarkDelivered(w) \/ MarkFailed(w)
  BY <1>4 DEF MarkDelivered, MarkFailed, Mark, TypeOK
<1>5. CASE /\ WorkerStep(w) /\ ~Fail(w) /\ ~PublishFired(w)
           /\ ~MarkDelivered(w) /\ ~MarkFailed(w)
  <2>1. UNCHANGED queue
    BY <1>5 DEF WorkerStep, Claim, Skip, Succeed, EvalRead, EvalInsert, EvalOrphan,
       DeliverRead, Send, SendFails, DeadlockInSavepoint, DeadlockOutside, DeliverCommit
  <2>2. QED
    BY <2>1 DEF TypeOK
<1>6. QED
  BY <1>1, <1>2, <1>3, <1>4, <1>5

(* The event of a locked row exists, so its rule does: a commit writes no    *)
(* event of a deleted rule.                                                  *)
LEMMA WorkerType ==
    ASSUME LoopInv, NEW w \in Workers, WorkerStep(w) \/ Crash(w)
    PROVE  TypeOK'
<1>1. TypeOK /\ Shape
  BY DEF LoopInv
<1>2. UNCHANGED world /\ rules \subseteq Rules
  BY <1>1, WorkerTables DEF TypeOK
<1>3. event' \in [Rules -> EventStatus] /\ \A r \in Rules \ rules : event'[r] = "none"
  <2>1. CASE UNCHANGED event
    BY <1>1, <2>1 DEF TypeOK
  <2>2. CASE EvalInsert(w)
    BY <1>1, <2>2, InsertMoves DEF TypeOK
  <2>3. CASE DeliverCommit(w)
    <3>1. InLoop(w) /\ At(w, "next")
      BY <2>3 DEF DeliverCommit, InLoop, At
    <3>2. \A r \in Rules : job[w].wrote[r] # "none" => lock[r] = w
      BY <3>1 DEF LoopInv, LoopOK, LoopIsCurrent
    <3>3. \A r \in Rules : job[w].wrote[r] # "none" => event[r] # "none"
      BY <3>2, NoOneAssumption DEF LoopInv, LockedExists
    <3>4. QED
      BY <1>1, <2>3, <3>3, CommitMoves DEF TypeOK
  <2>4. QED
    BY <2>1, <2>2, <2>3, WorkerTables
<1>4. lock' \in [Rules -> Workers \cup {NoOne}]
  <2>1. CASE UNCHANGED lock
    BY <1>1, <2>1 DEF TypeOK
  <2>2. CASE MarkDelivered(w) \/ MarkFailed(w)
    <3>1. PICK r \in Rules, status \in {"delivered", "failed"} :
              Mark(w, r, status) /\ ~At(w, "idle")
      BY <2>2, MarkSteps
    <3>2. QED
      BY <1>1, <3>1, MarkMoves
  <2>3. CASE lock' = Unlocked(w)
    BY <1>1, <2>3, UnlockedType
  <2>4. QED
    BY <2>1, <2>2, <2>3, WorkerTables
<1>5. notified' \in [Rules -> Nat] /\ mailed' \in [Rules -> Nat]
  BY <1>1, WorkerTables, CommitMoves, SendMoves DEF TypeOK
<1>6. queue' \in [Msgs -> Nat]
  BY <1>1, WorkerQueue
<1>7. \A v \in Workers : job'[v] = Idle \/ job'[v] \in Jobs
  BY <1>1, WorkerMovesAlone
<1>8. ledger' \in [RunKeys -> RowStatus]
  <2>1. ledger' = ledger \/ \E x \in RowStatus : ledger' = [ledger EXCEPT ![job[w].key] = x]
    <3>1. CASE MarkDelivered(w) \/ MarkFailed(w)
      BY <3>1 DEF MarkDelivered, MarkFailed, Mark, outcome
    <3>2. CASE ~MarkDelivered(w) /\ ~MarkFailed(w)
      BY <3>2 DEF WorkerStep, Crash, Claim, Skip, Succeed, Fail, EvalRead, EvalInsert,
         EvalOrphan, PublishFired, DeliverRead, Send, SendFails, DeadlockInSavepoint,
         DeadlockOutside, DeliverCommit, RowStatus, outcome
    <3>3. QED
      BY <3>1, <3>2
  <2>2. QED
    BY <1>1, <2>1 DEF TypeOK
<1>9. skipped' \in BOOLEAN /\ overlapped' \in BOOLEAN /\ gaveUp' \subseteq Tasks
  <2>1. CASE MarkDelivered(w) \/ MarkFailed(w)
    BY <1>1, <2>1 DEF MarkDelivered, MarkFailed, Mark, outcome, history, TypeOK
  <2>2. CASE Fail(w)
    BY <1>1, <2>2, FailMoves DEF Fail, history, TypeOK
  <2>3. CASE Skip(w)
    BY <1>1, <2>3 DEF Skip, TypeOK
  <2>4. CASE DeliverRead(w)
    BY <1>1, <2>4 DEF DeliverRead, TypeOK
  <2>5. CASE /\ ~MarkDelivered(w) /\ ~MarkFailed(w) /\ ~Fail(w) /\ ~Skip(w)
             /\ ~DeliverRead(w)
    BY <1>1, <2>5 DEF WorkerStep, Crash, Claim, Succeed, EvalRead, EvalInsert, EvalOrphan,
       PublishFired, Send, SendFails, DeadlockInSavepoint, DeadlockOutside, DeliverCommit,
       outcome, history, TypeOK
  <2>6. QED
    BY <2>1, <2>2, <2>3, <2>4, <2>5
<1>10. UsedType'
  BY <1>1, UsedNext DEF Next
<1>11. QED
  BY <1>1, <1>2, <1>3, <1>4, <1>5, <1>6, <1>7, <1>8, <1>9, <1>10 DEF TypeOK, UsedType, world

LEMMA TypeNext == LoopInv /\ [Next]_vars => TypeOK' /\ Shape'
<1> SUFFICES ASSUME LoopInv, [Next]_vars PROVE TypeOK' /\ Shape'
  OBVIOUS
<1>1. TypeOK /\ Shape
  BY DEF LoopInv
<1>2. CASE UNCHANGED vars
  BY <1>1, <1>2 DEF vars, TypeOK, Shape
<1>3. ASSUME NEW t \in Tasks, Trigger(t) PROVE TypeOK' /\ Shape'
  <2>1. queue' \in [Msgs -> Nat]
    BY <1>1, <1>3, NewMsg, PutAdds DEF Trigger, Enqueue
  <2>2. UsedType'
    BY <1>1, <1>3, UsedNext DEF Next
  <2>3. QED
    BY <1>1, <1>3, <2>1, <2>2 DEF Trigger, events, outcome, history, TypeOK, Shape, UsedType
<1>4. ASSUME NEW r \in Rules, DeleteRule(r) PROVE TypeOK' /\ Shape'
  <2>1. UsedType'
    BY <1>1, <1>4, UsedNext DEF Next
  <2>2. /\ event' \in [Rules -> EventStatus] /\ rules' \subseteq Rules
        /\ \A q \in Rules \ rules' : event'[q] = "none"
    BY <1>1, <1>4 DEF DeleteRule, TypeOK, EventStatus
  <2>3. QED
    BY <1>1, <1>4, <2>1, <2>2 DEF DeleteRule, outcome, history, TypeOK, Shape, UsedType
<1>5. CASE Tick
  <2>1. now' \in Seconds
    BY <1>1, <1>5, BoundsAssumption DEF Tick, TypeOK, Seconds
  <2>2. QED
    BY <1>1, <1>5, <2>1 DEF Tick, events, outcome, history, TypeOK, Shape
<1>6. ASSUME NEW w \in Workers, NEW m \in Msgs, Receive(w, m) PROVE TypeOK' /\ Shape'
  <2>1. job' \in [Workers -> Jobs \cup {Idle}] /\ queue' \in [Msgs -> Nat]
    BY <1>1, <1>6, ReceiveMoves
  <2>2. QED
    BY <1>1, <1>6, <2>1 DEF Receive, world, events, outcome, history, TypeOK, Shape
<1>7. ASSUME NEW w \in Workers, WorkerStep(w) \/ Crash(w) PROVE TypeOK' /\ Shape'
  BY <1>1, <1>7, WorkerType, WorkerMovesAlone, UsedNext DEF Shape, UsedType, Next
<1>8. QED
  BY <1>2, <1>3, <1>4, <1>5, <1>6, <1>7 DEF Next

-----------------------------------------------------------------------------
(* The loop of a delivery run.  First a run that does not move: what others  *)
(* do takes nothing from it.                                                 *)

LEMMA LockKeeps ==
    ASSUME TypeOK, Shape, NEW w \in Workers, WorkerStep(w) \/ Crash(w),
           NEW v \in Workers, v # w, NEW r \in Rules
    PROVE  lock'[r] = v <=> lock[r] = v
<1>1. CASE UNCHANGED lock
  BY <1>1
<1>2. CASE MarkDelivered(w) \/ MarkFailed(w)
  <2>1. PICK q \in Rules, status \in {"delivered", "failed"} :
            Mark(w, q, status) /\ ~At(w, "idle")
    BY <1>2, MarkSteps
  <2>2. lock' = lock \/ (lock' = [lock EXCEPT ![q] = w] /\ lock[q] \in {NoOne, w})
    BY <2>1 DEF Mark
  <2>3. QED
    BY <2>2, NoOneAssumption DEF TypeOK
<1>3. CASE lock' = Unlocked(w)
  BY <1>3, UnlockedType
<1>4. QED
  BY <1>1, <1>2, <1>3, WorkerTables

LEMMA LoopStays ==
    ASSUME LoopInv, TablesKeep, NEW v \in Workers, job'[v] = job[v],
           \A r \in Rules : lock[r] = v => lock'[r] = v
    PROVE  LoopOK(v)'
<1>1. LoopOK(v) /\ Shape /\ rules \subseteq Rules
  BY DEF LoopInv, TypeOK
<1>2. CASE InLoop(v)
  <2>1. /\ job[v].todo \subseteq Rules /\ job[v].notes \subseteq Rules
        /\ job[v].cur \in Rules \cup {NoRule}
    BY <1>1, <1>2, BusyJob DEF InLoop, At
  <2>2. LoopIsOrderly(v)'
    <3>1. \A r \in Rules : Sent(v, r) => Sent(v, r)'
      BY DEF Sent, TablesKeep
    <3>2. At(v, "mark") => job[v].cur \in Rules
      BY <1>1, <1>2, <2>1 DEF LoopOK, LoopIsOrderly, At
    <3>3. LoopIsOrderly(v)
      BY <1>1, <1>2 DEF LoopOK
    <3>4. At(v, "mark") => Sent(v, job[v].cur)'
      BY <3>1, <3>2, <3>3 DEF LoopIsOrderly
    <3>5. QED
      BY <3>1, <3>3, <3>4 DEF LoopIsOrderly, At, Sent
  <2>3. LoopIsCurrent(v)'
    <3>1. LoopIsCurrent(v)
      BY <1>1, <1>2 DEF LoopOK
    <3>2. rules' \subseteq rules
      BY DEF TablesKeep
    <3>3. QED
      BY <1>1, <3>1, <3>2 DEF LoopIsCurrent, Touched, TablesKeep
  <2>4. QED
    BY <1>2, <2>2, <2>3 DEF LoopOK, InLoop
<1>3. CASE ~InLoop(v)
  BY <1>1, <1>3 DEF LoopOK, InLoop, Untouched
<1>4. QED
  BY <1>2, <1>3

(* Then the run that moves. *)
LEMMA ReadStartsLoop ==
    ASSUME LoopInv, NEW w \in Workers, DeliverRead(w)
    PROVE  LoopOK(w)'
<1>1. TypeOK /\ Shape /\ Untouched(w)
  BY DEF LoopInv, LoopOK, DeliverRead, At
<1>2. /\ job'[w].pc = "next" /\ job'[w].todo = {r \in rules : Undelivered(event[r])}
      /\ job'[w].cur = NoRule /\ job'[w].notes = {}
      /\ \A r \in Rules : job'[w].wrote[r] = "none"
  BY <1>1, DeliverReadMoves DEF Untouched
<1>3. UNCHANGED <<rules, event, lock, mailed>> /\ rules \subseteq Rules
  BY <1>1 DEF DeliverRead, world, events, TypeOK
<1>4. \A r \in rules : r # NoRule
  BY <1>3, RuleAssumption
<1>5. LoopIsOrderly(w)'
  BY <1>2, <1>3, <1>4 DEF LoopIsOrderly, At
<1>6. LoopIsCurrent(w)'
  BY <1>2, <1>3, <1>4 DEF LoopIsCurrent, Touched, Undelivered
<1>7. QED
  BY <1>2, <1>5, <1>6 DEF LoopOK, InLoop

LEMMA SendKeepsLoop ==
    ASSUME LoopInv, NEW w \in Workers, NEW r \in Rules, Send(w, r)
    PROVE  LoopOK(w)'
<1>1. TypeOK /\ Shape /\ LoopIsOrderly(w) /\ LoopIsCurrent(w)
  BY DEF LoopInv, LoopOK, Send, At, InLoop
<1>2. job[w].cur = NoRule /\ r # NoRule
  BY <1>1, RuleAssumption DEF LoopIsOrderly, Send
<1>3. /\ job'[w].pc = "mark" /\ r \in job[w].todo /\ job'[w].todo = job[w].todo \ {r}
      /\ job'[w].cur = r /\ job'[w].wrote = job[w].wrote
      /\ job'[w].notes = IF r \in EmailRules THEN job[w].notes ELSE job[w].notes \cup {r}
      /\ r \in EmailRules => mailed'[r] > 0
  BY <1>1, SendMoves
<1>4. UNCHANGED <<rules, event, lock>> /\ rules \subseteq Rules
  BY <1>1 DEF Send, world, events, TypeOK
<1>5. job[w].wrote[r] = "none" /\ r \notin job[w].notes
  BY <1>1, <1>3 DEF LoopIsOrderly
<1>6. LoopIsOrderly(w)'
  <2>1. Sent(w, r)'
    BY <1>3 DEF Sent
  <2>2. \A q \in Rules : job[w].wrote[q] = "delivered" => Sent(w, q)'
    <3>1. ASSUME NEW q \in Rules, Sent(w, q) PROVE Sent(w, q)'
      <4>1. mailed[q] > 0 => mailed'[q] > 0
        BY <1>1, StepKeeps DEF Next, WorkerStep, TablesKeep
      <4>2. QED
        BY <1>3, <3>1, <4>1 DEF Sent
    <3>2. QED
      BY <1>1, <3>1 DEF LoopIsOrderly
  <2>3. \A q \in Rules : job[w].wrote[q] = "failed" => q \notin job'[w].notes
    BY <1>1, <1>3, <1>5 DEF LoopIsOrderly
  <2>4. \A q \in job'[w].todo : q # r /\ q \notin job'[w].notes /\ job[w].wrote[q] = "none"
    BY <1>1, <1>3 DEF LoopIsOrderly
  <2>5. Sent(w, job[w].cur)'
    BY <1>3, <2>1 DEF Sent
  <2>6. QED
    BY <1>2, <1>3, <1>5, <2>2, <2>3, <2>4, <2>5 DEF LoopIsOrderly, At
<1>7. LoopIsCurrent(w)'
  <2>1. \A q \in Rules : Touched(w, q)' => Touched(w, q)
    BY <1>3 DEF Touched
  <2>2. job[w].notes \subseteq Rules
    BY <1>1, BusyJob DEF Send, At
  <2>3. \A q \in job'[w].notes : q = r \/ job[w].wrote[q] = "delivered" \/ q \notin rules
    BY <1>1, <1>2, <1>3, <2>2, RuleAssumption DEF LoopIsCurrent
  <2>4. QED
    BY <1>1, <1>3, <1>4, <2>1, <2>3 DEF LoopIsCurrent
<1>8. QED
  BY <1>3, <1>6, <1>7 DEF LoopOK, InLoop

LEMMA SendFailsKeepsLoop ==
    ASSUME LoopInv, NEW w \in Workers, NEW r \in Rules, SendFails(w, r)
    PROVE  LoopOK(w)'
<1>1. TypeOK /\ Shape /\ LoopIsOrderly(w) /\ LoopIsCurrent(w)
  BY DEF LoopInv, LoopOK, SendFails, At, InLoop
<1>2. job[w].cur = NoRule /\ r # NoRule
  BY <1>1, RuleAssumption DEF LoopIsOrderly, SendFails
<1>3. /\ job'[w].pc = "markFailed" /\ r \in job[w].todo /\ job'[w].todo = job[w].todo \ {r}
      /\ job'[w].cur = r /\ job'[w].wrote = job[w].wrote /\ job'[w].notes = job[w].notes
  BY <1>1, SendFailsMoves
<1>4. UNCHANGED <<rules, event, lock, mailed>> /\ rules \subseteq Rules
  BY <1>1 DEF SendFails, world, events, TypeOK
<1>5. LoopIsOrderly(w)'
  BY <1>1, <1>2, <1>3, <1>4 DEF LoopIsOrderly, At, Sent
<1>6. LoopIsCurrent(w)'
  <2>1. job[w].notes \subseteq Rules
    BY <1>1, BusyJob DEF SendFails, At
  <2>2. \A q \in job[w].notes : job[w].wrote[q] = "delivered" \/ q \notin rules
    BY <1>1, <1>2, <2>1, RuleAssumption DEF LoopIsCurrent
  <2>3. \A q \in Rules : Touched(w, q)' => Touched(w, q)
    BY <1>3 DEF Touched
  <2>4. QED
    BY <1>1, <1>3, <1>4, <2>2, <2>3 DEF LoopIsCurrent
<1>7. QED
  BY <1>3, <1>5, <1>6 DEF LoopOK, InLoop

LEMMA MarkKeepsLoop ==
    ASSUME LoopInv, NEW w \in Workers, NEW r \in Rules,
           NEW status \in {"delivered", "failed"}, Mark(w, r, status),
           status = "delivered" => At(w, "mark"), status = "failed" => At(w, "markFailed")
    PROVE  LoopOK(w)'
<1>1. TypeOK /\ Shape /\ LoopIsOrderly(w) /\ LoopIsCurrent(w) /\ ~At(w, "idle")
  BY DEF LoopInv, LoopOK, At, InLoop
<1>2. /\ job'[w].pc = "next" /\ job[w].cur = r /\ job'[w].cur = NoRule
      /\ job'[w].todo = job[w].todo /\ job'[w].notes = job[w].notes
      /\ event[r] = "none" => job'[w].wrote = job[w].wrote /\ lock' = lock
      /\ event[r] # "none" =>
            /\ job'[w].wrote[r] = status /\ lock'[r] = w
            /\ \A q \in Rules \ {r} : job'[w].wrote[q] = job[w].wrote[q]
            /\ \A q \in Rules \ {r} : lock'[q] = lock[q]
  BY <1>1, MarkMoves
<1>3. UNCHANGED <<rules, event, mailed>> /\ rules \subseteq Rules
  BY <1>1 DEF Mark, world, TypeOK
<1>4. /\ r # NoRule /\ r \notin job[w].todo /\ job[w].wrote[r] = "none"
      /\ status = "delivered" => Sent(w, r)
      /\ status = "failed" => r \notin job[w].notes
  BY <1>1, <1>2, RuleAssumption DEF LoopIsOrderly
<1>5. CASE event[r] = "none"
  <2>1. r \notin rules
    BY <1>1, <1>2, <1>5 DEF LoopIsCurrent, Touched
  <2>2. LoopIsOrderly(w)'
    BY <1>1, <1>2, <1>3, <1>5, RuleAssumption, BusyJob DEF LoopIsOrderly, At, Sent
  <2>3. LoopIsCurrent(w)'
    BY <1>1, <1>2, <1>3, <1>5, <2>1, RuleAssumption DEF LoopIsCurrent, Touched
  <2>4. QED
    BY <1>2, <2>2, <2>3 DEF LoopOK, InLoop
<1>6. CASE event[r] # "none"
  <2>1. /\ job'[w].wrote[r] = status /\ lock'[r] = w
        /\ \A q \in Rules \ {r} : job'[w].wrote[q] = job[w].wrote[q] /\ lock'[q] = lock[q]
    BY <1>2, <1>6
  <2>2. \A q \in Rules : Sent(w, q)' = Sent(w, q)
    BY <1>2, <1>3 DEF Sent
  <2>3. job[w].todo \subseteq Rules /\ job[w].notes \subseteq Rules
    BY <1>1, BusyJob
  <2>4. LoopIsOrderly(w)'
    <3>1. \A q \in job'[w].todo :
             q # job'[w].cur /\ q \notin job'[w].notes /\ job'[w].wrote[q] = "none"
      BY <1>1, <1>2, <1>4, <2>1, <2>3, RuleAssumption DEF LoopIsOrderly
    <3>2. \A q \in Rules : job'[w].wrote[q] = "delivered" => Sent(w, q)'
      <4>1. \A q \in Rules \ {r} : job[w].wrote[q] = "delivered" => Sent(w, q)'
        BY <1>1, <2>2 DEF LoopIsOrderly
      <4>2. status = "delivered" => Sent(w, r)'
        BY <1>4, <2>2
      <4>3. QED
        BY <2>1, <4>1, <4>2
    <3>3. \A q \in Rules : job'[w].wrote[q] = "failed" => q \notin job'[w].notes
      BY <1>1, <1>2, <1>4, <2>1 DEF LoopIsOrderly
    <3>4. QED
      BY <1>2, <3>1, <3>2, <3>3 DEF LoopIsOrderly, At
  <2>5. LoopIsCurrent(w)'
    <3>1. \A q \in Rules : job'[w].wrote[q] # "none" => lock'[q] = w
      BY <1>1, <2>1 DEF LoopIsCurrent
    <3>2. \A q \in rules : Touched(w, q)' => event'[q] # "none"
      BY <1>1, <1>2, <1>3, <1>6, <2>1, RuleAssumption DEF LoopIsCurrent, Touched
    <3>3. \A q \in job'[w].notes : job'[w].wrote[q] = "delivered" \/ q \notin rules
      <4>1. \A q \in job[w].notes : q # r =>
               job[w].wrote[q] = "delivered" \/ q \notin rules
        BY <1>1, <1>2 DEF LoopIsCurrent
      <4>2. r \in job[w].notes => status = "delivered"
        BY <1>4
      <4>3. QED
        BY <1>2, <2>1, <2>3, <4>1, <4>2
    <3>4. QED
      BY <1>3, <3>1, <3>2, <3>3 DEF LoopIsCurrent
  <2>6. QED
    BY <1>2, <2>4, <2>5 DEF LoopOK, InLoop
<1>7. QED
  BY <1>2, <1>5, <1>6

LEMMA DeadlockKeepsLoop ==
    ASSUME LoopInv, NEW w \in Workers, DeadlockInSavepoint(w)
    PROVE  LoopOK(w)'
<1>1. TypeOK /\ Shape /\ LoopIsOrderly(w) /\ LoopIsCurrent(w) /\ ~At(w, "idle")
  BY DEF LoopInv, LoopOK, At, InLoop, DeadlockInSavepoint
<1>2. /\ job'[w].pc = "markFailed" /\ job'[w].todo = job[w].todo
      /\ job'[w].cur = job[w].cur /\ job'[w].wrote = job[w].wrote
      /\ job'[w].notes = job[w].notes \ {job[w].cur}
  BY <1>1, DeadlockInMoves
<1>3. UNCHANGED <<rules, event, lock, mailed>> /\ rules \subseteq Rules
  BY <1>1 DEF DeadlockInSavepoint, world, events, TypeOK
<1>4. job[w].cur # NoRule /\ job[w].wrote[job[w].cur] = "none"
  BY <1>1 DEF LoopIsOrderly, At, DeadlockInSavepoint
<1>5. LoopIsOrderly(w)'
  BY <1>1, <1>2, <1>3, <1>4 DEF LoopIsOrderly, At, Sent
<1>6. LoopIsCurrent(w)'
  BY <1>1, <1>2, <1>3, <1>4 DEF LoopIsCurrent, Touched
<1>7. QED
  BY <1>2, <1>5, <1>6 DEF LoopOK, InLoop

LEMMA MoverLoop ==
    ASSUME LoopInv, NEW w \in Workers, WorkerStep(w) \/ Crash(w)
    PROVE  LoopOK(w)'
<1>1. TypeOK /\ Shape /\ LoopOK(w)
  BY DEF LoopInv
<1>2. CASE job'[w].pc \in {"idle", "insert", "publish", "return", "fail"}
  BY <1>2 DEF LoopOK, InLoop
<1>3. CASE Claim(w)
  <2>1. Untouched(w)
    BY <1>1, <1>3 DEF Claim, LoopOK, At
  <2>2. job'[w].pc = "read" /\ Untouched(w)'
    BY <1>1, <1>3, <2>1, TurnMoves DEF Turns, Untouched
  <2>3. QED
    BY <2>2 DEF LoopOK, InLoop
<1>4. CASE MarkDelivered(w) \/ MarkFailed(w)
  <2>1. PICK r \in Rules, status \in {"delivered", "failed"} :
            /\ Mark(w, r, status)
            /\ status = "delivered" => At(w, "mark")
            /\ status = "failed" => At(w, "markFailed")
    BY <1>4, MarkSteps
  <2>2. QED
    BY <2>1, MarkKeepsLoop
<1>5. Crash(w) => job'[w].pc = "idle"
  BY <1>1, CrashMoves
<1>6. Turns(w) /\ ~Claim(w) => job'[w].pc \in {"return", "fail"}
  BY <1>1, TurnMoves
<1>7. Ends(w) => job'[w].pc = "idle"
  BY <1>1, EndMoves
<1>8. EvalRead(w) => job'[w].pc = "insert"
  BY <1>1, EvalReadMoves
<1>9. EvalInsert(w) => job'[w].pc = "publish"
  BY <1>1, InsertMoves
<1>10. DeliverCommit(w) => job'[w].pc = "return"
  BY <1>1, CommitMoves
<1>11. QED
  BY <1>2, <1>3, <1>4, <1>5, <1>6, <1>7, <1>8, <1>9, <1>10, WorkerSteps, ReadStartsLoop,
     SendKeepsLoop, SendFailsKeepsLoop, DeadlockKeepsLoop

LEMMA LoopNext == ASSUME LoopInv, Next PROVE \A v \in Workers : LoopOK(v)'
<1> SUFFICES ASSUME NEW v \in Workers PROVE LoopOK(v)'
  OBVIOUS
<1>1. TypeOK /\ Shape
  BY DEF LoopInv
<1>2. TablesKeep
  BY <1>1, StepKeeps
<1>3. CASE UNCHANGED <<job, lock>>
  BY <1>2, <1>3, LoopStays
<1>4. ASSUME NEW w \in Workers, NEW m \in Msgs, Receive(w, m) PROVE LoopOK(v)'
  <2>1. CASE v = w
    <3>1. job'[w].pc = "claim" /\ Untouched(w)'
      BY <1>1, <1>4, ReceiveMoves DEF Untouched
    <3>2. QED
      BY <2>1, <3>1 DEF LoopOK, InLoop
  <2>2. CASE v # w
    <3>1. job'[v] = job[v] /\ lock' = lock
      BY <1>1, <1>4, <2>2, ReceiveMoves DEF Receive, events
    <3>2. QED
      BY <1>2, <3>1, LoopStays
  <2>3. QED
    BY <2>1, <2>2
<1>5. ASSUME NEW w \in Workers, WorkerStep(w) \/ Crash(w) PROVE LoopOK(v)'
  <2>1. CASE v = w
    BY <1>5, <2>1, MoverLoop
  <2>2. CASE v # w
    <3>1. job'[v] = job[v]
      BY <1>1, <1>5, <2>2, WorkerMovesAlone
    <3>2. \A r \in Rules : lock[r] = v => lock'[r] = v
      BY <1>1, <1>5, <2>2, LockKeeps
    <3>3. QED
      BY <1>2, <3>1, <3>2, LoopStays
  <2>3. QED
    BY <2>1, <2>2
<1>6. QED
  BY <1>3, <1>4, <1>5 DEF Next, Trigger, DeleteRule, Tick, events

(* A lock is taken by a mark, and given back when the loop is left. *)
LEMMA LocksNext == ASSUME LoopInv, Next PROVE LocksAreHeldInLoop'
<1> SUFFICES ASSUME NEW r \in Rules, NEW v \in Workers, lock'[r] = v
             PROVE  InLoop(v)' /\ job'[v].wrote[r] # "none"
  BY DEF LocksAreHeldInLoop
<1>1. TypeOK /\ Shape
  BY DEF LoopInv
<1>2. lock[r] = v => InLoop(v) /\ job[v].wrote[r] # "none"
  BY DEF LoopInv, LocksAreHeldInLoop
<1>3. CASE UNCHANGED <<job, lock>>
  BY <1>2, <1>3 DEF InLoop
<1>4. ASSUME NEW w \in Workers, NEW m \in Msgs, Receive(w, m)
      PROVE  InLoop(v)' /\ job'[v].wrote[r] # "none"
  <2>1. lock' = lock /\ At(w, "idle")
    BY <1>4 DEF Receive, events
  <2>2. v # w
    BY <1>2, <2>1 DEF InLoop, At
  <2>3. job'[v] = job[v]
    BY <1>1, <1>4, <2>2, ReceiveMoves
  <2>4. QED
    BY <1>2, <2>1, <2>3 DEF InLoop
<1>5. ASSUME NEW w \in Workers, WorkerStep(w) \/ Crash(w), v # w
      PROVE  InLoop(v)' /\ job'[v].wrote[r] # "none"
  <2>1. lock[r] = v /\ job'[v] = job[v]
    BY <1>1, <1>5, LockKeeps, WorkerMovesAlone
  <2>2. QED
    BY <1>2, <2>1 DEF InLoop
<1>6. ASSUME WorkerStep(v) \/ Crash(v)
      PROVE  InLoop(v)' /\ job'[v].wrote[r] # "none"
  <2>1. CASE MarkDelivered(v) \/ MarkFailed(v)
    <3>1. PICK q \in Rules, status \in {"delivered", "failed"} :
              Mark(v, q, status) /\ ~At(v, "idle")
      BY <2>1, MarkSteps
    <3>2. /\ job'[v].pc = "next"
          /\ event[q] = "none" => job'[v].wrote = job[v].wrote /\ lock' = lock
          /\ event[q] # "none" =>
                /\ job'[v].wrote[q] = status /\ lock'[q] = v
                /\ \A p \in Rules \ {q} : job'[v].wrote[p] = job[v].wrote[p]
                /\ \A p \in Rules \ {q} : lock'[p] = lock[p]
      BY <1>1, <3>1, MarkMoves
    <3>3. job'[v].wrote[r] # "none"
      BY <1>2, <3>2
    <3>4. QED
      BY <3>2, <3>3 DEF InLoop
  <2>2. CASE lock' = Unlocked(v)
    BY <1>1, <2>2, UnlockedType
  <2>3. CASE UNCHANGED lock
    <3>1. InLoop(v) /\ job[v].wrote[r] # "none"
      BY <1>2, <2>3
    <3>2. ~DeliverCommit(v) /\ ~DeadlockOutside(v) /\ ~Crash(v)
      <4>1. lock' # Unlocked(v)
        BY <1>1, <2>3, <3>1, UnlockedType
      <4>2. QED
        BY <4>1 DEF DeliverCommit, DeadlockOutside, Crash
    <3>3. CASE \E q \in Rules : Send(v, q) \/ SendFails(v, q)
      BY <1>1, <3>1, <3>3, SendMoves, SendFailsMoves DEF InLoop
    <3>4. CASE DeadlockInSavepoint(v)
      BY <1>1, <3>1, <3>4, DeadlockInMoves DEF InLoop
    <3>5. CASE MarkDelivered(v) \/ MarkFailed(v)
      BY <2>1, <3>5
    <3>6. ~(Claim(v) \/ Skip(v) \/ Succeed(v) \/ Fail(v) \/ EvalRead(v) \/ EvalInsert(v)
            \/ EvalOrphan(v) \/ PublishFired(v) \/ DeliverRead(v))
      BY <3>1 DEF InLoop, At, Claim, Skip, Succeed, Fail, EvalRead, EvalInsert, EvalOrphan,
         PublishFired, DeliverRead
    <3>7. QED
      BY <1>6, <3>2, <3>3, <3>4, <3>5, <3>6 DEF WorkerStep
  <2>4. QED
    BY <1>6, <2>1, <2>2, <2>3, WorkerTables
<1>7. QED
  BY <1>3, <1>4, <1>5, <1>6 DEF Next, Trigger, DeleteRule, Tick, events

LEMMA LockedNext == ASSUME LoopInv, Next PROVE LockedExists'
<1> SUFFICES ASSUME NEW r \in Rules, lock'[r] # NoOne PROVE event'[r] # "none"
  BY DEF LockedExists
<1>1. TypeOK /\ Shape /\ LockedExists
  BY DEF LoopInv
<1>2. CASE UNCHANGED lock /\ (UNCHANGED event \/ \E q \in Rules : DeleteRule(q))
  BY <1>1, <1>2 DEF LockedExists, DeleteRule, TypeOK
<1>3. ASSUME NEW w \in Workers, WorkerStep(w) \/ Crash(w) PROVE event'[r] # "none"
  <2>1. event[r] # "none"
    <3>1. CASE UNCHANGED lock
      BY <1>1, <3>1 DEF LockedExists
    <3>2. CASE lock' = Unlocked(w)
      BY <1>1, <3>2, UnlockedType DEF LockedExists
    <3>3. CASE MarkDelivered(w) \/ MarkFailed(w)
      <4>1. PICK q \in Rules, status \in {"delivered", "failed"} :
                Mark(w, q, status) /\ ~At(w, "idle")
        BY <3>3, MarkSteps
      <4>2. /\ event[q] = "none" => lock' = lock
            /\ event[q] # "none" => \A p \in Rules \ {q} : lock'[p] = lock[p]
        BY <1>1, <4>1, MarkMoves
      <4>3. QED
        BY <1>1, <4>2 DEF LockedExists
    <3>4. QED
      BY <1>3, <3>1, <3>2, <3>3, WorkerTables
  <2>2. r \in rules /\ rules' = rules
    BY <1>1, <1>3, <2>1, WorkerTables DEF TypeOK, world
  <2>3. QED
    BY <1>1, <1>3, <2>1, <2>2, WorkerKeeps DEF TablesKeep
<1>4. QED
  BY <1>2, <1>3 DEF Next, Trigger, Tick, Receive, DeleteRule, events

LEMMA DeliveredNext == ASSUME LoopInv, Next PROVE DeliveredWasSent'
<1> SUFFICES ASSUME NEW r \in Rules, event'[r] = "delivered" PROVE Reached(r)'
  BY DEF DeliveredWasSent
<1>1. TypeOK /\ Shape
  BY DEF LoopInv
<1>2. TablesKeep
  BY <1>1, StepKeeps
<1>3. CASE event[r] = "delivered"
  BY <1>2, <1>3 DEF LoopInv, DeliveredWasSent, Reached, TablesKeep
<1>4. CASE event[r] # "delivered"
  <2>1. PICK w \in Workers : WorkerStep(w) \/ Crash(w)
    BY <1>1, <1>4 DEF Next, Trigger, Tick, Receive, DeleteRule, events, TypeOK
  <2>2. DeliverCommit(w)
    BY <1>1, <1>4, <2>1, WorkerTables, InsertMoves
  <2>3. job[w].wrote[r] = "delivered"
    BY <1>1, <1>4, <2>2, CommitMoves
  <2>4. Sent(w, r)
    BY <2>2, <2>3 DEF LoopInv, LoopOK, LoopIsOrderly, InLoop, At, DeliverCommit
  <2>5. CASE r \in EmailRules
    BY <1>2, <2>4, <2>5 DEF Sent, Reached, TablesKeep
  <2>6. CASE r \notin EmailRules
    BY <1>1, <2>2, <2>4, <2>6, CommitMoves DEF Sent, Reached, TypeOK
  <2>7. QED
    BY <2>5, <2>6
<1>5. QED
  BY <1>3, <1>4

LEMMA LoopInit == Init => LoopInv
<1> SUFFICES ASSUME Init PROVE LoopInv
  OBVIOUS
<1>1. \A w \in Workers : LoopOK(w)
  BY DEF Init, LoopOK, InLoop, Idle
<1>2. LocksAreHeldInLoop /\ LockedExists /\ DeliveredWasSent
  BY NoOneAssumption DEF Init, LocksAreHeldInLoop, LockedExists, DeliveredWasSent
<1>3. QED
  BY <1>1, <1>2, TypeInit DEF LoopInv

LEMMA LoopInvNext == LoopInv /\ [Next]_vars => LoopInv'
<1> SUFFICES ASSUME LoopInv, [Next]_vars PROVE LoopInv'
  OBVIOUS
<1>1. TypeOK' /\ Shape'
  BY TypeNext
<1>2. CASE Next
  BY <1>1, <1>2, LoopNext, LocksNext, LockedNext, DeliveredNext DEF LoopInv
<1>3. CASE UNCHANGED vars
  <2>1. \A w \in Workers : LoopOK(w)'
    BY <1>3 DEF vars, LoopInv, LoopOK, InLoop, At, Untouched, LoopIsOrderly, LoopIsCurrent,
       Sent, Touched
  <2>2. LocksAreHeldInLoop' /\ LockedExists' /\ DeliveredWasSent'
    BY <1>3 DEF vars, LoopInv, LocksAreHeldInLoop, InLoop, LockedExists, DeliveredWasSent,
       Reached
  <2>3. QED
    BY <1>1, <2>1, <2>2 DEF LoopInv
<1>4. QED
  BY <1>2, <1>3

(* The invariant of the delivery loop holds in every reachable state. *)
THEOREM LoopInvHolds == Spec => []LoopInv
BY LoopInit, LoopInvNext, PTL DEF Spec

-----------------------------------------------------------------------------
(* Runs that do not overlap: at most one is in its loop, nothing it has      *)
(* touched was ever notified, and only a delivered event was.                *)
SerialInv ==
    ~overlapped =>
        /\ \A v, w \in Workers : InLoop(v) /\ InLoop(w) => v = w
        /\ \A w \in Workers, r \in Rules : InLoop(w) /\ Touched(w, r) => notified[r] = 0
        /\ \A r \in rules : event[r] # "delivered" => notified[r] = 0
        /\ \A r \in Rules : notified[r] <= 1


LEMMA OnlyReadsEnter ==
    ASSUME TypeOK, Shape, NEW w \in Workers, WorkerStep(w) \/ Crash(w), ~DeliverRead(w)
    PROVE  InLoop(w)' =>
              InLoop(w) /\ ~DeliverCommit(w) /\ \A r \in Rules : Touched(w, r)' => Touched(w, r)
<1>1. CASE job'[w].pc \in {"idle", "read", "insert", "publish", "return", "fail"}
  BY <1>1 DEF InLoop
<1>2. CASE MarkDelivered(w) \/ MarkFailed(w)
  <2>1. PICK q \in Rules, status \in {"delivered", "failed"} :
            /\ Mark(w, q, status) /\ ~At(w, "idle")
            /\ status = "delivered" => At(w, "mark")
            /\ status = "failed" => At(w, "markFailed")
    BY <1>2, MarkSteps
  <2>2. InLoop(w) /\ ~DeliverCommit(w)
    BY <2>1 DEF InLoop, At, DeliverCommit
  <2>3. \A r \in Rules : Touched(w, r)' => Touched(w, r)
    BY <2>1, MarkMoves, RuleAssumption DEF Touched
  <2>4. QED
    BY <2>2, <2>3
<1>3. CASE \E q \in Rules : Send(w, q) \/ SendFails(w, q)
  <2>1. PICK q \in Rules : Send(w, q) \/ SendFails(w, q)
    BY <1>3
  <2>2. q \in job[w].todo /\ InLoop(w) /\ ~DeliverCommit(w)
    BY <2>1 DEF Send, SendFails, InLoop, At, DeliverCommit
  <2>3. /\ job'[w].todo = job[w].todo \ {q} /\ job'[w].cur = q
        /\ job'[w].wrote = job[w].wrote
        /\ job'[w].notes \subseteq job[w].notes \cup {q}
    <3>1. CASE Send(w, q)
      BY <3>1, SendMoves
    <3>2. CASE SendFails(w, q)
      BY <3>2, SendFailsMoves
    <3>3. QED
      BY <2>1, <3>1, <3>2
  <2>4. \A r \in Rules : Touched(w, r)' => Touched(w, r)
    BY <2>2, <2>3 DEF Touched
  <2>5. QED
    BY <2>2, <2>4
<1>4. CASE DeadlockInSavepoint(w)
  BY <1>4, DeadlockInMoves DEF Touched, InLoop, DeadlockInSavepoint, At, DeliverCommit
<1>5. Crash(w) => job'[w].pc = "idle"
  BY CrashMoves
<1>6. Turns(w) => job'[w].pc \in {"read", "return", "fail"}
  BY TurnMoves
<1>7. Ends(w) => job'[w].pc = "idle"
  BY EndMoves
<1>8. EvalRead(w) => job'[w].pc = "insert"
  BY EvalReadMoves
<1>9. EvalInsert(w) => job'[w].pc = "publish"
  BY InsertMoves
<1>10. DeliverCommit(w) => job'[w].pc = "return"
  BY CommitMoves
<1>11. QED
  BY <1>1, <1>2, <1>3, <1>4, <1>5, <1>6, <1>7, <1>8, <1>9, <1>10, WorkerSteps

LEMMA OverlapsStay == ASSUME Next PROVE overlapped => overlapped'
<1>1. ASSUME NEW w \in Workers, WorkerStep(w) \/ Crash(w) PROVE overlapped => overlapped'
  <2>1. CASE MarkDelivered(w) \/ MarkFailed(w)
    BY <2>1 DEF MarkDelivered, MarkFailed, Mark, outcome, history
  <2>2. CASE ~MarkDelivered(w) /\ ~MarkFailed(w)
    BY <1>1, <2>2 DEF WorkerStep, Crash, Claim, Skip, Succeed, Fail, EvalRead, EvalInsert,
       EvalOrphan, PublishFired, DeliverRead, Send, SendFails, DeadlockInSavepoint,
       DeadlockOutside, DeliverCommit, outcome, history
  <2>3. QED
    BY <2>1, <2>2
<1>2. QED
  BY <1>1 DEF Next, Trigger, DeleteRule, Tick, Receive, outcome, history

(* Outside a commit no notification appears and no delivered event of a      *)
(* rule that stays is taken back.                                            *)
LEMMA OnlyCommitsNotify ==
    ASSUME TypeOK, Shape, Next, \A w \in Workers : ~DeliverCommit(w)
    PROVE  notified' = notified /\ \A r \in rules' : event[r] = "delivered" => event'[r] = "delivered"
<1>1. ASSUME NEW w \in Workers, WorkerStep(w) \/ Crash(w)
      PROVE  /\ notified' = notified
             /\ \A r \in rules' : event[r] = "delivered" => event'[r] = "delivered"
  BY <1>1, WorkerTables, InsertMoves DEF world, TypeOK
<1>2. ASSUME NEW q \in Rules, DeleteRule(q)
      PROVE  /\ notified' = notified
             /\ \A r \in rules' : event[r] = "delivered" => event'[r] = "delivered"
  BY <1>2 DEF DeleteRule, TypeOK
<1>3. QED
  BY <1>1, <1>2 DEF Next, Trigger, Tick, Receive, events

LEMMA SerialReads ==
    ASSUME LoopInv, SerialInv, NEW w \in Workers, DeliverRead(w)
    PROVE  SerialInv'
<1> SUFFICES ASSUME ~overlapped' PROVE SerialInv'
  BY DEF SerialInv
<1>1. TypeOK /\ Shape /\ LoopOK(w) /\ Untouched(w)
  BY DEF LoopInv, LoopOK, DeliverRead, At
<1>2. ~overlapped /\ \A v \in Workers \ {w} : ~InLoop(v)
  BY DEF DeliverRead
<1>3. /\ job'[w].pc = "next" /\ job'[w].todo = {r \in rules : Undelivered(event[r])}
      /\ job'[w].cur = NoRule /\ job'[w].notes = {}
      /\ \A r \in Rules : job'[w].wrote[r] = "none"
      /\ \A v \in Workers \ {w} : job'[v] = job[v]
  BY <1>1, DeliverReadMoves DEF Untouched
<1>4. rules' = rules /\ event' = event /\ notified' = notified
  BY DEF DeliverRead, world, events
<1>5. \A v \in Workers \ {w} : ~InLoop(v)'
  BY <1>2, <1>3 DEF InLoop
<1>6. \A r \in Rules : Touched(w, r)' => notified'[r] = 0
  <2> SUFFICES ASSUME NEW r \in Rules, Touched(w, r)' PROVE notified'[r] = 0
    OBVIOUS
  <2>1. r \in rules /\ Undelivered(event[r])
    BY <1>3, RuleAssumption DEF Touched
  <2>2. event[r] # "delivered"
    BY <2>1 DEF Undelivered
  <2>3. QED
    BY <1>2, <1>4, <2>1, <2>2 DEF SerialInv
<1>7. QED
  BY <1>2, <1>4, <1>5, <1>6 DEF SerialInv

LEMMA SerialCommits ==
    ASSUME LoopInv, SerialInv, NEW w \in Workers, DeliverCommit(w)
    PROVE  SerialInv'
<1> SUFFICES ASSUME ~overlapped' PROVE SerialInv'
  BY DEF SerialInv
<1>1. TypeOK /\ Shape /\ LoopOK(w)
  BY DEF LoopInv
<1>2. InLoop(w) /\ LoopIsOrderly(w) /\ LoopIsCurrent(w) /\ job[w].cur = NoRule
  BY <1>1 DEF LoopOK, InLoop, DeliverCommit, At, LoopIsOrderly
<1>3. ~overlapped /\ rules' = rules
  BY DEF DeliverCommit, outcome, history, world
<1>4. \A v \in Workers \ {w} : ~InLoop(v)
  BY <1>2, <1>3 DEF SerialInv
<1>5. \A v \in Workers : ~InLoop(v)'
  BY <1>1, <1>4, CommitMoves DEF InLoop
<1>6. \A r \in Rules : r \in job[w].notes => notified[r] = 0
  BY <1>2, <1>3 DEF SerialInv, Touched
<1>7. \A r \in Rules : job[w].wrote[r] # "none" => notified[r] = 0
  BY <1>2, <1>3 DEF SerialInv, Touched
<1>8. \A r \in Rules : notified'[r] <= 1
  BY <1>1, <1>3, <1>6, CommitMoves DEF SerialInv
<1>9. ASSUME NEW r \in rules', event'[r] # "delivered" PROVE notified'[r] = 0
  <2>1. r \in Rules /\ r \in rules /\ r # NoRule
    BY <1>1, <1>3, <1>9, RuleAssumption DEF TypeOK
  <2>2. job[w].wrote[r] # "delivered"
    BY <1>1, <1>9, <2>1, CommitMoves
  <2>3. r \notin job[w].notes
    BY <1>2, <2>1, <2>2 DEF LoopIsCurrent
  <2>4. notified'[r] = notified[r]
    BY <1>1, <2>1, <2>3, CommitMoves
  <2>5. CASE job[w].wrote[r] = "none"
    <3>1. event[r] # "delivered"
      BY <1>1, <1>9, <2>1, <2>5, CommitMoves
    <3>2. QED
      BY <1>3, <2>1, <2>4, <3>1 DEF SerialInv
  <2>6. CASE job[w].wrote[r] # "none"
    BY <1>7, <2>1, <2>4, <2>6
  <2>7. QED
    BY <2>5, <2>6
<1>10. QED
  BY <1>5, <1>8, <1>9 DEF SerialInv

LEMMA SerialNext == ASSUME LoopInv, SerialInv, Next PROVE SerialInv'
<1> SUFFICES ASSUME ~overlapped' PROVE SerialInv'
  BY DEF SerialInv
<1>1. TypeOK /\ Shape /\ rules' \subseteq rules
  BY StepKeeps DEF LoopInv, TablesKeep
<1>2. ~overlapped
  BY OverlapsStay
<1>3. CASE \E w \in Workers : DeliverRead(w)
  BY <1>3, SerialReads
<1>4. CASE \E w \in Workers : DeliverCommit(w)
  BY <1>4, SerialCommits
<1>5. CASE \A w \in Workers : ~DeliverRead(w) /\ ~DeliverCommit(w)
  <2>1. /\ notified' = notified
        /\ \A r \in rules' : event[r] = "delivered" => event'[r] = "delivered"
    BY <1>1, <1>5, OnlyCommitsNotify
  <2>2. \A v \in Workers : InLoop(v)' =>
            InLoop(v) /\ \A r \in Rules : Touched(v, r)' => Touched(v, r)
    <3> SUFFICES ASSUME NEW v \in Workers, InLoop(v)'
                 PROVE  InLoop(v) /\ \A r \in Rules : Touched(v, r)' => Touched(v, r)
      OBVIOUS
    <3>1. CASE job'[v] = job[v]
      BY <3>1 DEF InLoop, Touched
    <3>2. CASE WorkerStep(v) \/ Crash(v)
      BY <1>1, <1>5, <3>2, OnlyReadsEnter
    <3>3. ASSUME NEW w \in Workers, NEW m \in Msgs, Receive(w, m)
          PROVE  job'[v] = job[v]
      BY <1>1, <3>3, ReceiveMoves DEF InLoop
    <3>4. ASSUME NEW w \in Workers, WorkerStep(w) \/ Crash(w)
          PROVE  job'[v] = job[v] \/ v = w
      BY <1>1, <3>4, WorkerMovesAlone
    <3>5. QED
      BY <3>1, <3>2, <3>3, <3>4 DEF Next, Trigger, DeleteRule, Tick
  <2>3. QED
    BY <1>1, <1>2, <2>1, <2>2 DEF SerialInv
<1>6. QED
  BY <1>3, <1>4, <1>5

LEMMA SerialInit == Init => SerialInv
BY DEF Init, SerialInv, InLoop, Idle

LEMMA SerialStutters == SerialInv /\ UNCHANGED vars => SerialInv'
BY DEF SerialInv, vars, InLoop, Touched

(* As long as delivery runs do not overlap, the user sees one in-app         *)
(* notification per event: deliver_pending reads only what is undelivered,   *)
(* and an in-app row commits with the mark that keeps it from being read     *)
(* again.                                                                    *)
THEOREM SerialRunsAlwaysNotifyOnce == Spec => []SerialRunsNotifyOnce
<1>1. LoopInv /\ SerialInv /\ [Next]_vars => SerialInv'
  BY SerialNext, SerialStutters
<1>2. SerialInv => SerialRunsNotifyOnce
  BY DEF SerialInv, SerialRunsNotifyOnce
<1>3. QED
  BY <1>1, <1>2, LoopInvHolds, SerialInit, PTL DEF Spec

(* What every day keeps, however often its news come: types, locks held only *)
(* by runs in their loop, nothing marked delivered that was not sent, and no *)
(* in-app row of an event that a later run will try again.                   *)
THEOREM DeliveryKeepsItsWord ==
    Spec => [](TypeOK /\ LocksAreHeldInLoop /\ DeliveredWasSent /\ UndeliveredLeftNothing)
<1>1. LoopInv /\ SerialInv /\ [Next]_vars => SerialInv'
  BY SerialNext, SerialStutters
<1>2. LoopInv /\ SerialInv => UndeliveredLeftNothing
  <2> SUFFICES ASSUME LoopInv, SerialInv, ~overlapped, NEW r \in Rules, Undelivered(event[r])
               PROVE  notified[r] = 0
    BY DEF UndeliveredLeftNothing
  <2>1. event[r] # "none" /\ event[r] # "delivered"
    BY DEF Undelivered
  <2>2. r \in rules
    BY <2>1 DEF LoopInv, TypeOK
  <2>3. QED
    BY <2>1, <2>2 DEF SerialInv
<1>3. LoopInv => TypeOK /\ LocksAreHeldInLoop /\ DeliveredWasSent
  BY DEF LoopInv
<1>4. QED
  BY <1>1, <1>2, <1>3, LoopInvHolds, SerialInit, PTL DEF Spec

-----------------------------------------------------------------------------
(* One trigger of each kind in the day: its task has at most one copy, in    *)
(* the broker or at a worker, and none once it has succeeded.                *)
OneNews == used["news"] <= 1

EvalTasks == {"scores", "news"}

Queued(t) == {m \in Msgs : m.task = t /\ queue[m] > 0}
Busy(t) == {w \in Workers : ~At(w, "idle") /\ Task(w) = t}

KeysNameTasks ==
    \A w \in Workers : ~At(w, "idle") =>
        /\ Task(w) \in EvalTasks => job[w].key = <<Task(w), 0>>
        /\ Task(w) = "deliver" => job[w].key[1] = "deliver"

OneCopy(t) ==
    /\ \A m \in Queued(t) : queue[m] = 1 /\ Busy(t) = {} /\ \A n \in Queued(t) : n = m
    /\ \A v, w \in Busy(t) : v = w
    /\ used[t] = 0 => ledger[<<t, 0>>] # "succeeded"
    /\ used[t] = 0 \/ ledger[<<t, 0>>] = "succeeded" => Queued(t) = {} /\ Busy(t) = {}

CopyInv == KeysNameTasks /\ (OneNews => \A t \in EvalTasks : OneCopy(t))


LEMMA WorkerLedger ==
    ASSUME TypeOK, Shape, NEW w \in Workers, WorkerStep(w) \/ Crash(w)
    PROVE  /\ \A k \in RunKeys : k # job[w].key => ledger'[k] = ledger[k]
           /\ \A k \in RunKeys :
                 ledger'[k] = "succeeded" => ledger[k] = "succeeded" \/ Succeed(w)
<1>1. CASE MarkDelivered(w) \/ MarkFailed(w)
  BY <1>1 DEF MarkDelivered, MarkFailed, Mark, outcome
<1>2. CASE ~MarkDelivered(w) /\ ~MarkFailed(w)
  <2>1. ledger' = ledger \/ Claim(w) \/ Fail(w) \/ Succeed(w)
    BY <1>2 DEF WorkerStep, Crash, Skip, EvalRead, EvalInsert, EvalOrphan, PublishFired,
       DeliverRead, Send, SendFails, DeadlockInSavepoint, DeadlockOutside, DeliverCommit,
       outcome
  <2>2. QED
    BY <2>1 DEF Claim, Fail, Succeed, TypeOK
<1>3. QED
  BY <1>1, <1>2

LEMMA WorkerSpendsNoTrigger ==
    ASSUME TypeOK, Shape, NEW w \in Workers, WorkerStep(w) \/ Crash(w)
    PROVE  \A t \in EvalTasks : used'[t] = used[t]
BY WorkerSpends, SpendType, BoundNames DEF EvalTasks

LEMMA KeysNext == ASSUME TypeOK, Shape, KeysNameTasks, Next PROVE KeysNameTasks'
<1> SUFFICES ASSUME NEW v \in Workers, ~At(v, "idle")'
             PROVE  /\ Task(v)' \in EvalTasks => job'[v].key = <<Task(v)', 0>>
                    /\ Task(v)' = "deliver" => job'[v].key[1] = "deliver"
  BY DEF KeysNameTasks
<1>1. CASE job'[v] = job[v]
  BY <1>1 DEF KeysNameTasks, Task, At
<1>2. ASSUME NEW w \in Workers, NEW m \in Msgs, Receive(w, m), v = w
      PROVE  /\ Task(v)' \in EvalTasks => job'[v].key = <<Task(v)', 0>>
             /\ Task(v)' = "deliver" => job'[v].key[1] = "deliver"
  BY <1>2, ReceiveMoves DEF Task, EvalTasks
<1>3. CASE WorkerStep(v) \/ Crash(v)
  <2>1. job'[v].msg = job[v].msg /\ job'[v].key = job[v].key
    BY <1>3, WorkerMovesAlone DEF At
  <2>2. ~At(v, "idle")
    BY <1>3, WorkerIsBusy
  <2>3. QED
    BY <2>1, <2>2 DEF KeysNameTasks, Task
<1>4. ASSUME NEW w \in Workers, v # w,
             WorkerStep(w) \/ Crash(w) \/ \E m \in Msgs : Receive(w, m)
      PROVE  job'[v] = job[v]
  BY <1>4, WorkerMovesAlone, ReceiveMoves
<1>5. QED
  BY <1>1, <1>2, <1>3, <1>4 DEF Next, Trigger, DeleteRule, Tick

LEMMA OtherCopies ==
    ASSUME NEW t \in EvalTasks, OneCopy(t),
           \A m \in Msgs : m.task = t => queue'[m] = queue[m],
           Busy(t)' = Busy(t), ledger'[<<t, 0>>] = ledger[<<t, 0>>], used'[t] = used[t]
    PROVE  OneCopy(t)'
<1>1. Queued(t)' = Queued(t)
  BY DEF Queued
<1>2. \A m \in Queued(t) : queue'[m] = queue[m]
  BY DEF Queued
<1>3. QED
  BY <1>1, <1>2 DEF OneCopy

LEMMA TriggerOnce ==
    ASSUME TypeOK, Shape, NEW t \in EvalTasks, OneCopy(t), OneNews',
           NEW u \in Tasks, Trigger(u)
    PROVE  OneCopy(t)'
<1> DEFINE new == [task |-> u, retries |-> 0]
<1>1. /\ u \in EvalTasks /\ u \in DOMAIN Bounds /\ Spend(u)
      /\ job' = job /\ ledger' = ledger
  BY BoundNames DEF Trigger, EvalTasks, outcome
<1>2. new \in Msgs /\ new.task = u /\ queue' = [queue EXCEPT ![new] = @ + 1]
  BY NewMsg DEF Trigger, Enqueue
<1>3. Busy(t)' = Busy(t)
  BY <1>1 DEF Busy, At, Task
<1> HIDE DEF new
<1>4. CASE u # t
  <2>1. \A m \in Msgs : m.task = t => queue'[m] = queue[m]
    BY <1>2, <1>4, PutAdds
  <2>2. t \in DOMAIN Bounds /\ used'[t] = used[t]
    BY <1>1, <1>4, SpendType, BoundNames DEF EvalTasks
  <2>3. QED
    BY <1>1, <1>3, <2>1, <2>2, OtherCopies
<1>5. CASE u = t
  <2>1. used[t] \in Nat /\ used'[t] = used[t] + 1
    BY <1>1, <1>5, SpendType
  <2>2. used'[t] <= 1
    <3>1. CASE t = "news"
      BY <3>1 DEF OneNews
    <3>2. CASE t = "scores"
      BY <1>1, <1>5, <3>2, SpendType DEF Bounds
    <3>3. QED
      BY <3>1, <3>2 DEF EvalTasks
  <2>3. used[t] = 0 /\ used'[t] = 1
    BY <2>1, <2>2
  <2>4. Queued(t) = {} /\ Busy(t) = {} /\ ledger[<<t, 0>>] # "succeeded"
    BY <2>3 DEF OneCopy
  <2>5. \A m \in Msgs : m.task = t => queue[m] = 0
    BY <2>4 DEF Queued, TypeOK
  <2>6. \A m \in Queued(t)' : m = new /\ queue'[m] = 1
    BY <1>2, <1>5, <2>5, PutAdds DEF Queued
  <2>7. QED
    BY <1>1, <1>3, <2>3, <2>4, <2>6 DEF OneCopy
<1>6. QED
  BY <1>4, <1>5

LEMMA ReceiveOnce ==
    ASSUME TypeOK, Shape, NEW t \in EvalTasks, OneCopy(t),
           NEW w \in Workers, NEW m \in Msgs, Receive(w, m)
    PROVE  OneCopy(t)'
<1>1. /\ At(w, "idle") /\ ledger' = ledger /\ used' = used
      /\ job'[w].pc = "claim" /\ job'[w].msg = m /\ \A v \in Workers \ {w} : job'[v] = job[v]
      /\ queue[m] > 0 /\ queue'[m] = queue[m] - 1
      /\ \A n \in Msgs : n # m => queue'[n] = queue[n]
  <2>1. At(w, "idle") /\ ledger' = ledger /\ used' = used
    BY DEF Receive, outcome
  <2>2. QED
    BY <2>1, ReceiveMoves
<1>2. CASE m.task # t
  <2>1. Busy(t)' = Busy(t)
    BY <1>1, <1>2 DEF Busy, At, Task
  <2>2. \A n \in Msgs : n.task = t => queue'[n] = queue[n]
    BY <1>1, <1>2
  <2>3. QED
    BY <1>1, <2>1, <2>2, OtherCopies
<1>3. CASE m.task = t
  <2>1. m \in Queued(t)
    BY <1>1, <1>3 DEF Queued
  <2>2. queue[m] = 1 /\ Busy(t) = {} /\ \A n \in Queued(t) : n = m
    BY <2>1 DEF OneCopy
  <2>3. used[t] # 0 /\ ledger[<<t, 0>>] # "succeeded"
    BY <2>1 DEF OneCopy
  <2>4. Queued(t)' = {}
    BY <1>1, <2>2 DEF Queued
  <2>5. \A v \in Busy(t)' : v = w
    BY <1>1, <2>2 DEF Busy, At, Task
  <2>6. QED
    BY <1>1, <2>3, <2>4, <2>5 DEF OneCopy
<1>4. QED
  BY <1>2, <1>3

(* An evaluation that is at work is not skipped: its key has not succeeded. *)
LEMMA NotSkipped ==
    ASSUME KeysNameTasks, NEW w \in Workers, Skip(w), Task(w) \in EvalTasks, OneCopy(Task(w))
    PROVE  FALSE
<1>1. ~At(w, "idle") /\ ledger[job[w].key] = "succeeded"
  BY DEF Skip, At
<1>2. w \in Busy(Task(w)) /\ job[w].key = <<Task(w), 0>>
  BY <1>1 DEF Busy, KeysNameTasks
<1>3. QED
  BY <1>1, <1>2 DEF OneCopy

LEMMA WorkOnce ==
    ASSUME TypeOK, Shape, KeysNameTasks, NEW t \in EvalTasks, OneCopy(t),
           NEW w \in Workers, WorkerStep(w) \/ Crash(w)
    PROVE  OneCopy(t)'
<1>1. /\ ~At(w, "idle") /\ \A v \in Workers \ {w} : job'[v] = job[v]
      /\ job'[w].pc = "idle" \/ (job'[w].msg = job[w].msg /\ job'[w].key = job[w].key)
  BY WorkerIsBusy, WorkerMovesAlone
<1>2. used'[t] = used[t] /\ <<t, 0>> \in RunKeys
  BY WorkerSpendsNoTrigger, BoundsAssumption DEF EvalTasks, RunKeys, Tasks, Seconds
<1>3. \/ UNCHANGED queue
      \/ \E m \in Msgs : /\ queue' = [queue EXCEPT ![m] = @ + 1]
                         /\ \/ m.task = Task(w) /\ job'[w].pc = "idle"
                            \/ PublishFired(w) /\ m.task = "deliver"
  BY WorkerQueue
<1>4. CASE Task(w) # t
  <2>1. \A m \in Msgs : m.task = t => queue'[m] = queue[m]
    BY <1>3, <1>4, PutAdds DEF EvalTasks
  <2>2. Busy(t)' = Busy(t)
    BY <1>1, <1>4 DEF Busy, At, Task
  <2>3. Task(w) \in Tasks
    BY <1>1, BusyJob
  <2>4. job[w].key # <<t, 0>>
    BY <1>1, <1>4, <2>3 DEF KeysNameTasks, Tasks, EvalTasks
  <2>5. ledger'[<<t, 0>>] = ledger[<<t, 0>>]
    BY <1>2, <2>4, WorkerLedger
  <2>6. QED
    BY <1>2, <2>1, <2>2, <2>5, OtherCopies
<1>5. CASE Task(w) = t
  <2>1. w \in Busy(t) /\ \A v \in Busy(t) : v = w
    BY <1>1, <1>5 DEF Busy, OneCopy
  <2>2. Queued(t) = {} /\ used[t] # 0 /\ ledger[<<t, 0>>] # "succeeded"
    BY <2>1 DEF OneCopy
  <2>3. \A m \in Msgs : m.task = t => queue[m] = 0
    BY <2>2 DEF Queued, TypeOK
  <2>4. \A v \in Busy(t)' : v = w /\ job'[w].pc # "idle"
    BY <1>1, <2>1 DEF Busy, At, Task
  <2>5. CASE Succeed(w)
    <3>1. queue' = queue /\ job'[w].pc = "idle"
      BY <2>5, EndMoves DEF Succeed, Ends
    <3>2. Queued(t)' = {} /\ Busy(t)' = {}
      BY <2>2, <2>4, <3>1 DEF Queued
    <3>3. QED
      BY <1>2, <2>2, <3>2 DEF OneCopy
  <2>6. CASE ~Succeed(w)
    <3>1. ledger'[<<t, 0>>] # "succeeded"
      BY <1>2, <2>2, <2>6, WorkerLedger
    <3>2. CASE \A m \in Msgs : m.task = t => queue'[m] = queue[m]
      <4>1. Queued(t)' = {}
        BY <2>3, <3>2 DEF Queued
      <4>2. QED
        BY <1>2, <2>2, <2>4, <3>1, <4>1 DEF OneCopy
    <3>3. ASSUME NEW m \in Msgs, queue' = [queue EXCEPT ![m] = @ + 1],
                 m.task = t, job'[w].pc = "idle"
          PROVE  OneCopy(t)'
      <4>1. Busy(t)' = {}
        BY <2>4, <3>3
      <4>2. \A n \in Queued(t)' : n = m /\ queue'[n] = 1
        BY <2>3, <3>3, PutAdds DEF Queued
      <4>3. QED
        BY <1>2, <2>2, <3>1, <4>1, <4>2 DEF OneCopy
    <3>4. QED
      BY <1>3, <1>5, <3>2, <3>3, PutAdds DEF EvalTasks
  <2>7. QED
    BY <2>5, <2>6
<1>6. QED
  BY <1>4, <1>5

LEMMA UsedGrows ==
    ASSUME TypeOK, Shape, Next
    PROVE  \A b \in DOMAIN Bounds : used[b] \in Nat /\ used'[b] \in Nat /\ used[b] <= used'[b]
<1>1. UNCHANGED used \/ \E b \in DOMAIN Bounds : Spend(b)
  BY WorkerSpends, BoundNames DEF Next, Trigger, DeleteRule, Tick, Receive
<1>2. \A b \in DOMAIN Bounds : used[b] \in Nat
  BY BoundsType DEF TypeOK
<1>3. CASE UNCHANGED used
  BY <1>2, <1>3
<1>4. ASSUME NEW b \in DOMAIN Bounds, Spend(b)
      PROVE  \A c \in DOMAIN Bounds : used'[c] \in Nat /\ used[c] <= used'[c]
  BY <1>2, <1>4, SpendType, BoundsType
<1>5. QED
  BY <1>1, <1>2, <1>3, <1>4

LEMMA CopyNext == ASSUME TypeOK, Shape, CopyInv, Next PROVE CopyInv'
<1>1. KeysNameTasks'
  BY KeysNext DEF CopyInv
<1>2. ASSUME OneNews', NEW t \in EvalTasks PROVE OneCopy(t)'
  <2>1. OneNews
    BY <1>2, UsedGrows, BoundNames DEF OneNews
  <2>2. OneCopy(t) /\ KeysNameTasks
    BY <2>1 DEF CopyInv
  <2>3. CASE Tick \/ \E r \in Rules : DeleteRule(r)
    <3>1. queue' = queue /\ job' = job /\ ledger' = ledger
      BY <2>3 DEF Tick, DeleteRule, outcome
    <3>2. used'[t] = used[t]
      BY <2>3, SpendType, BoundNames DEF Tick, DeleteRule, EvalTasks
    <3>3. Busy(t)' = Busy(t)
      BY <3>1 DEF Busy, At, Task
    <3>4. QED
      BY <2>2, <3>1, <3>2, <3>3, OtherCopies
  <2>4. QED
    BY <1>2, <2>2, <2>3, TriggerOnce, ReceiveOnce, WorkOnce DEF Next
<1>3. QED
  BY <1>1, <1>2 DEF CopyInv

-----------------------------------------------------------------------------
(* Whatever matched last is in the events, or an evaluation that will still  *)
(* read it, or has, is on its way.                                           *)
WillCover(t) ==
    \/ Queued(t) # {}
    \/ \E w \in Busy(t) :
          \/ job[w].pc \in {"claim", "read", "fail"}
          \/ At(w, "insert") /\ rules \cap matching \subseteq job[w].todo

CoverInv ==
    OneNews =>
        \/ \A r \in rules \cap matching : event[r] # "none"
        \/ \E t \in EvalTasks : t \in gaveUp \/ WillCover(t)


(* A message stays until a worker takes it. *)
LEMMA QueuedStays ==
    ASSUME TypeOK, Shape, Next, NEW m \in Msgs, queue[m] > 0
    PROVE  queue'[m] > 0 \/ \E w \in Workers : Receive(w, m)
<1>1. ASSUME NEW t \in Tasks, Trigger(t) PROVE queue'[m] > 0
  <2>1. [task |-> t, retries |-> 0] \in Msgs
    BY NewMsg
  <2>2. QED
    BY <1>1, <2>1, PutAdds DEF Trigger, Enqueue
<1>2. ASSUME NEW w \in Workers, NEW n \in Msgs, Receive(w, n), n # m PROVE queue'[m] > 0
  BY <1>2, ReceiveMoves
<1>3. ASSUME NEW w \in Workers, WorkerStep(w) \/ Crash(w) PROVE queue'[m] > 0
  BY <1>3, WorkerQueue
<1>4. QED
  BY <1>1, <1>2, <1>3 DEF Next, DeleteRule, Tick

(* A failed run is queued again, or its task gives up. *)
LEMMA FailReturns ==
    ASSUME TypeOK, Shape, NEW w \in Workers, Fail(w) \/ Crash(w)
    PROVE  Task(w) \in gaveUp' \/ \E m \in Msgs : m.task = Task(w) /\ queue'[m] > 0
BY FailMoves, CrashMoves, PutAdds DEF Task

LEMMA GaveUpGrows == ASSUME TypeOK, Shape, Next PROVE gaveUp \subseteq gaveUp'
<1>1. ASSUME NEW w \in Workers, WorkerStep(w) \/ Crash(w) PROVE gaveUp \subseteq gaveUp'
  <2>1. CASE MarkDelivered(w) \/ MarkFailed(w)
    BY <2>1 DEF MarkDelivered, MarkFailed, Mark, outcome
  <2>2. CASE Fail(w)
    BY <2>2, FailMoves
  <2>3. CASE ~MarkDelivered(w) /\ ~MarkFailed(w) /\ ~Fail(w)
    BY <1>1, <2>3 DEF WorkerStep, Crash, Claim, Skip, Succeed, EvalRead, EvalInsert,
       EvalOrphan, PublishFired, DeliverRead, Send, SendFails, DeadlockInSavepoint,
       DeadlockOutside, DeliverCommit, outcome
  <2>4. QED
    BY <2>1, <2>2, <2>3
<1>2. QED
  BY <1>1 DEF Next, Trigger, DeleteRule, Tick, Receive, outcome

(* One step of an evaluation that had still to cover the match. *)
LEMMA EvaluationCovers ==
    ASSUME TypeOK, Shape, KeysNameTasks, NEW t \in EvalTasks, OneCopy(t),
           NEW w \in Busy(t), WorkerStep(w) \/ Crash(w),
           \/ job[w].pc \in {"claim", "read", "fail"}
           \/ At(w, "insert") /\ rules \cap matching \subseteq job[w].todo
    PROVE  \/ \A r \in rules' \cap matching' : event'[r] # "none"
           \/ t \in gaveUp' \/ WillCover(t)'
<1>1. w \in Workers /\ Task(w) = t /\ ~At(w, "idle") /\ t # "deliver"
  BY DEF Busy, EvalTasks
<1>2. rules' = rules /\ matching' = matching /\ rules \subseteq Rules
  BY <1>1, WorkerTables DEF world, TypeOK
<1>3. CASE Fail(w) \/ Crash(w)
  BY <1>1, <1>3, FailReturns DEF WillCover, Queued
<1>4. CASE Skip(w)
  BY <1>1, <1>4, NotSkipped
<1>5. CASE Claim(w)
  <2>1. job'[w].pc = "read" /\ job'[w].msg = job[w].msg
    BY <1>1, <1>5, TurnMoves DEF Turns
  <2>2. w \in Busy(t)'
    BY <1>1, <2>1 DEF Busy, At, Task
  <2>3. QED
    BY <2>1, <2>2 DEF WillCover
<1>6. CASE EvalRead(w)
  <2>1. /\ job'[w].pc = "insert" /\ job'[w].msg = job[w].msg
        /\ job'[w].todo = rules \cap matching
    BY <1>1, <1>6, EvalReadMoves
  <2>2. w \in Busy(t)'
    BY <1>1, <2>1 DEF Busy, At, Task
  <2>3. QED
    BY <1>2, <2>1, <2>2 DEF WillCover, At
<1>7. CASE EvalInsert(w)
  <2>1. At(w, "insert") /\ \A r \in Rules : event'[r] = IF r \in job[w].todo /\ event[r] = "none"
                                                        THEN "pending" ELSE event[r]
    BY <1>1, <1>7, InsertMoves
  <2>2. rules \cap matching \subseteq job[w].todo
    BY <2>1 DEF At
  <2>3. QED
    BY <1>2, <2>1, <2>2
<1>8. CASE EvalOrphan(w)
  <2>1. ~Claim(w) /\ ~PublishFired(w)
    BY <1>8 DEF EvalOrphan, Claim, PublishFired, At
  <2>2. job'[w].pc = "fail" /\ job'[w].msg = job[w].msg
    BY <1>1, <1>8, <2>1, TurnMoves DEF Turns
  <2>3. w \in Busy(t)'
    BY <1>1, <2>2 DEF Busy, At, Task
  <2>4. QED
    BY <2>2, <2>3 DEF WillCover
<1>9. ~(\/ Succeed(w) \/ PublishFired(w) \/ DeliverRead(w) \/ MarkDelivered(w) \/ MarkFailed(w)
        \/ DeadlockInSavepoint(w) \/ DeadlockOutside(w) \/ DeliverCommit(w)
        \/ \E r \in Rules : Send(w, r) \/ SendFails(w, r))
  BY <1>1 DEF Succeed, PublishFired, DeliverRead, MarkDelivered, MarkFailed,
     DeadlockInSavepoint, DeadlockOutside, DeliverCommit, Send, SendFails, At
<1>10. QED
  BY <1>3, <1>4, <1>5, <1>6, <1>7, <1>8, <1>9 DEF WorkerStep

LEMMA WillCoverStays ==
    ASSUME TypeOK, Shape, KeysNameTasks, NEW t \in EvalTasks, OneCopy(t), WillCover(t), Next,
           rules' \cap matching' \subseteq rules \cap matching
    PROVE  \/ \A r \in rules' \cap matching' : event'[r] # "none"
           \/ t \in gaveUp' \/ WillCover(t)'
<1>1. CASE Queued(t) # {}
  <2>1. PICK m \in Msgs : m.task = t /\ queue[m] > 0
    BY <1>1 DEF Queued
  <2>2. CASE queue'[m] > 0
    BY <2>1, <2>2 DEF WillCover, Queued
  <2>3. ASSUME NEW w \in Workers, Receive(w, m) PROVE WillCover(t)'
    <3>1. job'[w].pc = "claim" /\ job'[w].msg = m
      BY <2>3, ReceiveMoves
    <3>2. w \in Busy(t)'
      BY <2>1, <3>1 DEF Busy, At, Task
    <3>3. QED
      BY <3>1, <3>2 DEF WillCover
  <2>4. QED
    BY <2>1, <2>2, <2>3, QueuedStays
<1>2. ASSUME NEW w \in Busy(t),
             \/ job[w].pc \in {"claim", "read", "fail"}
             \/ At(w, "insert") /\ rules \cap matching \subseteq job[w].todo
      PROVE  \/ \A r \in rules' \cap matching' : event'[r] # "none"
             \/ t \in gaveUp' \/ WillCover(t)'
  <2>1. CASE WorkerStep(w) \/ Crash(w)
    BY <1>2, <2>1, EvaluationCovers
  <2>2. CASE job'[w] = job[w]
    <3>1. w \in Busy(t)'
      BY <2>2 DEF Busy, At, Task
    <3>2. QED
      BY <1>2, <2>2, <3>1 DEF WillCover, At
  <2>3. w \in Workers /\ ~At(w, "idle")
    BY DEF Busy
  <2>4. ASSUME NEW v \in Workers, WorkerStep(v) \/ Crash(v) \/ \E m \in Msgs : Receive(v, m),
               ~(WorkerStep(w) \/ Crash(w))
        PROVE  job'[w] = job[w]
    <3>1. v # w
      BY <2>3, <2>4 DEF Receive
    <3>2. QED
      BY <2>3, <2>4, <3>1, WorkerMovesAlone, ReceiveMoves
  <2>5. QED
    BY <2>1, <2>2, <2>4 DEF Next, Trigger, DeleteRule, Tick
<1>3. QED
  BY <1>1, <1>2 DEF WillCover

LEMMA CoverNext == ASSUME TypeOK, Shape, CopyInv, CoverInv, Next PROVE CoverInv'
<1> SUFFICES ASSUME OneNews'
             PROVE  \/ \A r \in rules' \cap matching' : event'[r] # "none"
                    \/ \E t \in EvalTasks : t \in gaveUp' \/ WillCover(t)'
  BY DEF CoverInv
<1>1. OneNews /\ KeysNameTasks /\ \A t \in EvalTasks : OneCopy(t)
  BY UsedGrows, BoundNames DEF OneNews, CopyInv
<1>2. TablesKeep
  BY StepKeeps
<1>3. ASSUME NEW t \in Tasks, Trigger(t) PROVE \E u \in EvalTasks : WillCover(u)'
  <2>1. t \in EvalTasks
    BY <1>3 DEF Trigger, EvalTasks
  <2>2. [task |-> t, retries |-> 0] \in Msgs /\ [task |-> t, retries |-> 0].task = t
    BY NewMsg
  <2>3. queue'[[task |-> t, retries |-> 0]] > 0
    BY <1>3, <2>2, PutAdds DEF Trigger, Enqueue
  <2>4. Queued(t)' # {}
    BY <2>2, <2>3 DEF Queued
  <2>5. QED
    BY <2>1, <2>4 DEF WillCover
<1>4. CASE matching' = matching
  <2>1. rules' \cap matching' \subseteq rules \cap matching
    BY <1>2, <1>4 DEF TablesKeep
  <2>2. CASE \A r \in rules \cap matching : event[r] # "none"
    BY <1>2, <2>1, <2>2 DEF TablesKeep
  <2>3. ASSUME NEW t \in EvalTasks, t \in gaveUp \/ WillCover(t)
        PROVE  \/ \A r \in rules' \cap matching' : event'[r] # "none"
               \/ t \in gaveUp' \/ WillCover(t)'
    BY <1>1, <2>1, <2>3, WillCoverStays, GaveUpGrows
  <2>4. QED
    BY <1>1, <2>2, <2>3 DEF CoverInv
<1>5. ASSUME NEW w \in Workers, WorkerStep(w) \/ Crash(w) PROVE matching' = matching
  BY <1>5, WorkerTables DEF world
<1>6. QED
  BY <1>3, <1>4, <1>5 DEF Next, DeleteRule, Tick, Receive, world

-----------------------------------------------------------------------------
(* A pending event has a message or a run that will deal with it. *)
Handles(w, r) ==
    \/ job[w].pc \in {"claim", "read", "insert", "publish", "fail"}
    \/ InLoop(w) /\ (r \in job[w].todo \/ r = job[w].cur \/ job[w].wrote[r] # "none")

Carried(r) == (\E m \in Msgs : queue[m] > 0) \/ \E w \in Workers : Handles(w, r)

CarrierInv ==
    OneNews /\ gaveUp = {} /\ ~skipped /\ used["lost"] = 0
        => \A r \in Rules : event[r] = "pending" => Carried(r)

Smooth == gaveUp = {} /\ ~skipped /\ used["lost"] = 0

LEMMA SmoothBefore == ASSUME TypeOK, Shape, Next, Smooth' PROVE Smooth
<1>1. gaveUp = {}
  BY GaveUpGrows DEF Smooth
<1>2. used["lost"] = 0
  BY UsedGrows, BoundNames DEF Smooth
<1>3. ASSUME NEW w \in Workers, WorkerStep(w) \/ Crash(w) PROVE skipped => skipped'
  <2>1. CASE MarkDelivered(w) \/ MarkFailed(w)
    BY <2>1 DEF MarkDelivered, MarkFailed, Mark, outcome, history
  <2>2. CASE ~MarkDelivered(w) /\ ~MarkFailed(w)
    BY <1>3, <2>2 DEF WorkerStep, Crash, Claim, Skip, Succeed, Fail, EvalRead, EvalInsert,
       EvalOrphan, PublishFired, DeliverRead, Send, SendFails, DeadlockInSavepoint,
       DeadlockOutside, DeliverCommit, outcome, history
  <2>3. QED
    BY <2>1, <2>2
<1>4. skipped => skipped'
  BY <1>3 DEF Next, Trigger, DeleteRule, Tick, Receive, outcome, history
<1>5. QED
  BY <1>1, <1>2, <1>4 DEF Smooth

(* An event becomes pending only by an insert, whose run has still to        *)
(* publish.                                                                  *)
LEMMA PendingBefore ==
    ASSUME TypeOK, Shape, Next, NEW r \in Rules, event'[r] = "pending"
    PROVE  \/ event[r] = "pending" /\ \A w \in Workers : DeliverCommit(w) => job[w].wrote[r] = "none"
           \/ \E w \in Workers : EvalInsert(w)
<1>1. ASSUME NEW w \in Workers, WorkerStep(w) \/ Crash(w), ~EvalInsert(w)
      PROVE  event[r] = "pending"
  <2>1. CASE DeliverCommit(w)
    <3>1. job[w].wrote \in [Rules -> {"none", "delivered", "failed"}]
      BY <2>1, BusyJob DEF DeliverCommit, At
    <3>2. QED
      BY <2>1, <3>1, CommitMoves
  <2>2. CASE UNCHANGED event
    BY <2>2
  <2>3. QED
    BY <1>1, <2>1, <2>2, WorkerTables
<1>2. ASSUME NEW w \in Workers, DeliverCommit(w) PROVE job[w].wrote[r] = "none"
  <2>1. job[w].wrote \in [Rules -> {"none", "delivered", "failed"}]
    BY <1>2, BusyJob DEF DeliverCommit, At
  <2>2. QED
    BY <1>2, <2>1, CommitMoves
<1>3. ASSUME NEW q \in Rules, DeleteRule(q) PROVE event[r] = "pending"
  BY <1>3 DEF DeleteRule, TypeOK
<1>4. QED
  BY <1>1, <1>2, <1>3 DEF Next, Trigger, Tick, Receive, events

LEMMA MarkHandles ==
    ASSUME TypeOK, Shape, NEW w \in Workers, NEW r \in Rules, event[r] # "none",
           Handles(w, r), MarkDelivered(w) \/ MarkFailed(w)
    PROVE  Handles(w, r)'
<1>1. PICK q \in Rules, status \in {"delivered", "failed"} :
          /\ Mark(w, q, status) /\ ~At(w, "idle")
          /\ status = "delivered" => At(w, "mark")
          /\ status = "failed" => At(w, "markFailed")
  BY MarkSteps
<1>2. /\ job'[w].pc = "next" /\ job[w].cur = q /\ job'[w].todo = job[w].todo
      /\ event[q] = "none" => job'[w].wrote = job[w].wrote
      /\ event[q] # "none" =>
            /\ job'[w].wrote[q] = status
            /\ \A p \in Rules \ {q} : job'[w].wrote[p] = job[w].wrote[p]
  BY <1>1, MarkMoves
<1>3. r \in job[w].todo \/ r = job[w].cur \/ job[w].wrote[r] # "none"
  BY <1>1 DEF Handles, At
<1>4. QED
  BY <1>2, <1>3 DEF Handles, InLoop

(* One step of a worker that handles a pending event. *)
LEMMA HandlerCarries ==
    ASSUME LoopInv, KeysNameTasks, \A t \in EvalTasks : OneCopy(t), Smooth',
           NEW w \in Workers, WorkerStep(w) \/ Crash(w),
           NEW r \in Rules, event[r] = "pending", Handles(w, r),
           DeliverCommit(w) => job[w].wrote[r] = "none"
    PROVE  Carried(r)'
<1>1. TypeOK /\ Shape /\ LoopOK(w)
  BY DEF LoopInv
<1>2. CASE Fail(w) \/ Crash(w)
  BY <1>1, <1>2, FailReturns DEF Smooth, Carried
<1>3. CASE Skip(w)
  <2>1. Task(w) \in Tasks
    BY <1>1, <1>3, BusyJob DEF Skip, At
  <2>2. Task(w) # "deliver"
    BY <1>3 DEF Skip, Smooth
  <2>3. QED
    BY <1>3, <2>1, <2>2, NotSkipped DEF Tasks, EvalTasks
<1>4. CASE Succeed(w) \/ DeliverCommit(w)
  <2>1. DeliverCommit(w)
    BY <1>4 DEF Succeed, Handles, At, InLoop
  <2>2. job[w].cur = NoRule /\ job[w].todo = {}
    BY <1>1, <2>1 DEF LoopOK, LoopIsOrderly, InLoop, DeliverCommit, At
  <2>3. QED
    BY <2>1, <2>2, RuleAssumption DEF Handles, DeliverCommit, At
<1>5. CASE PublishFired(w)
  <2>1. ~Spend("lost")
    <3>1. Spend("lost") => used'["lost"] = used["lost"] + 1 /\ used["lost"] \in Nat
      BY <1>1, SpendType, BoundNames
    <3>2. QED
      BY <3>1 DEF Smooth
  <2>2. Enqueue("deliver") /\ [task |-> "deliver", retries |-> 0] \in Msgs
    BY <1>5, <2>1, NewMsg DEF PublishFired, Tasks
  <2>3. queue'[[task |-> "deliver", retries |-> 0]] > 0
    BY <1>1, <2>2, PutAdds DEF Enqueue
  <2>4. QED
    BY <2>2, <2>3 DEF Carried
<1>6. CASE Claim(w) \/ EvalOrphan(w) \/ DeadlockOutside(w)
  <2>1. ~PublishFired(w)
    BY <1>6 DEF Claim, EvalOrphan, DeadlockOutside, PublishFired, At
  <2>2. job'[w].pc \in {"read", "fail"}
    BY <1>1, <1>6, <2>1, TurnMoves DEF Turns
  <2>3. QED
    BY <2>2 DEF Carried, Handles
<1>7. CASE EvalRead(w)
  BY <1>1, <1>7, EvalReadMoves DEF Carried, Handles
<1>8. CASE EvalInsert(w)
  BY <1>1, <1>8, InsertMoves DEF Carried, Handles
<1>9. CASE DeliverRead(w)
  <2>1. r \in rules /\ Undelivered(event[r])
    BY <1>1 DEF TypeOK, Undelivered
  <2>2. QED
    BY <1>1, <1>9, <2>1, DeliverReadMoves DEF Carried, Handles, InLoop
<1>10. CASE MarkDelivered(w) \/ MarkFailed(w)
  BY <1>1, <1>10, MarkHandles DEF Carried
<1>11. CASE DeadlockInSavepoint(w)
  <2>1. r \in job[w].todo \/ r = job[w].cur \/ job[w].wrote[r] # "none"
    BY <1>11 DEF Handles, DeadlockInSavepoint, At
  <2>2. QED
    BY <1>1, <1>11, <2>1, DeadlockInMoves DEF Carried, Handles, InLoop
<1>12. ASSUME NEW q \in Rules, Send(w, q) \/ SendFails(w, q) PROVE Carried(r)'
  <2>1. r \in job[w].todo \/ r = job[w].cur \/ job[w].wrote[r] # "none"
    BY <1>12 DEF Handles, Send, SendFails, At
  <2>2. job[w].cur = NoRule
    BY <1>1, <1>12 DEF LoopOK, LoopIsOrderly, InLoop, Send, SendFails, At
  <2>3. /\ job'[w].pc \in {"mark", "markFailed"} /\ job'[w].todo = job[w].todo \ {q}
        /\ job'[w].cur = q /\ job'[w].wrote = job[w].wrote
    <3>1. CASE Send(w, q)
      BY <1>1, <3>1, SendMoves
    <3>2. CASE SendFails(w, q)
      BY <1>1, <3>2, SendFailsMoves
    <3>3. QED
      BY <1>12, <3>1, <3>2
  <2>4. QED
    BY <2>1, <2>2, <2>3, RuleAssumption DEF Carried, Handles, InLoop
<1>13. QED
  BY <1>2, <1>3, <1>4, <1>5, <1>6, <1>7, <1>8, <1>9, <1>10, <1>11, <1>12 DEF WorkerStep

LEMMA CarrierNext == ASSUME LoopInv, CopyInv, CarrierInv, Next PROVE CarrierInv'
<1> SUFFICES ASSUME OneNews', Smooth', NEW r \in Rules, event'[r] = "pending"
             PROVE  Carried(r)'
  BY DEF CarrierInv, Smooth
<1>1. TypeOK /\ Shape
  BY DEF LoopInv
<1>2. OneNews /\ KeysNameTasks /\ \A t \in EvalTasks : OneCopy(t)
  BY <1>1, UsedGrows, BoundNames DEF OneNews, CopyInv
<1>3. CASE \E w \in Workers : EvalInsert(w)
  BY <1>1, <1>3, InsertMoves DEF Carried, Handles
<1>4. CASE /\ event[r] = "pending"
           /\ \A w \in Workers : DeliverCommit(w) => job[w].wrote[r] = "none"
  <2>1. Carried(r)
    BY <1>1, <1>2, <1>4, SmoothBefore DEF CarrierInv, Smooth
  <2>2. ASSUME NEW m \in Msgs, queue[m] > 0 PROVE Carried(r)'
    <3>1. CASE queue'[m] > 0
      BY <3>1 DEF Carried
    <3>2. ASSUME NEW w \in Workers, Receive(w, m) PROVE Carried(r)'
      BY <1>1, <3>2, ReceiveMoves DEF Carried, Handles
    <3>3. QED
      BY <1>1, <2>2, <3>1, <3>2, QueuedStays
  <2>3. ASSUME NEW w \in Workers, Handles(w, r) PROVE Carried(r)'
    <3>1. CASE WorkerStep(w) \/ Crash(w)
      BY <1>2, <1>4, <2>3, <3>1, HandlerCarries
    <3>2. CASE job'[w] = job[w]
      BY <2>3, <3>2 DEF Carried, Handles, InLoop
    <3>3. ~At(w, "idle")
      BY <2>3 DEF Handles, InLoop, At
    <3>4. ASSUME NEW v \in Workers,
                 WorkerStep(v) \/ Crash(v) \/ \E m \in Msgs : Receive(v, m),
                 ~(WorkerStep(w) \/ Crash(w))
          PROVE  job'[w] = job[w]
      <4>1. v # w
        BY <3>3, <3>4 DEF Receive
      <4>2. QED
        BY <1>1, <3>4, <4>1, WorkerMovesAlone, ReceiveMoves
    <3>5. QED
      BY <3>1, <3>2, <3>4 DEF Next, Trigger, DeleteRule, Tick
  <2>4. QED
    BY <2>1, <2>2, <2>3 DEF Carried
<1>5. QED
  BY <1>1, <1>3, <1>4, PendingBefore

DayInv == CopyInv /\ CoverInv /\ CarrierInv

LEMMA DayInit == Init => DayInv
<1> SUFFICES ASSUME Init PROVE DayInv
  OBVIOUS
<1>1. KeysNameTasks
  BY DEF Init, KeysNameTasks, At, Idle
<1>2. \A t \in EvalTasks : OneCopy(t)
  BY BoundsAssumption DEF Init, EvalTasks, OneCopy, Queued, Busy, At, Idle, RunKeys, Tasks,
     Seconds
<1>3. CoverInv /\ CarrierInv
  BY DEF Init, CoverInv, CarrierInv
<1>4. QED
  BY <1>1, <1>2, <1>3 DEF DayInv, CopyInv

LEMMA DayStutters == DayInv /\ UNCHANGED vars => DayInv'
BY DEF DayInv, CopyInv, CoverInv, CarrierInv, vars, KeysNameTasks, OneNews, OneCopy, Queued,
   Busy, WillCover, Carried, Handles, InLoop, At, Task

(* Every event and every breach of the day is covered by a task or a run. *)
THEOREM DayInvHolds == Spec => []DayInv
<1>1. LoopInv /\ DayInv /\ [Next]_vars => DayInv'
  <2> SUFFICES ASSUME LoopInv, DayInv, Next PROVE DayInv'
    BY DayStutters
  <2>1. TypeOK /\ Shape
    BY DEF LoopInv
  <2>2. QED
    BY <2>1, CopyNext, CoverNext, CarrierNext DEF DayInv
<1>2. QED
  BY <1>1, LoopInvHolds, DayInit, PTL DEF Spec

(* "alert fires within one scoring cycle of the breach": with one NewsScored *)
(* in the day, however runs fail, crash, retry and race deletions, every     *)
(* rule that matches has its event once the workers are idle.                *)
THEOREM MatchingRulesFire == Spec => [](OneNews => MatchingRuleFires)
<1>1. DayInv => (OneNews => MatchingRuleFires)
  <2> SUFFICES ASSUME DayInv, OneNews, AtRest, gaveUp = {}
               PROVE  \A r \in rules \cap matching : event[r] # "none"
    BY DEF MatchingRuleFires
  <2>1. \A t \in EvalTasks : Queued(t) = {} /\ Busy(t) = {}
    BY DEF AtRest, Queued, Busy
  <2>2. \A t \in EvalTasks : ~WillCover(t)
    BY <2>1 DEF WillCover
  <2>3. QED
    BY <2>2 DEF DayInv, CoverInv
<1>2. QED
  BY <1>1, DayInvHolds, PTL

(* ... and nothing waits to be delivered that no run will deliver: an        *)
(* event's state, its lock, its in-app row and its task agree.               *)
THEOREM DeliveryIsAlwaysSound == Spec => [](OneNews => DeliveryIsSound)
<1>1. DayInv => (OneNews => NoEventStranded)
  <2> SUFFICES ASSUME DayInv, OneNews, AtRest, Smooth, NEW r \in Rules, event[r] = "pending"
               PROVE  FALSE
    BY DEF NoEventStranded, Smooth
  <2>1. Carried(r)
    BY DEF DayInv, CarrierInv, Smooth
  <2>2. \A w \in Workers : ~Handles(w, r)
    BY DEF AtRest, Handles, InLoop, At
  <2>3. QED
    BY <2>1, <2>2 DEF Carried, AtRest
<1>2. TypeOK /\ LocksAreHeldInLoop /\ DeliveredWasSent /\ UndeliveredLeftNothing
      /\ (OneNews => NoEventStranded) => (OneNews => DeliveryIsSound)
  BY DEF DeliveryIsSound
<1>3. QED
  BY <1>1, <1>2, DayInvHolds, DeliveryKeepsItsWord, PTL
=============================================================================
