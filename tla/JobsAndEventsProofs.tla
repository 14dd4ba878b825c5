------------------------- MODULE JobsAndEventsProofs --------------------------
(***************************************************************************)
(* Proofs about the machinery the nightly work runs on, and its news feed: *)
(* JobRuns, for any tasks, keys and workers (the type invariant, the       *)
(* inductive invariant IndInv and what it implies, the safety half of      *)
(* JobContract, and terminality when one worker runs the key); EventBus and *)
(* News, for any handlers, topics and articles.                            *)
(***************************************************************************)
EXTENDS JobRuns, EventBus, News, FiniteSetTheorems, SequenceTheorems, TLAPS

-----------------------------------------------------------------------------
(* JobRuns: the framework *)

(* A message put into the queue leaves a function from messages to Nat. *)
LEMMA QueueType ==
    ASSUME queue \in [Msgs -> Nat], NEW m \in Msgs, Put(m)
    PROVE  queue' \in [Msgs -> Nat] /\ queue'[m] > 0
             /\ \A n \in Msgs : queue[n] > 0 => queue'[n] > 0
BY DEF Put

(* A retried message is a message. *)
LEMMA RetriedMsg ==
    ASSUME NEW m \in Msgs, m.retries < MaxRetries
    PROVE  /\ [m EXCEPT !.retries = @ + 1] \in Msgs
           /\ [m EXCEPT !.retries = @ + 1].task = m.task
BY RetriesAssumption DEF Msgs

LEMMA HeldMsg ==
    ASSUME TypeOK, NEW w \in Workers, pc[w] # "idle"
    PROVE  /\ held[w] \in Msgs
           /\ held[w].task \in Tasks
           /\ KeyAt(w) \in Keys
<1>1. held[w] \in Msgs
  BY DEF TypeOK
<1>2. held[w].task \in Tasks
  BY <1>1 DEF Msgs
<1>3. QED
  BY <1>1, <1>2, KeysAssumption DEF KeyAt

-----------------------------------------------------------------------------
LEMMA TypeInit == Init => TypeOK
BY RetriesAssumption, BoundsAssumption
   DEF Init, TypeOK, Busy, RowStatus

LEMMA TypeNext == TypeOK /\ [Next]_vars => TypeOK'
<1> SUFFICES ASSUME TypeOK, [Next]_vars PROVE TypeOK'
  OBVIOUS
<1> USE DEF TypeOK, Busy, Goto, broker, bounds, output, ledger
<1>1. ASSUME NEW t \in Tasks, Submit(t) PROVE TypeOK'
  <2>1. [task |-> t, retries |-> 0] \in Msgs
    BY RetriesAssumption DEF Msgs
  <2>2. queue' \in [Msgs -> Nat]
    BY <1>1, <2>1, QueueType DEF Submit
  <2>3. QED
    BY <1>1, <2>2 DEF Submit
<1>2. ASSUME NEW w \in Workers, NEW m \in Msgs, Receive(w, m) PROVE TypeOK'
  <2>1. queue' \in [Msgs -> Nat]
    BY <1>2 DEF Receive
  <2>2. QED
    BY <1>2, <2>1, NoMsgAssumption DEF Receive
<1>3. ASSUME NEW w \in Workers, Crash(w) PROVE TypeOK'
  <2>1. queue' \in [Msgs -> Nat]
    BY <1>3, HeldMsg, QueueType DEF Crash
  <2>2. QED
    BY <1>3, <2>1, BoundsAssumption DEF Crash
<1>4. ASSUME NEW w \in Workers, VisibilityTimeout(w) PROVE TypeOK'
  <2>1. queue' \in [Msgs -> Nat]
    BY <1>4, HeldMsg, QueueType DEF VisibilityTimeout
  <2>2. QED
    BY <1>4, <2>1, BoundsAssumption DEF VisibilityTimeout
<1>5. ASSUME NEW w \in Workers, Ack(w) PROVE TypeOK'
  BY <1>5, NoMsgAssumption DEF Ack
<1>6. ASSUME NEW w \in Workers, RunJob(w) PROVE TypeOK'
  <2>1. pc[w] # "idle"
    BY <1>6 DEF RunJob, StartRun, Skip, WorkCommits, WorkPublishes, WorkRaises,
                Succeed, Fail, LedgerRaises
  <2>2. KeyAt(w) \in Keys /\ held[w] # NoMsg
    BY <2>1, HeldMsg, NoMsgAssumption
  <2>3. CASE StartRun(w)
    BY <2>2, <2>3 DEF StartRun, RowStatus
  <2>4. CASE Skip(w)
    BY <2>2, <2>4 DEF Skip
  <2>5. CASE WorkCommits(w)
    BY <2>2, <2>5 DEF WorkCommits
  <2>6. CASE WorkPublishes(w)
    BY <2>2, <2>6 DEF WorkPublishes
  <2>7. CASE WorkRaises(w)
    BY <2>2, <2>7 DEF WorkRaises
  <2>8. CASE Succeed(w)
    BY <2>2, <2>8 DEF Succeed, RowStatus
  <2>9. CASE Fail(w)
    BY <2>2, <2>9 DEF Fail, RowStatus
  <2>10. CASE LedgerRaises(w)
    BY <2>2, <2>10 DEF LedgerRaises
  <2>11. QED
    BY <1>6, <2>3, <2>4, <2>5, <2>6, <2>7, <2>8, <2>9, <2>10 DEF RunJob
<1>7. ASSUME NEW w \in Workers, Retry(w) PROVE TypeOK'
  <2>1. held[w] \in Msgs /\ held[w] # NoMsg
    BY <1>7, HeldMsg, NoMsgAssumption DEF Retry
  <2>2. queue' \in [Msgs -> Nat]
    BY <1>7, <2>1, RetriedMsg, QueueType DEF Retry
  <2>3. QED
    BY <1>7, <2>1, <2>2 DEF Retry
<1>8. ASSUME NEW w \in Workers, GiveUp(w) PROVE TypeOK'
  BY <1>8, HeldMsg, NoMsgAssumption DEF GiveUp
<1>9. CASE UNCHANGED vars
  BY <1>9 DEF vars
<1>10. QED
  BY <1>1, <1>2, <1>3, <1>4, <1>5, <1>6, <1>7, <1>8, <1>9 DEF Next, TaskStep

(* Every variable keeps its type: in particular a worker holds a message    *)
(* exactly while it is inside a task, whatever crashes and redeliveries do. *)
THEOREM TypeCorrect == Spec => []TypeOK
<1>1. QED
  BY TypeInit, TypeNext, PTL DEF Spec

-----------------------------------------------------------------------------
(* What a worker knows about the outputs of its key survives every step.     *)
LEMMA OutputNext == TypeOK /\ OutputInv /\ [Next]_vars => OutputInv'
<1> SUFFICES ASSUME TypeOK, OutputInv, [Next]_vars PROVE OutputInv'
  OBVIOUS
<1> USE DEF OutputInv, SucceededHasOutput, KeyAt, Goto, broker, bounds, output, ledger
<1>1. ASSUME NEW t \in Tasks, Submit(t) PROVE OutputInv'
  BY <1>1 DEF Submit
<1>2. ASSUME NEW w \in Workers, NEW m \in Msgs, Receive(w, m) PROVE OutputInv'
  BY <1>2 DEF Receive, TypeOK
<1>3. ASSUME NEW w \in Workers, Crash(w) PROVE OutputInv'
  BY <1>3 DEF Crash, TypeOK
<1>4. ASSUME NEW w \in Workers, VisibilityTimeout(w) PROVE OutputInv'
  BY <1>4 DEF VisibilityTimeout
<1>5. ASSUME NEW w \in Workers, Ack(w) PROVE OutputInv'
  BY <1>5 DEF Ack, TypeOK
<1>6. ASSUME NEW w \in Workers, RunJob(w) PROVE OutputInv'
  <2>1. CASE StartRun(w)
    BY <2>1 DEF StartRun, TypeOK
  <2>2. CASE Skip(w)
    BY <2>2 DEF Skip, TypeOK
  <2>3. CASE WorkCommits(w)
    BY <2>3 DEF WorkCommits, TypeOK
  <2>4. CASE WorkPublishes(w)
    BY <2>4 DEF WorkPublishes, TypeOK
  <2>5. CASE WorkRaises(w)
    BY <2>5 DEF WorkRaises, TypeOK
  <2>6. CASE Succeed(w)
    BY <2>6 DEF Succeed, TypeOK
  <2>7. CASE Fail(w)
    BY <2>7 DEF Fail, TypeOK
  <2>8. CASE LedgerRaises(w)
    BY <2>8 DEF LedgerRaises, TypeOK
  <2>9. QED
    BY <1>6, <2>1, <2>2, <2>3, <2>4, <2>5, <2>6, <2>7, <2>8 DEF RunJob
<1>7. ASSUME NEW w \in Workers, Retry(w) PROVE OutputInv'
  BY <1>7 DEF Retry, TypeOK
<1>8. ASSUME NEW w \in Workers, GiveUp(w) PROVE OutputInv'
  BY <1>8 DEF GiveUp, TypeOK
<1>9. CASE UNCHANGED vars
  BY <1>9 DEF vars
<1>10. QED
  BY <1>1, <1>2, <1>3, <1>4, <1>5, <1>6, <1>7, <1>8, <1>9 DEF Next, TaskStep

(* Outputs and exhausted tasks are never taken back. *)
LEMMA Monotone ==
    ASSUME [Next]_vars
    PROVE  committed \subseteq committed' /\ published \subseteq published'
             /\ gaveUp \subseteq gaveUp'
BY DEF Next, vars, TaskStep, RunJob, Submit, Receive, Ack, Crash, VisibilityTimeout,
       StartRun, Skip, WorkCommits, WorkPublishes, WorkRaises, Succeed, Fail,
       LedgerRaises, Retry, GiveUp, broker, bounds, output, ledger

-----------------------------------------------------------------------------
(* A waiting copy goes on waiting or is in the hands of a worker that has    *)
(* not started yet.                                                          *)
LEMMA WaitingKept ==
    ASSUME TypeOK, [Next]_vars, NEW n \in Msgs, queue[n] > 0
    PROVE  \/ queue'[n] > 0
           \/ \E w \in Workers : pc'[w] = "start" /\ held'[w] = n
<1> USE DEF broker
<1>1. ASSUME NEW t \in Tasks, Submit(t) PROVE queue'[n] > 0
  <2>1. [task |-> t, retries |-> 0] \in Msgs
    BY RetriesAssumption DEF Msgs
  <2>2. QED
    BY <1>1, <2>1, QueueType DEF Submit, TypeOK
<1>2. ASSUME NEW w \in Workers, NEW m \in Msgs, Receive(w, m)
      PROVE  queue'[n] > 0 \/ (pc'[w] = "start" /\ held'[w] = n)
  <2>1. CASE m = n
    BY <1>2, <2>1 DEF Receive, Goto, TypeOK
  <2>2. CASE m # n
    BY <1>2, <2>2 DEF Receive, TypeOK
  <2>3. QED
    BY <2>1, <2>2
<1>3. ASSUME NEW w \in Workers, Crash(w) PROVE queue'[n] > 0
  BY <1>3, HeldMsg, QueueType DEF Crash, TypeOK
<1>4. ASSUME NEW w \in Workers, VisibilityTimeout(w) PROVE queue'[n] > 0
  BY <1>4, HeldMsg, QueueType DEF VisibilityTimeout, TypeOK
<1>5. ASSUME NEW w \in Workers, Retry(w) PROVE queue'[n] > 0
  <2>1. held[w] \in Msgs
    BY <1>5, HeldMsg DEF Retry, Goto
  <2>2. QED
    BY <1>5, <2>1, RetriedMsg, QueueType DEF Retry, TypeOK
<1>6. ASSUME NEW w \in Workers, RunJob(w) \/ GiveUp(w) \/ Ack(w) PROVE queue' = queue
  BY <1>6 DEF RunJob, StartRun, Skip, WorkCommits, WorkPublishes, WorkRaises,
              Succeed, Fail, LedgerRaises, GiveUp, Ack
<1>7. CASE UNCHANGED vars
  BY <1>7 DEF vars
<1>8. QED
  BY <1>1, <1>2, <1>3, <1>4, <1>5, <1>6, <1>7 DEF Next, TaskStep

(* A step of another worker leaves a worker where it is. *)
LEMMA OthersKept ==
    ASSUME TypeOK, NEW v \in Workers, NEW w \in Workers, v # w,
           \/ \E m \in Msgs : Receive(w, m)
           \/ TaskStep(w)
           \/ Crash(w)
    PROVE  pc'[v] = pc[v] /\ held'[v] = held[v]
BY DEF TypeOK, TaskStep, RunJob, Receive, Ack, Crash, StartRun, Skip, WorkCommits,
       WorkPublishes, WorkRaises, Succeed, Fail, LedgerRaises, Retry, GiveUp, Goto

(* A task inside run_job stays there, goes back to the broker, gives up, or  *)
(* leaves the row of its key at "succeeded".                                 *)
LEMMA HeldKept ==
    ASSUME TypeOK, [Next]_vars, NEW v \in Workers, pc[v] \notin {"idle", "ack"}
    PROVE  \/ pc'[v] \notin {"idle", "ack"} /\ held'[v] = held[v]
           \/ \E m \in Msgs : m.task = held[v].task /\ queue'[m] > 0
           \/ held[v].task \in gaveUp'
           \/ row'[KeyAt(v)] = "succeeded"
<1> USE DEF Goto
<1>1. held[v] \in Msgs /\ KeyAt(v) \in Keys
  BY HeldMsg
<1>2. CASE UNCHANGED <<pc, held>>
  BY <1>2
<1>3. ASSUME NEW w \in Workers, w # v,
             \/ \E m \in Msgs : Receive(w, m)
             \/ TaskStep(w)
             \/ Crash(w)
      PROVE  pc'[v] = pc[v] /\ held'[v] = held[v]
  BY <1>3, OthersKept
<1>4. CASE RunJob(v)
  <2>1. CASE Skip(v)
    BY <1>1, <2>1 DEF Skip, Claimable, ledger
  <2>2. CASE Succeed(v)
    BY <1>1, <2>2 DEF Succeed, TypeOK
  <2>3. CASE ~Skip(v) /\ ~Succeed(v)
    BY <1>4, <2>3 DEF RunJob, StartRun, WorkCommits, WorkPublishes, WorkRaises,
                      Fail, LedgerRaises, TypeOK
  <2>4. QED
    BY <2>1, <2>2, <2>3
<1>5. CASE Retry(v)
  <2>1. DEFINE again == [held[v] EXCEPT !.retries = @ + 1]
  <2>2. again \in Msgs /\ again.task = held[v].task
    BY <1>1, <1>5, RetriedMsg DEF Retry
  <2>3. queue'[again] > 0
    BY <1>5, <2>2, QueueType DEF Retry, TypeOK
  <2>4. QED
    BY <2>2, <2>3
<1>6. CASE GiveUp(v)
  BY <1>6 DEF GiveUp
<1>7. CASE Crash(v)
  BY <1>1, <1>7, QueueType DEF Crash, TypeOK
<1>8. CASE Ack(v) \/ \E m \in Msgs : Receive(v, m)
  BY <1>8 DEF Ack, Receive
<1>9. ASSUME NEW t \in Tasks, Submit(t) PROVE UNCHANGED <<pc, held>>
  BY <1>9 DEF Submit
<1>10. ASSUME NEW w \in Workers, VisibilityTimeout(w) PROVE UNCHANGED <<pc, held>>
  BY <1>10 DEF VisibilityTimeout
<1>11. UNCHANGED vars => UNCHANGED <<pc, held>>
  BY DEF vars
<1>12. QED
  BY <1>2, <1>3, <1>4, <1>5, <1>6, <1>7, <1>8, <1>9, <1>10, <1>11 DEF Next, TaskStep

(* The step lemma of the loss argument. *)
LEMMA LiveKept ==
    ASSUME TypeOK, [Next]_vars, NEW t \in Tasks, Live(t)
    PROVE  Live(t)' \/ t \in gaveUp' \/ row'[KeyOf[t]] = "succeeded"
<1>1. CASE \E m \in Msgs : m.task = t /\ queue[m] > 0
  <2>1. PICK n \in Msgs : n.task = t /\ queue[n] > 0
    BY <1>1
  <2>2. \/ queue'[n] > 0
        \/ \E w \in Workers : pc'[w] = "start" /\ held'[w] = n
    BY <2>1, WaitingKept
  <2>3. QED
    BY <2>1, <2>2 DEF Live
<1>2. CASE \E w \in Workers : pc[w] \notin {"idle", "ack"} /\ held[w].task = t
  <2>1. PICK v \in Workers : pc[v] \notin {"idle", "ack"} /\ held[v].task = t
    BY <1>2
  <2>2. \/ pc'[v] \notin {"idle", "ack"} /\ held'[v] = held[v]
        \/ \E m \in Msgs : m.task = held[v].task /\ queue'[m] > 0
        \/ held[v].task \in gaveUp'
        \/ row'[KeyAt(v)] = "succeeded"
    BY <2>1, HeldKept
  <2>3. QED
    BY <2>1, <2>2 DEF Live, KeyAt
<1>3. QED
  BY <1>1, <1>2 DEF Live

-----------------------------------------------------------------------------
(* A new task has a waiting copy. *)
LEMMA SubmitIsLive ==
    ASSUME TypeOK, NEW t \in Tasks, Submit(t)
    PROVE  Live(t)'
<1>1. DEFINE fresh == [task |-> t, retries |-> 0]
<1>2. fresh \in Msgs /\ fresh.task = t
  BY RetriesAssumption DEF Msgs
<1>3. queue'[fresh] > 0
  BY <1>2, QueueType DEF Submit, TypeOK
<1>4. QED
  BY <1>2, <1>3 DEF Live

(* Only Submit makes a task submitted, and only StartRun a row "running". *)
LEMMA Sources ==
    ASSUME TypeOK, [Next]_vars
    PROVE  /\ submitted' = submitted
                \/ \E t \in Tasks : Submit(t) /\ submitted' = submitted \cup {t}
           /\ \A k \in Keys : row'[k] = "running" /\ row[k] # "running" =>
                 \E w \in Workers : StartRun(w) /\ KeyAt(w) = k
<1> USE DEF broker, bounds, output, ledger
<1>1. ASSUME NEW w \in Workers, Fail(w)
      PROVE  \A k \in Keys : row'[k] = "running" => row[k] = "running"
  BY <1>1 DEF Fail, TypeOK
<1>2. ASSUME NEW w \in Workers, Succeed(w)
      PROVE  \A k \in Keys : row'[k] = "running" => row[k] = "running"
  BY <1>2 DEF Succeed, TypeOK
<1>3. ASSUME NEW w \in Workers, StartRun(w), NEW k \in Keys, KeyAt(w) # k
      PROVE  row'[k] = row[k]
  BY <1>3 DEF StartRun, TypeOK
<1>4. QED
  BY <1>1, <1>2, <1>3
     DEF Next, vars, TaskStep, RunJob, Submit, Receive, Ack, Crash,
         VisibilityTimeout, StartRun, Skip, WorkCommits, WorkPublishes, WorkRaises,
         Succeed, Fail, LedgerRaises, Retry, GiveUp

LEMMA SubmittedNext == TypeOK /\ SubmittedInv /\ [Next]_vars => SubmittedInv'
<1> SUFFICES ASSUME TypeOK, SubmittedInv, [Next]_vars PROVE SubmittedInv'
  OBVIOUS
<1> USE DEF SubmittedInv, TypeOK, Goto, broker, bounds, output, ledger
<1>1. ASSUME NEW t \in Tasks, Submit(t) PROVE SubmittedInv'
  <2>1. [task |-> t, retries |-> 0] \in Msgs
    BY RetriesAssumption DEF Msgs
  <2>2. QED
    BY <1>1, <2>1 DEF Submit, Put
<1>2. ASSUME NEW w \in Workers, NEW m \in Msgs, Receive(w, m) PROVE SubmittedInv'
  BY <1>2 DEF Receive
<1>3. ASSUME NEW w \in Workers, Crash(w) PROVE SubmittedInv'
  BY <1>3, HeldMsg DEF Crash, Put
<1>4. ASSUME NEW w \in Workers, VisibilityTimeout(w) PROVE SubmittedInv'
  BY <1>4, HeldMsg DEF VisibilityTimeout, Put
<1>5. ASSUME NEW w \in Workers, Ack(w) PROVE SubmittedInv'
  BY <1>5 DEF Ack
<1>6. ASSUME NEW w \in Workers, RunJob(w)
      PROVE  UNCHANGED <<submitted, queue, held>> /\ pc[w] # "idle"
               /\ \A v \in Workers : v # w => pc'[v] = pc[v]
  BY <1>6 DEF RunJob, StartRun, Skip, WorkCommits, WorkPublishes, WorkRaises,
              Succeed, Fail, LedgerRaises
<1>7. ASSUME NEW w \in Workers, Retry(w) PROVE SubmittedInv'
  <2>1. held[w] \in Msgs /\ held[w].task \in submitted
    BY <1>7, HeldMsg DEF Retry
  <2>2. [held[w] EXCEPT !.retries = @ + 1] \in Msgs
        /\ [held[w] EXCEPT !.retries = @ + 1].task = held[w].task
    BY <1>7, <2>1, RetriedMsg DEF Retry
  <2>3. DEFINE again == [held[w] EXCEPT !.retries = @ + 1]
  <2>4. \A m \in Msgs : queue'[m] > 0 => queue[m] > 0 \/ m = again
    BY <1>7, <2>2 DEF Retry, Put
  <2>5. QED
    BY <1>7, <2>1, <2>2, <2>4 DEF Retry
<1>8. ASSUME NEW w \in Workers, GiveUp(w) PROVE SubmittedInv'
  BY <1>8 DEF GiveUp
<1>9. CASE UNCHANGED vars
  BY <1>9 DEF vars
<1>10. QED
  BY <1>1, <1>2, <1>3, <1>4, <1>5, <1>6, <1>7, <1>8, <1>9 DEF Next, TaskStep

-----------------------------------------------------------------------------
LEMMA IndInit == Init => IndInv
<1> SUFFICES ASSUME Init PROVE IndInv
  OBVIOUS
<1>1. TypeOK
  BY TypeInit
<1>2. OutputInv /\ SubmittedInv /\ LossInv /\ OwnerInv
  BY DEF Init, OutputInv, SucceededHasOutput, SubmittedInv, LossInv, OwnerInv
<1>3. QED
  BY <1>1, <1>2 DEF IndInv

LEMMA IndNext == IndInv /\ [Next]_vars => IndInv'
<1> SUFFICES ASSUME IndInv, [Next]_vars PROVE IndInv'
  OBVIOUS
<1>1. TypeOK /\ TypeOK' /\ OutputInv' /\ SubmittedInv'
  BY TypeNext, OutputNext, SubmittedNext DEF IndInv
<1>2. LossInv'
  <2> SUFFICES ASSUME NEW t \in submitted'
               PROVE  Live(t)' \/ KeyOf[t] \in published' \/ t \in gaveUp'
    BY DEF LossInv
  <2>1. t \in Tasks /\ KeyOf[t] \in Keys
    BY <1>1, KeysAssumption DEF TypeOK
  <2>2. CASE t \in submitted
    <3>1. Live(t) \/ KeyOf[t] \in published \/ t \in gaveUp
      BY <2>2 DEF IndInv, LossInv
    <3>2. Live(t) => Live(t)' \/ t \in gaveUp' \/ row'[KeyOf[t]] = "succeeded"
      BY <1>1, <2>1, LiveKept
    <3>3. row'[KeyOf[t]] = "succeeded" => KeyOf[t] \in published'
      BY <1>1, <2>1 DEF OutputInv, SucceededHasOutput
    <3>4. QED
      BY <3>1, <3>2, <3>3, Monotone
  <2>3. CASE t \notin submitted
    BY <1>1, <2>3, Sources, SubmitIsLive
  <2>4. QED
    BY <2>2, <2>3
<1>3. OwnerInv'
  <2> SUFFICES ASSUME NEW k \in Keys, row'[k] = "running"
               PROVE  \E t \in Tasks : KeyOf[t] = k /\ (Live(t)' \/ t \in gaveUp')
    BY DEF OwnerInv
  <2>1. CASE row[k] = "running"
    <3>1. PICK t \in Tasks : KeyOf[t] = k /\ (Live(t) \/ t \in gaveUp)
      BY <2>1 DEF IndInv, OwnerInv
    <3>2. Live(t) => Live(t)' \/ t \in gaveUp' \/ row'[k] = "succeeded"
      BY <1>1, <3>1, LiveKept
    <3>3. QED
      BY <3>1, <3>2, Monotone
  <2>2. CASE row[k] # "running"
    <3>1. PICK w \in Workers : StartRun(w) /\ KeyAt(w) = k
      BY <1>1, <2>2, Sources
    <3>2. held[w].task \in Tasks /\ KeyOf[held[w].task] = k
      BY <1>1, <3>1, HeldMsg DEF StartRun, Goto, KeyAt
    <3>3. pc'[w] = "work" /\ held' = held
      BY <1>1, <3>1 DEF StartRun, Goto, TypeOK
    <3>4. QED
      BY <3>2, <3>3 DEF Live
  <2>3. QED
    BY <2>1, <2>2
<1>4. QED
  BY <1>1, <1>2, <1>3 DEF IndInv

(* The inductive invariant: what every worker knows about outputs, and that  *)
(* every submitted task and every running row is covered by a live copy, an  *)
(* output or an exhausted task.                                              *)
THEOREM IndInvHolds == Spec => []IndInv
<1>1. QED
  BY IndInit, IndNext, PTL DEF Spec

LEMMA LiveIsOutstanding ==
    ASSUME NEW t \in Tasks, Live(t)
    PROVE  Outstanding(t)
BY DEF Live, Outstanding

(* A ledger row that says "succeeded" stands for committed data and a        *)
(* published event (ledger.succeed runs after work() on every path).         *)
THEOREM SucceededOutput == Spec => []SucceededHasOutput
<1>1. IndInv => SucceededHasOutput
  BY DEF IndInv, OutputInv
<1>2. QED
  BY <1>1, IndInvHolds, PTL

(* No request is lost silently: acks_late, reject_on_worker_lost and         *)
(* autoretry together, for any number of workers, crashes and redeliveries.  *)
THEOREM NothingLost == Spec => []NoSilentLoss
<1>1. IndInv => NoSilentLoss
  BY LiveIsOutstanding DEF IndInv, LossInv, NoSilentLoss, TypeOK
<1>2. QED
  BY <1>1, IndInvHolds, PTL

(* A row stuck at "running" always has a task that will claim it again or a  *)
(* task that gave up.                                                        *)
THEOREM RunningOwned == Spec => []RunningHasOwner
<1>1. IndInv => RunningHasOwner
  BY LiveIsOutstanding DEF IndInv, OwnerInv, RunningHasOwner
<1>2. QED
  BY <1>1, IndInvHolds, PTL

-----------------------------------------------------------------------------
(* JobRuns implements the safety half of JobContract                         *)

(* Tasks other than the one a message belongs to keep their copies: only Ack *)
(* and Crash take a message from a worker, only Receive one from the queue.  *)
LEMMA OutstandingKept ==
    ASSUME TypeOK, [Next]_vars, NEW t \in Tasks, Outstanding(t),
           \A w \in Workers : Ack(w) => held[w].task # t
    PROVE  Outstanding(t)'
<1> USE DEF Goto, broker, bounds, output, ledger
<1>1. CASE \E m \in Msgs : m.task = t /\ queue[m] > 0
  <2>1. PICK n \in Msgs : n.task = t /\ queue[n] > 0
    BY <1>1
  <2>2. \/ queue'[n] > 0
        \/ \E w \in Workers : pc'[w] = "start" /\ held'[w] = n
    BY <2>1, WaitingKept
  <2>3. QED
    BY <2>1, <2>2 DEF Outstanding
<1>2. CASE \E w \in Workers : pc[w] # "idle" /\ held[w].task = t
  <2>1. PICK v \in Workers : pc[v] # "idle" /\ held[v].task = t
    BY <1>2
  <2>2. CASE Crash(v)
    <3>1. queue'[held[v]] > 0 /\ held[v] \in Msgs
      BY <2>1, <2>2, HeldMsg, QueueType DEF Crash, TypeOK
    <3>2. QED
      BY <2>1, <3>1 DEF Outstanding
  <2>3. CASE ~Crash(v)
    <3>1. pc'[v] # "idle" /\ held'[v] = held[v]
      <4>1. ASSUME NEW w \in Workers, w # v,
                   \/ \E m \in Msgs : Receive(w, m)
                   \/ TaskStep(w)
                   \/ Crash(w)
            PROVE  pc'[v] = pc[v] /\ held'[v] = held[v]
        BY <4>1, OthersKept
      <4>2. CASE TaskStep(v)
        BY <2>1, <4>2 DEF TypeOK, TaskStep, RunJob, StartRun, Skip, WorkCommits,
           WorkPublishes, WorkRaises, Succeed, Fail, LedgerRaises, Retry, GiveUp
      <4>3. CASE \E m \in Msgs : Receive(v, m)
        BY <2>1, <4>3 DEF Receive
      <4>4. CASE \/ \E u \in Tasks : Submit(u)
                 \/ \E w \in Workers : VisibilityTimeout(w)
                 \/ UNCHANGED vars
        BY <2>1, <4>4 DEF Submit, VisibilityTimeout, vars
      <4>5. QED
        BY <2>1, <2>3, <4>1, <4>2, <4>3, <4>4 DEF Next
    <3>2. QED
      BY <2>1, <3>1 DEF Outstanding
  <2>4. QED
    BY <2>2, <2>3
<1>3. QED
  BY <1>1, <1>2 DEF Outstanding

(* Only Submit makes a task outstanding. *)
LEMMA OutstandingSource ==
    ASSUME TypeOK, [Next]_vars, NEW t \in Tasks, Outstanding(t)', ~Submit(t)
    PROVE  Outstanding(t)
<1> USE DEF Goto, TypeOK, broker, bounds, output, ledger, Outstanding
<1>1. ASSUME NEW u \in Tasks, u # t, Submit(u) PROVE Outstanding(t)
  <2>1. [task |-> u, retries |-> 0] \in Msgs
    BY RetriesAssumption DEF Msgs
  <2>2. \A m \in Msgs : m.task = t /\ queue'[m] > 0 => queue[m] > 0
    BY <1>1, <2>1 DEF Submit, Put
  <2>3. QED
    BY <1>1, <2>2 DEF Submit
<1>2. ASSUME NEW w \in Workers, NEW m \in Msgs, Receive(w, m) PROVE Outstanding(t)
  BY <1>2 DEF Receive
<1>3. ASSUME NEW w \in Workers, Crash(w) \/ VisibilityTimeout(w) PROVE Outstanding(t)
  <2>1. held[w] \in Msgs /\ pc[w] # "idle"
    BY <1>3, HeldMsg DEF Crash, VisibilityTimeout
  <2>2. \A m \in Msgs : queue'[m] > 0 => queue[m] > 0 \/ m = held[w]
    BY <1>3, <2>1 DEF Crash, VisibilityTimeout, Put
  <2>3. QED
    BY <1>3, <2>1, <2>2 DEF Crash, VisibilityTimeout
<1>4. ASSUME NEW w \in Workers, Ack(w) PROVE Outstanding(t)
  BY <1>4 DEF Ack
<1>5. ASSUME NEW w \in Workers, RunJob(w) \/ GiveUp(w) PROVE Outstanding(t)
  <2>1. UNCHANGED <<queue, held>> /\ pc[w] # "idle"
          /\ \A v \in Workers : v # w => pc'[v] = pc[v]
    BY <1>5 DEF RunJob, StartRun, Skip, WorkCommits, WorkPublishes, WorkRaises,
                Succeed, Fail, LedgerRaises, GiveUp
  <2>2. QED
    BY <2>1
<1>6. ASSUME NEW w \in Workers, Retry(w) PROVE Outstanding(t)
  <2>1. DEFINE again == [held[w] EXCEPT !.retries = @ + 1]
  <2>2. held[w] \in Msgs /\ again \in Msgs /\ again.task = held[w].task
    BY <1>6, HeldMsg, RetriedMsg DEF Retry
  <2>3. \A m \in Msgs : queue'[m] > 0 => queue[m] > 0 \/ m = again
    BY <1>6, <2>2 DEF Retry, Put
  <2>4. held' = held /\ pc[w] # "idle" /\ \A v \in Workers : v # w => pc'[v] = pc[v]
    BY <1>6 DEF Retry
  <2>5. QED
    BY <2>2, <2>3, <2>4
<1>7. CASE UNCHANGED vars
  BY <1>7 DEF vars
<1>8. QED
  BY <1>1, <1>2, <1>3, <1>4, <1>5, <1>6, <1>7 DEF Next, TaskStep

LEMMA ContractInit == Init => Contract!Init
BY DEF Init, Contract!Init, Outstanding

(* Steps that change neither the submitted tasks nor the outputs nor the     *)
(* exhausted tasks, and acknowledge nothing, are invisible to the contract.  *)
LEMMA Invisible ==
    ASSUME TypeOK, [Next]_vars, UNCHANGED <<submitted, published, gaveUp>>,
           \A w \in Workers : ~Ack(w), \A t \in Tasks : ~Submit(t)
    PROVE  UNCHANGED Contract!vars
<1>1. \A t \in Tasks : Outstanding(t)' = Outstanding(t)
  BY OutstandingKept, OutstandingSource DEF Outstanding
<1>2. {t \in Tasks : Outstanding(t)}' = {t \in Tasks : Outstanding(t)}
  BY <1>1
<1>3. QED
  BY <1>2 DEF Contract!vars

LEMMA ContractNext ==
    IndInv /\ IndInv' /\ [Next]_vars => [Contract!Next]_Contract!vars
<1> SUFFICES ASSUME IndInv, IndInv', [Next]_vars PROVE [Contract!Next]_Contract!vars
  OBVIOUS
<1>t. TypeOK /\ TypeOK'
  BY DEF IndInv
<1> DEFINE Out == {t \in Tasks : Outstanding(t)}
<1> USE DEF Goto, broker, bounds, output, ledger
<1>1. ASSUME NEW t \in Tasks, Submit(t) PROVE Contract!Request(t)
  <2>1. \A w \in Workers : ~Ack(w)
    BY <1>1 DEF Submit, Ack
  <2>2. Outstanding(t)'
    BY <1>t, <1>1, SubmitIsLive, LiveIsOutstanding DEF Live, Outstanding
  <2>3. \A u \in Tasks : u # t => ~Submit(u)
    BY <1>t, <1>1 DEF Submit
  <2>4. \A u \in Tasks : u # t => Outstanding(u)' = Outstanding(u)
    BY <1>t, <2>1, <2>3, OutstandingKept, OutstandingSource DEF Outstanding
  <2>5. Out' = Out \cup {t}
    BY <2>2, <2>4
  <2>6. QED
    BY <1>1, <2>5 DEF Submit, Contract!Request
<1>2. ASSUME NEW w \in Workers, WorkPublishes(w) PROVE Contract!Produce(held[w].task)
  <2>1. /\ \A v \in Workers : ~Ack(v)
        /\ \A u \in Tasks : ~Submit(u)
    BY <1>t, <1>2 DEF WorkPublishes, Ack, Submit, TypeOK
  <2>2. \A u \in Tasks : Outstanding(u)' = Outstanding(u)
    BY <1>t, <2>1, OutstandingKept, OutstandingSource DEF Outstanding
  <2>3. Out' = Out
    BY <2>2
  <2>4. held[w].task \in Out
    BY <1>t, <1>2, HeldMsg DEF WorkPublishes, Outstanding
  <2>5. QED
    BY <1>2, <2>3, <2>4 DEF WorkPublishes, KeyAt, Contract!Produce
<1>3. ASSUME NEW w \in Workers, GiveUp(w) PROVE Contract!Exhaust(held[w].task)
  <2>1. /\ \A v \in Workers : ~Ack(v)
        /\ \A u \in Tasks : ~Submit(u)
    BY <1>t, <1>3 DEF GiveUp, Ack, Submit, TypeOK
  <2>2. \A u \in Tasks : Outstanding(u)' = Outstanding(u)
    BY <1>t, <2>1, OutstandingKept, OutstandingSource DEF Outstanding
  <2>3. Out' = Out
    BY <2>2
  <2>4. held[w].task \in Out
    BY <1>t, <1>3, HeldMsg DEF GiveUp, Outstanding
  <2>5. QED
    BY <1>3, <2>3, <2>4 DEF GiveUp, Contract!Exhaust
<1>4. ASSUME NEW w \in Workers, Ack(w)
      PROVE  Contract!Drop(held[w].task) \/ UNCHANGED Contract!vars
  <2>1. PICK t \in Tasks : t = held[w].task
    BY <1>t, <1>4, HeldMsg DEF Ack
  <2>2. t \in Out
    BY <1>t, <1>4, <2>1 DEF Ack, Outstanding
  <2>3. \A u \in Tasks : ~Submit(u)
    BY <1>t, <1>4 DEF Ack, Submit
  <2>4. \A v \in Workers : Ack(v) => v = w
    BY <1>t, <1>4 DEF Ack, TypeOK
  <2>5. \A u \in Tasks : u # t => Outstanding(u)' = Outstanding(u)
    BY <1>t, <2>1, <2>3, <2>4, OutstandingKept, OutstandingSource DEF Outstanding
  <2>6. UNCHANGED <<submitted, published, gaveUp>>
    BY <1>4 DEF Ack
  <2>7. CASE Outstanding(t)'
    <3>1. Out' = Out
      BY <2>2, <2>5, <2>7
    <3>2. QED
      BY <2>6, <3>1 DEF Contract!vars
  <2>8. CASE ~Outstanding(t)'
    <3>1. Out' = Out \ {t}
      BY <2>2, <2>5, <2>8
    <3>2. t \in submitted'
      BY <1>4, <2>1, <2>6 DEF IndInv, SubmittedInv, Ack
    <3>3. KeyOf[t] \in published \/ t \in gaveUp
      BY <2>6, <2>8, <3>2 DEF IndInv, LossInv, Live, Outstanding
    <3>4. QED
      BY <2>1, <2>2, <2>6, <3>1, <3>3 DEF Contract!Drop
  <2>9. QED
    BY <2>7, <2>8
<1>5. CASE /\ UNCHANGED <<submitted, published, gaveUp>>
           /\ \A w \in Workers : ~Ack(w)
           /\ \A t \in Tasks : ~Submit(t)
  BY <1>t, <1>5, Invisible
<1>6. CASE \E w \in Workers :
              \/ \E m \in Msgs : Receive(w, m)
              \/ Crash(w) \/ VisibilityTimeout(w) \/ Retry(w)
              \/ RunJob(w) /\ ~WorkPublishes(w)
  <2>1. UNCHANGED <<submitted, published, gaveUp>>
    BY <1>6 DEF Receive, Crash, VisibilityTimeout, Retry, RunJob, StartRun, Skip,
                WorkCommits, WorkRaises, Succeed, Fail, LedgerRaises
  <2>2. \A t \in Tasks : ~Submit(t)
    BY <1>t, <2>1 DEF Submit
  <2>3. \A w \in Workers : ~Ack(w)
    BY <1>t, <1>6 DEF TypeOK, Ack, Receive, Crash, VisibilityTimeout, Retry, RunJob,
       StartRun, Skip, WorkCommits, WorkRaises, Succeed, Fail, LedgerRaises
  <2>4. QED
    BY <1>5, <2>1, <2>2, <2>3
<1>7. CASE UNCHANGED vars
  BY <1>7 DEF vars, Contract!vars, Outstanding
<1>8. \A w \in Workers : Ack(w) \/ WorkPublishes(w) \/ GiveUp(w) => held[w].task \in Tasks
  BY <1>t, HeldMsg DEF Ack, WorkPublishes, GiveUp
<1>9. QED
  BY <1>1, <1>2, <1>3, <1>4, <1>6, <1>7, <1>8
     DEF Next, TaskStep, Contract!Next, Contract!Progress

(* run_job, the ledger and the broker together implement the contract: a     *)
(* request leaves the system only when its output exists or its retries are  *)
(* used up, and outputs are produced only for outstanding requests.          *)
THEOREM ImplementsContract == Spec => Contract!Safety
<1>1. QED
  BY ContractInit, ContractNext, IndInvHolds, PTL DEF Spec, Contract!Safety

-----------------------------------------------------------------------------
(* One worker process *)

OneWorker == \A v, w \in Workers : v = w

(* While a run is between its start and its outcome the row says "running",  *)
(* and a row that was ever set to "succeeded" still says so.                 *)
SerialInv ==
    /\ \A w \in Workers :
          pc[w] \in {"work", "publish", "return", "fail"} =>
             row[KeyAt(w)] = "running"
    /\ \A k \in succeededOnce : row[k] = "succeeded"
    /\ succeededOnce \subseteq Keys

LEMMA SerialNext ==
    ASSUME OneWorker
    PROVE  TypeOK /\ SerialInv /\ [Next]_vars => SerialInv'
<1> SUFFICES ASSUME TypeOK, SerialInv, [Next]_vars PROVE SerialInv'
  OBVIOUS
<1> USE DEF OneWorker, SerialInv, KeyAt, Goto, broker, bounds, output, ledger
<1>1. ASSUME NEW t \in Tasks, Submit(t) PROVE SerialInv'
  BY <1>1 DEF Submit
<1>2. ASSUME NEW w \in Workers, NEW m \in Msgs, Receive(w, m) PROVE SerialInv'
  BY <1>2 DEF Receive, TypeOK
<1>3. ASSUME NEW w \in Workers, Crash(w) PROVE SerialInv'
  BY <1>3 DEF Crash, TypeOK
<1>4. ASSUME NEW w \in Workers, VisibilityTimeout(w) PROVE SerialInv'
  BY <1>4 DEF VisibilityTimeout
<1>5. ASSUME NEW w \in Workers, Ack(w) PROVE SerialInv'
  BY <1>5 DEF Ack, TypeOK
<1>6. ASSUME NEW w \in Workers, RunJob(w) PROVE SerialInv'
  <2>1. CASE StartRun(w)
    <3>1. KeyAt(w) \in Keys
      BY <2>1, HeldMsg DEF StartRun
    <3>2. \A v \in Workers : v = w /\ KeyAt(v)' = KeyAt(w)
      BY <2>1 DEF StartRun
    <3>3. row'[KeyAt(w)] = "running"
      BY <2>1, <3>1 DEF StartRun, TypeOK
    <3>4. \A k \in succeededOnce' : row'[k] = "succeeded"
      BY <2>1 DEF StartRun, Claimable, TypeOK
    <3>5. QED
      BY <2>1, <3>2, <3>3, <3>4 DEF StartRun
  <2>2. CASE Skip(w)
    BY <2>2 DEF Skip, TypeOK
  <2>3. CASE WorkCommits(w)
    BY <2>3 DEF WorkCommits, TypeOK
  <2>4. CASE WorkPublishes(w)
    BY <2>4 DEF WorkPublishes, TypeOK
  <2>5. CASE WorkRaises(w)
    BY <2>5 DEF WorkRaises, TypeOK
  <2>6. CASE Succeed(w)
    <3>1. KeyAt(w) \in Keys
      BY <2>6, HeldMsg DEF Succeed
    <3>2. QED
      BY <2>6, <3>1 DEF Succeed, TypeOK
  <2>7. CASE Fail(w)
    BY <2>7 DEF Fail, TypeOK
  <2>8. CASE LedgerRaises(w)
    BY <2>8 DEF LedgerRaises, TypeOK
  <2>9. QED
    BY <1>6, <2>1, <2>2, <2>3, <2>4, <2>5, <2>6, <2>7, <2>8 DEF RunJob
<1>7. ASSUME NEW w \in Workers, Retry(w) PROVE SerialInv'
  BY <1>7 DEF Retry, TypeOK
<1>8. ASSUME NEW w \in Workers, GiveUp(w) PROVE SerialInv'
  BY <1>8 DEF GiveUp, TypeOK
<1>9. CASE UNCHANGED vars
  BY <1>9 DEF vars
<1>10. QED
  BY <1>1, <1>2, <1>3, <1>4, <1>5, <1>6, <1>7, <1>8, <1>9 DEF Next, TaskStep

LEMMA SerialHolds ==
    ASSUME OneWorker
    PROVE  Spec => [](TypeOK /\ SerialInv)
<1>1. Init => SerialInv
  BY DEF Init, SerialInv
<1>2. TypeOK /\ SerialInv /\ [Next]_vars => SerialInv'
  BY SerialNext
<1>3. QED
  BY <1>1, <1>2, TypeInit, TypeNext, PTL DEF Spec

(* With one worker process a run that succeeded stays succeeded: no retry,   *)
(* crash or redelivery can take the row back.  (JobRunsRerun shows that two  *)
(* processes can.)                                                           *)
THEOREM SerialTerminal ==
    ASSUME OneWorker
    PROVE  Spec => SucceededIsTerminal
<1>1. ASSUME TypeOK, SerialInv, [Next]_vars
      PROVE  \A k \in Keys : row[k] = "succeeded" => row'[k] = "succeeded"
  <2> USE DEF broker, bounds, output, ledger
  <2>1. ASSUME NEW w \in Workers, Fail(w), NEW k \in Keys, row[k] = "succeeded"
        PROVE  row'[k] = "succeeded"
    BY <1>1, <2>1 DEF Fail, Goto, SerialInv, TypeOK
  <2>2. ASSUME NEW w \in Workers, Succeed(w) \/ StartRun(w),
               NEW k \in Keys, row[k] = "succeeded"
        PROVE  row'[k] = "succeeded"
    BY <1>1, <2>2 DEF Succeed, StartRun, Claimable, TypeOK
  <2>3. CASE UNCHANGED row
    BY <2>3
  <2>4. QED
    BY <1>1, <2>1, <2>2, <2>3
       DEF Next, vars, TaskStep, RunJob, Submit, Receive, Ack, Crash,
           VisibilityTimeout, Skip, WorkCommits, WorkPublishes, WorkRaises,
           LedgerRaises, Retry, GiveUp
<1>2. TypeOK /\ SerialInv /\ [Next]_vars
        => [\A k \in Keys : row[k] = "succeeded" => row'[k] = "succeeded"]_vars
  BY <1>1
<1>3. QED
  BY <1>2, SerialHolds, PTL DEF Spec, SucceededIsTerminal

(* With one worker process the framework's promise holds as written: no run  *)
(* starts on a key that some run has completed.                              *)
THEOREM SerialSkipped ==
    ASSUME OneWorker
    PROVE  Spec => SucceededKeyIsSkipped
<1>1. TypeOK /\ SerialInv /\ [Next]_vars
        => [\A w \in Workers : StartRun(w) => KeyAt(w) \notin succeededOnce]_vars
  BY DEF SerialInv, StartRun, Claimable
<1>2. QED
  BY <1>1, SerialHolds, PTL DEF Spec, SucceededKeyIsSkipped

-----------------------------------------------------------------------------
(* EventBus: events are accounted for *)

AllHandlers == UNION {ToSet(Handlers[t]) : t \in Topics}
Redis == backend = "redis_streams"
Kafka == backend = "kafka"

BusTypes ==
    /\ length \in [Topics -> 0..MaxEvents]
    /\ cursor \in [Topics -> (0..MaxEvents) \cup {NoGroup}]
    /\ owner \in [Topics -> Readers \cup {NoGroup}]
    /\ batch \in [Readers -> Seq(Entries)]
    /\ left \in [Readers -> Seq(AllHandlers)]
    /\ faults \in Nat /\ acked \subseteq Entries

Holds(r) == ToSet(batch[r])

(* Of the entry a reader works on, a handler is either still to be called or *)
(* has been; what it holds is published, and was delivered to the group.     *)
HandOK(r) ==
    /\ batch[r] # <<>> => \A h \in ToSet(Handlers[Head(batch[r])[1]]) :
          h \in ToSet(left[r]) \/ <<Head(batch[r]), h>> \in calls
    /\ \A e \in Holds(r) : e[2] <= length[e[1]]
    /\ Redis => \A e \in Holds(r) : cursor[e[1]] # NoGroup /\ e[2] <= cursor[e[1]]
    /\ Kafka => Len(batch[r]) <= 1

CursorOK == Redis => \A t \in Topics : cursor[t] # NoGroup => cursor[t] <= length[t]

HeldOnce ==
    ~Kafka \/ faults = 0 => \A r, q \in Readers : r # q => Holds(r) \cap Holds(q) = {}

PendingOK == (~Redis => pel = {}) /\ (pel \subseteq InHand \/ faults > 0)

AckedOK == \A e \in acked : Reached(e)

(* The owner of a partition: it holds or has finished all it was given; and  *)
(* what is acknowledged of a topic are its first entries.                    *)
Prefix(t, k) == \A n \in 1..MaxEvents : <<t, n>> \in acked <=> n <= k
OwnerOK ==
    /\ ~Kafka => \A t \in Topics : owner[t] = NoGroup
    /\ \A t \in Topics : owner[t] # NoGroup =>
          /\ cursor[t] # NoGroup
          /\ \A n \in 1..cursor[t] : <<t, n>> \in Holds(owner[t]) \/ Reached(<<t, n>>)
    /\ Kafka /\ faults = 0 => \A r \in Readers : \A e \in Holds(r) : owner[e[1]] = r
    /\ Kafka => \A t \in Topics : \E k \in 0..MaxEvents :
          Prefix(t, k) /\ (owner[t] # NoGroup => k <= cursor[t])

BusInv ==
    /\ BusTypes /\ (\A r \in Readers : HandOK(r)) /\ CursorOK
    /\ HeldOnce /\ PendingOK /\ AckedOK /\ OwnerOK

LEMMA HeadAndTail ==
    ASSUME NEW S, NEW s \in Seq(S), s # <<>>
    PROVE  /\ Head(s) \in S /\ Head(s) \in ToSet(s) /\ Tail(s) \in Seq(S)
           /\ ToSet(s) = {Head(s)} \cup ToSet(Tail(s))
           /\ Len(Tail(s)) = Len(s) - 1 /\ Len(s) \in Nat
           /\ Tail(s) # <<>> => Len(s) >= 2 /\ Head(Tail(s)) = s[2]
<1>1. /\ Len(s) \in Nat /\ Len(s) >= 1 /\ DOMAIN s = 1..Len(s) /\ Head(s) = s[1]
      /\ Tail(s) \in Seq(S) /\ Len(Tail(s)) = Len(s) - 1 /\ DOMAIN Tail(s) = 1..(Len(s) - 1)
      /\ \A i \in 1..(Len(s) - 1) : Tail(s)[i] = s[i + 1]
  OBVIOUS
<1>2. ToSet(s) \subseteq {Head(s)} \cup ToSet(Tail(s))
  <2> SUFFICES ASSUME NEW i \in 1..Len(s), i # 1 PROVE s[i] \in ToSet(Tail(s))
    BY <1>1 DEF ToSet
  <2>1. i - 1 \in 1..(Len(s) - 1) /\ Tail(s)[i - 1] = s[i]
    BY <1>1
  <2>2. QED
    BY <1>1, <2>1 DEF ToSet
<1>3. {Head(s)} \cup ToSet(Tail(s)) \subseteq ToSet(s)
  BY <1>1 DEF ToSet
<1>4. Tail(s) # <<>> => Len(s) >= 2 /\ Head(Tail(s)) = s[2]
  BY <1>1
<1>5. QED
  BY <1>1, <1>2, <1>3, <1>4

LEMMA NothingHeld ==
    ASSUME NEW s, s = <<>>
    PROVE  ToSet(s) = {}
<1>1. s \in Seq({}) /\ Len(s) = 0
  OBVIOUS
<1>2. DOMAIN s = {}
  BY <1>1
<1>3. QED
  BY <1>2 DEF ToSet

LEMMA HeldEntries ==
    ASSUME BusTypes, NEW r \in Readers
    PROVE  /\ batch[r] \in Seq(Entries) /\ Holds(r) \subseteq Entries
           /\ Len(batch[r]) \in Nat
           /\ batch[r] # <<>> => /\ Head(batch[r]) \in Entries /\ Head(batch[r]) \in Holds(r)
                                 /\ Head(batch[r])[1] \in Topics
<1>1. batch[r] \in Seq(Entries)
  BY DEF BusTypes
<1>2. Holds(r) \subseteq Entries
  BY <1>1 DEF Holds, ToSet
<1>3. Len(batch[r]) \in Nat
  BY <1>1
<1>4. batch[r] # <<>> => Head(batch[r]) \in Entries /\ Head(batch[r]) \in Holds(r)
  BY <1>1, HeadAndTail DEF Holds
<1>5. QED
  BY <1>1, <1>2, <1>3, <1>4 DEF Entries

LEMMA EntryPairs ==
    ASSUME NEW e \in Entries
    PROVE  e = <<e[1], e[2]>> /\ e[1] \in Topics /\ e[2] \in 1..MaxEvents /\ e[2] \in Nat
BY BusAssumption DEF Entries

LEMMA HandlersAreCalled ==
    ASSUME NEW t \in Topics
    PROVE  Handlers[t] \in Seq(AllHandlers)
<1>1. Handlers[t] \in Seq(ToSet(Handlers[t]))
  BY BusAssumption
<1>2. ToSet(Handlers[t]) \subseteq AllHandlers
  BY DEF AllHandlers
<1>3. QED
  BY <1>1, <1>2

LEMMA BusInvInit == BusInit => BusInv
<1> SUFFICES ASSUME BusInit PROVE BusInv
  OBVIOUS
<1>1. /\ length = [t \in Topics |-> 0]
      /\ cursor = [t \in Topics |-> NoGroup] /\ owner = [t \in Topics |-> NoGroup]
      /\ pel = {} /\ acked = {} /\ faults = 0
      /\ batch = [r \in Readers |-> <<>>] /\ left = [r \in Readers |-> <<>>]
  BY DEF BusInit
<1>2. 0 \in 0..MaxEvents
  BY BusAssumption
<1>3. BusTypes
  BY <1>1, <1>2 DEF BusTypes
<1>4. \A r \in Readers : batch[r] = <<>> /\ Holds(r) = {}
  BY <1>1, NothingHeld DEF Holds
<1>5. \A r \in Readers : HandOK(r)
  BY <1>4 DEF HandOK
<1>6. CursorOK /\ HeldOnce /\ PendingOK /\ AckedOK
  BY <1>1, <1>4 DEF CursorOK, HeldOnce, PendingOK, AckedOK
<1>7. OwnerOK
  BY <1>1, <1>2, <1>4 DEF OwnerOK, Prefix
<1>8. QED
  BY <1>3, <1>5, <1>6, <1>7 DEF BusInv

(* An event is appended to a stream. *)
LEMMA PublishKeeps ==
    ASSUME BusInv, NEW t \in Topics, PublishStream(t) \/ PublishKafka(t)
    PROVE  BusInv'
<1>1. /\ AppendEvent(t)
      /\ UNCHANGED <<backend, owner, cursor, pel, acked, batch, left, calls, faults>>
  BY DEF PublishStream, PublishKafka
<1>2. length[t] \in 0..MaxEvents /\ length[t] + 1 \in 0..MaxEvents
      /\ length' = [length EXCEPT ![t] = length[t] + 1]
  BY <1>1, BusAssumption DEF AppendEvent, BusInv, BusTypes
<1>3. length' \in [Topics -> 0..MaxEvents] /\ \A u \in Topics : length[u] <= length'[u]
                                             /\ length[u] \in Nat /\ length'[u] \in Nat
  BY <1>2, BusAssumption DEF BusInv, BusTypes
<1>4. BusTypes'
  BY <1>1, <1>3 DEF BusInv, BusTypes
<1>5. ASSUME NEW r \in Readers PROVE HandOK(r)'
  <2>1. HandOK(r) /\ Holds(r)' = Holds(r)
    BY <1>1 DEF BusInv, Holds
  <2>2. \A e \in Holds(r) : e[1] \in Topics /\ e[2] \in Nat
    BY HeldEntries, EntryPairs DEF BusInv
  <2>3. \A e \in Holds(r) : e[2] <= length'[e[1]]
    BY <1>3, <2>1, <2>2 DEF HandOK
  <2>4. QED
    BY <1>1, <2>1, <2>3 DEF HandOK, Redis, Kafka
<1>6. CursorOK'
  BY <1>1, <1>3 DEF BusInv, CursorOK, Redis, BusTypes
<1>7. HeldOnce' /\ PendingOK' /\ AckedOK'
  BY <1>1 DEF BusInv, HeldOnce, PendingOK, AckedOK, Holds, InHand, Reached, Redis, Kafka
<1>8. OwnerOK'
  BY <1>1 DEF BusInv, OwnerOK, Holds, Reached, Prefix, Kafka
<1>9. QED
  BY <1>4, <1>5, <1>6, <1>7, <1>8 DEF BusInv

(* One reader changes what it holds. *)
LEMMA OneReaderMoves ==
    ASSUME BusTypes, NEW r \in Readers, NEW b \in Seq(Entries), NEW l \in Seq(AllHandlers),
           batch' = [batch EXCEPT ![r] = b], left' = [left EXCEPT ![r] = l]
    PROVE  /\ batch' \in [Readers -> Seq(Entries)] /\ left' \in [Readers -> Seq(AllHandlers)]
           /\ batch'[r] = b /\ left'[r] = l /\ Holds(r)' = ToSet(b)
           /\ \A q \in Readers \ {r} :
                 batch'[q] = batch[q] /\ left'[q] = left[q] /\ Holds(q)' = Holds(q)
BY DEF BusTypes, Holds

LEMMA OthersHand ==
    ASSUME BusTypes, NEW q \in Readers, HandOK(q), batch'[q] = batch[q], left'[q] = left[q],
           calls \subseteq calls', backend' = backend,
           \A t \in Topics : length[t] <= length'[t] /\ length'[t] \in Nat,
           Redis => \A t \in Topics : cursor[t] # NoGroup =>
                       cursor'[t] # NoGroup /\ cursor[t] <= cursor'[t] /\ cursor'[t] \in Nat
    PROVE  HandOK(q)'
<1>1. Holds(q)' = Holds(q) /\ (Redis' <=> Redis) /\ (Kafka' <=> Kafka)
  BY DEF Holds, Redis, Kafka
<1>2. \A e \in Holds(q) : e[1] \in Topics /\ e[2] \in Nat
  BY HeldEntries, EntryPairs
<1>3. \A t \in Topics : length[t] \in Nat /\ cursor[t] \in Nat \cup {NoGroup}
  BY BusAssumption DEF BusTypes
<1>4. \A e \in Holds(q) : e[2] <= length'[e[1]]
  BY <1>2, <1>3 DEF HandOK
<1>5. Redis => \A e \in Holds(q) : cursor'[e[1]] # NoGroup /\ e[2] <= cursor'[e[1]]
  BY <1>2, <1>3 DEF HandOK
<1>6. QED
  BY <1>1, <1>4, <1>5 DEF HandOK

(* The lengths and cursors of the streams stand. *)
LEMMA StreamsStand ==
    ASSUME BusTypes
    PROVE  /\ \A t \in Topics : length[t] <= length[t] /\ length[t] \in Nat
           /\ \A t \in Topics : cursor[t] # NoGroup => cursor[t] <= cursor[t] /\ cursor[t] \in Nat
BY BusAssumption DEF BusTypes

LEMMA NobodyOwns ==
    ASSUME OwnerOK, ~Kafka, backend' = backend, \A t \in Topics : owner'[t] = owner[t]
    PROVE  OwnerOK'
BY DEF OwnerOK, Kafka

LEMMA PublishInlineKeeps ==
    ASSUME BusInv, NEW r \in Readers, NEW t \in Topics, PublishInline(r, t)
    PROVE  BusInv'
<1>1. PICK e : e = <<t, length[t] + 1>>
  OBVIOUS
<1>2. /\ backend = "in_process" /\ batch[r] = <<>> /\ AppendEvent(t)
      /\ batch' = [batch EXCEPT ![r] = <<e>>] /\ left' = [left EXCEPT ![r] = Handlers[t]]
      /\ UNCHANGED <<backend, owner, cursor, pel, acked, calls, faults>>
      /\ ~Redis /\ ~Kafka /\ ~Redis' /\ ~Kafka'
  BY <1>1 DEF PublishInline, Redis, Kafka
<1>3. /\ length[t] \in 0..MaxEvents /\ length[t] + 1 \in 1..MaxEvents
      /\ length' = [length EXCEPT ![t] = length[t] + 1]
  BY <1>2, BusAssumption DEF AppendEvent, BusInv, BusTypes
<1>4. /\ length' \in [Topics -> 0..MaxEvents] /\ length'[t] = length[t] + 1
      /\ \A u \in Topics : length[u] <= length'[u] /\ length[u] \in Nat /\ length'[u] \in Nat
  BY <1>3, BusAssumption DEF BusInv, BusTypes
<1>5. e \in Entries /\ e[1] = t /\ e[2] = length[t] + 1 /\ <<e>> \in Seq(Entries)
  BY <1>1, <1>3 DEF Entries
<1>6. ToSet(<<e>>) = {e} /\ Head(<<e>>) = e /\ <<e>> # <<>>
  BY DEF ToSet
<1>7. /\ batch' \in [Readers -> Seq(Entries)] /\ left' \in [Readers -> Seq(AllHandlers)]
      /\ batch'[r] = <<e>> /\ left'[r] = Handlers[t] /\ Holds(r)' = {e}
      /\ \A q \in Readers \ {r} :
            batch'[q] = batch[q] /\ left'[q] = left[q] /\ Holds(q)' = Holds(q)
  BY <1>2, <1>5, <1>6, HandlersAreCalled, OneReaderMoves DEF BusInv
<1>8. BusTypes'
  BY <1>2, <1>4, <1>7 DEF BusInv, BusTypes
<1>9. \A q \in Readers : HandOK(q)'
  <2>1. HandOK(r)'
    BY <1>2, <1>4, <1>5, <1>6, <1>7 DEF HandOK
  <2>2. ASSUME NEW q \in Readers \ {r} PROVE HandOK(q)'
    BY <1>2, <1>4, <1>7, OthersHand DEF BusInv
  <2>3. QED
    BY <2>1, <2>2
<1>10. CursorOK' /\ PendingOK' /\ AckedOK'
  BY <1>2 DEF BusInv, CursorOK, PendingOK, AckedOK, Reached
<1>11. HeldOnce'
  <2>1. \A q \in Readers \ {r} : e \notin Holds(q)
    BY <1>4, <1>5 DEF BusInv, HandOK
  <2>2. QED
    BY <1>2, <1>7, <2>1 DEF BusInv, HeldOnce
<1>12. OwnerOK'
  BY <1>2, NobodyOwns DEF BusInv
<1>13. QED
  BY <1>8, <1>9, <1>10, <1>11, <1>12 DEF BusInv

LEMMA StartKeeps ==
    ASSUME BusInv, NEW r \in Readers, Start(r)
    PROVE  BusInv'
<1>1. /\ Redis /\ Redis' /\ ~Kafka /\ ~Kafka'
      /\ cursor' = [t \in Topics |-> IF Handlers[t] # <<>> /\ cursor[t] = NoGroup
                                     THEN length[t] ELSE cursor[t]]
      /\ UNCHANGED <<backend, owner, length, pel, acked, batch, left, calls, faults>>
  BY DEF Start, Redis, Kafka
<1>2. \A t \in Topics : /\ length[t] \in 0..MaxEvents /\ length[t] \in Nat
                        /\ cursor[t] \in (0..MaxEvents) \cup {NoGroup}
  BY BusAssumption DEF BusInv, BusTypes
<1>3. \A t \in Topics : /\ cursor'[t] \in (0..MaxEvents) \cup {NoGroup}
                        /\ cursor[t] # NoGroup => cursor'[t] = cursor[t]
                        /\ cursor'[t] = cursor[t] \/ cursor'[t] = length[t]
  BY <1>1, <1>2
<1>4. BusTypes'
  BY <1>1, <1>3 DEF BusInv, BusTypes
<1>5. ASSUME NEW q \in Readers PROVE HandOK(q)'
  <2>1. \A t \in Topics : /\ cursor[t] # NoGroup =>
                                cursor'[t] # NoGroup /\ cursor[t] <= cursor'[t] /\ cursor'[t] \in Nat
                          /\ length[t] <= length'[t] /\ length'[t] \in Nat
    BY <1>1, <1>2, <1>3, BusAssumption
  <2>2. QED
    BY <1>1, <2>1, OthersHand DEF BusInv
<1>6. CursorOK'
  BY <1>1, <1>2, <1>3 DEF BusInv, CursorOK
<1>7. HeldOnce' /\ PendingOK' /\ AckedOK'
  BY <1>1 DEF BusInv, HeldOnce, PendingOK, AckedOK, Holds, InHand, Reached
<1>8. OwnerOK'
  BY <1>1, NobodyOwns DEF BusInv
<1>9. QED
  BY <1>4, <1>5, <1>6, <1>7, <1>8 DEF BusInv

(* What a read takes: the entries after the cursor. *)
LEMMA ReadTakes ==
    ASSUME BusInv, Redis, NEW taken \in SetToSeqs(UNION {NewEntries(t) : t \in Topics})
    PROVE  /\ taken \in Seq(Entries)
           /\ \A e \in ToSet(taken) : /\ cursor[e[1]] # NoGroup /\ cursor[e[1]] < e[2]
                                      /\ e[2] <= ReadUpTo(e[1])
<1> DEFINE New == UNION {NewEntries(t) : t \in Topics}
<1>1. \A t \in Topics : cursor[t] # NoGroup =>
         /\ cursor[t] \in 0..MaxEvents /\ ReadUpTo(t) \in 0..MaxEvents
  BY BusAssumption DEF BusInv, BusTypes, ReadUpTo
<1>2. \A e \in New : /\ e \in Entries
                     /\ cursor[e[1]] # NoGroup /\ cursor[e[1]] < e[2] /\ e[2] <= ReadUpTo(e[1])
  <2> SUFFICES ASSUME NEW t \in Topics, NEW e \in NewEntries(t)
               PROVE  /\ e \in Entries
                      /\ cursor[e[1]] # NoGroup /\ cursor[e[1]] < e[2] /\ e[2] <= ReadUpTo(e[1])
    OBVIOUS
  <2>1. cursor[t] # NoGroup /\ e \in {t} \X ((cursor[t] + 1)..ReadUpTo(t))
    BY DEF NewEntries
  <2>2. e[1] = t /\ e[2] \in (cursor[t] + 1)..ReadUpTo(t) /\ e = <<t, e[2]>>
    BY <2>1
  <2>3. cursor[t] \in Nat /\ ReadUpTo(t) \in Nat /\ ReadUpTo(t) <= MaxEvents
    BY <1>1, <2>1, BusAssumption
  <2>4. e[2] \in 1..MaxEvents /\ cursor[t] < e[2] /\ e[2] <= ReadUpTo(t)
    BY <2>2, <2>3, BusAssumption
  <2>5. e \in Entries
    BY <2>2, <2>4 DEF Entries
  <2>6. QED
    BY <2>1, <2>2, <2>4, <2>5
<1>3. IsFiniteSet(Entries)
  <2>1. 1 \in Int /\ MaxEvents \in Int
    BY BusAssumption
  <2>2. IsFiniteSet(1..MaxEvents)
    BY <2>1, FS_Interval
  <2>3. IsFiniteSet(Topics)
    BY BusAssumption
  <2>4. QED
    BY <2>2, <2>3, FS_Product DEF Entries
<1>4. Cardinality(New) \in Nat
  BY <1>2, <1>3, FS_Subset, FS_CardinalityType
<1>5. taken \in [1..Cardinality(New) -> New]
  BY DEF SetToSeqs
<1> HIDE DEF New
<1>6. taken \in Seq(New)
  BY <1>4, <1>5
<1>7. ToSet(taken) \subseteq New
  BY <1>5 DEF ToSet
<1>8. taken \in Seq(Entries)
  BY <1>2, <1>6
<1>9. QED
  BY <1>2, <1>7, <1>8

LEMMA ReadKeeps ==
    ASSUME BusInv, NEW r \in Readers, Read(r)
    PROVE  BusInv'
<1>1. PICK taken \in SetToSeqs(UNION {NewEntries(t) : t \in Topics}) :
         /\ taken # <<>>
         /\ batch' = [batch EXCEPT ![r] = taken]
         /\ left' = [left EXCEPT ![r] = Handlers[Head(taken)[1]]]
         /\ pel' = pel \cup ToSet(taken)
  BY DEF Read
<1>2. /\ batch[r] = <<>> /\ cursor' = [t \in Topics |-> AfterRead(t)]
      /\ UNCHANGED <<backend, owner, length, acked, calls, faults>>
      /\ Redis /\ Redis' /\ ~Kafka /\ ~Kafka'
  BY DEF Read, Redis, Kafka
<1>3. /\ taken \in Seq(Entries)
      /\ \A e \in ToSet(taken) : /\ cursor[e[1]] # NoGroup /\ cursor[e[1]] < e[2]
                                 /\ e[2] <= ReadUpTo(e[1])
  BY <1>2, ReadTakes
<1>4. /\ Head(taken) \in Entries /\ ToSet(taken) \subseteq Entries
  BY <1>1, <1>3, HeadAndTail DEF ToSet
<1>5. Handlers[Head(taken)[1]] \in Seq(AllHandlers)
  BY <1>4, EntryPairs, HandlersAreCalled
<1>6. /\ batch' \in [Readers -> Seq(Entries)] /\ left' \in [Readers -> Seq(AllHandlers)]
      /\ batch'[r] = taken /\ left'[r] = Handlers[Head(taken)[1]] /\ Holds(r)' = ToSet(taken)
      /\ \A q \in Readers \ {r} :
            batch'[q] = batch[q] /\ left'[q] = left[q] /\ Holds(q)' = Holds(q)
  BY <1>1, <1>3, <1>5, OneReaderMoves DEF BusInv
<1>7. \A t \in Topics :
         /\ length[t] \in 0..MaxEvents /\ length[t] \in Nat
         /\ cursor[t] \in (0..MaxEvents) \cup {NoGroup}
         /\ cursor[t] = NoGroup => cursor'[t] = NoGroup
         /\ cursor[t] # NoGroup => /\ cursor'[t] = ReadUpTo(t) /\ cursor'[t] \in 0..MaxEvents
                                   /\ cursor[t] <= cursor'[t] /\ cursor'[t] <= length[t]
                                   /\ cursor'[t] # NoGroup /\ cursor'[t] \in Nat
  <2> SUFFICES ASSUME NEW t \in Topics
               PROVE  /\ length[t] \in 0..MaxEvents /\ length[t] \in Nat
                      /\ cursor[t] \in (0..MaxEvents) \cup {NoGroup}
                      /\ cursor[t] = NoGroup => cursor'[t] = NoGroup
                      /\ cursor[t] # NoGroup =>
                            /\ cursor'[t] = ReadUpTo(t) /\ cursor'[t] \in 0..MaxEvents
                            /\ cursor[t] <= cursor'[t] /\ cursor'[t] <= length[t]
                            /\ cursor'[t] # NoGroup /\ cursor'[t] \in Nat
    OBVIOUS
  <2>1. /\ length[t] \in 0..MaxEvents /\ length[t] \in Nat
        /\ cursor[t] \in (0..MaxEvents) \cup {NoGroup}
        /\ cursor[t] # NoGroup => cursor[t] <= length[t]
    BY <1>2, BusAssumption DEF BusInv, BusTypes, CursorOK
  <2>2. cursor'[t] = IF cursor[t] = NoGroup THEN NoGroup ELSE ReadUpTo(t)
    BY <1>2 DEF AfterRead
  <2>3. cursor[t] # NoGroup => /\ ReadUpTo(t) \in 0..MaxEvents /\ ReadUpTo(t) \in Nat
                               /\ cursor[t] <= ReadUpTo(t) /\ ReadUpTo(t) <= length[t]
    BY <2>1, BusAssumption DEF ReadUpTo
  <2>4. QED
    BY <2>1, <2>2, <2>3, BusAssumption
<1>8. BusTypes'
  <2>1. cursor' \in [Topics -> (0..MaxEvents) \cup {NoGroup}]
    BY <1>2, <1>7
  <2>2. QED
    BY <1>2, <1>6, <2>1 DEF BusInv, BusTypes
<1>9. \A q \in Readers : HandOK(q)'
  <2>1. \A e \in ToSet(taken) : /\ e[1] \in Topics /\ e[2] \in Nat
                                /\ cursor'[e[1]] # NoGroup /\ e[2] <= cursor'[e[1]]
                                /\ e[2] <= length'[e[1]]
    BY <1>2, <1>3, <1>4, <1>7, EntryPairs
  <2>2. HandOK(r)'
    BY <1>2, <1>6, <2>1 DEF HandOK
  <2>3. ASSUME NEW q \in Readers \ {r} PROVE HandOK(q)'
    <3>1. \A t \in Topics : /\ length[t] <= length'[t] /\ length'[t] \in Nat
                            /\ cursor[t] # NoGroup => /\ cursor'[t] # NoGroup
                                                      /\ cursor[t] <= cursor'[t] /\ cursor'[t] \in Nat
      BY <1>2, <1>7
    <3>2. QED
      BY <1>2, <1>6, <3>1, OthersHand DEF BusInv
  <2>4. QED
    BY <2>2, <2>3
<1>10. CursorOK' /\ AckedOK'
  BY <1>2, <1>7 DEF BusInv, CursorOK, AckedOK, Reached
<1>11. HeldOnce'
  <2>1. \A q \in Readers : \A e \in Holds(q) : e \notin ToSet(taken)
    <3> SUFFICES ASSUME NEW q \in Readers, NEW e \in Holds(q), e \in ToSet(taken) PROVE FALSE
      OBVIOUS
    <3>1. e[2] <= cursor[e[1]] /\ cursor[e[1]] < e[2] /\ cursor[e[1]] # NoGroup
      BY <1>2, <1>3 DEF BusInv, HandOK
    <3>2. e[2] \in Nat /\ cursor[e[1]] \in Nat
      BY <1>4, <1>7, <3>1, EntryPairs
    <3>3. QED
      BY <3>1, <3>2
  <2>2. ASSUME NEW p \in Readers, NEW q \in Readers, p # q
        PROVE  Holds(p)' \cap Holds(q)' = {}
    <3>1. Holds(p) \cap Holds(q) = {}
      BY <1>2, <2>2 DEF BusInv, HeldOnce
    <3>2. p # r => Holds(p)' = Holds(p)
      BY <1>6
    <3>3. q # r => Holds(q)' = Holds(q)
      BY <1>6
    <3>4. QED
      BY <1>6, <2>1, <2>2, <3>1, <3>2, <3>3
  <2>3. QED
    BY <2>2 DEF HeldOnce
<1>12. PendingOK'
  <2>1. Holds(r) = {}
    BY <1>2, NothingHeld DEF Holds
  <2>2. InHand \cup ToSet(taken) \subseteq InHand'
    <3>1. InHand = UNION {Holds(q) : q \in Readers} /\ InHand' = UNION {Holds(q)' : q \in Readers}
      BY DEF InHand, Holds
    <3>2. \A q \in Readers : Holds(q) \subseteq InHand'
      BY <1>6, <2>1, <3>1
    <3>3. QED
      BY <1>6, <3>1, <3>2
  <2>3. QED
    BY <1>1, <1>2, <2>2 DEF BusInv, PendingOK
<1>13. OwnerOK'
  BY <1>2, NobodyOwns DEF BusInv
<1>14. QED
  BY <1>8, <1>9, <1>10, <1>11, <1>12, <1>13 DEF BusInv

LEMMA ReachedStays ==
    ASSUME NEW e, calls \subseteq calls', Reached(e)
    PROVE  Reached(e)'
BY DEF Reached

(* Readers hold no more than they did. *)
LEMMA HeldLess ==
    ASSUME BusTypes, HeldOnce, backend' = backend, faults' \in {faults, faults + 1},
           \A q \in Readers : Holds(q)' \subseteq Holds(q)
    PROVE  HeldOnce'
<1>1. faults' = 0 => faults = 0
  BY DEF BusTypes
<1>2. Kafka' <=> Kafka
  BY DEF Kafka
<1>3. QED
  BY <1>1, <1>2 DEF HeldOnce

(* Owners stay or leave, and what one held is still held or was dispatched. *)
LEMMA OwnersStay ==
    ASSUME BusTypes, OwnerOK, backend' = backend, cursor' = cursor,
           calls \subseteq calls', faults' \in {faults, faults + 1},
           \A t \in Topics : owner'[t] # NoGroup =>
              /\ owner'[t] = owner[t]
              /\ \A e \in Holds(owner[t]) : e \in Holds(owner[t])' \/ Reached(e)',
           faults' = 0 => \A q \in Readers : \A e \in Holds(q)' :
              e \in Holds(q) /\ owner'[e[1]] = owner[e[1]],
           Kafka => \A t \in Topics : \E k \in 0..MaxEvents :
              Prefix(t, k)' /\ (owner[t] # NoGroup => k <= cursor[t])
    PROVE  OwnerOK'
<1>1. (Kafka' <=> Kafka) /\ (faults' = 0 => faults = 0)
  BY DEF Kafka, BusTypes
<1>2. ~Kafka => \A t \in Topics : owner'[t] = NoGroup
  BY DEF OwnerOK
<1>3. ASSUME NEW t \in Topics, owner'[t] # NoGroup
      PROVE  /\ cursor'[t] # NoGroup
             /\ \A n \in 1..cursor'[t] : <<t, n>> \in Holds(owner[t])' \/ Reached(<<t, n>>)'
  <2>1. owner'[t] = owner[t] /\ cursor[t] # NoGroup
        /\ \A n \in 1..cursor[t] : <<t, n>> \in Holds(owner[t]) \/ Reached(<<t, n>>)
    BY <1>3 DEF OwnerOK
  <2>2. ASSUME NEW n \in 1..cursor[t]
        PROVE  <<t, n>> \in Holds(owner[t])' \/ Reached(<<t, n>>)'
    BY <1>3, <2>1, <2>2, ReachedStays
  <2>3. QED
    BY <2>1, <2>2
<1>4. Kafka /\ faults' = 0 => \A q \in Readers : \A e \in Holds(q)' : owner'[e[1]] = q
  BY <1>1 DEF OwnerOK
<1>5. Kafka => \A t \in Topics : \E k \in 0..MaxEvents :
         Prefix(t, k)' /\ (owner'[t] # NoGroup => k <= cursor'[t])
  BY DEF OwnerOK
<1>6. QED
  BY <1>1, <1>2, <1>3, <1>4, <1>5 DEF OwnerOK

LEMMA DispatchKeeps ==
    ASSUME BusInv, NEW r \in Readers, Dispatch(r)
    PROVE  BusInv'
<1>1. /\ batch[r] # <<>> /\ left[r] # <<>>
      /\ calls' = calls \cup {<<Head(batch[r]), Head(left[r])>>}
      /\ left' = [left EXCEPT ![r] = Tail(left[r])]
      /\ UNCHANGED <<backend, owner, length, cursor, pel, acked, batch, faults>>
  BY DEF Dispatch, AfterHandler
<1>2. BusTypes /\ left[r] \in Seq(AllHandlers) /\ HandOK(r) /\ batch \in [Readers -> Seq(Entries)]
  BY DEF BusInv, BusTypes
<1>3. Tail(left[r]) \in Seq(AllHandlers) /\ ToSet(left[r]) = {Head(left[r])} \cup ToSet(Tail(left[r]))
  BY <1>1, <1>2, HeadAndTail
<1>4. /\ left' \in [Readers -> Seq(AllHandlers)] /\ left'[r] = Tail(left[r])
      /\ \A q \in Readers \ {r} : left'[q] = left[q]
  BY <1>1, <1>2, <1>3 DEF BusTypes
<1>5. BusTypes'
  BY <1>1, <1>2, <1>4 DEF BusTypes
<1>6. \A q \in Readers : HandOK(q)'
  <2>1. HandOK(r)'
    BY <1>1, <1>2, <1>3, <1>4 DEF HandOK, Holds, Redis, Kafka
  <2>2. ASSUME NEW q \in Readers \ {r} PROVE HandOK(q)'
    BY <1>1, <1>2, <1>4, OthersHand, StreamsStand DEF BusInv
  <2>3. QED
    BY <2>1, <2>2
<1>7. CursorOK' /\ HeldOnce' /\ PendingOK'
  BY <1>1 DEF BusInv, CursorOK, HeldOnce, PendingOK, Holds, InHand, Redis, Kafka
<1>8. AckedOK'
  BY <1>1, ReachedStays DEF BusInv, AckedOK
<1>9. OwnerOK'
  BY <1>1, ReachedStays DEF BusInv, OwnerOK, Holds, Kafka, Prefix
<1>10. QED
  BY <1>5, <1>6, <1>7, <1>8, <1>9 DEF BusInv

(* The entry a reader is done with was given to every handler of its topic. *)
LEMMA FinishedIsReached ==
    ASSUME BusInv, NEW r \in Readers, batch[r] # <<>>, left[r] = <<>>
    PROVE  Reached(Head(batch[r]))
<1>1. HandOK(r) /\ ToSet(left[r]) = {}
  BY NothingHeld DEF BusInv
<1>2. QED
  BY <1>1 DEF HandOK, Reached

LEMMA AckEntryKeeps ==
    ASSUME BusInv, NEW r \in Readers, AckEntry(r)
    PROVE  BusInv'
<1>1. PICK l : l = IF Tail(batch[r]) = <<>> THEN <<>> ELSE Handlers[batch[r][2][1]]
  OBVIOUS
<1>2. /\ ~Kafka /\ batch[r] # <<>> /\ left[r] = <<>>
      /\ batch' = [batch EXCEPT ![r] = Tail(batch[r])]
      /\ left' = [left EXCEPT ![r] = l]
      /\ acked' = acked \cup {Head(batch[r])}
      /\ pel' = pel \ {Head(batch[r])}
      /\ UNCHANGED <<backend, owner, length, cursor, calls, faults>>
  BY <1>1 DEF AckEntry, NextEntry, Kafka
<1>3. BusTypes /\ batch[r] \in Seq(Entries) /\ HandOK(r) /\ Head(batch[r]) \in Entries
  BY <1>2, HeldEntries DEF BusInv
<1>4. /\ Tail(batch[r]) \in Seq(Entries) /\ Holds(r) = {Head(batch[r])} \cup ToSet(Tail(batch[r]))
      /\ Tail(batch[r]) # <<>> => Head(Tail(batch[r])) = batch[r][2]
  BY <1>2, <1>3, HeadAndTail DEF Holds
<1>5. Tail(batch[r]) # <<>> => batch[r][2] \in Entries /\ l = Handlers[Head(Tail(batch[r]))[1]]
  BY <1>1, <1>4, HeadAndTail
<1>6. l \in Seq(AllHandlers)
  <2>1. CASE Tail(batch[r]) = <<>>
    BY <1>1, <2>1
  <2>2. CASE Tail(batch[r]) # <<>>
    BY <1>4, <1>5, <2>2, EntryPairs, HandlersAreCalled
  <2>3. QED
    BY <2>1, <2>2
<1>7. /\ batch' \in [Readers -> Seq(Entries)] /\ left' \in [Readers -> Seq(AllHandlers)]
      /\ batch'[r] = Tail(batch[r]) /\ left'[r] = l /\ Holds(r)' = ToSet(Tail(batch[r]))
      /\ \A q \in Readers \ {r} :
            batch'[q] = batch[q] /\ left'[q] = left[q] /\ Holds(q)' = Holds(q)
  BY <1>2, <1>3, <1>4, <1>6, OneReaderMoves
<1>8. BusTypes'
  BY <1>2, <1>3, <1>7 DEF BusTypes
<1>9. \A q \in Readers : HandOK(q)'
  <2>1. Tail(batch[r]) # <<>> => \A h \in ToSet(Handlers[Head(Tail(batch[r]))[1]]) : h \in ToSet(l)
    BY <1>5
  <2>2. HandOK(r)'
    BY <1>2, <1>3, <1>4, <1>7, <2>1 DEF HandOK, Redis, Kafka
  <2>3. ASSUME NEW q \in Readers \ {r} PROVE HandOK(q)'
    BY <1>2, <1>3, <1>7, OthersHand, StreamsStand DEF BusInv
  <2>4. QED
    BY <2>2, <2>3
<1>10. CursorOK'
  BY <1>2 DEF BusInv, CursorOK, Redis
<1>11. AckedOK'
  BY <1>2, FinishedIsReached DEF BusInv, AckedOK, Reached
<1>12. HeldOnce'
  BY <1>2, <1>3, <1>4, <1>7, HeldLess DEF BusInv
<1>13. PendingOK'
  <2>1. InHand = UNION {Holds(q) : q \in Readers} /\ InHand' = UNION {Holds(q)' : q \in Readers}
    BY DEF InHand, Holds
  <2>2. InHand \ {Head(batch[r])} \subseteq InHand'
    <3> SUFFICES ASSUME NEW q \in Readers, NEW e \in Holds(q), e # Head(batch[r])
                 PROVE  e \in Holds(q)'
      BY <2>1
    <3>1. QED
      BY <1>4, <1>7
  <2>3. QED
    BY <1>2, <2>2 DEF BusInv, PendingOK, Redis
<1>14. OwnerOK'
  BY <1>2, NobodyOwns DEF BusInv
<1>15. QED
  BY <1>8, <1>9, <1>10, <1>11, <1>12, <1>13, <1>14 DEF BusInv

(* A reader lets go of what it holds. *)
LEMMA LetGo ==
    ASSUME BusTypes, NEW r \in Readers,
           batch' = [batch EXCEPT ![r] = <<>>],
           left' = [left EXCEPT ![r] = <<>>] \/ left' = left
    PROVE  /\ batch' \in [Readers -> Seq(Entries)] /\ left' \in [Readers -> Seq(AllHandlers)]
           /\ batch'[r] = <<>> /\ Holds(r)' = {}
           /\ \A q \in Readers \ {r} :
                 batch'[q] = batch[q] /\ left'[q] = left[q] /\ Holds(q)' = Holds(q)
<1>1. <<>> \in Seq(Entries) /\ <<>> \in Seq(AllHandlers)
  OBVIOUS
<1>2. batch \in [Readers -> Seq(Entries)] /\ left \in [Readers -> Seq(AllHandlers)]
  BY DEF BusTypes
<1>3. /\ batch' \in [Readers -> Seq(Entries)] /\ left' \in [Readers -> Seq(AllHandlers)]
      /\ batch'[r] = <<>>
      /\ \A q \in Readers \ {r} : batch'[q] = batch[q] /\ left'[q] = left[q]
  BY <1>1, <1>2
<1>4. QED
  BY <1>3, NothingHeld DEF Holds

LEMMA ReaderErrorKeeps ==
    ASSUME BusInv, NEW r \in Readers, ReaderError(r)
    PROVE  BusInv'
<1>1. /\ Redis /\ ~Kafka /\ faults' = faults + 1
      /\ batch' = [batch EXCEPT ![r] = <<>>] /\ left' = [left EXCEPT ![r] = <<>>]
      /\ UNCHANGED <<backend, owner, length, cursor, pel, acked, calls>>
  BY DEF ReaderError, Fault, Redis, Kafka
<1>2. BusTypes /\ faults' \in Nat /\ faults' > 0
  BY <1>1 DEF BusInv, BusTypes
<1>3. /\ batch' \in [Readers -> Seq(Entries)] /\ left' \in [Readers -> Seq(AllHandlers)]
      /\ batch'[r] = <<>> /\ Holds(r)' = {}
      /\ \A q \in Readers \ {r} :
            batch'[q] = batch[q] /\ left'[q] = left[q] /\ Holds(q)' = Holds(q)
  BY <1>1, <1>2, LetGo
<1>4. BusTypes'
  BY <1>1, <1>2, <1>3 DEF BusTypes
<1>5. \A q \in Readers : HandOK(q)'
  <2>1. HandOK(r)'
    <3>1. Len(<<>>) = 0
      OBVIOUS
    <3>2. QED
      BY <1>3, <3>1 DEF HandOK
  <2>2. ASSUME NEW q \in Readers \ {r} PROVE HandOK(q)'
    BY <1>1, <1>2, <1>3, OthersHand, StreamsStand DEF BusInv
  <2>3. QED
    BY <2>1, <2>2
<1>6. CursorOK' /\ PendingOK' /\ AckedOK'
  BY <1>1, <1>2 DEF BusInv, CursorOK, PendingOK, AckedOK, Reached, Redis
<1>7. HeldOnce'
  BY <1>1, <1>2, <1>3, HeldLess DEF BusInv
<1>8. OwnerOK'
  BY <1>1, NobodyOwns DEF BusInv
<1>9. QED
  BY <1>4, <1>5, <1>6, <1>7, <1>8 DEF BusInv

(* The readers that leave a group own nothing any more. *)
LEMMA LeavingReader ==
    ASSUME BusTypes, NEW r \in Readers, owner' = Unowned(r)
    PROVE  /\ owner' \in [Topics -> Readers \cup {NoGroup}]
           /\ \A t \in Topics : owner'[t] # NoGroup => owner'[t] = owner[t] /\ owner[t] \in Readers \ {r}
BY DEF BusTypes, Unowned

LEMMA CrashReaderKeeps ==
    ASSUME BusInv, NEW r \in Readers, CrashReader(r)
    PROVE  BusInv'
<1>1. /\ faults' = faults + 1 /\ owner' = Unowned(r)
      /\ batch' = [batch EXCEPT ![r] = <<>>] /\ left' = [left EXCEPT ![r] = <<>>]
      /\ UNCHANGED <<backend, length, cursor, pel, acked, calls>>
  BY DEF CrashReader, Fault
<1>2. BusTypes /\ faults' \in Nat /\ faults' > 0
  BY <1>1 DEF BusInv, BusTypes
<1>3. /\ batch' \in [Readers -> Seq(Entries)] /\ left' \in [Readers -> Seq(AllHandlers)]
      /\ batch'[r] = <<>> /\ Holds(r)' = {}
      /\ \A q \in Readers \ {r} :
            batch'[q] = batch[q] /\ left'[q] = left[q] /\ Holds(q)' = Holds(q)
  BY <1>1, <1>2, LetGo
<1>4. /\ owner' \in [Topics -> Readers \cup {NoGroup}]
      /\ \A t \in Topics : owner'[t] # NoGroup => owner'[t] = owner[t] /\ owner[t] \in Readers \ {r}
  BY <1>1, <1>2, LeavingReader
<1>5. BusTypes'
  BY <1>1, <1>2, <1>3, <1>4 DEF BusTypes
<1>6. \A q \in Readers : HandOK(q)'
  <2>1. HandOK(r)'
    <3>1. Len(<<>>) = 0
      OBVIOUS
    <3>2. QED
      BY <1>3, <3>1 DEF HandOK
  <2>2. ASSUME NEW q \in Readers \ {r} PROVE HandOK(q)'
    BY <1>1, <1>2, <1>3, OthersHand, StreamsStand DEF BusInv
  <2>3. QED
    BY <2>1, <2>2
<1>7. CursorOK' /\ PendingOK' /\ AckedOK'
  BY <1>1, <1>2 DEF BusInv, CursorOK, PendingOK, AckedOK, Reached, Redis
<1>8. HeldOnce'
  BY <1>1, <1>2, <1>3, HeldLess DEF BusInv
<1>9. OwnerOK'
  <2>1. \A t \in Topics : owner'[t] # NoGroup =>
           /\ owner'[t] = owner[t]
           /\ \A e \in Holds(owner[t]) : e \in Holds(owner[t])' \/ Reached(e)'
    <3> SUFFICES ASSUME NEW t \in Topics, owner'[t] # NoGroup, NEW e \in Holds(owner[t])
                 PROVE  e \in Holds(owner[t])'
      BY <1>4
    <3>1. PICK q \in Readers \ {r} : q = owner[t] /\ q = owner'[t]
      BY <1>4
    <3>2. Holds(q)' = Holds(q)
      BY <1>3
    <3>3. QED
      BY <3>1, <3>2 DEF Holds
  <2>2. Kafka => \A t \in Topics : \E k \in 0..MaxEvents :
           Prefix(t, k)' /\ (owner[t] # NoGroup => k <= cursor[t])
    BY <1>1 DEF BusInv, OwnerOK, Prefix
  <2>3. QED
    BY <1>1, <1>2, <2>1, <2>2, OwnersStay DEF BusInv
<1>10. QED
  BY <1>5, <1>6, <1>7, <1>8, <1>9 DEF BusInv

LEMMA EvictKeeps ==
    ASSUME BusInv, NEW r \in Readers, Evict(r)
    PROVE  BusInv'
<1>1. /\ Kafka /\ ~Redis /\ faults' = faults + 1 /\ owner' = Unowned(r)
      /\ UNCHANGED <<backend, length, cursor, pel, acked, batch, left, calls>>
  BY DEF Evict, Fault, Kafka, Redis
<1>2. BusTypes /\ faults' \in Nat /\ faults' > 0
  BY <1>1 DEF BusInv, BusTypes
<1>3. /\ owner' \in [Topics -> Readers \cup {NoGroup}]
      /\ \A t \in Topics : owner'[t] # NoGroup => owner'[t] = owner[t] /\ owner[t] \in Readers \ {r}
  BY <1>1, <1>2, LeavingReader
<1>4. BusTypes'
  BY <1>1, <1>2, <1>3 DEF BusTypes
<1>5. \A q \in Readers : HandOK(q)'
  BY <1>1 DEF BusInv, HandOK, Holds, Redis, Kafka
<1>6. CursorOK' /\ PendingOK' /\ AckedOK' /\ HeldOnce'
  BY <1>1, <1>2 DEF BusInv, CursorOK, PendingOK, AckedOK, HeldOnce, Reached, Redis, Kafka
<1>7. OwnerOK'
  <2>1. \A t \in Topics : owner'[t] # NoGroup =>
           /\ owner'[t] = owner[t]
           /\ \A e \in Holds(owner[t]) : e \in Holds(owner[t])' \/ Reached(e)'
    BY <1>1, <1>3 DEF Holds
  <2>2. Kafka => \A t \in Topics : \E k \in 0..MaxEvents :
           Prefix(t, k)' /\ (owner[t] # NoGroup => k <= cursor[t])
    BY <1>1 DEF BusInv, OwnerOK, Prefix
  <2>3. QED
    BY <1>1, <1>2, <2>1, <2>2, OwnersStay DEF BusInv
<1>8. QED
  BY <1>4, <1>5, <1>6, <1>7 DEF BusInv

LEMMA OnlyTheHead ==
    ASSUME NEW S, NEW b \in Seq(S), b # <<>>, Len(b) <= 1, NEW e \in ToSet(b)
    PROVE  e = Head(b)
<1>1. Len(b) \in Nat /\ Len(b) >= 1 /\ DOMAIN b = 1..Len(b) /\ Head(b) = b[1]
  OBVIOUS
<1>2. DOMAIN b = {1}
  BY <1>1
<1>3. QED
  BY <1>1, <1>2 DEF ToSet

(* What a reader commits: all it was given, which it has dispatched. *)
LEMMA PassedIsReached ==
    ASSUME BusInv, NEW r \in Readers, Holds(r) = {} \/ (Kafka /\ batch[r] # <<>> /\ left[r] = <<>>),
           NEW e \in Passed(r)
    PROVE  Reached(e)
<1>1. e \in Entries /\ owner[e[1]] = r /\ e[2] <= cursor[e[1]]
  BY DEF Passed
<1>2. e = <<e[1], e[2]>> /\ e[1] \in Topics /\ e[2] \in 1..MaxEvents /\ e[2] \in Nat
  BY <1>1, EntryPairs
<1>3. r # NoGroup
  BY BusAssumption
<1>4. cursor[e[1]] \in 0..MaxEvents
  BY <1>1, <1>2, <1>3 DEF BusInv, BusTypes, OwnerOK
<1>5. e[2] \in 1..cursor[e[1]]
  BY <1>1, <1>2, <1>4, BusAssumption
<1>6. e \in Holds(r) \/ Reached(e)
  BY <1>1, <1>2, <1>3, <1>5 DEF BusInv, OwnerOK
<1>7. ASSUME Kafka, batch[r] # <<>>, e \in Holds(r) PROVE e = Head(batch[r])
  <2>1. batch[r] \in Seq(Entries) /\ Len(batch[r]) <= 1 /\ Len(batch[r]) \in Nat
    BY <1>7, HeldEntries DEF BusInv, HandOK
  <2>2. QED
    BY <1>7, <2>1, OnlyTheHead DEF Holds
<1>8. QED
  BY <1>6, <1>7, FinishedIsReached

LEMMA CommitsAPrefix ==
    ASSUME BusInv, Kafka, NEW r \in Readers, acked' = acked \cup Passed(r), NEW t \in Topics
    PROVE  \E k \in 0..MaxEvents : Prefix(t, k)' /\ (owner[t] # NoGroup => k <= cursor[t])
<1>1. PICK k \in 0..MaxEvents : Prefix(t, k) /\ (owner[t] # NoGroup => k <= cursor[t])
  BY DEF BusInv, OwnerOK
<1>2. r # NoGroup
  BY BusAssumption
<1>3. CASE owner[t] # r
  <2>1. \A n \in 1..MaxEvents : <<t, n>> \notin Passed(r)
    BY <1>3 DEF Passed
  <2>2. Prefix(t, k)'
    BY <1>1, <2>1 DEF Prefix
  <2>3. QED
    BY <1>1, <2>2
<1>4. CASE owner[t] = r
  <2>1. cursor[t] \in 0..MaxEvents /\ k <= cursor[t]
    BY <1>1, <1>2, <1>4 DEF BusInv, BusTypes, OwnerOK
  <2>2. \A n \in 1..MaxEvents : <<t, n>> \in Passed(r) <=> n <= cursor[t]
    BY <1>4 DEF Passed, Entries
  <2>3. \A n \in 1..MaxEvents : n <= k => n <= cursor[t]
    BY <2>1, BusAssumption
  <2>4. PICK c \in 0..MaxEvents : c = cursor[t]
    BY <2>1
  <2>5. \A n \in 1..MaxEvents : <<t, n>> \in acked' <=> n <= c
    BY <1>1, <2>2, <2>3, <2>4 DEF Prefix
  <2>6. Prefix(t, c)'
    BY <2>5 DEF Prefix
  <2>7. c <= cursor[t]
    BY <2>4, BusAssumption
  <2>8. QED
    BY <2>6, <2>7
<1>5. QED
  BY <1>3, <1>4

LEMMA StopKeeps ==
    ASSUME BusInv, NEW r \in Readers, Stop(r)
    PROVE  BusInv'
<1>1. /\ batch[r] = <<>> /\ owner' = Unowned(r) /\ acked' = acked \cup Passed(r)
      /\ UNCHANGED <<backend, length, cursor, pel, batch, left, calls, faults>>
  BY DEF Stop
<1>2. BusTypes
  BY DEF BusInv
<1>3. /\ owner' \in [Topics -> Readers \cup {NoGroup}]
      /\ \A t \in Topics : owner'[t] # NoGroup => owner'[t] = owner[t] /\ owner[t] \in Readers \ {r}
  BY <1>1, <1>2, LeavingReader
<1>4. Passed(r) \subseteq Entries /\ Holds(r) = {}
  BY <1>1, NothingHeld DEF Passed, Holds
<1>5. BusTypes'
  BY <1>1, <1>2, <1>3, <1>4 DEF BusTypes
<1>6. \A q \in Readers : HandOK(q)'
  BY <1>1 DEF BusInv, HandOK, Holds, Redis, Kafka
<1>7. CursorOK' /\ PendingOK' /\ HeldOnce'
  BY <1>1 DEF BusInv, CursorOK, PendingOK, HeldOnce, InHand, Holds, Redis, Kafka
<1>8. AckedOK'
  <2>1. \A e \in Passed(r) : Reached(e)
    BY <1>4, PassedIsReached
  <2>2. QED
    BY <1>1, <2>1 DEF BusInv, AckedOK, Reached
<1>9. OwnerOK'
  <2>1. \A t \in Topics : owner'[t] # NoGroup =>
           /\ owner'[t] = owner[t]
           /\ \A e \in Holds(owner[t]) : e \in Holds(owner[t])' \/ Reached(e)'
    BY <1>1, <1>3 DEF Holds
  <2>2. Kafka => \A t \in Topics : \E k \in 0..MaxEvents :
           Prefix(t, k)' /\ (owner[t] # NoGroup => k <= cursor[t])
    BY <1>1, CommitsAPrefix
  <2>3. \A q \in Readers : \A e \in Holds(q)' : faults' = 0 =>
           e \in Holds(q) /\ owner'[e[1]] = owner[e[1]]
    <3> SUFFICES ASSUME NEW q \in Readers, NEW e \in Holds(q)', faults' = 0
                 PROVE  e \in Holds(q) /\ owner'[e[1]] = owner[e[1]]
      OBVIOUS
    <3>1. e \in Holds(q) /\ e[1] \in Topics
      BY <1>1, <1>2, HeldEntries, EntryPairs DEF Holds
    <3>2. ~Kafka => owner[e[1]] = NoGroup
      BY <3>1 DEF BusInv, OwnerOK
    <3>3. Kafka => owner[e[1]] = q
      BY <1>1, <3>1 DEF BusInv, OwnerOK
    <3>4. q # r
      BY <1>4, <3>1
    <3>5. owner'[e[1]] = owner[e[1]]
      BY <1>1, <1>2, <3>1, <3>2, <3>3, <3>4 DEF Unowned
    <3>6. QED
      BY <3>1, <3>5
  <2>4. QED
    BY <1>1, <1>2, <2>1, <2>2, <2>3, OwnersStay DEF BusInv
<1>10. QED
  BY <1>5, <1>6, <1>7, <1>8, <1>9 DEF BusInv

LEMMA NextMessageKeeps ==
    ASSUME BusInv, NEW r \in Readers, NEW commits \in BOOLEAN, NextMessage(r, commits)
    PROVE  BusInv'
<1>1. /\ Kafka /\ ~Redis /\ batch[r] # <<>> /\ left[r] = <<>>
      /\ batch' = [batch EXCEPT ![r] = <<>>]
      /\ acked' = acked \cup Passed(r) \/ acked' = acked
      /\ UNCHANGED <<backend, owner, length, cursor, pel, left, calls, faults>>
  BY DEF NextMessage, Kafka, Redis
<1>2. BusTypes
  BY DEF BusInv
<1>3. /\ batch' \in [Readers -> Seq(Entries)] /\ left' \in [Readers -> Seq(AllHandlers)]
      /\ batch'[r] = <<>> /\ Holds(r)' = {}
      /\ \A q \in Readers \ {r} :
            batch'[q] = batch[q] /\ left'[q] = left[q] /\ Holds(q)' = Holds(q)
  BY <1>1, <1>2, LetGo
<1>4. Passed(r) \subseteq Entries
  BY DEF Passed
<1>5. BusTypes'
  BY <1>1, <1>2, <1>3, <1>4 DEF BusTypes
<1>6. \A q \in Readers : HandOK(q)'
  <2>1. HandOK(r)'
    <3>1. Len(<<>>) = 0
      OBVIOUS
    <3>2. QED
      BY <1>3, <3>1 DEF HandOK
  <2>2. ASSUME NEW q \in Readers \ {r} PROVE HandOK(q)'
    BY <1>1, <1>2, <1>3, OthersHand, StreamsStand DEF BusInv
  <2>3. QED
    BY <2>1, <2>2
<1>7. CursorOK'
  BY <1>1 DEF BusInv, CursorOK, Redis
<1>8. PendingOK'
  BY <1>1 DEF BusInv, PendingOK, Redis
<1>9. HeldOnce'
  BY <1>1, <1>2, <1>3, HeldLess DEF BusInv
<1>10. AckedOK'
  <2>1. \A e \in Passed(r) : Reached(e)
    BY <1>1, PassedIsReached
  <2>2. QED
    BY <1>1, <2>1 DEF BusInv, AckedOK, Reached
<1>11. OwnerOK'
  <2>1. \A t \in Topics : owner'[t] # NoGroup =>
           /\ owner'[t] = owner[t]
           /\ \A e \in Holds(owner[t]) : e \in Holds(owner[t])' \/ Reached(e)'
    <3> SUFFICES ASSUME NEW t \in Topics, owner'[t] # NoGroup, NEW e \in Holds(owner[t]),
                        e \notin Holds(owner[t])'
                 PROVE  Reached(e)'
      BY <1>1
    <3>1. PICK q \in Readers : q = owner[t] /\ q = owner'[t]
      BY <1>1, <1>2 DEF BusTypes
    <3>2. q = r
      BY <1>3, <3>1 DEF Holds
    <3>3. e = Head(batch[r])
      <4>1. batch[r] \in Seq(Entries) /\ Len(batch[r]) <= 1
        BY <1>1, HeldEntries DEF BusInv, HandOK
      <4>2. e \in ToSet(batch[r])
        BY <3>1, <3>2 DEF Holds
      <4>3. QED
        BY <1>1, <4>1, <4>2, OnlyTheHead
    <3>4. QED
      BY <1>1, <3>3, FinishedIsReached, ReachedStays
  <2>2. Kafka => \A t \in Topics : \E k \in 0..MaxEvents :
           Prefix(t, k)' /\ (owner[t] # NoGroup => k <= cursor[t])
    <3>1. CASE acked' = acked
      BY <1>1, <3>1 DEF BusInv, OwnerOK, Prefix
    <3>2. CASE acked' = acked \cup Passed(r)
      BY <3>2, CommitsAPrefix
    <3>3. QED
      BY <1>1, <3>1, <3>2
  <2>3. faults' = 0 => \A q \in Readers : \A e \in Holds(q)' :
           e \in Holds(q) /\ owner'[e[1]] = owner[e[1]]
    BY <1>1, <1>3
  <2>4. QED
    BY <1>1, <1>2, <2>1, <2>2, <2>3, OwnersStay DEF BusInv
<1>12. QED
  BY <1>5, <1>6, <1>7, <1>8, <1>9, <1>10, <1>11 DEF BusInv

LEMMA StartConsumerKeeps ==
    ASSUME BusInv, NEW r \in Readers, StartConsumer(r)
    PROVE  BusInv'
<1>1. UNCHANGED <<backend, owner, length, cursor, pel, acked, batch, left, calls, faults>>
  BY DEF StartConsumer
<1>2. BusTypes' /\ \A q \in Readers : HandOK(q)'
  BY <1>1 DEF BusInv, BusTypes, HandOK, Holds, Redis, Kafka
<1>3. QED
  BY <1>1, <1>2 DEF BusInv, CursorOK, HeldOnce, PendingOK, AckedOK, OwnerOK,
                    Holds, InHand, Reached, Prefix, Redis, Kafka

(* What the group committed of a topic is how many of its events are acked. *)
LEMMA CommittedIsThePrefix ==
    ASSUME BusInv, NEW t \in Topics, NEW k \in 0..MaxEvents, Prefix(t, k)
    PROVE  Committed(t) = k
<1>1. k \in Nat /\ k <= MaxEvents /\ MaxEvents \in Nat
  BY BusAssumption
<1>2. \A n \in 1..k : n \in 1..MaxEvents
  BY <1>1
<1>3. {e \in acked : e[1] = t} = {t} \X (1..k)
  <2>1. ASSUME NEW e \in acked, e[1] = t PROVE e \in {t} \X (1..k)
    <3>1. e = <<t, e[2]>> /\ e[2] \in 1..MaxEvents
      BY <2>1 DEF BusInv, BusTypes, Entries
    <3>2. e[2] <= k
      BY <3>1 DEF Prefix
    <3>3. e[2] \in 1..k
      BY <1>1, <3>1, <3>2
    <3>4. QED
      BY <3>1, <3>3
  <2>2. ASSUME NEW e \in {t} \X (1..k) PROVE e \in acked /\ e[1] = t
    <3>1. PICK n \in 1..k : e = <<t, n>>
      OBVIOUS
    <3>2. n \in 1..MaxEvents /\ n <= k
      BY <1>1, <1>2
    <3>3. <<t, n>> \in acked
      BY <3>2 DEF Prefix
    <3>4. QED
      BY <3>1, <3>3
  <2>3. QED
    BY <2>1, <2>2
<1>4. IsFiniteSet(1..k) /\ Cardinality(1..k) = k
  <2>1. 1 \in Int /\ k \in Int
    BY <1>1
  <2>2. IsFiniteSet(1..k) /\ Cardinality(1..k) = IF 1 > k THEN 0 ELSE k - 1 + 1
    BY <2>1, FS_Interval
  <2>3. QED
    BY <1>1, <2>2
<1>5. IsFiniteSet({t}) /\ Cardinality({t}) = 1
  BY FS_Singleton
<1>6. Cardinality({t} \X (1..k)) = Cardinality({t}) * Cardinality(1..k)
  BY <1>4, <1>5, FS_Product
<1>7. 1 * k = k
  BY <1>1
<1>8. Cardinality({t} \X (1..k)) = k
  BY <1>4, <1>5, <1>6, <1>7, Zenon
<1>9. QED
  BY <1>3, <1>8 DEF Committed

LEMMA AssignKeeps ==
    ASSUME BusInv, NEW r \in Readers, NEW t \in Topics, Assign(r, t)
    PROVE  BusInv'
<1>1. /\ Kafka /\ ~Redis /\ owner[t] = NoGroup
      /\ owner' = [owner EXCEPT ![t] = r]
      /\ cursor' = [cursor EXCEPT ![t] = Committed(t)]
      /\ UNCHANGED <<backend, length, pel, acked, batch, left, calls, faults>>
  BY DEF Assign, Kafka, Redis
<1>2. BusTypes /\ r # NoGroup
  BY BusAssumption DEF BusInv
<1>3. PICK k \in 0..MaxEvents : Prefix(t, k)
  BY <1>1 DEF BusInv, OwnerOK
<1>4. Committed(t) = k
  BY <1>3, CommittedIsThePrefix
<1>5. k \in Nat /\ k # NoGroup /\ k <= MaxEvents
  BY BusAssumption
<1>6. /\ owner' \in [Topics -> Readers \cup {NoGroup}] /\ owner'[t] = r
      /\ cursor' \in [Topics -> (0..MaxEvents) \cup {NoGroup}] /\ cursor'[t] = k
      /\ \A u \in Topics \ {t} : owner'[u] = owner[u] /\ cursor'[u] = cursor[u]
  BY <1>1, <1>2, <1>4 DEF BusTypes
<1>7. BusTypes'
  BY <1>1, <1>2, <1>6 DEF BusTypes
<1>8. \A q \in Readers : HandOK(q)'
  BY <1>1 DEF BusInv, HandOK, Holds, Redis, Kafka
<1>9. CursorOK' /\ HeldOnce' /\ PendingOK' /\ AckedOK'
  BY <1>1 DEF BusInv, CursorOK, HeldOnce, PendingOK, AckedOK, Holds, InHand, Reached, Redis, Kafka
<1>10. OwnerOK'
  <2>1. \A n \in 1..k : Reached(<<t, n>>)
    <3> SUFFICES ASSUME NEW n \in 1..k PROVE Reached(<<t, n>>)
      OBVIOUS
    <3>1. n \in 1..MaxEvents /\ n <= k
      BY <1>5, BusAssumption
    <3>2. <<t, n>> \in acked
      BY <1>3, <3>1 DEF Prefix
    <3>3. QED
      BY <3>2 DEF BusInv, AckedOK
  <2>2. ASSUME NEW u \in Topics, owner'[u] # NoGroup
        PROVE  /\ cursor'[u] # NoGroup
               /\ \A n \in 1..cursor'[u] : <<u, n>> \in ToSet(batch'[owner'[u]]) \/ Reached(<<u, n>>)
    <3>1. CASE u = t
      BY <1>5, <1>6, <2>1, <3>1
    <3>2. CASE u # t
      BY <1>1, <1>6, <2>2, <3>2 DEF BusInv, OwnerOK, Holds
    <3>3. QED
      BY <3>1, <3>2
  <2>3. ASSUME faults' = 0, NEW q \in Readers, NEW e \in Holds(q)' PROVE owner'[e[1]] = q
    <3>1. e \in Holds(q) /\ e[1] \in Topics
      BY <1>1, <1>2, <2>3, HeldEntries, EntryPairs DEF Holds
    <3>2. owner[e[1]] = q /\ q # NoGroup
      BY <1>1, <2>3, <3>1, BusAssumption DEF BusInv, OwnerOK
    <3>3. QED
      BY <1>1, <1>6, <3>1, <3>2
  <2>4. ASSUME NEW u \in Topics
        PROVE  \E j \in 0..MaxEvents : Prefix(u, j)' /\ (owner'[u] # NoGroup => j <= cursor'[u])
    <3>1. CASE u = t
      <4>1. Prefix(t, k)'
        BY <1>1, <1>3 DEF Prefix
      <4>2. k <= cursor'[t]
        BY <1>5, <1>6
      <4>3. QED
        BY <3>1, <4>1, <4>2
    <3>2. CASE u # t
      BY <1>1, <1>6, <3>2 DEF BusInv, OwnerOK, Prefix
    <3>3. QED
      BY <3>1, <3>2
  <2>5. Kafka'
    BY <1>1 DEF Kafka
  <2>6. \A u \in Topics : owner'[u] # NoGroup =>
           /\ cursor'[u] # NoGroup
           /\ \A n \in 1..cursor'[u] : <<u, n>> \in ToSet(batch'[owner'[u]]) \/ Reached(<<u, n>>)'
    BY <1>1, <2>2 DEF Reached
  <2>7. QED
    BY <2>3, <2>4, <2>5, <2>6 DEF OwnerOK, Holds
<1>11. QED
  BY <1>7, <1>8, <1>9, <1>10 DEF BusInv

LEMMA TakeKeeps ==
    ASSUME BusInv, NEW r \in Readers, NEW t \in Topics, Take(r, t)
    PROVE  BusInv'
<1>1. PICK e : e = <<t, cursor[t] + 1>>
  OBVIOUS
<1>2. r # NoGroup /\ BusTypes
  BY BusAssumption DEF BusInv
<1>3. /\ owner[t] = r /\ batch[r] = <<>> /\ cursor[t] < length[t]
      /\ cursor' = [cursor EXCEPT ![t] = cursor[t] + 1]
      /\ batch' = [batch EXCEPT ![r] = <<e>>] /\ left' = [left EXCEPT ![r] = Handlers[t]]
      /\ UNCHANGED <<backend, owner, length, pel, acked, calls, faults>>
  BY <1>1 DEF Take
<1>4. Kafka /\ ~Redis /\ Kafka' /\ ~Redis'
  BY <1>2, <1>3 DEF BusInv, OwnerOK, Kafka, Redis
<1>5. cursor[t] \in 0..MaxEvents /\ cursor[t] \in Nat /\ length[t] \in 0..MaxEvents
      /\ length[t] \in Nat
  BY <1>2, <1>3, BusAssumption DEF BusInv, BusTypes, OwnerOK
<1>6. cursor[t] + 1 \in 1..MaxEvents /\ cursor[t] + 1 <= length[t] /\ cursor[t] + 1 \in 0..MaxEvents
  BY <1>3, <1>5, BusAssumption
<1>7. /\ e \in Entries /\ e[1] = t /\ e[2] = cursor[t] + 1 /\ <<e>> \in Seq(Entries)
      /\ cursor[t] + 1 # NoGroup
  BY <1>1, <1>6, BusAssumption DEF Entries
<1>8. ToSet(<<e>>) = {e} /\ Head(<<e>>) = e /\ <<e>> # <<>> /\ Len(<<e>>) = 1
  BY DEF ToSet
<1>9. /\ batch' \in [Readers -> Seq(Entries)] /\ left' \in [Readers -> Seq(AllHandlers)]
      /\ batch'[r] = <<e>> /\ left'[r] = Handlers[t] /\ Holds(r)' = {e}
      /\ \A q \in Readers \ {r} :
            batch'[q] = batch[q] /\ left'[q] = left[q] /\ Holds(q)' = Holds(q)
  <2>1. Handlers[t] \in Seq(AllHandlers)
    BY HandlersAreCalled
  <2>2. PICK b \in Seq(Entries), l \in Seq(AllHandlers) : b = <<e>> /\ l = Handlers[t]
    BY <1>7, <2>1
  <2>3. batch' = [batch EXCEPT ![r] = b] /\ left' = [left EXCEPT ![r] = l]
    BY <1>3, <2>2
  <2>4. /\ batch' \in [Readers -> Seq(Entries)] /\ left' \in [Readers -> Seq(AllHandlers)]
        /\ batch'[r] = b /\ left'[r] = l /\ Holds(r)' = ToSet(b)
        /\ \A q \in Readers \ {r} :
              batch'[q] = batch[q] /\ left'[q] = left[q] /\ Holds(q)' = Holds(q)
    BY <1>2, <2>3, OneReaderMoves
  <2>5. QED
    BY <1>8, <2>2, <2>4
<1>10. /\ cursor' \in [Topics -> (0..MaxEvents) \cup {NoGroup}] /\ cursor'[t] = cursor[t] + 1
       /\ \A u \in Topics \ {t} : cursor'[u] = cursor[u]
  BY <1>2, <1>3, <1>6 DEF BusTypes
<1>11. BusTypes'
  BY <1>2, <1>3, <1>9, <1>10 DEF BusTypes
<1>12. \A q \in Readers : HandOK(q)'
  <2>1. HandOK(r)'
    BY <1>3, <1>4, <1>6, <1>7, <1>8, <1>9 DEF HandOK
  <2>2. ASSUME NEW q \in Readers \ {r} PROVE HandOK(q)'
    BY <1>2, <1>3, <1>4, <1>9, OthersHand, StreamsStand DEF BusInv
  <2>3. QED
    BY <2>1, <2>2
<1>13. CursorOK' /\ AckedOK' /\ Holds(r) = {}
  BY <1>3, <1>4, NothingHeld DEF BusInv, CursorOK, AckedOK, Reached, Holds
<1>14. PendingOK'
  BY <1>3, <1>4 DEF BusInv, PendingOK
<1>15. HeldOnce'
  <2> SUFFICES ASSUME faults' = 0, NEW p \in Readers, NEW q \in Readers, p # q
               PROVE  Holds(p)' \cap Holds(q)' = {}
    BY <1>4 DEF HeldOnce
  <2>1. \A o \in Readers \ {r} : e \notin Holds(o)
    BY <1>3, <1>4, <1>7 DEF BusInv, OwnerOK
  <2>2. Holds(p) \cap Holds(q) = {}
    BY <1>3 DEF BusInv, HeldOnce
  <2>3. p # r => Holds(p)' = Holds(p)
    BY <1>9
  <2>4. q # r => Holds(q)' = Holds(q)
    BY <1>9
  <2>5. QED
    BY <1>9, <2>1, <2>2, <2>3, <2>4
<1>16. OwnerOK'
  <2>1. ASSUME NEW u \in Topics, owner[u] # NoGroup
        PROVE  /\ cursor'[u] # NoGroup
               /\ \A n \in 1..cursor'[u] : <<u, n>> \in Holds(owner[u])' \/ Reached(<<u, n>>)
    <3>1. owner[u] \in Readers /\ cursor[u] # NoGroup
          /\ \A n \in 1..cursor[u] : <<u, n>> \in Holds(owner[u]) \/ Reached(<<u, n>>)
      BY <1>2, <2>1 DEF BusInv, BusTypes, OwnerOK
    <3>2. \A n \in 1..cursor[u] : <<u, n>> \in ToSet(batch'[owner[u]]) \/ Reached(<<u, n>>)
      BY <1>9, <1>13, <3>1 DEF Holds
    <3>3. CASE u = t
      <4>1. \A n \in 1..cursor'[t] : n \in 1..cursor[t] \/ n = cursor[t] + 1
        BY <1>5, <1>10
      <4>2. <<t, cursor[t] + 1>> \in ToSet(batch'[r])
        BY <1>1, <1>9 DEF Holds
      <4>3. QED
        BY <1>3, <1>7, <1>10, <3>2, <3>3, <4>1, <4>2 DEF Holds
    <3>4. CASE u # t
      BY <1>3, <1>10, <3>1, <3>2, <3>4 DEF Holds
    <3>5. QED
      BY <3>3, <3>4
  <2>2. \A q \in Readers : \A x \in Holds(q)' : faults' = 0 => owner'[x[1]] = q
    BY <1>3, <1>4, <1>7, <1>9 DEF BusInv, OwnerOK
  <2>3. ASSUME NEW u \in Topics
        PROVE  \E j \in 0..MaxEvents : Prefix(u, j)' /\ (owner'[u] # NoGroup => j <= cursor'[u])
    <3>1. PICK j \in 0..MaxEvents : Prefix(u, j) /\ (owner[u] # NoGroup => j <= cursor[u])
      BY <1>4 DEF BusInv, OwnerOK
    <3>2. Prefix(u, j)'
      BY <1>3, <3>1 DEF Prefix
    <3>3. owner[u] # NoGroup => j <= cursor'[u]
      <4>1. CASE u = t
        BY <1>2, <1>3, <1>5, <1>10, <3>1, <4>1, BusAssumption
      <4>2. CASE u # t
        BY <1>10, <3>1, <4>2
      <4>3. QED
        BY <4>1, <4>2
    <3>4. QED
      BY <1>3, <3>2, <3>3
  <2>4. \A u \in Topics : owner'[u] # NoGroup =>
           /\ cursor'[u] # NoGroup
           /\ \A n \in 1..cursor'[u] : <<u, n>> \in ToSet(batch'[owner'[u]]) \/ Reached(<<u, n>>)'
    BY <1>3, <2>1 DEF Reached, Holds
  <2>5. QED
    BY <1>4, <2>2, <2>3, <2>4 DEF OwnerOK, Holds
<1>17. QED
  BY <1>11, <1>12, <1>13, <1>14, <1>15, <1>16 DEF BusInv

LEMMA BusStutter == ASSUME BusInv, UNCHANGED busVars PROVE BusInv'
<1>1. UNCHANGED <<backend, length, cursor, owner, pel, acked, batch, left, calls, faults>>
  BY DEF busVars
<1>2. BusTypes' /\ \A q \in Readers : HandOK(q)'
  BY <1>1 DEF BusInv, BusTypes, HandOK, Holds, Redis, Kafka
<1>3. QED
  BY <1>1, <1>2 DEF BusInv, CursorOK, HeldOnce, PendingOK, AckedOK, OwnerOK,
                    Holds, InHand, Reached, Prefix, Redis, Kafka

LEMMA BusInvNext == BusInv /\ [BusNext]_busVars => BusInv'
<1> SUFFICES ASSUME BusInv, [BusNext]_busVars PROVE BusInv'
  OBVIOUS
<1>1. ASSUME NEW t \in Topics, PublishStream(t) \/ PublishKafka(t) PROVE BusInv'
  BY <1>1, PublishKeeps
<1>2. ASSUME NEW t \in Topics, NEW r \in Readers, PublishInline(r, t) PROVE BusInv'
  BY <1>2, PublishInlineKeeps
<1>3. ASSUME NEW r \in Readers, Start(r) \/ Read(r) \/ Dispatch(r) \/ AckEntry(r) PROVE BusInv'
  BY <1>3, StartKeeps, ReadKeeps, DispatchKeeps, AckEntryKeeps
<1>4. ASSUME NEW r \in Readers, ReaderError(r) \/ CrashReader(r) \/ Stop(r) PROVE BusInv'
  BY <1>4, ReaderErrorKeeps, CrashReaderKeeps, StopKeeps
<1>5. ASSUME NEW r \in Readers, StartConsumer(r) \/ Evict(r) PROVE BusInv'
  BY <1>5, StartConsumerKeeps, EvictKeeps
<1>6. ASSUME NEW r \in Readers, NEW t \in Topics, Assign(r, t) \/ Take(r, t) PROVE BusInv'
  BY <1>6, AssignKeeps, TakeKeeps
<1>7. ASSUME NEW r \in Readers, NEW commits \in BOOLEAN, NextMessage(r, commits) PROVE BusInv'
  BY <1>7, NextMessageKeeps
<1>8. CASE UNCHANGED busVars
  BY <1>8, BusStutter
<1>9. QED
  BY <1>1, <1>2, <1>3, <1>4, <1>5, <1>6, <1>7, <1>8 DEF BusNext

LEMMA BusInvAccounts == BusInv => EventsAreAccountedFor
<1> SUFFICES ASSUME BusInv PROVE EventsAreAccountedFor
  OBVIOUS
<1>1. InHand = UNION {Holds(r) : r \in Readers}
  BY DEF InHand, Holds
<1>2. \A e \in acked : Reached(e)
  BY DEF BusInv, AckedOK
<1>3. backend # "kafka" \/ faults = 0 =>
         \A r, q \in Readers : r # q => ToSet(batch[r]) \cap ToSet(batch[q]) = {}
  BY DEF BusInv, HeldOnce, Holds, Kafka
<1>4. ASSUME NEW t \in Topics, owner[t] # NoGroup, NEW n \in 1..cursor[t]
      PROVE  <<t, n>> \in InHand \/ Reached(<<t, n>>)
  <2>1. owner[t] \in Readers /\ (<<t, n>> \in Holds(owner[t]) \/ Reached(<<t, n>>))
    BY <1>4 DEF BusInv, BusTypes, OwnerOK
  <2>2. QED
    BY <1>1, <2>1
<1>5. pel \subseteq InHand \/ faults > 0
  BY DEF BusInv, PendingOK
<1>6. QED
  BY <1>2, <1>3, <1>4, <1>5 DEF EventsAreAccountedFor

(* core/events.py, the three backends: an acknowledged event was given to    *)
(* every handler of its topic; two readers of a group never work on the same *)
(* event unless Kafka took one of them for lost; the owner of a partition    *)
(* holds or has dispatched all that was before its position; and a stream    *)
(* leaves an event pending in nobody's hand only after a fault.              *)
THEOREM EveryEventIsAccountedFor == BusSpec => []EventsAreAccountedFor
<1>1. BusInit => BusInv
  BY BusInvInit
<1>2. BusInv /\ [BusNext]_busVars => BusInv'
  BY BusInvNext
<1>3. BusInv => EventsAreAccountedFor
  BY BusInvAccounts
<1>4. QED
  BY <1>1, <1>2, <1>3, PTL DEF BusSpec

-----------------------------------------------------------------------------
(* EventBus: entries are acknowledged once read *)

(* No position is past the end of its topic, and a stream's group was given  *)
(* all that is acknowledged of it.                                           *)
PositionsOK == \A t \in Topics : cursor[t] # NoGroup => cursor[t] <= length[t]
AckedRead == Redis => \A e \in acked : cursor[e[1]] # NoGroup /\ e[2] <= cursor[e[1]]
PlacesInv == BusTypeOK /\ PositionsOK /\ AckedRead

LEMMA PlacesInvInit == BusInit => PlacesInv
<1> SUFFICES ASSUME BusInit PROVE PlacesInv
  OBVIOUS
<1>1. /\ pel = {} /\ acked = {} /\ up = {} /\ calls = {}
      /\ cursor = [t \in Topics |-> NoGroup] /\ batch = [r \in Readers |-> <<>>]
  BY DEF BusInit
<1>2. InHand = {}
  BY <1>1, NothingHeld DEF InHand
<1>3. BusTypeOK
  BY <1>1, <1>2 DEF BusTypeOK
<1>4. QED
  BY <1>1, <1>3 DEF PlacesInv, PositionsOK, AckedRead

(* What readers hold is published. *)
LEMMA InHandIsPublished == BusInv => InHand \subseteq Published
<1> SUFFICES ASSUME BusInv, NEW r \in Readers, NEW e \in Holds(r) PROVE e \in Published
  BY DEF InHand, Holds
<1>1. BusTypes /\ HandOK(r)
  BY DEF BusInv
<1>2. e \in Entries
  BY <1>1, HeldEntries
<1>3. e[2] <= length[e[1]]
  BY <1>1 DEF HandOK
<1>4. QED
  BY <1>2, <1>3 DEF Published

LEMMA InHandIsPublishedNext == BusInv' => (InHand \subseteq Published)'
BY InHandIsPublished, PTL

(* A topic only grows. *)
LEMMA PublishedGrows ==
    ASSUME BusTypes, NEW t \in Topics, AppendEvent(t)
    PROVE  /\ Published \subseteq Published'
           /\ \A u \in Topics : length[u] \in Nat /\ length'[u] \in Nat /\ length[u] <= length'[u]
<1>1. length[t] \in 0..MaxEvents /\ length' = [length EXCEPT ![t] = length[t] + 1]
  BY DEF BusTypes, AppendEvent
<1>2. \A u \in Topics : length[u] \in Nat /\ length'[u] \in Nat /\ length[u] <= length'[u]
  BY <1>1, BusAssumption DEF BusTypes
<1>3. ASSUME NEW e \in Entries, e[2] <= length[e[1]] PROVE e[2] <= length'[e[1]]
  <2>1. e[1] \in Topics /\ e[2] \in Nat
    BY EntryPairs
  <2>2. \A a, b, c \in Nat : a <= b /\ b <= c => a <= c
    OBVIOUS
  <2>3. QED
    BY <1>2, <1>3, <2>1, <2>2
<1>4. QED
  BY <1>2, <1>3 DEF Published

LEMMA PublishedPlaces ==
    ASSUME BusInv, BusInv', PlacesInv, NEW t \in Topics, AppendEvent(t),
           UNCHANGED <<backend, cursor, pel, acked, up, calls>>
    PROVE  PlacesInv'
<1>1. /\ Published \subseteq Published'
      /\ \A u \in Topics : length[u] \in Nat /\ length'[u] \in Nat /\ length[u] <= length'[u]
  BY PublishedGrows DEF BusInv
<1>2. BusTypeOK'
  <2>1. (InHand \subseteq Published)'
    BY InHandIsPublishedNext
  <2>2. QED
    BY <1>1, <2>1 DEF PlacesInv, BusTypeOK
<1>3. PositionsOK'
  <2> SUFFICES ASSUME NEW u \in Topics, cursor[u] # NoGroup PROVE cursor[u] <= length'[u]
    BY DEF PositionsOK
  <2>1. cursor[u] \in Nat /\ cursor[u] <= length[u]
    BY BusAssumption DEF BusInv, BusTypes, PlacesInv, PositionsOK
  <2>2. QED
    BY <1>1, <2>1
<1>4. AckedRead'
  BY DEF PlacesInv, AckedRead, Redis
<1>5. QED
  BY <1>2, <1>3, <1>4 DEF PlacesInv

LEMMA StartPlaces ==
    ASSUME BusInv, BusInv', PlacesInv, NEW r \in Readers, Start(r)
    PROVE  PlacesInv'
<1>1. /\ cursor' = [t \in Topics |-> IF Handlers[t] # <<>> /\ cursor[t] = NoGroup
                                    THEN length[t] ELSE cursor[t]]
      /\ up' = up \cup {r}
      /\ UNCHANGED <<backend, length, pel, acked, batch, calls>>
  BY DEF Start
<1>2. BusTypeOK'
  BY <1>1 DEF PlacesInv, BusTypeOK, InHand, Published
<1>3. \A t \in Topics : length[t] \in Nat
  BY BusAssumption DEF BusInv, BusTypes
<1>4. PositionsOK'
  BY <1>1, <1>3 DEF PlacesInv, PositionsOK
<1>5. \A e \in acked : e[1] \in Topics
  BY EntryPairs DEF BusInv, BusTypes
<1>6. AckedRead'
  BY <1>1, <1>5 DEF PlacesInv, AckedRead, Redis
<1>7. QED
  BY <1>2, <1>4, <1>6 DEF PlacesInv

LEMMA ReadPlaces ==
    ASSUME BusInv, BusInv', PlacesInv, NEW r \in Readers, Read(r)
    PROVE  PlacesInv'
<1>1. PICK taken \in SetToSeqs(UNION {NewEntries(t) : t \in Topics}) :
         pel' = pel \cup ToSet(taken)
  BY DEF Read
<1>2. /\ Redis /\ cursor' = [t \in Topics |-> AfterRead(t)]
      /\ UNCHANGED <<backend, length, acked, up, calls>>
  BY DEF Read, Redis
<1>3. /\ taken \in Seq(Entries)
      /\ \A e \in ToSet(taken) : /\ cursor[e[1]] # NoGroup /\ cursor[e[1]] < e[2]
                                 /\ e[2] <= ReadUpTo(e[1])
  BY <1>2, ReadTakes
<1>4. \A t \in Topics : cursor[t] # NoGroup =>
         /\ cursor[t] \in Nat /\ length[t] \in Nat /\ Count \in Nat /\ cursor[t] <= length[t]
         /\ ReadUpTo(t) \in Nat /\ cursor[t] <= ReadUpTo(t) /\ ReadUpTo(t) <= length[t]
         /\ cursor'[t] = ReadUpTo(t)
  BY <1>2, BusAssumption DEF BusInv, BusTypes, PlacesInv, PositionsOK, ReadUpTo, AfterRead
<1>5. \A t \in Topics : cursor[t] = NoGroup => cursor'[t] = NoGroup
  BY <1>2 DEF AfterRead
<1>6. ToSet(taken) \subseteq Entries
  BY <1>3 DEF ToSet
<1>7. ASSUME NEW e \in ToSet(taken) PROVE e \in Published /\ e \notin acked
  <2>1. e \in Entries /\ e[1] \in Topics /\ e[2] \in Nat
    BY <1>6, EntryPairs
  <2>2. /\ cursor[e[1]] # NoGroup /\ cursor[e[1]] < e[2] /\ e[2] <= ReadUpTo(e[1])
    BY <1>3
  <2>3. PICK c \in Nat, u \in Nat, l \in Nat, n \in Nat :
           /\ c = cursor[e[1]] /\ u = ReadUpTo(e[1]) /\ l = length[e[1]] /\ n = e[2]
           /\ u <= l /\ c < n /\ n <= u
    BY <1>4, <2>1, <2>2
  <2>4. n <= l /\ ~(n <= c)
    BY <2>3
  <2>5. e[2] <= length[e[1]] /\ ~(e[2] <= cursor[e[1]])
    BY <2>3, <2>4
  <2>6. QED
    BY <1>2, <2>1, <2>5 DEF PlacesInv, AckedRead, Published
<1>8. BusTypeOK'
  <2>1. (InHand \subseteq Published)'
    BY InHandIsPublishedNext
  <2>2. Published' = Published
    BY <1>2 DEF Published
  <2>3. QED
    BY <1>1, <1>2, <1>7, <2>1, <2>2 DEF PlacesInv, BusTypeOK
<1>9. PositionsOK'
  BY <1>2, <1>4, <1>5 DEF PositionsOK
<1>10. AckedRead'
  <2> SUFFICES ASSUME NEW e \in acked PROVE cursor'[e[1]] # NoGroup /\ e[2] <= cursor'[e[1]]
    BY <1>2 DEF AckedRead
  <2>1. e[1] \in Topics /\ e[2] \in Nat
    BY EntryPairs DEF BusInv, BusTypes
  <2>2. cursor[e[1]] # NoGroup /\ e[2] <= cursor[e[1]]
    BY <1>2 DEF PlacesInv, AckedRead
  <2>3. PICK c \in Nat, u \in Nat, n \in Nat :
           c = cursor[e[1]] /\ u = cursor'[e[1]] /\ n = e[2] /\ c <= u /\ n <= c
    BY <1>4, <2>1, <2>2
  <2>4. n <= u /\ u # NoGroup
    <3>1. u \in 0..MaxEvents
      BY <1>4, <2>1, <2>2, <2>3, BusAssumption DEF BusInv, BusTypes
    <3>2. QED
      BY <2>3, <3>1, BusAssumption
  <2>5. QED
    BY <2>3, <2>4
<1>11. QED
  BY <1>8, <1>9, <1>10 DEF PlacesInv

LEMMA DispatchPlaces ==
    ASSUME BusInv, BusInv', PlacesInv, NEW r \in Readers, Dispatch(r)
    PROVE  PlacesInv'
<1>1. /\ batch[r] # <<>> /\ left[r] # <<>>
      /\ calls' = calls \cup {<<Head(batch[r]), Head(left[r])>>}
      /\ UNCHANGED <<backend, length, cursor, pel, acked, up, batch>>
  BY DEF Dispatch
<1>2. Head(batch[r]) \in Entries
  BY <1>1, HeldEntries DEF BusInv
<1>3. Head(left[r]) \in AllHandlers
  <2>1. left[r] \in Seq(AllHandlers)
    BY DEF BusInv, BusTypes
  <2>2. QED
    BY <1>1, <2>1, HeadAndTail
<1>4. BusTypeOK'
  BY <1>1, <1>2, <1>3 DEF PlacesInv, BusTypeOK, InHand, Published, AllHandlers
<1>5. QED
  BY <1>1, <1>4 DEF PlacesInv, PositionsOK, AckedRead, Redis

LEMMA AckEntryPlaces ==
    ASSUME BusInv, BusInv', PlacesInv, NEW r \in Readers, AckEntry(r)
    PROVE  PlacesInv'
<1>1. /\ batch[r] # <<>> /\ acked' = acked \cup {Head(batch[r])} /\ pel' = pel \ {Head(batch[r])}
      /\ UNCHANGED <<backend, length, cursor, up, calls>>
  BY DEF AckEntry
<1>2. Head(batch[r]) \in Entries /\ Head(batch[r]) \in Holds(r)
  BY <1>1, HeldEntries DEF BusInv
<1>3. HandOK(r)
  BY DEF BusInv
<1>4. Head(batch[r]) \in Published
  BY <1>2, <1>3 DEF HandOK, Published
<1>5. BusTypeOK'
  <2>1. (InHand \subseteq Published)'
    BY InHandIsPublishedNext
  <2>2. Published' = Published
    BY <1>1 DEF Published
  <2>3. QED
    BY <1>1, <1>4, <2>1, <2>2 DEF PlacesInv, BusTypeOK
<1>6. AckedRead'
  BY <1>1, <1>2, <1>3 DEF PlacesInv, AckedRead, HandOK, Redis
<1>7. QED
  BY <1>1, <1>5, <1>6 DEF PlacesInv, PositionsOK

(* A reader that commits: what it was given is published, and of a stream it *)
(* commits nothing.                                                          *)
LEMMA CommitPlaces ==
    ASSUME BusInv, BusInv', PlacesInv, NEW r \in Readers,
           acked' = acked \cup Passed(r) \/ acked' = acked, up' \subseteq up,
           UNCHANGED <<backend, length, cursor, pel, calls>>
    PROVE  PlacesInv'
<1>1. r # NoGroup
  BY BusAssumption
<1>2. ~Kafka => Passed(r) = {}
  <2>1. ASSUME ~Kafka, NEW e \in Passed(r) PROVE FALSE
    <3>1. owner[e[1]] = r /\ e[1] \in Topics
      BY EntryPairs DEF Passed
    <3>2. QED
      BY <1>1, <2>1, <3>1 DEF BusInv, OwnerOK
  <2>2. QED
    BY <2>1
<1>3. ASSUME NEW e \in Passed(r) PROVE e \in Published
  <2>1. e \in Entries /\ owner[e[1]] = r /\ e[2] <= cursor[e[1]]
    BY DEF Passed
  <2>2. e[1] \in Topics /\ e[2] \in Nat
    BY <2>1, EntryPairs
  <2>3. cursor[e[1]] # NoGroup
    BY <1>1, <2>1, <2>2 DEF BusInv, OwnerOK
  <2>4. cursor[e[1]] \in Nat /\ length[e[1]] \in Nat /\ cursor[e[1]] <= length[e[1]]
    BY <2>2, <2>3, BusAssumption DEF BusInv, BusTypes, PlacesInv, PositionsOK
  <2>5. \A a, b, c \in Nat : a <= b /\ b <= c => a <= c
    OBVIOUS
  <2>6. e[2] <= length[e[1]]
    BY <2>1, <2>2, <2>4, <2>5
  <2>7. QED
    BY <2>1, <2>6 DEF Published
<1>4. Passed(r) \cap pel = {}
  BY <1>2 DEF BusInv, PendingOK, Redis, Kafka
<1>5. BusTypeOK'
  <2>1. (InHand \subseteq Published)'
    BY InHandIsPublishedNext
  <2>2. Published' = Published
    BY DEF Published
  <2>3. acked' \subseteq Published
    BY <1>3 DEF PlacesInv, BusTypeOK
  <2>4. pel \subseteq Published \ acked'
    BY <1>4 DEF PlacesInv, BusTypeOK
  <2>5. QED
    BY <2>1, <2>2, <2>3, <2>4 DEF PlacesInv, BusTypeOK
<1>6. AckedRead'
  BY <1>2 DEF PlacesInv, AckedRead, Redis, Kafka
<1>7. QED
  BY <1>5, <1>6 DEF PlacesInv, PositionsOK

(* A reader of a partition goes on from the committed position, which is in  *)
(* the topic, and moves over a message that is there.                        *)
LEMMA AssignPlaces ==
    ASSUME BusInv, BusInv', PlacesInv, NEW r \in Readers, NEW t \in Topics, Assign(r, t)
    PROVE  PlacesInv'
<1>1. /\ Kafka /\ ~Redis /\ cursor' = [cursor EXCEPT ![t] = Committed(t)]
      /\ UNCHANGED <<backend, length, pel, acked, up, batch, calls>>
  BY DEF Assign, Kafka, Redis
<1>2. PICK k \in 0..MaxEvents : Prefix(t, k)
  BY <1>1 DEF BusInv, OwnerOK
<1>3. Committed(t) = k
  BY <1>2, CommittedIsThePrefix
<1>4. length[t] \in Nat /\ k \in Nat /\ k <= MaxEvents
  BY BusAssumption DEF BusInv, BusTypes
<1>5. k <= length[t]
  <2>1. CASE k = 0
    BY <1>4, <2>1
  <2>2. CASE k # 0
    <3>1. k \in 1..MaxEvents /\ k <= k
      BY <1>4, <2>2, BusAssumption
    <3>2. <<t, k>> \in acked
      BY <1>2, <3>1 DEF Prefix
    <3>3. <<t, k>> \in Published
      BY <3>2 DEF PlacesInv, BusTypeOK
    <3>4. QED
      BY <3>3 DEF Published
  <2>3. QED
    BY <2>1, <2>2
<1>6. PositionsOK'
  BY <1>1, <1>3, <1>5 DEF PlacesInv, PositionsOK, BusInv, BusTypes
<1>7. BusTypeOK'
  BY <1>1 DEF PlacesInv, BusTypeOK, InHand, Published
<1>8. QED
  BY <1>1, <1>6, <1>7 DEF PlacesInv, AckedRead, Redis

LEMMA TakePlaces ==
    ASSUME BusInv, BusInv', PlacesInv, NEW r \in Readers, NEW t \in Topics, Take(r, t)
    PROVE  PlacesInv'
<1>1. /\ owner[t] = r /\ cursor[t] < length[t]
      /\ cursor' = [cursor EXCEPT ![t] = cursor[t] + 1]
      /\ UNCHANGED <<backend, length, pel, acked, up, calls>>
  BY DEF Take
<1>2. r # NoGroup
  BY BusAssumption
<1>3. ~Redis /\ cursor[t] # NoGroup
  BY <1>1, <1>2 DEF BusInv, OwnerOK, Redis, Kafka
<1>4. cursor[t] \in Nat /\ length[t] \in Nat
  BY <1>3, BusAssumption DEF BusInv, BusTypes
<1>5. cursor[t] + 1 <= length[t]
  BY <1>1, <1>4
<1>6. PositionsOK'
  BY <1>1, <1>5 DEF PlacesInv, PositionsOK, BusInv, BusTypes
<1>7. BusTypeOK'
  <2>1. (InHand \subseteq Published)'
    BY InHandIsPublishedNext
  <2>2. Published' = Published
    BY <1>1 DEF Published
  <2>3. QED
    BY <1>1, <2>1, <2>2 DEF PlacesInv, BusTypeOK
<1>8. QED
  BY <1>1, <1>3, <1>6, <1>7 DEF PlacesInv, AckedRead, Redis

(* Readers come and go; what they leave behind stays as it was. *)
LEMMA ReaderPlaces ==
    ASSUME BusInv, BusInv', PlacesInv, up' \subseteq up \cup Readers,
           UNCHANGED <<backend, length, cursor, pel, acked, calls>>
    PROVE  PlacesInv'
<1>1. (InHand \subseteq Published)'
  BY InHandIsPublishedNext
<1>2. Published' = Published
  BY DEF Published
<1>3. BusTypeOK'
  BY <1>1, <1>2 DEF PlacesInv, BusTypeOK
<1>4. QED
  BY <1>3 DEF PlacesInv, PositionsOK, AckedRead, Redis

LEMMA PlacesInvNext == BusInv /\ BusInv' /\ PlacesInv /\ [BusNext]_busVars => PlacesInv'
<1> SUFFICES ASSUME BusInv, BusInv', PlacesInv, [BusNext]_busVars PROVE PlacesInv'
  OBVIOUS
<1>1. ASSUME NEW t \in Topics, PublishStream(t) \/ PublishKafka(t) PROVE PlacesInv'
  BY <1>1, PublishedPlaces DEF PublishStream, PublishKafka
<1>2. ASSUME NEW t \in Topics, NEW r \in Readers, PublishInline(r, t) PROVE PlacesInv'
  BY <1>2, PublishedPlaces DEF PublishInline
<1>3. ASSUME NEW r \in Readers, Start(r) \/ Read(r) \/ Dispatch(r) \/ AckEntry(r) PROVE PlacesInv'
  BY <1>3, StartPlaces, ReadPlaces, DispatchPlaces, AckEntryPlaces
<1>4. ASSUME NEW r \in Readers, ReaderError(r) \/ CrashReader(r) PROVE PlacesInv'
  <2>1. up' \subseteq up \cup Readers /\ UNCHANGED <<backend, length, cursor, pel, acked, calls>>
    BY <1>4 DEF ReaderError, CrashReader
  <2>2. QED
    BY <2>1, ReaderPlaces
<1>5. ASSUME NEW r \in Readers, StartConsumer(r) \/ Evict(r) PROVE PlacesInv'
  <2>1. up' \subseteq up \cup Readers /\ UNCHANGED <<backend, length, cursor, pel, acked, calls>>
    BY <1>5 DEF StartConsumer, Evict
  <2>2. QED
    BY <2>1, ReaderPlaces
<1>6. ASSUME NEW r \in Readers, Stop(r) PROVE PlacesInv'
  <2>1. /\ acked' = acked \cup Passed(r) /\ up' \subseteq up
        /\ UNCHANGED <<backend, length, cursor, pel, calls>>
    BY <1>6 DEF Stop
  <2>2. QED
    BY <2>1, CommitPlaces
<1>7. ASSUME NEW r \in Readers, NEW t \in Topics, Assign(r, t) \/ Take(r, t) PROVE PlacesInv'
  BY <1>7, AssignPlaces, TakePlaces
<1>8. ASSUME NEW r \in Readers, NEW commits \in BOOLEAN, NextMessage(r, commits) PROVE PlacesInv'
  <2>1. /\ acked' = acked \cup Passed(r) \/ acked' = acked
        /\ up' \subseteq up /\ UNCHANGED <<backend, length, cursor, pel, calls>>
    BY <1>8 DEF NextMessage
  <2>2. QED
    BY <2>1, CommitPlaces
<1>9. CASE UNCHANGED busVars
  <2>1. up' \subseteq up \cup Readers /\ UNCHANGED <<backend, length, cursor, pel, acked, calls>>
    BY <1>9 DEF busVars
  <2>2. QED
    BY <2>1, ReaderPlaces
<1>10. QED
  BY <1>1, <1>2, <1>3, <1>4, <1>5, <1>6, <1>7, <1>8, <1>9 DEF BusNext

(* core/events.py: what a group acknowledges was published and was given to  *)
(* it, and is never pending again; readers only hold published events, and   *)
(* no position is past the end of a topic - a Kafka group that starts over   *)
(* from its committed position included.                                     *)
THEOREM BusIsAlwaysTyped == BusSpec => []BusTypeOK
<1>1. BusInit => BusInv /\ PlacesInv
  BY BusInvInit, PlacesInvInit
<1>2. BusInv /\ PlacesInv /\ [BusNext]_busVars => BusInv' /\ PlacesInv'
  BY BusInvNext, PlacesInvNext
<1>3. PlacesInv => BusTypeOK
  BY DEF PlacesInv
<1>4. QED
  BY <1>1, <1>2, <1>3, PTL DEF BusSpec

-----------------------------------------------------------------------------
(* News: late runs leave no gap *)

LEMMA HourBounds ==
    ASSUME NEW t \in Nat
    PROVE  /\ HourOf(t) \in Nat /\ TicksPerHour \in Nat \ {0}
           /\ TicksPerHour * HourOf(t) <= t /\ t < TicksPerHour * HourOf(t) + TicksPerHour
<1>1. \A k \in Nat \ {0} : /\ t \div k \in Nat
                           /\ k * (t \div k) <= t /\ t < k * (t \div k) + k
  OBVIOUS
<1>2. TicksPerHour \in Nat \ {0}
  BY NewsAssumption
<1>3. QED
  BY <1>1, <1>2, Zenon DEF HourOf

FeedSet == {Feeds[i] : i \in DOMAIN Feeds}

(* The article, or another one with its link, is stored. *)
Covered(a) == \E r \in news : r[1] = a \/ (a.url # NoUrl /\ r[1].url = a.url)

(* What a run of the ingest has fetched so far is stored. *)
FetchInv ==
    fetch # Idle =>
        /\ fetch \in [until : Nat, key : Nat, left : Seq(FeedSet)]
        /\ fetch.key = HourOf(fetch.until)
        /\ misses = 0 => \A f \in FeedSet :
              \/ \E i \in DOMAIN fetch.left : fetch.left[i] = f
              \/ \A a \in Offers(f, fetch.until - FetchWindow, fetch.until) : Covered(a)

(* An hour that is done stored what was published in the hour before it.     *)
HoursInv ==
    /\ hours \subseteq Nat /\ IsFiniteSet(hours)
    /\ misses = 0 => \A h \in hours : \A a \in Articles :
          /\ a.feeds # {} /\ a.pub <= TicksPerHour * h
          /\ TicksPerHour * h <= a.pub + TicksPerHour
          => Covered(a)

IngestInv ==
    /\ clock \in Nat /\ misses \in Nat /\ FetchInv /\ HoursInv

LEMMA IngestInvInit == NewsInit => IngestInv
BY FS_EmptySet DEF NewsInit, IngestInv, FetchInv, HoursInv

LEMMA NewsGrows ==
    ASSUME news \subseteq news', NEW a, Covered(a)
    PROVE  Covered(a)'
BY DEF Covered

LEMMA UpsertCovers ==
    ASSUME NEW as, news' = UpsertNews(as)
    PROVE  news \subseteq news' /\ \A a \in as : Covered(a)'
<1>1. news \subseteq news'
  BY DEF UpsertNews
<1>2. ASSUME NEW a \in as
      PROVE  Covered(a)'
  <2>1. CASE a.url = NoUrl \/ \A r \in news : r[1].url # a.url
    <3>1. <<a, 1 + Cardinality(Stored(a))>> \in news'
      BY <2>1 DEF UpsertNews
    <3>2. QED
      BY <3>1 DEF Covered
  <2>2. CASE a.url # NoUrl /\ \E r \in news : r[1].url = a.url
    BY <1>1, <2>2 DEF Covered
  <2>3. QED
    BY <2>1, <2>2
<1>3. QED
  BY <1>1, <1>2

(* Of what a feed offers, an article that is not inserted gave way to one     *)
(* with its link.                                                            *)
LEMMA FetchCovers ==
    ASSUME FetchFeed
    PROVE  /\ news \subseteq news'
           /\ \A a \in Offers(Head(fetch.left), fetch.until - FetchWindow, fetch.until) :
                 Covered(a)'
<1> DEFINE offers == Offers(Head(fetch.left), fetch.until - FetchWindow, fetch.until)
<1>1. PICK as \in Firsts(offers) : news' = UpsertNews(as)
  BY DEF FetchFeed
<1> HIDE DEF offers
<1>2. news \subseteq news' /\ \A a \in as : Covered(a)'
  BY <1>1, UpsertCovers
<1>3. ASSUME NEW a \in offers PROVE Covered(a)'
  <2>1. PICK b \in as : b.url = a.url /\ (a.url = NoUrl => b = a)
    BY <1>1 DEF Firsts
  <2>2. Covered(b)'
    BY <1>2
  <2>3. QED
    BY <2>1, <2>2 DEF Covered
<1>4. QED
  BY <1>2, <1>3 DEF offers

(* The hours stand, no miss is forgotten, and no row is deleted. *)
LEMMA HoursStand ==
    ASSUME IngestInv, hours' = hours, misses' \in {misses, misses + 1}, news \subseteq news'
    PROVE  HoursInv' /\ misses' \in Nat /\ (misses' = 0 => misses = 0)
<1>1. misses' \in Nat /\ (misses' = 0 => misses = 0)
  BY DEF IngestInv
<1>2. HoursInv'
  BY <1>1, NewsGrows DEF IngestInv, HoursInv
<1>3. QED
  BY <1>1, <1>2

LEMMA FetchFeedKeeps ==
    ASSUME IngestInv, FetchFeed
    PROVE  IngestInv'
<1>1. PICK feed : feed = Head(fetch.left)
  OBVIOUS
<1>2. /\ fetch # Idle /\ fetch.left # <<>> /\ fetch.left \in Seq(FeedSet)
      /\ fetch \in [until : Nat, key : Nat, left : Seq(FeedSet)]
      /\ fetch' = [fetch EXCEPT !.left = Tail(@)]
      /\ clock' = clock /\ hours' = hours /\ misses' = misses
  BY <1>1 DEF FetchFeed, IngestInv, FetchInv
<1>3. /\ news \subseteq news'
      /\ \A a \in Offers(feed, fetch.until - FetchWindow, fetch.until) : Covered(a)'
  BY <1>1, FetchCovers
<1>4. HoursInv' /\ misses' \in Nat /\ (misses' = 0 => misses = 0)
  BY <1>2, <1>3, HoursStand
<1>5. fetch'.until = fetch.until /\ fetch'.key = fetch.key /\ fetch'.left = Tail(fetch.left)
  BY <1>2
<1>6. fetch' \in [until : Nat, key : Nat, left : Seq(FeedSet)]
  BY <1>2
<1>7. /\ Len(fetch.left) \in Nat /\ DOMAIN fetch.left = 1..Len(fetch.left)
      /\ DOMAIN fetch'.left = 1..(Len(fetch.left) - 1) /\ fetch.left[1] = feed
      /\ \A i \in 1..(Len(fetch.left) - 1) : fetch'.left[i] = fetch.left[i + 1]
  BY <1>1, <1>2, <1>5
<1>8. ASSUME NEW f \in FeedSet, misses' = 0
      PROVE  \/ \E i \in DOMAIN fetch'.left : fetch'.left[i] = f
             \/ \A a \in Offers(f, fetch'.until - FetchWindow, fetch'.until) : Covered(a)'
  <2>1. CASE f = feed
    BY <1>3, <1>5, <2>1
  <2>2. CASE f # feed /\ \E i \in DOMAIN fetch.left : fetch.left[i] = f
    <3>1. PICK i \in 1..Len(fetch.left) : fetch.left[i] = f
      BY <1>7, <2>2
    <3>2. i - 1 \in 1..(Len(fetch.left) - 1) /\ fetch'.left[i - 1] = f
      BY <1>7, <2>2, <3>1
    <3>3. QED
      BY <1>7, <3>2
  <2>3. CASE \A a \in Offers(f, fetch.until - FetchWindow, fetch.until) : Covered(a)
    BY <1>3, <1>5, <2>3, NewsGrows
  <2>4. QED
    BY <1>2, <1>4, <1>8, <2>1, <2>2, <2>3 DEF IngestInv, FetchInv
<1>9. FetchInv'
  <2>1. Offers(feed, 0, 0)' = Offers(feed, 0, 0)
    BY DEF Offers
  <2>2. fetch'.key = HourOf(fetch'.until)
    BY <1>2, <1>5 DEF IngestInv, FetchInv
  <2>3. QED
    BY <1>6, <1>8, <2>2 DEF FetchInv, Offers, FetchWindow, HourOf
<1>10. QED
  BY <1>2, <1>4, <1>9 DEF IngestInv

LEMMA StartFetchKeeps ==
    ASSUME IngestInv, StartFetch
    PROVE  IngestInv'
<1>1. /\ fetch' = [until |-> clock, key |-> HourOf(clock), left |-> Feeds]
      /\ clock' = clock /\ news' = news /\ hours' = hours /\ misses' = misses
      /\ clock \in Nat
  BY DEF StartFetch, IngestInv
<1>2. HoursInv' /\ misses' \in Nat
  BY <1>1, HoursStand
<1>3. Feeds \in Seq(FeedSet) /\ HourOf(clock) \in Nat
  BY <1>1, NewsAssumption, HourBounds DEF FeedSet
<1>4. FetchInv'
  BY <1>1, <1>3 DEF FetchInv, FeedSet, HourOf
<1>5. QED
  BY <1>1, <1>2, <1>4 DEF IngestInv

LEMMA EndFetchKeeps ==
    ASSUME IngestInv, EndFetch
    PROVE  IngestInv'
<1>1. PICK u, h : u = fetch.until /\ h = fetch.key
  OBVIOUS
<1>2. /\ fetch # Idle /\ fetch.left = <<>> /\ hours' = hours \cup {h} /\ fetch' = Idle
      /\ clock' = clock /\ news' = news /\ misses' = misses
      /\ h = HourOf(u) /\ u \in Nat /\ h \in Nat
      /\ misses = 0 => \A f \in FeedSet : \A a \in Offers(f, u - FetchWindow, u) : Covered(a)
  BY <1>1 DEF EndFetch, IngestInv, FetchInv
<1>3. /\ TicksPerHour \in Nat /\ TicksPerHour * h \in Nat
      /\ TicksPerHour * h <= u /\ u < TicksPerHour * h + TicksPerHour
  <2>1. /\ HourOf(u) \in Nat /\ TicksPerHour \in Nat \ {0}
        /\ TicksPerHour * HourOf(u) <= u /\ u < TicksPerHour * HourOf(u) + TicksPerHour
    BY <1>2, HourBounds
  <2>2. TicksPerHour * h \in Nat
    BY <1>2, <2>1
  <2>3. QED
    BY <1>2, <2>1, <2>2
<1>4. ASSUME misses = 0, NEW a \in Articles, a.feeds # {}, a.pub <= TicksPerHour * h,
             TicksPerHour * h <= a.pub + TicksPerHour
      PROVE  Covered(a)
  <2>1. PICK f \in FeedSet : f \in a.feeds
    BY <1>4, NewsAssumption DEF FeedSet
  <2>2. a.pub \in Nat
    BY NewsAssumption
  <2>3. u - FetchWindow <= a.pub /\ a.pub <= u
    BY <1>2, <1>3, <1>4, <2>2 DEF FetchWindow
  <2>4. a \in Offers(f, u - FetchWindow, u)
    BY <2>1, <2>3 DEF Offers
  <2>5. QED
    BY <1>2, <1>4, <2>4
<1>5. HoursInv'
  <2>1. hours' \subseteq Nat /\ IsFiniteSet(hours')
    BY <1>2, FS_AddElement DEF IngestInv, HoursInv
  <2>2. ASSUME misses' = 0, NEW g \in hours', NEW a \in Articles, a.feeds # {},
               a.pub <= TicksPerHour * g, TicksPerHour * g <= a.pub + TicksPerHour
        PROVE  Covered(a)'
    <3>1. Covered(a)
      BY <1>2, <1>4, <2>2 DEF IngestInv, HoursInv
    <3>2. QED
      BY <1>2, <3>1, NewsGrows
  <2>3. QED
    BY <2>1, <2>2 DEF HoursInv
<1>6. QED
  BY <1>2, <1>5 DEF IngestInv, FetchInv

LEMMA IngestInvNext ==
    ASSUME IngestInv, [NewsNext]_newsVars
    PROVE  IngestInv'
<1>1. CASE FetchFeed
  BY <1>1, FetchFeedKeeps
<1>2. CASE StartFetch
  BY <1>2, StartFetchKeeps
<1>3. CASE EndFetch
  BY <1>3, EndFetchKeeps
<1>4. ASSUME misses' = misses + 1, hours' = hours, news' = news, clock' = clock,
             fetch' = fetch \/ fetch' = Idle \/ FetchInv'
      PROVE  IngestInv'
  <2>1. HoursInv' /\ misses' \in Nat /\ misses' # 0
    BY <1>4, HoursStand DEF IngestInv
  <2>2. FetchInv'
    BY <1>4, <2>1 DEF IngestInv, FetchInv
  <2>3. QED
    BY <1>4, <2>1, <2>2 DEF IngestInv
<1>5. CASE FetchFails
  <2>1. misses' = misses + 1 /\ hours' = hours /\ news' = news /\ clock' = clock
    BY <1>5 DEF FetchFails, Miss
  <2>2. FetchInv'
    <3>1. /\ fetch # Idle /\ fetch.left # <<>> /\ fetch.left \in Seq(FeedSet)
          /\ fetch \in [until : Nat, key : Nat, left : Seq(FeedSet)]
          /\ fetch.key = HourOf(fetch.until)
          /\ fetch' = [fetch EXCEPT !.left = Tail(@)] /\ misses' # 0
      BY <1>5, <2>1 DEF FetchFails, IngestInv, FetchInv
    <3>2. Tail(fetch.left) \in Seq(FeedSet)
      BY <3>1
    <3>3. QED
      BY <3>1, <3>2 DEF FetchInv, HourOf
  <2>3. QED
    BY <1>4, <2>1, <2>2 DEF IngestInv
<1>6. CASE CrashFetch
  BY <1>4, <1>6 DEF CrashFetch, Miss, IngestInv
<1>7. ASSUME NEW w, CrashTag(w) \/ CrashScore(w) PROVE IngestInv'
  BY <1>4, <1>7 DEF CrashTag, CrashScore, Miss, ingestVars
<1>8. ASSUME clock' \in {clock, clock + 1}, UNCHANGED <<misses, ingestVars>>
      PROVE  IngestInv'
  <2>1. clock' \in Nat
    BY <1>8 DEF IngestInv
  <2>2. fetch' = fetch /\ news' = news /\ hours' = hours /\ misses' = misses
    BY <1>8 DEF ingestVars
  <2>3. HoursInv'
    BY <2>2, HoursStand
  <2>4. FetchInv'
    BY <2>2 DEF IngestInv, FetchInv, Offers, Covered, HourOf, FetchWindow
  <2>5. QED
    BY <2>1, <2>2, <2>3, <2>4 DEF IngestInv
<1>9. CASE Tick \/ ListStock
  BY <1>8, <1>9 DEF Tick, ListStock
<1>10. ASSUME NEW w, NEW m, StartTag(w) \/ CommitTag(w) \/ StartScore(w, m) \/ ScoreBatch(w)
                            \/ EndScore(w)
       PROVE IngestInv'
  BY <1>8, <1>10 DEF StartTag, CommitTag, StartScore, ScoreBatch, EndScore
<1>11. CASE UNCHANGED newsVars
  BY <1>8, <1>11 DEF newsVars, ingestVars
<1>12. QED
  BY <1>1, <1>2, <1>3, <1>5, <1>6, <1>7, <1>9, <1>10, <1>11 DEF NewsNext

(* What is at or above an element of a finite set: the smallest such set is  *)
(* that of the greatest element.                                             *)
LEMMA GreatestElement ==
    ASSUME NEW T, T \subseteq Nat, IsFiniteSet(T), T # {}
    PROVE  Max(T) \in T /\ \A y \in T : y <= Max(T)
<1> DEFINE Up(x) == {y \in T : y >= x}
           D == {Up(x) : x \in T}
<1>1. \A x \in T : Up(x) \in FiniteSubsetsOf(T)
  BY FS_Subset DEF FiniteSubsetsOf
<1>2. D \subseteq FiniteSubsetsOf(T) /\ D # {}
  BY <1>1
<1>3. IsWellFoundedOn(StrictSubsetOrdering(T), FiniteSubsetsOf(T))
  BY FS_StrictSubsetOrderingWellFounded
<1>4. PICK d \in D : \A e \in D : ~(<<e, d>> \in StrictSubsetOrdering(T))
  <2> HIDE DEF D
  <2>1. QED
    BY <1>2, <1>3, WFMin
<1>5. PICK x \in T : d = Up(x)
  BY <1>4
<1>6. ASSUME NEW y \in T PROVE y <= x
  <2> SUFFICES ASSUME x < y PROVE FALSE
    OBVIOUS
  <2>1. x \in Nat /\ y \in Nat /\ T \subseteq Nat
    OBVIOUS
  <2>2. x \in Up(x) /\ x \notin Up(y)
    BY <2>1
  <2>3. \A z \in T : z >= y => z >= x
    BY <2>1
  <2>4. <<Up(y), Up(x)>> \in StrictSubsetOrdering(T)
    BY <2>2, <2>3 DEF StrictSubsetOrdering
  <2>5. QED
    BY <1>4, <1>5, <2>4
<1>7. QED
  BY <1>6 DEF Max

LEMMA IngestLeavesNoGap == IngestInv => LateRunsLeaveNoGap
<1> SUFFICES ASSUME IngestInv, misses = 0, hours # {}, hours = 0..Max(hours),
                    NEW a \in Articles, a.feeds # {}, a.pub < TicksPerHour * Max(hours)
             PROVE  Covered(a)
  BY DEF LateRunsLeaveNoGap, Covered
<1>1. PICK m : m = Max(hours)
  OBVIOUS
<1>2. m \in Nat /\ hours = 0..m
  BY <1>1, GreatestElement DEF IngestInv, HoursInv
<1>3. PICK h : h = HourOf(a.pub)
  OBVIOUS
<1>4. /\ a.pub \in Nat /\ h \in Nat /\ TicksPerHour \in Nat \ {0}
      /\ TicksPerHour * h <= a.pub /\ a.pub < TicksPerHour * h + TicksPerHour
  <2>1. a.pub \in Nat
    BY NewsAssumption
  <2>2. QED
    BY <1>3, <2>1, HourBounds
<1>5. h < m
  <2> SUFFICES ASSUME m <= h PROVE FALSE
    BY <1>2, <1>4
  <2>1. TicksPerHour * m <= TicksPerHour * h
    BY <1>2, <1>4
  <2>2. TicksPerHour * m \in Nat /\ TicksPerHour * h \in Nat
    BY <1>2, <1>4
  <2>3. QED
    BY <1>1, <1>4, <2>1, <2>2
<1>6. h + 1 \in hours
  BY <1>2, <1>4, <1>5
<1>7. TicksPerHour * (h + 1) = TicksPerHour * h + TicksPerHour /\ TicksPerHour * h \in Nat
  BY <1>4
<1>8. QED
  BY <1>4, <1>6, <1>7 DEF IngestInv, HoursInv

LEMMA IngestInvIsInvariant == NewsSpec => []IngestInv
BY IngestInvInit, IngestInvNext, PTL DEF NewsSpec

(* However late in their hours the ingest runs start: when every hour so far *)
(* had a run without a failed fetch, every article a provider offered since  *)
(* the first run is stored (run_news_ingest, the two-hour fetch window).     *)
THEOREM DelayedIngestLosesNothing == NewsSpec => []LateRunsLeaveNoGap
BY IngestInvIsInvariant, IngestLeavesNoGap, PTL

-----------------------------------------------------------------------------
(* News: links are named *)

LEMMA TailIsDropped ==
    ASSUME NEW name \in Seq(STRING), NEW tail
    PROVE  \E m \in 0..Len(name) : DropTail(name, tail) = SubSeq(name, 1, m)
<1> DEFINE T == {0} \cup {i \in DOMAIN name : name[i] \notin tail}
<1>1. T \subseteq 0..Len(name) /\ 0..Len(name) \subseteq Nat /\ T # {} /\ Len(name) \in Nat
  OBVIOUS
<1>2. IsFiniteSet(T)
  <2>1. IsFiniteSet(0..Len(name))
    BY <1>1, FS_Interval
  <2> HIDE DEF T
  <2>2. QED
    BY <1>1, <2>1, FS_Subset
<1>3. Max(T) \in 0..Len(name)
  <2>1. T \subseteq Nat
    BY <1>1
  <2> HIDE DEF T
  <2>2. Max(T) \in T
    BY <1>1, <1>2, <2>1, GreatestElement
  <2>3. QED
    BY <1>1, <2>2
<1>4. QED
  BY <1>3 DEF DropTail

(* An alias is a prefix of the name: the core, or two words at least of it.  *)
LEMMA AliasesAreNames ==
    ASSUME NEW c \in Companies, NEW p \in NameAliases(c.name)
    PROVE  /\ p = CoreName(c.name) \/ Len(p) >= 2
           /\ \E n \in 1..Len(c.name) : p = SubSeq(c.name, 1, n)
<1>1. PICK name : name = c.name
  OBVIOUS
<1>2. name \in Seq(STRING) /\ Len(name) \in Nat
  BY <1>1, NewsAssumption
<1>3. PICK core : core = CoreName(name)
  OBVIOUS
<1>4. PICK m \in 0..Len(name) : core = SubSeq(name, 1, m)
  BY <1>2, <1>3, TailIsDropped DEF CoreName
<1>5. core \in Seq(STRING) /\ Len(core) = m /\ (m = 0 => core = <<>>)
  BY <1>2, <1>4
<1>6. PICK short : short = DropTail(core, SUFFIXES \cup Descriptors)
  OBVIOUS
<1>7. PICK k \in 0..m : short = SubSeq(core, 1, k)
  BY <1>5, <1>6, TailIsDropped
<1>8. short = SubSeq(name, 1, k) /\ Len(short) = k
  BY <1>2, <1>4, <1>5, <1>7
<1>9. core # <<>> /\ (p = core \/ (p = short /\ Len(short) >= 2))
  BY <1>1, <1>3, <1>6 DEF NameAliases
<1>10. CASE p = core
  BY <1>1, <1>3, <1>4, <1>5, <1>9, <1>10
<1>11. CASE p = short /\ Len(short) >= 2
  <2>1. k \in 1..Len(name)
    BY <1>2, <1>8, <1>11
  <2>2. QED
    BY <1>1, <1>8, <1>11, <2>1
<1>12. QED
  BY <1>9, <1>10, <1>11

(* Why a stock is linked to an article: what it prints names the stock. *)
Named(a, stock, cat) ==
    \E c \in cat :
        /\ c.stock = stock
        /\ \/ {c.symbol, c.isin} \cap a.marks # {}
           \/ \E p \in Phrases(a.words) :
                 /\ p = CoreName(c.name) \/ Len(p) >= 2
                 /\ \E n \in 1..Len(c.name) : p = SubSeq(c.name, 1, n)
                 /\ \A d \in cat \ {c} : CoreName(d.name) # p

LEMMA CoreIsAnAlias ==
    ASSUME NEW name, CoreName(name) # <<>>
    PROVE  CoreName(name) \in NameAliases(name)
BY DEF NameAliases

LEMMA MatchesAreNamed ==
    ASSUME NEW a, NEW cat, cat \subseteq Companies, NEW s \in MatchAll(a, cat)
    PROVE  Named(a, s, cat)
<1>1. CASE \E q \in ByCore(cat) : q[1] \in Phrases(a.words) /\ q[2] = s
  <2>1. PICK q \in ByCore(cat) : q[1] \in Phrases(a.words) /\ q[2] = s
    BY <1>1
  <2>2. PICK c \in cat : \E p \in NameAliases(c.name) :
           q = <<p, c.stock>> /\ \A d \in cat \ {c} : p \notin NameAliases(d.name)
    BY <2>1 DEF ByCore
  <2>0. PICK p \in NameAliases(c.name) :
           q = <<p, c.stock>> /\ \A d \in cat \ {c} : p \notin NameAliases(d.name)
    BY <2>2
  <2>3. c \in Companies /\ p \in Phrases(a.words) /\ c.stock = s
    BY <2>0, <2>1
  <2>4. /\ p = CoreName(c.name) \/ Len(p) >= 2
        /\ \E n \in 1..Len(c.name) : p = SubSeq(c.name, 1, n)
    BY <2>3, AliasesAreNames
  <2>5. p # <<>>
    <3>1. c.name \in Seq(STRING)
      BY <2>3, NewsAssumption
    <3>2. PICK n \in 1..Len(c.name) : p = SubSeq(c.name, 1, n)
      BY <2>4
    <3>3. n \in Nat /\ n >= 1 /\ Len(p) = n
      BY <3>1, <3>2
    <3>4. QED
      BY <3>3
  <2>6. \A d \in cat \ {c} : CoreName(d.name) # p
    BY <2>0, <2>5, CoreIsAnAlias
  <2>7. QED
    BY <2>3, <2>4, <2>6 DEF Named
<1>2. CASE \E q \in BySymbol(cat) \cup ByIsin(cat) : q[1] \in a.marks /\ q[2] = s
  <2>1. PICK c \in cat : c.stock = s /\ (c.symbol \in a.marks \/ c.isin \in a.marks)
    <3>1. PICK q \in BySymbol(cat) \cup ByIsin(cat) : q[1] \in a.marks /\ q[2] = s
      BY <1>2
    <3>2. CASE q \in BySymbol(cat)
      BY <3>1, <3>2 DEF BySymbol
    <3>3. CASE q \in ByIsin(cat)
      <4>1. PICK c \in {d \in cat : d.isin # ""} : q = <<c.isin, c.stock>>
        BY <3>3 DEF ByIsin
      <4>2. c \in cat /\ c.stock = s /\ c.isin \in a.marks
        BY <3>1, <4>1
      <4>3. QED
        BY <4>2
    <3>4. QED
      BY <3>1, <3>2, <3>3
  <2>2. QED
    BY <2>1 DEF Named
<1>3. QED
  BY <1>1, <1>2 DEF MatchAll

LEMMA CoreNamesMatch ==
    ASSUME NEW a, NEW cat, NEW c \in cat,
           CoreName(c.name) # <<>>, CoreName(c.name) \in Phrases(a.words),
           \A d \in cat \ {c} : CoreName(c.name) \notin NameAliases(d.name)
    PROVE  c.stock \in MatchAll(a, cat)
<1>1. <<CoreName(c.name), c.stock>> \in ByCore(cat)
  BY CoreIsAnAlias DEF ByCore
<1>2. QED
  BY <1>1 DEF MatchAll

(* The links are those that the runs which marked the rows matched.          *)
LinksInv ==
    /\ catalogue \subseteq Companies
    /\ tagrun \in [Taggers -> {Idle} \cup [cat : SUBSET Companies, rows : SUBSET news]]
    /\ \A t \in tagged : t[2] \subseteq Companies
    /\ \A l \in links : \E t \in tagged : t[1] = l[1] /\ l[2] \in MatchAll(l[1][1], t[2])
    /\ \A t \in tagged : \A s \in MatchAll(t[1][1], t[2]) : <<t[1], s>> \in links

LEMMA LinksInvInit == NewsInit => LinksInv
BY NewsAssumption DEF NewsInit, LinksInv

LEMMA StartTagKeeps ==
    ASSUME LinksInv, NEW w \in Taggers, StartTag(w)
    PROVE  LinksInv'
<1>1. PICK q \in WorkLists(news \ MarkedRows) :
         tagrun' = [tagrun EXCEPT ![w] = [cat |-> catalogue, rows |-> q]]
  BY DEF StartTag
<1>2. q \subseteq news
  BY DEF WorkLists, kSubset
<1>3. UNCHANGED <<news, catalogue, tagged, links>>
  BY DEF StartTag, ingestVars
<1>4. [cat |-> catalogue, rows |-> q] \in [cat : SUBSET Companies, rows : SUBSET news]
  BY <1>2 DEF LinksInv
<1>5. QED
  BY <1>1, <1>3, <1>4 DEF LinksInv

LEMMA CommitTagKeeps ==
    ASSUME LinksInv, NEW w \in Taggers, CommitTag(w)
    PROVE  LinksInv'
<1>1. PICK run : run = tagrun[w]
  OBVIOUS
<1>2. /\ run \in [cat : SUBSET Companies, rows : SUBSET news]
      /\ links' = links \cup UNION {{r} \X MatchAll(r[1], run.cat) : r \in run.rows}
      /\ tagged' = tagged \cup (run.rows \X {run.cat})
      /\ tagrun' = [tagrun EXCEPT ![w] = Idle]
      /\ news' = news /\ catalogue' = catalogue
  BY <1>1 DEF CommitTag, LinksInv, ingestVars
<1>3. tagrun' \in [Taggers -> {Idle} \cup [cat : SUBSET Companies, rows : SUBSET news']]
  BY <1>2 DEF LinksInv
<1>4. \A t \in tagged' : t[2] \subseteq Companies
  BY <1>2 DEF LinksInv
<1>5. ASSUME NEW l \in links'
      PROVE  \E t \in tagged' : t[1] = l[1] /\ l[2] \in MatchAll(l[1][1], t[2])
  <2>1. CASE l \in links
    BY <1>2, <2>1 DEF LinksInv
  <2>2. CASE l \notin links
    <3>1. PICK r \in run.rows : l \in {r} \X MatchAll(r[1], run.cat)
      BY <1>2, <2>2
    <3>2. l[1] = r /\ l[2] \in MatchAll(r[1], run.cat)
      BY <3>1
    <3>3. <<r, run.cat>> \in tagged'
      BY <1>2
    <3>4. QED
      BY <3>2, <3>3
  <2>3. QED
    BY <2>1, <2>2
<1>6. ASSUME NEW t \in tagged', NEW s \in MatchAll(t[1][1], t[2])
      PROVE  <<t[1], s>> \in links'
  <2>1. CASE t \in tagged
    BY <1>2, <2>1 DEF LinksInv
  <2>2. CASE t \notin tagged
    <3>1. t \in run.rows \X {run.cat}
      BY <1>2, <2>2
    <3>2. t[1] \in run.rows /\ t[2] = run.cat
      BY <3>1
    <3>3. <<t[1], s>> \in {t[1]} \X MatchAll(t[1][1], run.cat)
      BY <3>2
    <3>4. QED
      BY <1>2, <3>2, <3>3
  <2>3. QED
    BY <2>1, <2>2
<1>7. QED
  BY <1>2, <1>3, <1>4, <1>5, <1>6 DEF LinksInv

LEMMA LinksInvNext ==
    ASSUME LinksInv, [NewsNext]_newsVars
    PROVE  LinksInv'
<1>1. ASSUME NEW w \in Taggers, StartTag(w) PROVE LinksInv'
  BY <1>1, StartTagKeeps
<1>2. ASSUME NEW w \in Taggers, CommitTag(w) PROVE LinksInv'
  BY <1>2, CommitTagKeeps
<1>3. ASSUME NEW w \in Taggers, CrashTag(w) PROVE LinksInv'
  <2>1. /\ tagrun' = [tagrun EXCEPT ![w] = Idle]
        /\ news' = news /\ catalogue' = catalogue /\ tagged' = tagged /\ links' = links
    BY <1>3 DEF CrashTag, ingestVars
  <2>2. tagrun' \in [Taggers -> {Idle} \cup [cat : SUBSET Companies, rows : SUBSET news']]
    BY <2>1 DEF LinksInv
  <2>3. QED
    BY <2>1, <2>2 DEF LinksInv
<1>4. CASE ListStock
  BY <1>4 DEF ListStock, LinksInv, ingestVars
<1>5. ASSUME news \subseteq news', UNCHANGED tagVars PROVE LinksInv'
  <2>1. UNCHANGED <<catalogue, tagged, links, tagrun>>
    BY <1>5 DEF tagVars
  <2>2. [cat : SUBSET Companies, rows : SUBSET news]
        \subseteq [cat : SUBSET Companies, rows : SUBSET news']
    BY <1>5
  <2>3. tagrun' \in [Taggers -> {Idle} \cup [cat : SUBSET Companies, rows : SUBSET news']]
    BY <2>1, <2>2 DEF LinksInv
  <2>4. QED
    BY <2>1, <2>3 DEF LinksInv
<1>6. CASE FetchFeed
  BY <1>5, <1>6, FetchCovers DEF FetchFeed
<1>7. CASE Tick \/ StartFetch \/ FetchFails \/ EndFetch \/ CrashFetch
  BY <1>5, <1>7 DEF Tick, StartFetch, FetchFails, EndFetch, CrashFetch, ingestVars
<1>8. ASSUME NEW w, NEW m, StartScore(w, m) \/ ScoreBatch(w) \/ EndScore(w) \/ CrashScore(w)
      PROVE  LinksInv'
  BY <1>5, <1>8 DEF StartScore, ScoreBatch, EndScore, CrashScore, ingestVars
<1>9. CASE UNCHANGED newsVars
  BY <1>5, <1>9 DEF newsVars, tagVars
<1>10. QED
  BY <1>1, <1>2, <1>3, <1>4, <1>6, <1>7, <1>8, <1>9 DEF NewsNext

LEMMA InvNamesLinks == LinksInv => LinksAreNamed
<1> SUFFICES ASSUME LinksInv PROVE LinksAreNamed
  OBVIOUS
<1>1. ASSUME NEW l \in links
      PROVE  \E t \in tagged : t[1] = l[1] /\ Named(l[1][1], l[2], t[2])
  BY MatchesAreNamed DEF LinksInv
<1>2. ASSUME NEW t \in tagged, NEW c \in t[2],
             CoreName(c.name) # <<>>, CoreName(c.name) \in Phrases(t[1][1].words),
             \A d \in t[2] \ {c} : CoreName(c.name) \notin NameAliases(d.name)
      PROVE  <<t[1], c.stock>> \in links
  BY <1>2, CoreNamesMatch DEF LinksInv
<1>3. QED
  BY <1>1, <1>2 DEF LinksAreNamed, Named

LEMMA LinksInvIsInvariant == NewsSpec => []LinksInv
BY LinksInvInit, LinksInvNext, PTL DEF NewsSpec

(* Whatever catalogue and articles, and however taggers overlap and companies *)
(* are listed: a link was earned by a mark or a name of its stock alone, and  *)
(* an unambiguous core name is never passed over (tagger.py).                *)
THEOREM LinksAreAlwaysNamed == NewsSpec => []LinksAreNamed
BY LinksInvIsInvariant, InvNamesLinks, PTL

-----------------------------------------------------------------------------
(* News: the signal of the past is stable *)

ScoreRuns == [model : Models, rows : SUBSET news, alone : BOOLEAN]

(* A run that no other of its model has overlapped has none of its rows      *)
(* rated yet, and there is no other one.                                     *)
RatingsInv ==
    /\ clock \in Nat /\ \A y \in ratings : y.at \in Nat
    /\ scorerun \in [Scorers -> {Idle} \cup ScoreRuns]
    /\ \A w \in Scorers : scorerun[w] # Idle /\ scorerun[w].alone =>
          /\ \A x \in Scorers \ {w} : scorerun[x] # Idle => scorerun[x].model # scorerun[w].model
          /\ \A y \in ratings : ~(y.row \in scorerun[w].rows /\ y.model = scorerun[w].model)

LEMMA RatingsInvInit == NewsInit => RatingsInv
BY DEF NewsInit, RatingsInv

LEMMA StartScoreKeeps ==
    ASSUME RatingsInv, NEW w \in Scorers, NEW m \in Models, StartScore(w, m)
    PROVE  RatingsInv'
<1> DEFINE same == {x \in Scorers : scorerun[x] # Idle /\ scorerun[x].model = m}
<1>1. PICK q \in WorkLists(Unscored(m)) :
         scorerun' = [x \in Scorers |->
                         IF x = w THEN [model |-> m, rows |-> q, alone |-> same = {}]
                         ELSE IF x \in same THEN [scorerun[x] EXCEPT !.alone = FALSE]
                         ELSE scorerun[x]]
  BY DEF StartScore
<1>2. q \subseteq Unscored(m) /\ Unscored(m) \subseteq news
  BY DEF WorkLists, kSubset, Unscored
<1>3. /\ clock' = clock /\ news' = news /\ ratings' = ratings /\ scorerun[w] = Idle
  BY DEF StartScore, ingestVars
<1> DEFINE alone == same = {}
<1>4. alone \in BOOLEAN /\ (alone <=> same = {})
  OBVIOUS
<1>5. PICK R : R = [model |-> m, rows |-> q, alone |-> alone]
  OBVIOUS
<1>6. R \in ScoreRuns /\ R.model = m /\ R.rows = q /\ R.alone = alone
  BY <1>2, <1>4, <1>5 DEF ScoreRuns
<1>7. /\ scorerun'[w] = R /\ DOMAIN scorerun' = Scorers
      /\ \A x \in Scorers \ {w} :
            scorerun'[x] = IF x \in same THEN [scorerun[x] EXCEPT !.alone = FALSE] ELSE scorerun[x]
  BY <1>1, <1>5
<1>8. scorerun' = [x \in Scorers |-> scorerun'[x]]
  BY <1>1
<1> HIDE DEF alone
<1>9. ASSUME NEW x \in Scorers \ {w}
      PROVE  /\ scorerun'[x] \in {Idle} \cup ScoreRuns
             /\ scorerun'[x] # Idle /\ scorerun'[x].alone =>
                   /\ scorerun'[x] = scorerun[x] /\ x \notin same
             /\ x \notin same => scorerun'[x] = scorerun[x]
  <2>1. scorerun[x] \in {Idle} \cup ScoreRuns
    BY DEF RatingsInv
  <2>2. CASE x \in same
    <3>1. scorerun[x] \in ScoreRuns
      BY <2>1, <2>2
    <3>2. scorerun'[x] = [scorerun[x] EXCEPT !.alone = FALSE]
      BY <1>7, <2>2
    <3> HIDE DEF same
    <3>3. scorerun'[x] \in ScoreRuns /\ scorerun'[x].alone = FALSE
      BY <3>1, <3>2 DEF ScoreRuns
    <3>4. QED
      BY <2>2, <3>3
  <2>3. CASE x \notin same
    <3>1. scorerun'[x] = scorerun[x]
      BY <1>7, <2>3
    <3>2. QED
      BY <2>1, <2>3, <3>1
  <2>4. QED
    BY <2>2, <2>3
<1>10. scorerun' \in [Scorers -> {Idle} \cup ScoreRuns]
  BY <1>6, <1>7, <1>8, <1>9
<1>11. ASSUME NEW x \in Scorers, scorerun'[x] # Idle, scorerun'[x].alone
       PROVE  /\ \A o \in Scorers \ {x} :
                    scorerun'[o] # Idle => scorerun'[o].model # scorerun'[x].model
              /\ \A y \in ratings :
                    ~(y.row \in scorerun'[x].rows /\ y.model = scorerun'[x].model)
  <2>1. CASE x = w
    <3>1. same = {}
      BY <1>4, <1>6, <1>7, <1>11, <2>1
    <3>2. \A o \in Scorers \ {w} : scorerun'[o] = scorerun[o]
      BY <1>7, <3>1
    <3>3. \A y \in ratings : ~(y.row \in q /\ y.model = m)
      BY <1>2 DEF Unscored
    <3>4. QED
      BY <1>6, <1>7, <2>1, <3>1, <3>2, <3>3
  <2>2. CASE x # w
    <3>1. scorerun'[x] = scorerun[x] /\ x \notin same /\ scorerun[x].model # m
      BY <1>9, <1>11, <2>2
    <3>2. /\ \A o \in Scorers \ {x} :
                scorerun[o] # Idle => scorerun[o].model # scorerun[x].model
          /\ \A y \in ratings : ~(y.row \in scorerun[x].rows /\ y.model = scorerun[x].model)
      BY <1>11, <3>1 DEF RatingsInv
    <3>3. ASSUME NEW o \in Scorers \ {x}, scorerun'[o] # Idle
          PROVE  scorerun'[o].model # scorerun[x].model
      <4>1. CASE o = w
        BY <1>6, <1>7, <3>1, <4>1
      <4>2. CASE o # w /\ o \in same
        <5>1. scorerun'[o] = [scorerun[o] EXCEPT !.alone = FALSE] /\ scorerun[o] # Idle
          BY <1>7, <4>2
        <5>2. scorerun[o] \in ScoreRuns
          BY <5>1 DEF RatingsInv
        <5>3. scorerun'[o].model = scorerun[o].model
          BY <5>1, <5>2 DEF ScoreRuns
        <5>4. QED
          BY <3>2, <5>1, <5>3
      <4>3. CASE o # w /\ o \notin same
        BY <1>9, <3>2, <3>3, <4>3
      <4>4. QED
        BY <4>1, <4>2, <4>3
    <3>4. QED
      BY <3>1, <3>2, <3>3
  <2>3. QED
    BY <2>1, <2>2
<1>12. QED
  BY <1>3, <1>10, <1>11 DEF RatingsInv, ScoreRuns

LEMMA ScoreBatchKeeps ==
    ASSUME RatingsInv, NEW w \in Scorers, ScoreBatch(w)
    PROVE  /\ RatingsInv'
           /\ scorerun[w].alone /\ scorerun[w] # Idle =>
                 /\ ratings \subseteq ratings'
                 /\ \A y \in ratings' \ ratings : y.at = clock
<1>1. PICK m, rows : m = scorerun[w].model /\ rows = scorerun[w].rows
  OBVIOUS
<1>0. PICK chunk \in kSubset(Min({BatchSize, Cardinality(scorerun[w].rows)}), scorerun[w].rows) :
         /\ \A r \in chunk, x \in scorerun[w].rows \ chunk : r[1].pub >= x[1].pub
         /\ ratings' = {x \in ratings : ~(x.row \in chunk /\ x.model = scorerun[w].model)} \cup
              {[row |-> r, model |-> scorerun[w].model, impact |-> Impact(r[1]), at |-> clock]
                 : r \in chunk}
         /\ scorerun' = [scorerun EXCEPT ![w].rows = @ \ chunk]
  BY Zenon DEF ScoreBatch
<1>2. /\ chunk \subseteq rows
      /\ ratings' = {x \in ratings : ~(x.row \in chunk /\ x.model = m)} \cup
           {[row |-> r, model |-> m, impact |-> Impact(r[1]), at |-> clock] : r \in chunk}
      /\ scorerun' = [scorerun EXCEPT ![w].rows = @ \ chunk]
  BY <1>0, <1>1 DEF kSubset
<1>3. clock' = clock /\ news' = news /\ scorerun[w] # Idle
  BY DEF ScoreBatch, ingestVars
<1>4. scorerun[w] \in ScoreRuns /\ scorerun \in [Scorers -> {Idle} \cup ScoreRuns]
  BY <1>3 DEF RatingsInv
<1>5. PICK R : R = [scorerun[w] EXCEPT !.rows = rows \ chunk]
  OBVIOUS
<1>6. /\ R \in ScoreRuns /\ R.model = m /\ R.rows = rows \ chunk
      /\ R.alone = scorerun[w].alone
  BY <1>1, <1>4, <1>5 DEF ScoreRuns
<1>7. scorerun' = [scorerun EXCEPT ![w] = R]
  BY <1>1, <1>2, <1>4, <1>5
<1>8. /\ scorerun' \in [Scorers -> {Idle} \cup ScoreRuns] /\ scorerun'[w] = R
      /\ \A x \in Scorers \ {w} : scorerun'[x] = scorerun[x]
  BY <1>4, <1>6, <1>7
<1>9. \A y \in ratings' :
         \/ y \in ratings /\ ~(y.row \in chunk /\ y.model = m)
         \/ y.row \in chunk /\ y.model = m /\ y.at = clock
  BY <1>2
<1>10. /\ clock' \in Nat /\ \A y \in ratings' : y.at \in Nat
  BY <1>3, <1>9 DEF RatingsInv
<1>11. ASSUME NEW x \in Scorers, scorerun'[x] # Idle, scorerun'[x].alone
       PROVE  /\ \A o \in Scorers \ {x} :
                    scorerun'[o] # Idle => scorerun'[o].model # scorerun'[x].model
              /\ \A y \in ratings' :
                    ~(y.row \in scorerun'[x].rows /\ y.model = scorerun'[x].model)
  <2>1. /\ scorerun[x] # Idle /\ scorerun[x].alone /\ scorerun'[x].model = scorerun[x].model
        /\ scorerun'[x].rows \subseteq scorerun[x].rows
    BY <1>1, <1>3, <1>6, <1>8, <1>11
  <2>2. /\ \A o \in Scorers \ {x} :
              scorerun[o] # Idle => scorerun[o].model # scorerun[x].model
        /\ \A y \in ratings : ~(y.row \in scorerun[x].rows /\ y.model = scorerun[x].model)
    BY <2>1 DEF RatingsInv
  <2>3. \A o \in Scorers \ {x} :
           scorerun'[o] # Idle => scorerun'[o].model # scorerun'[x].model
    BY <1>1, <1>3, <1>6, <1>8, <2>1, <2>2
  <2>4. ASSUME NEW y \in ratings', y.row \in scorerun'[x].rows, y.model = scorerun'[x].model
        PROVE  FALSE
    <3>1. y.row \in chunk /\ y.model = m
      BY <1>9, <2>1, <2>2, <2>4
    <3>2. CASE x = w
      BY <1>6, <1>8, <2>4, <3>1, <3>2
    <3>3. CASE x # w
      BY <1>1, <1>3, <2>1, <2>2, <2>4, <3>1, <3>3
    <3>4. QED
      BY <3>2, <3>3
  <2>5. QED
    BY <2>3, <2>4
<1>12. RatingsInv'
  <2>1. ScoreRuns' = ScoreRuns
    BY <1>3 DEF ScoreRuns
  <2>2. QED
    BY <1>8, <1>10, <1>11, <2>1 DEF RatingsInv
<1>13. ASSUME scorerun[w].alone
       PROVE  /\ ratings \subseteq ratings'
              /\ \A y \in ratings' \ ratings : y.at = clock
  <2>1. \A y \in ratings : ~(y.row \in rows /\ y.model = m)
    BY <1>1, <1>3, <1>13 DEF RatingsInv
  <2>2. QED
    BY <1>2, <1>9, <2>1
<1>14. QED
  BY <1>12, <1>13

LEMMA RatingsStand ==
    ASSUME RatingsInv, news \subseteq news', clock' \in {clock, clock + 1}, ratings' = ratings,
           scorerun' = scorerun \/ \E w \in Scorers : scorerun' = [scorerun EXCEPT ![w] = Idle]
    PROVE  RatingsInv'
<1>1. clock' \in Nat
  BY DEF RatingsInv
<1>2. ScoreRuns \subseteq ScoreRuns'
  BY DEF ScoreRuns
<1>3. /\ scorerun' \in [Scorers -> {Idle} \cup ScoreRuns']
      /\ \A x \in Scorers : scorerun'[x] # Idle => scorerun'[x] = scorerun[x]
  BY <1>2 DEF RatingsInv
<1>4. QED
  BY <1>1, <1>3 DEF RatingsInv

LEMMA RatingsInvNext ==
    ASSUME RatingsInv, [NewsNext]_newsVars
    PROVE  RatingsInv'
<1>1. ASSUME NEW w \in Scorers, NEW m \in Models, StartScore(w, m) PROVE RatingsInv'
  BY <1>1, StartScoreKeeps
<1>2. ASSUME NEW w \in Scorers, ScoreBatch(w) PROVE RatingsInv'
  BY <1>2, ScoreBatchKeeps
<1>3. ASSUME NEW w \in Scorers, EndScore(w) \/ CrashScore(w) PROVE RatingsInv'
  BY <1>3, RatingsStand DEF EndScore, CrashScore, ingestVars
<1>4. CASE FetchFeed
  BY <1>4, FetchCovers, RatingsStand DEF FetchFeed, scoreVars
<1>5. CASE Tick \/ StartFetch \/ FetchFails \/ EndFetch \/ CrashFetch \/ ListStock
  BY <1>5, RatingsStand
     DEF Tick, StartFetch, FetchFails, EndFetch, CrashFetch, ListStock, ingestVars, scoreVars
<1>6. ASSUME NEW w, StartTag(w) \/ CommitTag(w) \/ CrashTag(w) PROVE RatingsInv'
  BY <1>6, RatingsStand DEF StartTag, CommitTag, CrashTag, ingestVars, scoreVars
<1>7. CASE UNCHANGED newsVars
  BY <1>7, RatingsStand DEF newsVars
<1>8. QED
  BY <1>1, <1>2, <1>3, <1>4, <1>5, <1>6, <1>7 DEF NewsNext

(* What is added now is in no signal of the past.                            *)
LEMMA AddedLater ==
    ASSUME RatingsInv, ratings \subseteq ratings', links' = links,
           \A y \in ratings' \ ratings : y.at = clock
    PROVE  ~PastSignalChanges
<1> SUFFICES ASSUME NEW s \in StockIds, NEW t \in 0..(clock - 1)
             PROVE  Signal(s, t) = {x \in Signal(s, t)' : <<x.row, s>> \in links}
  BY DEF PastSignalChanges
<1>1. clock \in Nat /\ t \in Nat /\ t < clock
  BY DEF RatingsInv
<1>2. \A y \in ratings' : y.at <= t => y \in ratings
  BY <1>1
<1>3. \A y \in ratings : y \in ratings'
  OBVIOUS
<1>4. \A x : x \in Signal(s, t)' <=>
         /\ x \in ratings' /\ <<x.row, s>> \in links /\ x.row[1].pub <= t /\ x.at <= t
         /\ \A y \in ratings' : y.row = x.row /\ y.at <= t => y.at <= x.at
  BY DEF Signal
<1>5. \A x : x \in Signal(s, t) <=>
         /\ x \in ratings /\ <<x.row, s>> \in links /\ x.row[1].pub <= t /\ x.at <= t
         /\ \A y \in ratings : y.row = x.row /\ y.at <= t => y.at <= x.at
  BY DEF Signal
<1>6. \A x : x \in Signal(s, t)' <=> x \in Signal(s, t)
  BY <1>2, <1>3, <1>4, <1>5
<1>7. QED
  BY <1>5, <1>6

(* A model that scores later adds knowledge from then on: what the factor    *)
(* job could know at a past instant of the articles it had linked changes    *)
(* only in a step of a run that another run of its model overlapped.         *)
THEOREM PastSignalsStand == NewsSpec => SignalIsStable
<1> DEFINE Refreshed == \E w \in Scorers : scorerun[w] # Idle /\ ~scorerun[w].alone
<1>1. RatingsInv /\ [NewsNext]_newsVars => [PastSignalChanges => Refreshed]_ratings
  <2> SUFFICES ASSUME RatingsInv, NewsNext, ratings' # ratings, ~Refreshed
               PROVE  ~PastSignalChanges
    BY DEF newsVars
  <2>1. PICK w \in Scorers : ScoreBatch(w)
    BY DEF NewsNext, Tick, StartFetch, FetchFeed, FetchFails, EndFetch, CrashFetch, ListStock,
           StartTag, CommitTag, CrashTag, StartScore, EndScore, CrashScore, scoreVars
  <2>2. scorerun[w] # Idle /\ links' = links
    BY <2>1 DEF ScoreBatch, tagVars
  <2>3. scorerun[w].alone
    BY <2>2
  <2>4. QED
    BY <2>1, <2>2, <2>3, ScoreBatchKeeps, AddedLater
<1>2. QED
  BY <1>1, RatingsInvInit, RatingsInvNext, PTL DEF NewsSpec, SignalIsStable

-----------------------------------------------------------------------------
(* News: the tables stay keyed *)

LEMMA ImageIsFinite ==
    ASSUME NEW f, NEW S, IsFiniteSet(S)
    PROVE  IsFiniteSet({f[n] : n \in S})
<1> DEFINE img == {f[n] : n \in S}
           g == [n \in S |-> f[n]]
<1>1. g \in Surjection(S, img)
  BY DEF Surjection
<1> HIDE DEF g, img
<1>2. IsFiniteSet(img)
  BY <1>1, FS_Surjection
<1>3. QED
  BY <1>2 DEF img

LEMMA TableIsFinite == DOMAIN EventOrder = 1..11 /\ IsFiniteSet(1..11)
<1>1. \A n \in Nat : IsFiniteSet(1..n)
  BY FS_Interval
<1>2. 11 \in Nat
  OBVIOUS
<1>3. IsFiniteSet(1..11)
  BY <1>1, <1>2, Zenon
<1>4. QED
  BY <1>3 DEF EventOrder

LEMMA FirstOfTable ==
    ASSUME NEW T, T \subseteq 1..11, T # {}
    PROVE  Min(T) \in T
<1>1. T \subseteq Nat /\ IsFiniteSet(T)
  <2>1. 1..11 \subseteq Nat
    OBVIOUS
  <2>2. IsFiniteSet(1..11)
    BY TableIsFinite
  <2>3. \A R : T \subseteq R /\ IsFiniteSet(R) => IsFiniteSet(T)
    BY FS_Subset
  <2>4. QED
    BY <2>1, <2>2, <2>3, Zenon
<1> DEFINE back == [i \in T |-> 11 - i]
           D == {back[i] : i \in T}
<1>2. D \subseteq Nat /\ D # {}
  <2>1. \A i \in 1..11 : 11 - i \in Nat
    OBVIOUS
  <2>2. \A i \in T : i \in 1..11
    OBVIOUS
  <2>3. \A i \in T : back[i] \in Nat
    BY <2>1, <2>2
  <2> HIDE DEF back
  <2>4. QED
    BY <2>3
<1>3. IsFiniteSet(D)
  <2> HIDE DEF back
  <2>1. QED
    BY <1>1, ImageIsFinite
<1>4. Max(D) \in D /\ \A y \in D : y <= Max(D)
  <2> HIDE DEF D
  <2>1. QED
    BY <1>2, <1>3, GreatestElement
<1>5. PICK i \in T : Max(D) = 11 - i
  BY <1>4
<1>6. \A j \in T : i <= j
  <2> TAKE j \in T
  <2>1. 11 - j <= 11 - i
    BY <1>4, <1>5
  <2>2. i \in Int /\ j \in Int
    BY <1>1
  <2>3. QED
    BY <2>1, <2>2
<1>7. QED
  BY <1>6 DEF Min

EventKinds == {EventOrder[i] : i \in DOMAIN EventOrder}

LEMMA WeightsAreInts ==
    ASSUME NEW e \in EventKinds \cup {"none"}
    PROVE  ImpactWeight(e) \in Int /\ Abs(ImpactWeight(e)) \in Nat
BY DEF EventKinds, EventOrder, ImpactWeight, Abs

(* Among the cues of an article there is a strongest. *)
LEMMA ClassifiedIsKind ==
    ASSUME NEW cues, cues \subseteq EventKinds
    PROVE  ClassifyEvent(cues) \in EventKinds \cup {"none"}
<1>1. CASE cues = {}
  BY <1>1 DEF ClassifyEvent
<1>2. CASE cues # {}
  <2> DEFINE M == {Abs(ImpactWeight(e)) : e \in cues}
             strongest == {i \in DOMAIN EventOrder :
                              /\ EventOrder[i] \in cues
                              /\ \A e \in cues : Abs(ImpactWeight(e)) <=
                                                 Abs(ImpactWeight(EventOrder[i]))}
  <2>1. M \subseteq Nat /\ M # {}
    BY <1>2, WeightsAreInts
  <2>2. IsFiniteSet(M)
    <3>1. IsFiniteSet(EventKinds)
      BY TableIsFinite, ImageIsFinite, Zenon DEF EventKinds
    <3>2. IsFiniteSet(cues)
      BY <3>1, FS_Subset
    <3> DEFINE strength == [e \in cues |-> Abs(ImpactWeight(e))]
    <3>3. M = {strength[e] : e \in cues}
      OBVIOUS
    <3> HIDE DEF strength, M
    <3>4. QED
      BY <3>2, <3>3, ImageIsFinite
  <2>3. Max(M) \in M /\ \A y \in M : y <= Max(M)
    <3> HIDE DEF M
    <3>1. QED
      BY <2>1, <2>2, GreatestElement
  <2>4. PICK e \in cues : Max(M) = Abs(ImpactWeight(e))
    BY <2>3
  <2>5. \A d \in cues : Abs(ImpactWeight(d)) <= Abs(ImpactWeight(e))
    BY <2>3, <2>4
  <2>6. PICK i \in DOMAIN EventOrder : EventOrder[i] = e
    BY DEF EventKinds
  <2>7. i \in strongest
    BY <2>5, <2>6
  <2>8. strongest \subseteq 1..11
    BY TableIsFinite
  <2>9. ClassifyEvent(cues) = EventOrder[Min(strongest)]
    BY <1>2 DEF ClassifyEvent
  <2>10. Min(strongest) \in strongest
    <3> HIDE DEF strongest
    <3>1. QED
      BY <2>7, <2>8, FirstOfTable
  <2>11. QED
    BY <2>9, <2>10 DEF EventKinds
<1>3. QED
  BY <1>1, <1>2

LEMMA ClampIsWithin ==
    ASSUME NEW lo \in Int, NEW hi \in Int, lo <= hi, NEW e \in Int
    PROVE  Max({lo, Min({hi, e})}) \in lo..hi
<1>1. \E x \in {hi, e} : \A y \in {hi, e} : x <= y
  OBVIOUS
<1>2. Min({hi, e}) \in {hi, e} /\ Min({hi, e}) <= hi
  BY <1>1 DEF Min
<1>3. PICK n \in Int : n = Min({hi, e}) /\ n <= hi
  BY <1>2
<1>4. \E x \in {lo, n} : \A y \in {lo, n} : x >= y
  OBVIOUS
<1>5. Max({lo, n}) \in {lo, n} /\ Max({lo, n}) >= lo
  BY <1>4 DEF Max
<1>6. Max({lo, n}) \in lo..hi
  BY <1>3, <1>5
<1>7. QED
  BY <1>3, <1>6, Zenon

(* An impact is within the band of the clamp. *)
LEMMA ImpactIsWithin ==
    ASSUME NEW a \in Articles
    PROVE  Impact(a) \in Impacts
<1>1. ImpactWeight(ClassifyEvent(a.cues)) \in Int
  BY CuesAssumption, ClassifiedIsKind, WeightsAreInts DEF EventKinds
<1>2. Tone(a) \in Int
  <2>1. a.pos \in Nat /\ a.neg \in Nat
    BY NewsAssumption
  <2>2. QED
    BY <2>1 DEF Tone
<1> DEFINE lo == -6000
           hi == 6000
           e == 60 * ImpactWeight(ClassifyEvent(a.cues)) + 25 * Tone(a)
<1>3. e \in Int /\ lo \in Int /\ hi \in Int /\ lo <= hi
  BY <1>1, <1>2
<1>4. Impact(a) = Max({lo, Min({hi, e})})
  BY DEF Impact
<1> HIDE DEF e, lo, hi
<1>5. Impact(a) \in lo..hi
  BY <1>3, <1>4, ClampIsWithin
<1>6. lo..hi = Impacts
  BY DEF lo, hi, Impacts
<1>7. QED
  BY <1>5, <1>6, Zenon

(* With the invariants of the runs that fill the tables: what they read is   *)
(* of rows that are there, and an hour that will be done is one of the day.  *)
TablesInv ==
    /\ NewsTypeOK
    /\ \A r \in news : r[1] \in Articles
    /\ fetch # Idle => fetch.key \in 0..HourOf(LastTick)

NewsInv == IngestInv /\ LinksInv /\ RatingsInv /\ TablesInv

LEMMA HoursAreOfTheDay ==
    ASSUME NEW t \in 0..LastTick
    PROVE  HourOf(t) \in 0..HourOf(LastTick)
<1>1. t \in Nat /\ LastTick \in Nat /\ t <= LastTick
  BY NewsAssumption
<1>2. PICK k \in Nat \ {0}, h \in Nat, g \in Nat :
         k = TicksPerHour /\ h = HourOf(t) /\ g = HourOf(LastTick)
  BY <1>1, HourBounds
<1>3. k * h <= t /\ LastTick < k * g + k
  BY <1>1, <1>2, HourBounds
<1>4. k * h \in Int /\ k * g \in Int
  BY <1>2
<1>5. ~(g < h)
  <2> SUFFICES ASSUME g < h PROVE FALSE
    OBVIOUS
  <2>1. PICK d \in Nat : h = g + 1 + d
    <3>1. h - g - 1 \in Nat /\ h = g + 1 + (h - g - 1)
      OBVIOUS
    <3>2. QED
      BY <3>1
  <2>2. \A a, b, c \in Nat : a * (b + 1 + c) = a * b + a + a * c /\ a * c \in Nat
    OBVIOUS
  <2>3. k * h = k * g + k + k * d /\ k * d \in Nat
    BY <2>1, <2>2
  <2>4. QED
    BY <1>1, <1>3, <1>4, <2>3
<1>6. QED
  BY <1>2, <1>5

LEMMA MatchesAreStocks ==
    ASSUME NEW a, NEW cat, cat \subseteq Companies
    PROVE  MatchAll(a, cat) \subseteq StockIds
<1>1. \A p \in ByCore(cat) : \E c \in cat : p[2] = c.stock
  <2> TAKE p \in ByCore(cat)
  <2>1. PICK c \in cat :
            p \in {<<alias, c.stock>> : alias \in
                      {x \in NameAliases(c.name) :
                          \A d \in cat \ {c} : x \notin NameAliases(d.name)}}
    BY DEF ByCore
  <2>2. QED
    BY <2>1
<1>2. \A p \in BySymbol(cat) \cup ByIsin(cat) : \E c \in cat : p[2] = c.stock
  <2> TAKE p \in BySymbol(cat) \cup ByIsin(cat)
  <2>1. CASE p \in BySymbol(cat)
    <3>1. PICK c \in {c \in cat : c.symbol \in Tickers} : p = <<c.symbol, c.stock>>
      BY <2>1, Zenon DEF BySymbol
    <3>2. QED
      BY <3>1
  <2>2. CASE p \in ByIsin(cat)
    <3>1. PICK c \in {c \in cat : c.isin # ""} : p = <<c.isin, c.stock>>
      BY <2>2, Zenon DEF ByIsin
    <3>2. QED
      BY <3>1
  <2>3. QED
    BY <2>1, <2>2
<1>3. \A s \in MatchAll(a, cat) : \E p \in ByCore(cat) \cup BySymbol(cat) \cup ByIsin(cat) : s = p[2]
  BY DEF MatchAll
<1>4. QED
  BY <1>1, <1>2, <1>3 DEF StockIds

LEMMA TablesInvInit == NewsInit => TablesInv
<1> SUFFICES ASSUME NewsInit PROVE TablesInv
  OBVIOUS
<1>1. LastTick \in Nat
  BY NewsAssumption
<1>2. QED
  BY <1>1 DEF NewsInit, TablesInv, NewsTypeOK

(* A link that is in news, or twice in an answer, is not inserted again. *)
LEMMA FetchKeepsKeys ==
    ASSUME NewsInv, FetchFeed
    PROVE  TablesInv'
<1>1. /\ \A r, x \in news : r[1].url = x[1].url /\ r[1].url # NoUrl => r = x
      /\ \A r \in news : r[1] \in Articles
  BY DEF NewsInv, TablesInv, NewsTypeOK
<1>2. PICK as : /\ as \subseteq Articles
                /\ \A a, b \in as : a.url = b.url /\ a.url # NoUrl => a = b
                /\ news' = UpsertNews(as)
  BY DEF FetchFeed, Firsts, Offers
<1> DEFINE count == [a \in as |-> 1 + Cardinality(Stored(a))]
<1>3. ASSUME NEW r \in news', r \notin news
      PROVE  \E a \in as : /\ r = <<a, count[a]>> /\ r[1] = a
                           /\ a.url = NoUrl \/ \A x \in news : x[1].url # a.url
  <2>1. PICK a \in {a \in as : a.url = NoUrl \/ \A x \in news : x[1].url # a.url} :
            r = <<a, 1 + Cardinality(Stored(a))>>
    BY <1>2, <1>3, Zenon DEF UpsertNews
  <2>2. a \in as /\ (a.url = NoUrl \/ \A x \in news : x[1].url # a.url)
    OBVIOUS
  <2>3. count[a] = 1 + Cardinality(Stored(a))
    BY <2>2
  <2> HIDE DEF count
  <2>4. r = <<a, count[a]>>
    BY <2>1, <2>3, Zenon
  <2>5. r[1] = a
    BY <2>4
  <2>6. QED
    BY <2>2, <2>4, <2>5
<1> HIDE DEF count
<1>4. \A r \in news' : r[1] \in Articles
  <2> SUFFICES ASSUME NEW r \in news', r \notin news PROVE r[1] \in Articles
    BY <1>1, Zenon
  <2>1. \E a \in as : r[1] = a
    BY <1>3, Zenon
  <2>2. QED
    BY <1>2, <2>1
<1>5. ASSUME NEW r \in news', NEW x \in news', r[1].url = x[1].url, r[1].url # NoUrl
      PROVE  r = x
  <2>1. CASE r \in news /\ x \in news
    BY <1>1, <1>5, <2>1
  <2>2. CASE r \in news /\ x \notin news
    BY <1>3, <1>5, <2>2
  <2>3. CASE r \notin news /\ x \in news
    BY <1>3, <1>5, <2>3
  <2>4. CASE r \notin news /\ x \notin news
    <3>1. PICK a \in as : r = <<a, count[a]>> /\ r[1] = a
      BY <1>3, <2>4
    <3>2. PICK b \in as : x = <<b, count[b]>> /\ x[1] = b
      BY <1>3, <2>4
    <3>3. a = b
      BY <1>2, <1>5, <3>1, <3>2
    <3>4. QED
      BY <3>1, <3>2, <3>3
  <2>5. QED
    BY <2>1, <2>2, <2>3, <2>4
<1>6. /\ news \subseteq news' /\ fetch # Idle /\ fetch' = [fetch EXCEPT !.left = Tail(@)]
      /\ UNCHANGED <<clock, hours, tagged, links, ratings>>
  BY FetchCovers DEF FetchFeed, tagVars, scoreVars
<1>7. fetch'.key = fetch.key
  BY <1>6 DEF NewsInv, IngestInv, FetchInv
<1>8. NewsTypeOK'
  <2>1. NewsTypeOK
    BY DEF NewsInv, TablesInv
  <2>2. /\ tagged' \subseteq news' \X SUBSET Companies /\ links' \subseteq news' \X StockIds
        /\ \A x \in ratings' : x.row \in news' /\ x.impact \in Impacts
    BY <1>6, <2>1 DEF NewsTypeOK
  <2>3. QED
    BY <1>5, <1>6, <2>1, <2>2 DEF NewsTypeOK
<1>9. QED
  BY <1>4, <1>6, <1>7, <1>8 DEF NewsInv, TablesInv

LEMMA CommitTagKeepsKeys ==
    ASSUME NewsInv, NEW w \in Taggers, CommitTag(w)
    PROVE  TablesInv'
<1>1. PICK run : run = tagrun[w]
  OBVIOUS
<1>2. /\ run.rows \subseteq news /\ run.cat \subseteq Companies
      /\ tagrun[w] # Idle
  BY <1>1 DEF CommitTag, NewsInv, LinksInv
<1>3. /\ links' = links \cup UNION {{r} \X MatchAll(r[1], run.cat) : r \in run.rows}
      /\ tagged' = tagged \cup (run.rows \X {run.cat})
      /\ UNCHANGED <<clock, news, fetch, hours, ratings>>
  BY <1>1 DEF CommitTag, ingestVars, scoreVars
<1>4. NewsTypeOK
  BY DEF NewsInv, TablesInv
<1>5. tagged' \subseteq news \X SUBSET Companies
  BY <1>2, <1>3, <1>4 DEF NewsTypeOK
<1>6. links' \subseteq news \X StockIds
  BY <1>2, <1>3, <1>4, MatchesAreStocks DEF NewsTypeOK
<1>7. NewsTypeOK'
  BY <1>3, <1>4, <1>5, <1>6 DEF NewsTypeOK
<1>8. QED
  BY <1>3, <1>7 DEF NewsInv, TablesInv

LEMMA ScoreBatchKeepsKeys ==
    ASSUME NewsInv, NEW w \in Scorers, ScoreBatch(w)
    PROVE  TablesInv'
<1>1. PICK m, rows : m = scorerun[w].model /\ rows = scorerun[w].rows
  OBVIOUS
<1>2. PICK chunk : /\ chunk \subseteq rows
                   /\ ratings' = {x \in ratings : ~(x.row \in chunk /\ x.model = m)} \cup
                        {[row |-> r, model |-> m, impact |-> Impact(r[1]), at |-> clock]
                            : r \in chunk}
  BY <1>1 DEF ScoreBatch, kSubset
<1>3. UNCHANGED <<clock, news, fetch, hours, tagged, links>> /\ scorerun[w] # Idle
  BY DEF ScoreBatch, ingestVars, tagVars
<1>4. rows \subseteq news
  BY <1>1, <1>3 DEF NewsInv, RatingsInv, ScoreRuns
<1>5. NewsTypeOK /\ \A r \in news : r[1] \in Articles
  BY DEF NewsInv, TablesInv
<1>6. ASSUME NEW x \in ratings'
      PROVE  \/ x \in ratings /\ ~(x.row \in chunk /\ x.model = m)
             \/ \E r \in chunk : x = [row |-> r, model |-> m, impact |-> Impact(r[1]), at |-> clock]
  BY <1>2
<1>7. \A x \in ratings' : x.row \in news /\ x.impact \in Impacts
  <2> TAKE x \in ratings'
  <2>1. CASE x \in ratings
    BY <1>5, <2>1 DEF NewsTypeOK
  <2>2. ASSUME NEW r \in chunk,
               x = [row |-> r, model |-> m, impact |-> Impact(r[1]), at |-> clock]
        PROVE  x.row \in news /\ x.impact \in Impacts
    <3>1. r \in news /\ r[1] \in Articles
      BY <1>2, <1>4, <1>5
    <3>2. x.row = r /\ x.impact = Impact(r[1])
      BY <2>2
    <3>3. QED
      BY <3>1, <3>2, ImpactIsWithin
  <2>3. QED
    BY <1>6, <2>1, <2>2
<1>8. \A x, y \in ratings' : x.row = y.row /\ x.model = y.model => x = y
  <2>1. \A x, y \in ratings : x.row = y.row /\ x.model = y.model => x = y
    BY <1>5 DEF NewsTypeOK
  <2>2. QED
    BY <1>6, <2>1
<1>9. NewsTypeOK'
  BY <1>3, <1>5, <1>7, <1>8 DEF NewsTypeOK
<1>10. QED
  BY <1>3, <1>5, <1>9 DEF NewsInv, TablesInv

LEMMA TablesInvNext == NewsInv /\ [NewsNext]_newsVars => TablesInv'
<1> SUFFICES ASSUME NewsInv, [NewsNext]_newsVars PROVE TablesInv'
  OBVIOUS
<1>1. /\ TablesInv /\ NewsTypeOK /\ clock \in 0..LastTick /\ LastTick \in Nat
      /\ hours \subseteq 0..HourOf(LastTick)
      /\ fetch # Idle => fetch.key \in 0..HourOf(LastTick)
  BY NewsAssumption DEF NewsInv, TablesInv, NewsTypeOK
<1>2. ASSUME UNCHANGED <<news, tagged, links, ratings>>, clock' \in 0..LastTick,
             hours' \subseteq 0..HourOf(LastTick),
             fetch' # Idle => fetch'.key \in 0..HourOf(LastTick)
      PROVE  TablesInv'
  <2>1. NewsTypeOK'
    BY <1>1, <1>2 DEF NewsTypeOK
  <2>2. QED
    BY <1>1, <1>2, <2>1 DEF TablesInv
<1>3. CASE Tick
  <2>1. clock' \in 0..LastTick
    BY <1>1, <1>3 DEF Tick
  <2>2. QED
    BY <1>1, <1>2, <1>3, <2>1 DEF Tick, ingestVars, tagVars, scoreVars
<1>4. CASE StartFetch
  <2>1. fetch'.key \in 0..HourOf(LastTick)
    BY <1>1, <1>4, HoursAreOfTheDay DEF StartFetch
  <2>2. QED
    BY <1>1, <1>2, <1>4, <2>1 DEF StartFetch, tagVars, scoreVars
<1>5. CASE FetchFails
  <2>1. fetch'.key = fetch.key
    BY <1>5 DEF FetchFails, NewsInv, IngestInv, FetchInv
  <2>2. QED
    BY <1>1, <1>2, <1>5, <2>1 DEF FetchFails, tagVars, scoreVars
<1>6. CASE EndFetch
  BY <1>1, <1>2, <1>6 DEF EndFetch, tagVars, scoreVars
<1>7. CASE CrashFetch
  BY <1>1, <1>2, <1>7 DEF CrashFetch, tagVars, scoreVars
<1>8. CASE ListStock
  BY <1>1, <1>2, <1>8 DEF ListStock, ingestVars, scoreVars
<1>9. ASSUME NEW w \in Taggers, StartTag(w) \/ CrashTag(w) PROVE TablesInv'
  BY <1>1, <1>2, <1>9 DEF StartTag, CrashTag, ingestVars, scoreVars
<1>10. ASSUME NEW w \in Scorers, NEW m \in Models,
              StartScore(w, m) \/ EndScore(w) \/ CrashScore(w)
       PROVE  TablesInv'
  BY <1>1, <1>2, <1>10 DEF StartScore, EndScore, CrashScore, ingestVars, tagVars
<1>11. ASSUME NEW w \in Scorers, EndScore(w) \/ CrashScore(w) PROVE TablesInv'
  BY <1>1, <1>2, <1>11 DEF EndScore, CrashScore, ingestVars, tagVars
<1>12. CASE UNCHANGED newsVars
  BY <1>1, <1>2, <1>12 DEF newsVars
<1>13. QED
  BY <1>3, <1>4, <1>5, <1>6, <1>7, <1>8, <1>9, <1>10, <1>11, <1>12,
     FetchKeepsKeys, CommitTagKeepsKeys, ScoreBatchKeepsKeys DEF NewsNext

LEMMA NewsInvIsInvariant == NewsSpec => []NewsInv
<1>1. NewsInit => NewsInv
  BY IngestInvInit, LinksInvInit, RatingsInvInit, TablesInvInit DEF NewsInv
<1>2. NewsInv /\ [NewsNext]_newsVars => NewsInv'
  BY IngestInvNext, LinksInvNext, RatingsInvNext, TablesInvNext DEF NewsInv
<1>3. QED
  BY <1>1, <1>2, PTL DEF NewsSpec

(* The news tables stay keyed as the migrations key them, though no lock is  *)
(* held between reading a work list and writing: a link is stored once,      *)
(* whichever feeds and answers repeat it, a row has one rating per model,    *)
(* however runs of it overlap, and an impact is within the clamp's band; for *)
(* any articles, feeds, catalogue, taggers and scorers.                      *)
THEOREM TablesAreAlwaysKeyed == NewsSpec => []NewsTypeOK
<1>1. NewsInv => NewsTypeOK
  BY DEF NewsInv, TablesInv
<1>2. QED
  BY <1>1, NewsInvIsInvariant, PTL
===============================================================================
