----------------------------- MODULE BacktestsProofs -----------------------------
(***************************************************************************)
(* Proofs about Backtests, for any set of runs and workers and any bounds: *)
(* the four records of a run agree, a result is committed at most once,    *)
(* and what tenants observe is BacktestLifecycle.                          *)
(***************************************************************************)
EXTENDS Backtests, TLAPS

Labels == {"claim", "mark", "engine", "commit", "return", "fail"}

(* The inductive invariant.  Tasks exist only for submitted rows, and        *)
(* "running" is never committed.                                             *)
TasksAreKnown ==
    /\ \A b \in Backtests : status[b] # "running"
    /\ \A b \in pending : status[b] # "none"
    /\ \A m \in Msgs : queue[m] > 0 => status[m.id] # "none"
    /\ \A w \in Workers : ~At(w, "idle") => status[Id(w)] # "none"

(* A transaction that has the row found it queued, and it still is.          *)
HeldRowIsQueued ==
    \A w \in Workers :
        /\ job[w].pc \in {"engine", "commit"} => status[Id(w)] = "queued"
        /\ At(w, "commit") => job[w].outcome \in Terminal

(* A run that may still be claimed has no result yet.                        *)
ClaimableIsNew ==
    \A b \in Backtests : status[b] \in {"none", "queued"} => computed[b] = 0

(* A task returns only once its run is finished or gone.                     *)
ReturnedIsDone ==
    \A w \in Workers : At(w, "return") => status[Id(w)] \in Terminal \cup {"deleted"}

RowInv == LockIsOwned /\ TasksAreKnown /\ HeldRowIsQueued
ResultInv == ComputedAtMostOnce /\ ClaimableIsNew /\ ReturnedIsDone /\ LedgerAgrees

IndInv == TypeOK /\ RowInv /\ ResultInv /\ QueuedHasTask

-----------------------------------------------------------------------------
(* Lemmas about the operators of the model *)

LEMMA BusyJob ==
    ASSUME TypeOK, NEW w \in Workers, ~At(w, "idle")
    PROVE  /\ job[w] \in Jobs /\ job[w].pc \in Labels
           /\ job[w].msg \in Msgs /\ Id(w) \in Backtests
           /\ job[w].msg.retries \in 0..MaxRetries
BY DEF TypeOK, At, Idle, Jobs, Msgs, Id, Labels

LEMMA IdleIsNoJob == Idle \notin Jobs /\ Idle.pc = "idle"
BY DEF Idle, Jobs

(* Only the program counter of one worker moves. *)
LEMMA StepMoves ==
    ASSUME TypeOK, NEW w \in Workers, ~At(w, "idle"), NEW l \in Labels, Step(w, l)
    PROVE  /\ job' \in [Workers -> Jobs \cup {Idle}]
           /\ job'[w].pc = l /\ job'[w].msg = job[w].msg
           /\ job'[w].outcome = job[w].outcome
           /\ \A v \in Workers \ {w} : job'[v] = job[v]
<1>1. job[w] \in Jobs
  BY BusyJob
<1>2. [job[w] EXCEPT !.pc = l] \in Jobs
  BY <1>1 DEF Jobs, Labels
<1>3. QED
  BY <1>1, <1>2 DEF Step, TypeOK, Jobs

LEMMA GoesIdle ==
    ASSUME TypeOK, NEW w \in Workers, job' = [job EXCEPT ![w] = Idle]
    PROVE  /\ job' \in [Workers -> Jobs \cup {Idle}]
           /\ job'[w].pc = "idle"
           /\ \A v \in Workers \ {w} : job'[v] = job[v]
BY DEF TypeOK, Idle

LEMMA PutAdds ==
    ASSUME TypeOK, NEW m \in Msgs, Put(m)
    PROVE  /\ queue' \in [Msgs -> Nat] /\ queue'[m] > 0
           /\ \A n \in Msgs : queue[n] > 0 => queue'[n] > 0
           /\ \A n \in Msgs \ {m} : queue'[n] = queue[n]
BY DEF TypeOK, Put

LEMMA RetriedMsg ==
    ASSUME NEW m \in Msgs, m.retries < MaxRetries
    PROVE  /\ [m EXCEPT !.retries = @ + 1] \in Msgs
           /\ [m EXCEPT !.retries = @ + 1].id = m.id
BY BoundsAssumption DEF Msgs

LEMMA SpendType ==
    ASSUME TypeOK, NEW b \in DOMAIN Bounds, Spend(b)
    PROVE  /\ DOMAIN used' = DOMAIN Bounds
           /\ \A c \in DOMAIN Bounds : used'[c] \in 0..Bounds[c] /\ used'[c] >= used[c]
<1>1. \A c \in DOMAIN Bounds : Bounds[c] \in Nat
  BY BoundsAssumption DEF Bounds
<1>2. QED
  BY <1>1 DEF TypeOK, Spend

LEMMA UnlockedType ==
    ASSUME TypeOK, NEW w \in Workers
    PROVE  /\ Unlocked(w) \in [Backtests -> Workers \cup {NoOne}]
           /\ \A b \in Backtests, v \in Workers :
                 Unlocked(w)[b] = v <=> (v # w /\ lock[b] = v)
BY NoOneAssumption DEF Unlocked, TypeOK

(* A failed task is put back for a retry, or gives up. *)
LEMMA FailMoves ==
    ASSUME TypeOK, NEW w \in Workers, Fail(w)
    PROVE  /\ job'[w].pc = "idle" /\ \A v \in Workers \ {w} : job'[v] = job[v]
           /\ \A m \in Msgs : queue'[m] > 0 => queue[m] > 0 \/ m.id = Id(w)
           /\ \A m \in Msgs : queue[m] > 0 => queue'[m] > 0
           /\ (\E m \in Msgs : m.id = Id(w) /\ queue'[m] > 0) \/ Id(w) \in gaveUp'
           /\ gaveUp \subseteq gaveUp'
<1>1. job'[w].pc = "idle" /\ \A v \in Workers \ {w} : job'[v] = job[v]
  BY GoesIdle DEF Fail
<1>2. job[w].msg \in Msgs /\ job[w].msg.id = Id(w)
  BY BusyJob DEF Fail, At, Id
<1>3. CASE /\ job[w].msg.retries < MaxRetries
           /\ Put([job[w].msg EXCEPT !.retries = @ + 1])
           /\ UNCHANGED gaveUp
  <2>1. DEFINE again == [job[w].msg EXCEPT !.retries = @ + 1]
  <2>2. again \in Msgs /\ again.id = Id(w)
    BY <1>2, <1>3, RetriedMsg
  <2>3. queue'[again] > 0 /\ (\A n \in Msgs : queue[n] > 0 => queue'[n] > 0)
    BY <1>3, <2>2, PutAdds
  <2>4. \A n \in Msgs \ {again} : queue'[n] = queue[n]
    BY <1>3, <2>2, PutAdds
  <2>5. QED
    BY <1>1, <1>3, <2>2, <2>3, <2>4
<1>4. CASE gaveUp' = gaveUp \cup {Id(w)} /\ UNCHANGED queue
  BY <1>1, <1>4
<1>5. QED
  BY <1>3, <1>4 DEF Fail

LEMMA ComputeMoves ==
    ASSUME TypeOK, NEW w \in Workers, Compute(w)
    PROVE  /\ job'[w].pc = "commit" /\ job'[w].msg = job[w].msg
           /\ job'[w].outcome \in Terminal
           /\ \A v \in Workers \ {w} : job'[v] = job[v]
           /\ job[w].pc = "engine"
           /\ UNCHANGED <<status, lock, pending, queue, ledger, computed, gaveUp, used>>
<1>1. job[w] \in Jobs
  BY BusyJob DEF Compute, At
<1>2. QED
  BY <1>1 DEF Compute, TypeOK, Jobs, rows, At

-----------------------------------------------------------------------------
LEMMA TypeInit == Init => TypeOK
<1>1. \A c \in DOMAIN Bounds : Bounds[c] \in Nat
  BY BoundsAssumption DEF Bounds
<1>2. QED
  BY <1>1 DEF Init, TypeOK, Status, LedgerStatus

LEMMA TypeNext == TypeOK /\ [Next]_vars => TypeOK'
<1> SUFFICES ASSUME TypeOK, [Next]_vars PROVE TypeOK'
  OBVIOUS
<1> USE DEF rows
<1>1. ASSUME NEW b \in Backtests, SubmitCommit(b) PROVE TypeOK'
  BY <1>1 DEF SubmitCommit, TypeOK, Status
<1>2. ASSUME NEW b \in Backtests, SubmitEnqueue(b) PROVE TypeOK'
  <2>1. [id |-> b, retries |-> 0] \in Msgs
    BY BoundsAssumption DEF Msgs
  <2>2. QED
    BY <1>2, <2>1, PutAdds DEF SubmitEnqueue, TypeOK
<1>3. ASSUME NEW b \in Backtests, SubmitLost(b) PROVE TypeOK'
  BY <1>3, SpendType DEF SubmitLost, TypeOK, Bounds
<1>4. ASSUME NEW b \in Backtests, Delete(b) PROVE TypeOK'
  BY <1>4 DEF Delete, TypeOK, Status
<1>5. ASSUME NEW w \in Workers, NEW m \in Msgs, Receive(w, m) PROVE TypeOK'
  <2>1. [pc |-> "claim", msg |-> m, outcome |-> "none"] \in Jobs
    BY DEF Jobs
  <2>2. QED
    BY <1>5, <2>1 DEF Receive, TypeOK
<1>6. ASSUME NEW w \in Workers, WorkerStep(w) PROVE TypeOK'
  <2>0. ~At(w, "idle") /\ job[w] \in Jobs /\ Id(w) \in Backtests
    <3>1. ~At(w, "idle")
      BY <1>6 DEF WorkerStep, Claim, Skip, Succeed, Fail, MarkRunning, NotQueued,
                  Compute, Commit, DbError, At
    <3>2. QED
      BY <3>1, BusyJob
  <2>1. CASE Claim(w)
    BY <2>0, <2>1, StepMoves DEF Claim, TypeOK, LedgerStatus, Labels
  <2>2. CASE Skip(w)
    BY <2>2, GoesIdle DEF Skip, TypeOK
  <2>3. CASE Succeed(w)
    BY <2>0, <2>3, GoesIdle DEF Succeed, TypeOK, LedgerStatus
  <2>4. CASE Fail(w)
    <3>1. ledger' \in [Backtests -> LedgerStatus]
      BY <2>0, <2>4 DEF Fail, TypeOK, LedgerStatus
    <3>2. queue' \in [Msgs -> Nat] /\ gaveUp' \subseteq Backtests
      BY <2>0, <2>4, BusyJob, RetriedMsg, PutAdds DEF Fail, TypeOK
    <3>3. QED
      BY <2>4, <3>1, <3>2, GoesIdle DEF Fail, TypeOK
  <2>5. CASE MarkRunning(w)
    <3>1. [job[w] EXCEPT !.pc = "engine", !.outcome = "running"] \in Jobs
      BY <2>0 DEF Jobs
    <3>2. QED
      BY <2>0, <2>5, <3>1 DEF MarkRunning, TypeOK
  <2>6. CASE NotQueued(w)
    BY <2>0, <2>6, StepMoves DEF NotQueued, TypeOK, Labels
  <2>7. CASE Compute(w)
    <3>1. \A s \in Terminal : [job[w] EXCEPT !.pc = "commit", !.outcome = s] \in Jobs
      BY <2>0 DEF Jobs
    <3>2. QED
      BY <2>0, <2>7, <3>1 DEF Compute, TypeOK
  <2>8. CASE Commit(w)
    <3>1. status' \in [Backtests -> Status]
      BY <2>0, <2>8 DEF Commit, TypeOK, Jobs, Status
    <3>2. computed' \in [Backtests -> Nat]
      BY <2>0, <2>8 DEF Commit, TypeOK
    <3>3. QED
      BY <2>0, <2>8, <3>1, <3>2, StepMoves, UnlockedType DEF Commit, TypeOK, Labels
  <2>9. CASE DbError(w)
    BY <2>0, <2>9, StepMoves, UnlockedType, SpendType DEF DbError, TypeOK, Labels, Bounds
  <2>10. QED
    BY <1>6, <2>1, <2>2, <2>3, <2>4, <2>5, <2>6, <2>7, <2>8, <2>9 DEF WorkerStep
<1>7. ASSUME NEW w \in Workers, Crash(w) PROVE TypeOK'
  BY <1>7, BusyJob, PutAdds, GoesIdle, UnlockedType, SpendType DEF Crash, TypeOK, Bounds
<1>8. ASSUME NEW w \in Workers, VisibilityTimeout(w) PROVE TypeOK'
  BY <1>8, BusyJob, PutAdds, SpendType DEF VisibilityTimeout, TypeOK, Bounds
<1>9. CASE UNCHANGED vars
  BY <1>9 DEF vars, TypeOK
<1>10. QED
  BY <1>1, <1>2, <1>3, <1>4, <1>5, <1>6, <1>7, <1>8, <1>9 DEF Next

(* Every variable keeps its type. *)
THEOREM TypeCorrect == Spec => []TypeOK
<1>1. QED
  BY TypeInit, TypeNext, PTL DEF Spec

-----------------------------------------------------------------------------
(* Rows, locks and tasks.  The row of an open transaction cannot change:     *)
(* Delete waits for its lock, SubmitCommit needs a new id, and two           *)
(* transactions never hold one row.                                          *)
LEMMA RowNext == TypeOK /\ RowInv /\ [Next]_vars => RowInv'
<1> SUFFICES ASSUME TypeOK, RowInv, [Next]_vars PROVE RowInv'
  OBVIOUS
<1> USE DEF RowInv, LockIsOwned, TasksAreKnown, HeldRowIsQueued, rows, Id, At
<1>1. ASSUME NEW b \in Backtests, SubmitCommit(b) PROVE RowInv'
  BY <1>1 DEF SubmitCommit, TypeOK
<1>2. ASSUME NEW b \in Backtests, SubmitEnqueue(b) PROVE RowInv'
  <2>1. [id |-> b, retries |-> 0] \in Msgs
    BY BoundsAssumption DEF Msgs
  <2>2. QED
    BY <1>2, <2>1, PutAdds DEF SubmitEnqueue, TypeOK
<1>3. ASSUME NEW b \in Backtests, SubmitLost(b) PROVE RowInv'
  BY <1>3 DEF SubmitLost
<1>4. ASSUME NEW b \in Backtests, Delete(b) PROVE RowInv'
  <2>1. \A w \in Workers : job[w].pc \in {"engine", "commit"} => Id(w) # b
    BY <1>4, NoOneAssumption DEF Delete, TypeOK
  <2>2. QED
    BY <1>4, <2>1 DEF Delete, TypeOK
<1>5. ASSUME NEW w \in Workers, NEW m \in Msgs, Receive(w, m) PROVE RowInv'
  <2>1. /\ job'[w] = [pc |-> "claim", msg |-> m, outcome |-> "none"]
        /\ \A v \in Workers \ {w} : job'[v] = job[v]
    BY <1>5 DEF Receive, TypeOK
  <2>2. \A n \in Msgs : queue'[n] > 0 => queue[n] > 0
    BY <1>5 DEF Receive, TypeOK
  <2>3. QED
    BY <1>5, <2>1, <2>2 DEF Receive, TypeOK
<1>6. ASSUME NEW w \in Workers, WorkerStep(w) PROVE RowInv'
  <2>0. ~At(w, "idle") /\ job[w] \in Jobs /\ Id(w) \in Backtests
    <3>1. ~At(w, "idle")
      BY <1>6 DEF WorkerStep, Claim, Skip, Succeed, Fail, MarkRunning, NotQueued,
                  Compute, Commit, DbError
    <3>2. QED
      BY <3>1, BusyJob
  <2>1. CASE Claim(w)
    BY <2>0, <2>1, StepMoves DEF Claim, Labels
  <2>2. CASE Skip(w)
    <3>1. job'[w].pc = "idle" /\ \A v \in Workers \ {w} : job'[v] = job[v]
      BY <2>2, GoesIdle DEF Skip
    <3>2. QED
      BY <2>2, <3>1 DEF Skip
  <2>3. CASE Succeed(w)
    <3>1. job'[w].pc = "idle" /\ \A v \in Workers \ {w} : job'[v] = job[v]
      BY <2>3, GoesIdle DEF Succeed
    <3>2. QED
      BY <2>3, <3>1 DEF Succeed
  <2>4. CASE Fail(w)
    <3>1. /\ job'[w].pc = "idle" /\ \A v \in Workers \ {w} : job'[v] = job[v]
          /\ \A m \in Msgs : queue'[m] > 0 => queue[m] > 0 \/ m.id = Id(w)
      BY <2>4, FailMoves
    <3>2. UNCHANGED <<status, lock, pending>> /\ job[w].pc = "fail"
      BY <2>4 DEF Fail
    <3>3. QED
      BY <2>0, <3>1, <3>2
  <2>5. CASE MarkRunning(w)
    <3>1. /\ job'[w].pc = "engine" /\ job'[w].msg = job[w].msg
          /\ \A v \in Workers \ {w} : job'[v] = job[v]
      BY <2>0, <2>5 DEF MarkRunning, TypeOK, Jobs
    <3>2. \A v \in Workers : lock[Id(w)] # v
      BY <2>5, NoOneAssumption DEF MarkRunning
    <3>3. QED
      BY <2>0, <2>5, <3>1, <3>2 DEF MarkRunning, Claimable, TypeOK
  <2>6. CASE NotQueued(w)
    BY <2>0, <2>6, StepMoves DEF NotQueued, Labels
  <2>7. CASE Compute(w)
    BY <2>0, <2>7, ComputeMoves
  <2>8. CASE Commit(w)
    <3>1. /\ job'[w].pc = "return" /\ job'[w].msg = job[w].msg
          /\ \A v \in Workers \ {w} : job'[v] = job[v]
      BY <2>0, <2>8, StepMoves DEF Commit, Labels
    <3>2. \A v \in Workers \ {w} : job[v].pc \in {"engine", "commit"} => Id(v) # Id(w)
      BY <2>0, <2>8 DEF Commit
    <3>3. status' = [status EXCEPT ![Id(w)] = job[w].outcome] /\ job[w].outcome \in Terminal
      BY <2>8 DEF Commit
    <3>4. LockIsOwned'
      BY <2>0, <2>8, <3>1, <3>2, UnlockedType DEF Commit
    <3>5. HeldRowIsQueued'
      BY <2>0, <2>8, <3>1, <3>2, <3>3, BusyJob DEF Commit, TypeOK
    <3>6. TasksAreKnown'
      BY <2>0, <2>8, <3>1, <3>3 DEF Commit, TypeOK, Terminal, Msgs
    <3>7. QED
      BY <3>4, <3>5, <3>6
  <2>9. CASE DbError(w)
    BY <2>0, <2>9, StepMoves, UnlockedType DEF DbError, Labels
  <2>10. QED
    BY <1>6, <2>1, <2>2, <2>3, <2>4, <2>5, <2>6, <2>7, <2>8, <2>9 DEF WorkerStep
<1>7. ASSUME NEW w \in Workers, Crash(w) PROVE RowInv'
  <2>1. job[w].msg \in Msgs /\ \A n \in Msgs : queue'[n] > 0 => queue[n] > 0 \/ n = job[w].msg
    BY <1>7, BusyJob, PutAdds DEF Crash
  <2>2. job'[w].pc = "idle" /\ \A v \in Workers \ {w} : job'[v] = job[v]
    BY <1>7, GoesIdle DEF Crash
  <2>3. QED
    BY <1>7, <2>1, <2>2, UnlockedType DEF Crash
<1>8. ASSUME NEW w \in Workers, VisibilityTimeout(w) PROVE RowInv'
  BY <1>8, BusyJob, PutAdds DEF VisibilityTimeout
<1>9. CASE UNCHANGED vars
  BY <1>9 DEF vars
<1>10. QED
  BY <1>1, <1>2, <1>3, <1>4, <1>5, <1>6, <1>7, <1>8, <1>9 DEF Next

(* Results.  A commit finds its run without a result, because the row is     *)
(* still queued, and leaves it terminal.                                     *)
LEMMA ResultNext == TypeOK /\ RowInv /\ ResultInv /\ [Next]_vars => ResultInv'
<1> SUFFICES ASSUME TypeOK, RowInv, ResultInv, [Next]_vars PROVE ResultInv'
  OBVIOUS
<1> USE DEF ResultInv, ComputedAtMostOnce, ClaimableIsNew, ReturnedIsDone, LedgerAgrees,
            rows, Id, At
<1>1. ASSUME NEW b \in Backtests, SubmitCommit(b) PROVE ResultInv'
  BY <1>1 DEF SubmitCommit, TypeOK, Terminal
<1>2. ASSUME NEW b \in Backtests, SubmitEnqueue(b) \/ SubmitLost(b) PROVE ResultInv'
  BY <1>2 DEF SubmitEnqueue, SubmitLost
<1>3. ASSUME NEW b \in Backtests, Delete(b) PROVE ResultInv'
  BY <1>3 DEF Delete, TypeOK
<1>4. ASSUME NEW w \in Workers, NEW m \in Msgs, Receive(w, m) PROVE ResultInv'
  BY <1>4 DEF Receive, TypeOK
<1>5. ASSUME NEW w \in Workers, WorkerStep(w) PROVE ResultInv'
  <2>0. ~At(w, "idle") /\ job[w] \in Jobs /\ Id(w) \in Backtests
    <3>1. ~At(w, "idle")
      BY <1>5 DEF WorkerStep, Claim, Skip, Succeed, Fail, MarkRunning, NotQueued,
                  Compute, Commit, DbError
    <3>2. QED
      BY <3>1, BusyJob
  <2>1. CASE Claim(w)
    BY <2>0, <2>1, StepMoves DEF Claim, TypeOK, Labels
  <2>2. CASE Skip(w)
    BY <2>0, <2>2, GoesIdle DEF Skip
  <2>3. CASE Succeed(w)
    <3>1. job'[w].pc = "idle" /\ \A v \in Workers \ {w} : job'[v] = job[v]
      BY <2>3, GoesIdle DEF Succeed
    <3>2. /\ status' = status /\ computed' = computed
          /\ ledger' = [ledger EXCEPT ![Id(w)] = "succeeded"]
      BY <2>3 DEF Succeed
    <3>3. At(w, "return")
      BY <2>3 DEF Succeed
    <3>4. QED
      BY <2>0, <3>1, <3>2, <3>3 DEF TypeOK
  <2>4. CASE Fail(w)
    <3>1. job'[w].pc = "idle" /\ \A v \in Workers \ {w} : job'[v] = job[v]
      BY <2>4, GoesIdle DEF Fail
    <3>2. status' = status /\ computed' = computed /\ ledger' = [ledger EXCEPT ![Id(w)] = "failed"]
      BY <2>4 DEF Fail
    <3>3. QED
      BY <2>0, <3>1, <3>2 DEF TypeOK
  <2>5. CASE MarkRunning(w)
    BY <2>0, <2>5 DEF MarkRunning, TypeOK
  <2>6. CASE NotQueued(w)
    <3>1. status[Id(w)] \in Terminal \cup {"deleted"}
      BY <2>0, <2>6 DEF NotQueued, Claimable, RowInv, TasksAreKnown, TypeOK, Status
    <3>2. QED
      BY <2>0, <2>6, <3>1, StepMoves DEF NotQueued, Labels
  <2>7. CASE Compute(w)
    BY <2>0, <2>7 DEF Compute, TypeOK
  <2>8. CASE Commit(w)
    <3>1. status[Id(w)] = "queued" /\ job[w].outcome \in Terminal
      BY <2>8 DEF Commit, RowInv, HeldRowIsQueued
    <3>2. computed[Id(w)] = 0
      BY <2>0, <3>1
    <3>3. /\ status' = [status EXCEPT ![Id(w)] = job[w].outcome]
          /\ computed' = [computed EXCEPT ![Id(w)] = @ + 1]
      BY <2>8 DEF Commit
    <3>4. /\ job'[w].pc = "return" /\ job'[w].msg = job[w].msg
          /\ \A v \in Workers \ {w} : job'[v] = job[v]
      BY <2>0, <2>8, StepMoves DEF Commit, Labels
    <3>5. ComputedAtMostOnce' /\ ClaimableIsNew'
      BY <2>0, <3>1, <3>2, <3>3 DEF TypeOK, Terminal
    <3>6. ReturnedIsDone'
      BY <2>0, <3>1, <3>3, <3>4, BusyJob DEF TypeOK
    <3>7. LedgerAgrees'
      BY <2>0, <2>8, <3>1, <3>3 DEF Commit, TypeOK
    <3>8. QED
      BY <3>5, <3>6, <3>7
  <2>9. CASE DbError(w)
    BY <2>0, <2>9, StepMoves DEF DbError, Labels
  <2>10. QED
    BY <1>5, <2>1, <2>2, <2>3, <2>4, <2>5, <2>6, <2>7, <2>8, <2>9 DEF WorkerStep
<1>6. ASSUME NEW w \in Workers, Crash(w) PROVE ResultInv'
  BY <1>6, GoesIdle DEF Crash
<1>7. ASSUME NEW w \in Workers, VisibilityTimeout(w) PROVE ResultInv'
  BY <1>7 DEF VisibilityTimeout
<1>8. CASE UNCHANGED vars
  BY <1>8 DEF vars
<1>9. QED
  BY <1>1, <1>2, <1>3, <1>4, <1>5, <1>6, <1>7, <1>8 DEF Next

-----------------------------------------------------------------------------
(* A task on its way stays so, gives up, or ends with its run out of the     *)
(* queue; only a lost submission lets one disappear.                         *)
LEMMA OutstandingKept ==
    ASSUME TypeOK, RowInv, ResultInv, [Next]_vars,
           NEW b \in Backtests, Outstanding(b), status[b] = "queued"
    PROVE  Outstanding(b)' \/ b \in gaveUp' \/ used'["lost"] > 0 \/ status'[b] # "queued"
<1> USE DEF Outstanding, rows, Id, At
<1>1. ASSUME NEW c \in Backtests, SubmitCommit(c) PROVE Outstanding(b)'
  BY <1>1 DEF SubmitCommit
<1>2. ASSUME NEW c \in Backtests, SubmitEnqueue(c) PROVE Outstanding(b)'
  <2>1. [id |-> c, retries |-> 0] \in Msgs
    BY BoundsAssumption DEF Msgs
  <2>2. QED
    BY <1>2, <2>1, PutAdds DEF SubmitEnqueue
<1>3. ASSUME NEW c \in Backtests, SubmitLost(c) PROVE used'["lost"] > 0
  BY <1>3, BoundsAssumption DEF SubmitLost, Spend, TypeOK, Bounds
<1>4. ASSUME NEW c \in Backtests, Delete(c) PROVE Outstanding(b)'
  BY <1>4 DEF Delete
<1>5. ASSUME NEW w \in Workers, NEW m \in Msgs, Receive(w, m) PROVE Outstanding(b)'
  <2>1. job'[w].pc = "claim" /\ job'[w].msg = m /\ \A v \in Workers \ {w} : job'[v] = job[v]
    BY <1>5 DEF Receive, TypeOK
  <2>2. \A n \in Msgs \ {m} : queue'[n] = queue[n]
    BY <1>5 DEF Receive, TypeOK
  <2>3. QED
    BY <1>5, <2>1, <2>2 DEF Receive
<1>6. ASSUME NEW w \in Workers, WorkerStep(w)
      PROVE  Outstanding(b)' \/ b \in gaveUp' \/ status'[b] # "queued"
  <2>0. ~At(w, "idle") /\ job[w] \in Jobs /\ Id(w) \in Backtests
    <3>1. ~At(w, "idle")
      BY <1>6 DEF WorkerStep, Claim, Skip, Succeed, Fail, MarkRunning, NotQueued,
                  Compute, Commit, DbError
    <3>2. QED
      BY <3>1, BusyJob
  <2>1. CASE Skip(w) \/ Succeed(w)
    <3>1. Id(w) # b
      BY <2>0, <2>1 DEF Skip, Succeed, ResultInv, LedgerAgrees, ReturnedIsDone, Terminal
    <3>2. QED
      BY <2>1, <3>1, GoesIdle DEF Skip, Succeed
  <2>2. CASE Fail(w)
    <3>1. pending' = pending
      BY <2>2 DEF Fail
    <3>2. QED
      BY <2>2, <3>1, FailMoves
  <2>3. CASE ~(Skip(w) \/ Succeed(w) \/ Fail(w))
    <3>1. /\ queue' = queue /\ pending' = pending
          /\ job'[w].pc # "idle" /\ job'[w].msg = job[w].msg
          /\ \A v \in Workers \ {w} : job'[v] = job[v]
      <4>1. CASE MarkRunning(w) \/ Compute(w)
        BY <2>0, <4>1 DEF MarkRunning, Compute, TypeOK, Jobs
      <4>2. CASE Claim(w) \/ NotQueued(w) \/ Commit(w) \/ DbError(w)
        BY <2>0, <4>2, StepMoves DEF Claim, NotQueued, Commit, DbError, Labels
      <4>3. QED
        BY <1>6, <2>3, <4>1, <4>2 DEF WorkerStep
    <3>2. QED
      BY <3>1
  <2>4. QED
    BY <2>1, <2>2, <2>3
<1>7. ASSUME NEW w \in Workers, Crash(w) PROVE Outstanding(b)'
  BY <1>7, BusyJob, PutAdds, GoesIdle DEF Crash
<1>8. ASSUME NEW w \in Workers, VisibilityTimeout(w) PROVE Outstanding(b)'
  BY <1>8, BusyJob, PutAdds DEF VisibilityTimeout
<1>9. CASE UNCHANGED vars
  BY <1>9 DEF vars
<1>10. QED
  BY <1>1, <1>2, <1>3, <1>4, <1>5, <1>6, <1>7, <1>8, <1>9 DEF Next

(* A row becomes queued together with its pending submission; given up and   *)
(* lost submissions are remembered.                                          *)
LEMMA QueuedSources ==
    ASSUME TypeOK, RowInv, [Next]_vars
    PROVE  /\ \A b \in Backtests : status'[b] = "queued" => status[b] = "queued" \/ b \in pending'
           /\ gaveUp \subseteq gaveUp'
           /\ used["lost"] > 0 => used'["lost"] > 0
<1>1. \A b \in Backtests : status'[b] = "queued" => status[b] = "queued" \/ b \in pending'
  <2>1. ASSUME NEW w \in Workers, Commit(w) PROVE \A b \in Backtests : status'[b] = "queued" => status[b] = "queued"
    BY <2>1 DEF Commit, TypeOK, RowInv, HeldRowIsQueued, Terminal
  <2>2. QED
    BY <2>1 DEF Next, vars, rows, SubmitCommit, SubmitEnqueue, SubmitLost, Delete, Receive,
       WorkerStep, Claim, Skip, Succeed, Fail, MarkRunning, NotQueued, Compute, DbError,
       Crash, VisibilityTimeout, TypeOK
<1>2. gaveUp \subseteq gaveUp'
  BY DEF Next, vars, rows, SubmitCommit, SubmitEnqueue, SubmitLost, Delete, Receive,
       WorkerStep, Claim, Skip, Succeed, Fail, MarkRunning, NotQueued, Compute, Commit,
       DbError, Crash, VisibilityTimeout
<1>3. used["lost"] > 0 => used'["lost"] > 0
  <2>1. ASSUME NEW c \in DOMAIN Bounds, Spend(c) PROVE used'["lost"] >= used["lost"] /\ used["lost"] \in Nat /\ used'["lost"] \in Nat
    BY <2>1, SpendType, BoundsAssumption DEF Bounds, TypeOK
  <2>2. used' = used \/ \E c \in DOMAIN Bounds : Spend(c)
    BY DEF Next, vars, rows, SubmitCommit, SubmitEnqueue, SubmitLost, Delete, Receive,
       WorkerStep, Claim, Skip, Succeed, Fail, MarkRunning, NotQueued, Compute, Commit,
       DbError, Crash, VisibilityTimeout, Bounds
  <2>3. QED
    BY <2>1, <2>2
<1>4. QED
  BY <1>1, <1>2, <1>3

LEMMA QueuedNext ==
    TypeOK /\ RowInv /\ ResultInv /\ QueuedHasTask /\ [Next]_vars => QueuedHasTask'
<1> SUFFICES ASSUME TypeOK, RowInv, ResultInv, QueuedHasTask, [Next]_vars,
                    NEW b \in Backtests, status'[b] = "queued"
             PROVE  Outstanding(b)' \/ b \in gaveUp' \/ used'["lost"] > 0
  BY DEF QueuedHasTask
<1>1. CASE b \in pending'
  BY <1>1 DEF Outstanding
<1>2. CASE status[b] = "queued"
  BY <1>2, OutstandingKept, QueuedSources DEF QueuedHasTask
<1>3. QED
  BY <1>1, <1>2, QueuedSources

-----------------------------------------------------------------------------
LEMMA IndInit == Init => IndInv
<1> SUFFICES ASSUME Init PROVE IndInv
  OBVIOUS
<1>1. TypeOK
  BY TypeInit
<1>2. RowInv
  BY NoOneAssumption DEF Init, RowInv, LockIsOwned, TasksAreKnown, HeldRowIsQueued, At, Idle
<1>3. ResultInv /\ QueuedHasTask
  BY DEF Init, ResultInv, ComputedAtMostOnce, ClaimableIsNew, ReturnedIsDone, LedgerAgrees,
         QueuedHasTask, At, Idle
<1>4. QED
  BY <1>1, <1>2, <1>3 DEF IndInv

LEMMA IndNext == IndInv /\ [Next]_vars => IndInv'
BY TypeNext, RowNext, ResultNext, QueuedNext DEF IndInv

(* The inductive invariant holds in every reachable state. *)
THEOREM IndInvHolds == Spec => []IndInv
<1>1. QED
  BY IndInit, IndNext, PTL DEF Spec

(* Row, lock, task and ledger entry of a run agree: no path leaves a row     *)
(* locked, a succeeded ledger row never hides a queued run, and a queued run *)
(* has its task unless the submission was lost or the task gave up           *)
(* (routes_backtests, jobs/backtest).                                        *)
THEOREM RecordsAlwaysAgree == Spec => []RecordsAgree
<1>1. IndInv => RecordsAgree
  BY DEF IndInv, RowInv, ResultInv, RecordsAgree
<1>2. QED
  BY <1>1, IndInvHolds, PTL

(* A run's result is committed once, however often its task is delivered,    *)
(* retried or lost with its worker (mark_running).                           *)
THEOREM OneResult == Spec => []ComputedAtMostOnce
<1>1. IndInv => ComputedAtMostOnce
  BY DEF IndInv, ResultInv
<1>2. QED
  BY <1>1, IndInvHolds, PTL

-----------------------------------------------------------------------------
(* What tenants observe *)

LEMMA LifecycleNext == IndInv /\ [Next]_vars => [Lifecycle!Next]_status
<1> SUFFICES ASSUME IndInv, [Next]_vars PROVE [Lifecycle!Next]_status
  OBVIOUS
<1> USE DEF rows
<1>1. ASSUME NEW b \in Backtests, SubmitCommit(b) PROVE Lifecycle!Submit(b)
  BY <1>1 DEF SubmitCommit, Lifecycle!Submit
<1>2. ASSUME NEW b \in Backtests, Delete(b) PROVE Lifecycle!Delete(b)
  <2>1. status[b] \in Terminal \cup {"queued"}
    BY <1>2 DEF Delete, IndInv, RowInv, TasksAreKnown, TypeOK, Status
  <2>2. QED
    BY <1>2, <2>1 DEF Delete, Lifecycle!Delete, Terminal, Lifecycle!Terminal
<1>3. ASSUME NEW w \in Workers, Commit(w) PROVE Lifecycle!Finish(Id(w))
  BY <1>3 DEF Commit, Lifecycle!Finish, IndInv, RowInv, HeldRowIsQueued, Terminal,
              Lifecycle!Terminal, At
<1>4. ASSUME NEW w \in Workers, Commit(w) PROVE Id(w) \in Backtests
  BY <1>4, BusyJob DEF Commit, At, IndInv
<1>5. QED
  BY <1>1, <1>2, <1>3, <1>4
     DEF Next, vars, SubmitEnqueue, SubmitLost, Receive, WorkerStep, Claim, Skip, Succeed,
         Fail, MarkRunning, NotQueued, Compute, DbError, Crash, VisibilityTimeout,
         Lifecycle!Next

(* A tenant sees a run queued once, finished at most once, and never again   *)
(* once it is deleted, whatever workers, redeliveries and crashes do.        *)
THEOREM ImplementsLifecycle == Spec => LifecycleSpec
<1>1. Init => Lifecycle!Init
  BY DEF Init, Lifecycle!Init
<1>2. QED
  BY <1>1, LifecycleNext, IndInvHolds, PTL DEF Spec, LifecycleSpec, Lifecycle!Spec
=============================================================================
