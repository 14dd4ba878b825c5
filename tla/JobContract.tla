------------------------------ MODULE JobContract ------------------------------
(***************************************************************************)
(* What the job layer promises whoever enqueues a task: a request leaves   *)
(* the system only when the output of its run key exists, or when the task *)
(* has used up its retries; and every request leaves the system.           *)
(*                                                                         *)
(* "Output" is the commit of the job's data followed by its event.  The    *)
(* contract says nothing about how often the output is produced: celery's  *)
(* late acknowledgement makes the layer at-least-once, and the ledger      *)
(* (JobRuns) is what absorbs most repetitions.                             *)
(***************************************************************************)

CONSTANTS
    Tasks,      \* task invocations (one .delay() or one Beat tick each)
    Keys,       \* run keys, the identity of a unit of work
    KeyOf       \* the run key each task computes

VARIABLES
    requested,    \* tasks that were ever enqueued
    outstanding,  \* tasks the system still has to deal with
    produced,     \* run keys whose output exists
    exhausted     \* tasks that ran out of retries

vars == <<requested, outstanding, produced, exhausted>>

TypeOK ==
    /\ requested \subseteq Tasks
    /\ outstanding \subseteq Tasks
    /\ produced \subseteq Keys
    /\ exhausted \subseteq Tasks

Init ==
    /\ requested = {}
    /\ outstanding = {}
    /\ produced = {}
    /\ exhausted = {}

Request(t) ==
    /\ t \notin requested
    /\ requested' = requested \cup {t}
    /\ outstanding' = outstanding \cup {t}
    /\ UNCHANGED <<produced, exhausted>>

Produce(t) ==
    /\ t \in outstanding
    /\ produced' = produced \cup {KeyOf[t]}
    /\ UNCHANGED <<requested, outstanding, exhausted>>

Exhaust(t) ==
    /\ t \in outstanding
    /\ exhausted' = exhausted \cup {t}
    /\ UNCHANGED <<requested, outstanding, produced>>

Drop(t) ==
    /\ t \in outstanding
    /\ KeyOf[t] \in produced \/ t \in exhausted
    /\ outstanding' = outstanding \ {t}
    /\ UNCHANGED <<requested, produced, exhausted>>

Progress(t) == Produce(t) \/ Exhaust(t) \/ Drop(t)

Next == \E t \in Tasks : Request(t) \/ Progress(t)

Safety == Init /\ [][Next]_vars

Spec == Safety /\ \A t \in Tasks : WF_vars(Progress(t))
=============================================================================
