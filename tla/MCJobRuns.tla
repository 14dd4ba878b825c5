------------------------------- MODULE MCJobRuns -------------------------------
(* JobRuns with two tasks that compute the same run key (a Beat tick and an *)
(* event, or two deliveries of one event) on two workers.                   *)
EXTENDS JobRuns

CONSTANT theKey

MCKeyOf == [t \in Tasks |-> theKey]
MCKeys == {theKey}
=============================================================================
