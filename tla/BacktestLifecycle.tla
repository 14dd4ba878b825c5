--------------------------- MODULE BacktestLifecycle ---------------------------
(***************************************************************************)
(* What a tenant can observe of a backtest: it is queued once, it reaches  *)
(* at most one terminal status, a terminal status never changes, and a     *)
(* deleted run never comes back.                                           *)
(***************************************************************************)

CONSTANT Backtests

VARIABLE status   \* the committed status of each run

Terminal == {"succeeded", "failed"}

Observable == Terminal \cup {"none", "queued", "deleted"}

TypeOK == status \in [Backtests -> Observable]

Init == status = [b \in Backtests |-> "none"]

Submit(b) ==
    /\ status[b] = "none"
    /\ status' = [status EXCEPT ![b] = "queued"]

Finish(b) ==
    /\ status[b] = "queued"
    /\ \E s \in Terminal : status' = [status EXCEPT ![b] = s]

Delete(b) ==
    /\ status[b] \in Terminal \cup {"queued"}
    /\ status' = [status EXCEPT ![b] = "deleted"]

Next == \E b \in Backtests : Submit(b) \/ Finish(b) \/ Delete(b)

Spec == Init /\ [][Next]_status
=============================================================================
