------------------------------ MODULE MCBacktests ------------------------------
(* Backtests with two runs, so that one worker's transaction can hold a row *)
(* while the other works on, or waits for, either of them.                  *)
EXTENDS Backtests

CONSTANTS b1, b2

MCBacktestIds == {b1, b2}
=============================================================================
