------------------------------- MODULE MCPipeline -------------------------------
(* Pipeline on two interchangeable stocks; one of two prices is enough for   *)
(* the gate, so that a run on partial data can pass it.  One empty cell is   *)
(* within the null rate of two bars and beyond that of one.                  *)
EXTENDS Pipeline

CONSTANTS s1, s2

MCStocks == {s1, s2}

MCFlawedBars == {[empty |-> {"open"}, sane |-> TRUE], [empty |-> {}, sane |-> FALSE]}
=============================================================================
