------------------------------ MODULE KnowledgeLog ------------------------------
(***************************************************************************)
(* What the bitemporal fundamentals table promises its point-in-time       *)
(* readers: per filing, a log of what was known and since when.  Entries   *)
(* are only ever appended, each with a later knowledge time than the one   *)
(* before it, and the entries of one ingestion become visible together per *)
(* stock.                                                                  *)
(***************************************************************************)
EXTENDS Integers, Sequences

CONSTANTS
    Filings,   \* (stock, period, statement type)
    Values,    \* what a filing may say
    MaxTime    \* bound: knowledge times

VARIABLE log   \* per filing: what was known, oldest first

Entries == [value : Values, from : 1..MaxTime]

LogInit == log = [f \in Filings |-> <<>>]

Follows(f, t) == \A i \in DOMAIN log[f] : log[f][i].from < t

(* At one knowledge time, some filings are learnt or revised. *)
Learn(t, F, said) ==
    /\ \A f \in F : Follows(f, t)
    /\ log' = [f \in Filings |->
                 IF f \in F
                 THEN Append(log[f], [value |-> said[f], from |-> t])
                 ELSE log[f]]

LogNext ==
    \E t \in 1..MaxTime, F \in SUBSET Filings : 
        \E said \in [F -> Values] : Learn(t, F, said)

LogSpec == LogInit /\ [][LogNext]_log
=============================================================================
