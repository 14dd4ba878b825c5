------------------------------ MODULE Partitions ------------------------------
(***************************************************************************)
(* The month partitions of the tables that grow by date.  A migration      *)
(* bootstraps a table with a default partition and two months; a daily     *)
(* tick keeps the months ahead of it, for every table the catalog lists,   *)
(* in one transaction.  A row of a month without a partition goes to the   *)
(* default, and PostgreSQL then refuses to attach that month, which fails  *)
(* the tick for all tables.  The DDL locks what it attaches to, so a tick  *)
(* is one step.                                                            *)
(***************************************************************************)
EXTENDS Integers, FiniteSets

CONSTANTS
    Tables,       \* the tables partitioned by month
    Ahead,        \* DEFAULT_MONTHS_AHEAD
    LastMonth     \* bound: months of a behaviour

ASSUME PartitionsAssumption == Ahead \in Nat /\ LastMonth \in Nat

VARIABLES
    month,      \* the current month; -1 stands for history before month 0
    born,       \* when each existing table was created
    cover,      \* months with a partition, per table
    fallen,     \* months with rows in the default partition, per table
    ticked      \* <<table, month>>: the maintenance ran over the table

partitionVars == <<month, born, cover, fallen, ticked>>

PastMonths == -1..month
Existing == DOMAIN born

PartitionsTypeOK ==
    /\ month \in 0..LastMonth
    /\ Existing \subseteq Tables /\ \A t \in Existing : born[t] \in 0..month
    /\ DOMAIN cover = Existing /\ DOMAIN fallen = Existing
    /\ \A t \in Existing : /\ cover[t] \subseteq born[t]..(month + Ahead + 1)
                           /\ fallen[t] \subseteq PastMonths \ cover[t]
    /\ ticked \subseteq Existing \X (0..month)

PartitionsInit ==
    /\ month = 0 /\ ticked = {}
    /\ born = [t \in {} |-> 0] /\ cover = [t \in {} |-> {}] /\ fallen = [t \in {} |-> {}]

With(f, t, value) == [x \in DOMAIN f \cup {t} |-> IF x = t THEN value ELSE f[x]]

(* _bootstrap_partitions: the default, this month and the next. *)
Migrate(t) ==
    /\ t \in Tables \ Existing
    /\ born' = With(born, t, month)
    /\ cover' = With(cover, t, month..(month + 1))
    /\ fallen' = With(fallen, t, {})
    /\ UNCHANGED <<month, ticked>>

(* A job or a backfill writes a row dated in month m. *)
InsertRow(t, m) ==
    /\ t \in Existing /\ m \in PastMonths
    /\ fallen' = IF m \in cover[t] THEN fallen ELSE [fallen EXCEPT ![t] = @ \cup {m}]
    /\ UNCHANGED <<month, born, cover, ticked>>

(* The loop without its last month. *)
UpcomingShort == month..(month + Ahead - 1)
UpcomingMonths == month..(month + Ahead)

(* CREATE TABLE IF NOT EXISTS ... PARTITION OF for every table and month;   *)
(* one refused month rolls back the months of all tables.                   *)
EnsureMonths ==
    /\ ticked' = ticked \cup (Existing \X {month})
    /\ cover' = IF \A t \in Existing : fallen[t] \cap (UpcomingMonths \ cover[t]) = {}
                THEN [t \in Existing |-> cover[t] \cup UpcomingMonths]
                ELSE cover
    /\ UNCHANGED <<month, born, fallen>>

NextMonth ==
    /\ month < LastMonth
    /\ month' = month + 1
    /\ UNCHANGED <<born, cover, fallen, ticked>>

PartitionsNext ==
    \/ \E t \in Tables : Migrate(t)
    \/ \E t \in Tables, m \in PastMonths : InsertRow(t, m)
    \/ EnsureMonths
    \/ NextMonth

PartitionsSpec == PartitionsInit /\ [][PartitionsNext]_partitionVars

-----------------------------------------------------------------------------
(* Properties *)

(* Rows a table missed since it exists; history before it is nobody's duty. *)
Missed(t) == {m \in fallen[t] : m >= born[t]}
Untended(t, m) == \A d \in born[t]..(m - 1) : d >= m - Ahead => <<t, d>> \notin ticked

(* Rows fall into the default only when the maintenance once stayed away    *)
(* from a table for as many months as it works ahead, or from its creation  *)
(* on until the bootstrap ran out.  One tick in every Ahead months is       *)
(* enough, whenever it runs, whichever tables are added and whatever        *)
(* history is loaded.  ("Three gives ample slack for a missed run",         *)
(* core/partitions.py:28.)  What it cannot do is repair: a tick that finds  *)
(* the default filled with rows of its month fails for every table.         *)
OnlyNeglectFillsTheDefault ==
    (\E t \in Existing : Missed(t) # {}) =>
        \E t \in Existing : \E m \in Missed(t) : Untended(t, m)
=============================================================================
