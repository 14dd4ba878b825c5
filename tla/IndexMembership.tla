---------------------------- MODULE IndexMembership ----------------------------
(***************************************************************************)
(* The security master and the index_constituents rows of one index:       *)
(* UniverseSyncService under the job ledger, the bundled snapshot loader   *)
(* (scripts/load_nifty200_universe.py, the resync's universe stage) and    *)
(* the two readers, active_universe and historical_universe.               *)
(*                                                                         *)
(* A reconciliation reads, decides, writes and commits in one transaction. *)
(* A statement that meets another transaction's row waits for it and looks *)
(* again, so its writes are taken together, at the commit, against the     *)
(* rows of that moment, while its decision rests on the rows it read.      *)
(***************************************************************************)
EXTENDS Integers, FiniteSets, FiniteSetsExt

CONSTANTS
    Stocks,        \* naturals: their order breaks ties
    Weights,
    LastSession,   \* sessions are 1..LastSession
    Bundled,       \* the stocks of the bundled snapshot
    Seeded,        \* the stocks the bootstrap seed made members
    Open,          \* effective_to IS NULL
    Syncers,       \* workers that may reconcile at the same time
    MaxReports,    \* bound: times the provider changes its list
    MaxSyncs,      \* bound: reconciliations started
    MaxLoads       \* bound: loads of the snapshot

ASSUME MembershipAssumption ==
    /\ LastSession \in Nat \ {0} /\ Open \notin 0..LastSession
    /\ Weights \subseteq Nat /\ Weights # {} /\ IsFiniteSet(Weights)
    /\ Bundled \subseteq Stocks /\ Seeded \subseteq Stocks
    /\ MaxReports \in Nat /\ MaxSyncs \in Nat /\ MaxLoads \in Nat

Sessions == 1..LastSession
LoadFrom == 0                   \* EFFECTIVE_FROM, earlier than every session
Dates == {LoadFrom} \cup Sessions
Lists == UNION {[S -> Weights] : S \in SUBSET Stocks}

VARIABLES
    session,      \* the last completed one
    master,       \* stocks with a row in the security master
    rows,         \* index_constituents
    report,       \* what list_universe answers now: symbols and weights
    synced,       \* as_of dates whose run key has succeeded
    tx,           \* the reconciliation each worker runs
    reports, syncs, loads

membershipVars == <<session, master, rows, report, synced, tx, reports, syncs, loads>>

NoTx == [pc |-> "idle"]
Row(s, w, from, to) == [stock |-> s, weight |-> w, from |-> from, to |-> to]
NoWeight == CHOOSE w \in Weights : \A v \in Weights : w <= v     \* dev feeds give none

MembershipTypeOK ==
    /\ session \in Sessions /\ master \subseteq Stocks /\ report \in Lists
    /\ rows \subseteq {Row(s, w, f, t) : s \in Stocks, w \in Weights,
                                         f \in Dates, t \in Sessions \cup {Open}}
    /\ \A r \in rows : r.to = Open \/ r.to > r.from
    /\ \A r, q \in rows : r.to = Open /\ q.to = Open /\ r.stock = q.stock => r = q
    /\ synced \subseteq Sessions

MembershipInit ==
    /\ session = 1
    /\ master = Seeded
    /\ rows = {Row(s, NoWeight, LoadFrom, Open) : s \in Seeded}
    /\ report = [s \in Seeded |-> NoWeight]
    /\ synced = {}
    /\ tx = [w \in Syncers |-> NoTx]
    /\ reports = 0 /\ syncs = 0 /\ loads = 0

-----------------------------------------------------------------------------
(* The readers *)

OpenRows == {r \in rows : r.to = Open}
active_universe == {r.stock : r \in OpenRows}

Covers(r, d) == r.from <= d /\ (r.to = Open \/ r.to > d)

historical_universe(d) == {r.stock : r \in {q \in rows : Covers(q, d)}}

(* An open reconciliation that somebody else writes around. *)
Disturbed(v) == IF tx[v].pc = "idle" THEN tx[v] ELSE [tx[v] EXCEPT !.alone = FALSE]

-----------------------------------------------------------------------------
(* The provider and the master *)

Reconstitute(list) ==
    /\ list # report /\ reports < MaxReports
    /\ report' = list
    /\ reports' = reports + 1
    /\ UNCHANGED <<session, master, rows, synced, tx, syncs, loads>>

(* sync_stock_master: the upsert never delists. *)
SyncMaster ==
    /\ master' = master \cup DOMAIN report
    /\ UNCHANGED <<session, rows, report, synced, tx, reports, syncs, loads>>

(* load_universe: an open row from the fixed date for every bundled stock    *)
(* that has none.                                                            *)
LoadUniverse ==
    /\ loads < MaxLoads
    /\ loads' = loads + 1
    /\ master' = master \cup Bundled
    /\ rows' = rows \cup {Row(s, NoWeight, LoadFrom, Open) : s \in Bundled \ active_universe}
    /\ tx' = [v \in Syncers |-> Disturbed(v)]
    /\ UNCHANGED <<session, report, synced, reports, syncs>>

-----------------------------------------------------------------------------
(* sync_index_constituents, for a date the caller names or the last session *)

StartSync(w, d) ==
    /\ tx[w].pc = "idle" /\ syncs < MaxSyncs
    /\ d <= session /\ d \notin synced
    /\ syncs' = syncs + 1
    /\ tx' = [tx EXCEPT ![w] = [pc |-> "listed", asOf |-> d, list |-> report,
                                alone |-> \A v \in Syncers \ {w} : tx[v].pc = "idle"]]
    /\ UNCHANGED <<session, master, rows, report, synced, reports, loads>>

(* A member the master does not know fails the run and changes nothing.      *)
Unresolved(w) ==
    /\ tx[w].pc = "listed" /\ ~(DOMAIN tx[w].list \subseteq master)
    /\ tx' = [tx EXCEPT ![w] = NoTx]
    /\ UNCHANGED <<session, master, rows, report, synced, reports, syncs, loads>>

ReadOpen(w) ==
    /\ tx[w].pc = "listed" /\ DOMAIN tx[w].list \subseteq master
    /\ tx' = [v \in Syncers |->
                 IF v = w THEN [pc |-> "read", asOf |-> tx[w].asOf, list |-> tx[w].list,
                                open |-> OpenRows,
                                alone |-> \A u \in Syncers \ {w} : tx[u].pc = "idle"]
                 ELSE Disturbed(v)]
    /\ UNCHANGED <<session, master, rows, report, synced, reports, syncs, loads>>

Adds(w) == DOMAIN tx[w].list \ {r.stock : r \in tx[w].open}
Drops(w) == {r.stock : r \in {q \in tx[w].open :
                                 q.stock \notin DOMAIN tx[w].list /\ q.from < tx[w].asOf}}
Kept(w) == {r.stock : r \in tx[w].open} \cap DOMAIN tx[w].list

(* What one row is after the drops and the weights. *)
Rewritten(w, r) ==
    IF r.to # Open THEN r
    ELSE IF r.stock \in Drops(w) THEN [r EXCEPT !.to = tx[w].asOf]
    ELSE IF r.stock \in Kept(w) THEN [r EXCEPT !.weight = tx[w].list[r.stock]]
    ELSE r

(* Deleting the dropped members instead of closing them. *)
ReconciledDeleting(w) ==
    {r \in rows : r.to # Open \/ r.stock \notin Drops(w)}
        \cup {Row(s, tx[w].list[s], tx[w].asOf, Open) : s \in Adds(w)}
Reconciled(w) ==
    {Rewritten(w, r) : r \in rows}
        \cup {Row(s, tx[w].list[s], tx[w].asOf, Open) : s \in Adds(w)}

(* A table without the unique index on open rows. *)
CollidesUnindexed(w) == \E r \in OpenRows : r.stock \in Drops(w) /\ r.from >= tx[w].asOf

(* The unique index on open rows, or the CHECK on a row that another run     *)
(* opened meanwhile, rolls everything back.                                  *)
Collides(w) ==
    \/ Adds(w) \cap active_universe # {}
    \/ \E r \in OpenRows : r.stock \in Drops(w) /\ r.from >= tx[w].asOf

(* The ledger marks the date; if that fails, the run is repeated one day,    *)
(* for the same date, with what the provider then lists.                     *)
Reconcile(w, recorded) ==
    /\ tx[w].pc = "read" /\ ~Collides(w)
    /\ rows' = Reconciled(w)
    /\ synced' = IF recorded THEN synced \cup {tx[w].asOf} ELSE synced
    /\ tx' = [tx EXCEPT ![w] = NoTx]
    /\ UNCHANGED <<session, master, report, reports, syncs, loads>>

AbortSync(w) ==
    /\ tx[w].pc # "idle"
    /\ tx' = [tx EXCEPT ![w] = NoTx]
    /\ UNCHANGED <<session, master, rows, report, synced, reports, syncs, loads>>

(* Everything but the two actions that write index_constituents. *)
QuietStep ==
    \/ \E list \in Lists : Reconstitute(list)
    \/ SyncMaster
    \/ \E w \in Syncers : \/ \E d \in Sessions : StartSync(w, d)
                          \/ Unresolved(w) \/ ReadOpen(w) \/ AbortSync(w)

-----------------------------------------------------------------------------
(* Properties *)

Commits(w) == tx[w].pc = "read" /\ tx'[w].pc = "idle" /\ rows' # rows

(* A reconciliation as of d never touches the membership of a day before d:  *)
(* a stock the index dropped stays in the universe of the days it was a      *)
(* member of, whatever the order of the dates and however runs overlap.      *)
PastIsFixed ==
    [][\A w \in Syncers : Commits(w) =>
          \A d \in Dates : d < tx[w].asOf =>
              historical_universe(d)' = historical_universe(d)]_membershipVars

(* A run that nobody overlapped, for a date later than every boundary of the *)
(* table, leaves exactly the provider's list as the members of that day and  *)
(* as the current ones.                                                      *)
SyncIsExact ==
    [][\A w \in Syncers, d \in Sessions :
          Commits(w) /\ tx[w].alone /\ d = tx[w].asOf
          /\ (\A r \in rows : r.from < d /\ (r.to = Open \/ r.to <= d)) =>
              /\ active_universe' = DOMAIN tx[w].list
              /\ historical_universe(d)' = DOMAIN tx[w].list]_membershipVars

(* Membership is a history: the past is fixed and the present is the list    *)
(* (reconcile_constituents).                                                 *)
MembershipIsHistory == PastIsFixed /\ SyncIsExact
=============================================================================
