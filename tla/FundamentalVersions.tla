--------------------------- MODULE FundamentalVersions ---------------------------
(***************************************************************************)
(* Ingestion of fundamentals into the bitemporal table, and its readers.   *)
(*                                                                         *)
(* An attempt of the job fixes one knowledge time, then takes the stocks   *)
(* of the universe one by one: fetch the provider's filings, and in one    *)
(* transaction per stock version each of them (read the open version;      *)
(* nothing if it says the same; else close it and insert the new one).     *)
(* What was revised is announced once, after the loop.  An error of one    *)
(* stock rolls its transaction back and the loop goes on.                  *)
(*                                                                         *)
(* Attempts of two workers may overlap (two run keys, or one message       *)
(* delivered twice).  The transactions are READ COMMITTED: a statement     *)
(* sees what is committed when it starts, an UPDATE that meets a locked    *)
(* row waits and then looks at the row again, an INSERT that meets an      *)
(* uncommitted entry of the unique index waits for its transaction.        *)
(***************************************************************************)
EXTENDS Integers, Sequences

CONSTANTS
    Filings,         \* (stock, period_end, statement_type)
    FilingsOf,       \* per stock of the universe its filings, newest first
    Values,          \* the ratios a provider computes, with all their digits
    Stored,          \* what numeric(18, 6) columns keep of them
    NotFiled,        \* the provider has no such filing yet
    Workers,
    NoOne,           \* no transaction
    MaxAttempts,     \* bound: attempts of the job
    MaxRestatements, \* bound: changes of the provider's mind
    MaxUpsets        \* bound: provider and database errors and worker losses

ASSUME UniverseAssumption == FilingsOf \in Seq(Seq(Filings)) /\ FilingsOf # <<>>
ASSUME StoredAssumption == DOMAIN Stored = Values
ASSUME VersionBoundsAssumption ==
    /\ {MaxAttempts, MaxRestatements, MaxUpsets} \subseteq Nat
    /\ NotFiled \notin Values /\ NoOne \notin Workers

Null == 0   \* knowledge_to of the open version; knowledge times start at 1
Times == 1..MaxAttempts
Stocks == DOMAIN FilingsOf
Kept == {Stored[v] : v \in Values}
Places == UNION {DOMAIN FilingsOf[s] : s \in Stocks}
Rows == [value : Kept, from : Times, to : Times \cup {Null}]

VARIABLES
    provider,     \* what the provider would answer, per filing
    versions,     \* the committed rows of a filing, in the order of insertion
    lock,         \* the transaction with an uncommitted write on a filing
    job,          \* the attempt each worker is running
    clock,        \* attempts begun, and so the latest knowledge time
    announced,    \* FundamentalsRevised: the filings and when
    restatements, faults, crashes

bounds == <<restatements, faults, crashes>>
vars == <<provider, versions, lock, job, clock, announced,
          restatements, faults, crashes>>

(* The locals of ingest and of its current transaction. *)
Jobs ==
    [pc : {"idle", "fetch", "read", "close", "blocked", "insert", "publish"},
     kt : Times \cup {Null},                       \* knowledge_time
     stock : Stocks,
     left : SUBSET [place : Places, filing : Filings, value : Values], \* to version
     current : BOOLEAN,              \* the open version was read
     snapshot : Nat,                 \* rows when a blocked UPDATE started
     closed : SUBSET Filings,        \* uncommitted: open rows closed
     wrote : SUBSET [filing : Filings, value : Kept], \* uncommitted rows
     revisions : SUBSET Filings]

Resting ==
    [pc |-> "idle", kt |-> Null, stock |-> 1, left |-> {}, current |-> FALSE,
     snapshot |-> 0, closed |-> {}, wrote |-> {}, revisions |-> {}]

TypeOK ==
    /\ provider \in [Filings -> Values \cup {NotFiled}]
    /\ versions \in [Filings -> Seq(Rows)]
    /\ lock \in [Filings -> Workers \cup {NoOne}]
    /\ job \in [Workers -> Jobs]
    /\ clock \in 0..MaxAttempts
    /\ announced \subseteq [filing : Filings, time : Times]
    /\ restatements \in 0..MaxRestatements
    /\ faults \in 0..MaxUpsets
    /\ crashes \in 0..MaxUpsets

Init ==
    /\ provider \in [Filings -> Values \cup {NotFiled}]
    /\ versions = [f \in Filings |-> <<>>]
    /\ lock = [f \in Filings |-> NoOne]
    /\ job = [w \in Workers |-> Resting]
    /\ clock = 0
    /\ announced = {}
    /\ restatements = 0 /\ faults = 0 /\ crashes = 0

-----------------------------------------------------------------------------
(* Readers *)

Holds(r, t) == r.from <= t /\ (r.to = Null \/ t < r.to)

(* The newest period's row whose interval holds the time. *)
AsOf(s, t) ==
    LET known == {n \in DOMAIN FilingsOf[s] :
                    \E i \in DOMAIN versions[FilingsOf[s][n]] :
                        Holds(versions[FilingsOf[s][n]][i], t)}
    IN  IF known = {} THEN NotFiled
        ELSE LET n == CHOOSE n \in known : \A m \in known : n <= m
                 rows == versions[FilingsOf[s][n]]
                 i == CHOOSE i \in DOMAIN rows :
                        /\ Holds(rows[i], t)
                        /\ \A j \in DOMAIN rows :
                             Holds(rows[j], t) => rows[j].from <= rows[i].from
             IN  rows[i].value

OpenRows(f) == {i \in DOMAIN versions[f] : versions[f][i].to = Null}

-----------------------------------------------------------------------------
(* The provider *)

(* A filing appears, or is restated. *)
Restate(f, v) ==
    /\ restatements < MaxRestatements
    /\ provider[f] # v
    /\ provider' = [provider EXCEPT ![f] = v]
    /\ restatements' = restatements + 1
    /\ UNCHANGED <<versions, lock, job, clock, announced, faults, crashes>>

-----------------------------------------------------------------------------
(* One attempt of the job *)

At(w, label) == job[w].pc = label

(* Filings are versioned in the order of the provider's answer. *)
Now(w) == CHOOSE x \in job[w].left : \A y \in job[w].left : x.place <= y.place
Rest(w) == job[w].left \ {Now(w)}

Release(w) == lock' = [f \in Filings |-> IF lock[f] = w THEN NoOne ELSE lock[f]]

(* What a list of revisions that is created per stock would do. *)
NextStockForgets(w, j) ==
    job' = [job EXCEPT ![w] =
              [j EXCEPT !.pc = IF j.stock = Len(FilingsOf) THEN "publish" ELSE "fetch",
                        !.stock = IF @ = Len(FilingsOf) THEN @ ELSE @ + 1,
                        !.left = {}, !.current = FALSE, !.snapshot = 0,
                        !.closed = {}, !.wrote = {}, !.revisions = {}]]

(* The loop goes on with the next stock, the transaction is over. *)
NextStock(w, j) ==
    job' = [job EXCEPT ![w] =
              [j EXCEPT !.pc = IF j.stock = Len(FilingsOf) THEN "publish" ELSE "fetch",
                        !.stock = IF @ = Len(FilingsOf) THEN @ ELSE @ + 1,
                        !.left = {}, !.current = FALSE, !.snapshot = 0,
                        !.closed = {}, !.wrote = {}]]

Begin(w) ==
    /\ At(w, "idle")
    /\ clock < MaxAttempts
    /\ clock' = clock + 1
    /\ job' = [job EXCEPT ![w].pc = "fetch", ![w].kt = clock']
    /\ UNCHANGED <<provider, versions, lock, announced, bounds>>

Fetch(w) ==
    LET all == FilingsOf[job[w].stock]
        filed == {n \in DOMAIN all : provider[all[n]] # NotFiled}
    IN  /\ At(w, "fetch")
        /\ IF filed = {}
           THEN NextStock(w, job[w])
           ELSE job' = [job EXCEPT ![w].pc = "read",
                                   ![w].left = {[place |-> n, filing |-> all[n],
                                                 value |-> provider[all[n]]] : n \in filed}]
        /\ UNCHANGED <<provider, versions, lock, clock, announced, bounds>>

FetchFails(w) ==
    /\ At(w, "fetch")
    /\ faults + crashes < MaxUpsets
    /\ faults' = faults + 1
    /\ NextStock(w, job[w])
    /\ UNCHANGED <<provider, versions, lock, clock, announced, restatements, crashes>>

(* "unchanged": the open version, as stored, equals the ratios, as computed. *)
SameAsOpen(f, v) == \E i \in OpenRows(f) : versions[f][i].value = v

ReadOpen(w) ==
    /\ At(w, "read")
    /\ job[w].left # {}
    /\ LET f == Now(w).filing
       IN  job' = [job EXCEPT ![w] =
             IF SameAsOpen(f, Now(w).value)
             THEN [@ EXCEPT !.left = Rest(w)]
             ELSE [@ EXCEPT !.pc = IF OpenRows(f) = {} THEN "insert" ELSE "close",
                            !.current = OpenRows(f) # {}]]
    /\ UNCHANGED <<provider, versions, lock, clock, announced, bounds>>

(* What the table would allow without its CHECK. *)
MayCloseAlways(f, kt) == TRUE

(* CHECK (knowledge_to > knowledge_from) of the rows the UPDATE closes. *)
MayClose(f, kt) == \A i \in OpenRows(f) : versions[f][i].from < kt

Close(w) ==
    LET f == Now(w).filing
    IN  /\ At(w, "close") \/ (At(w, "blocked") /\ job[w].snapshot = Len(versions[f]))
        /\ lock[f] = NoOne
        /\ MayClose(f, job[w].kt)
        /\ lock' = [lock EXCEPT ![f] = w]
        /\ job' = [job EXCEPT ![w].pc = "insert", ![w].closed = @ \cup {f}]
        /\ UNCHANGED <<provider, versions, clock, announced, bounds>>

CloseWaits(w) ==
    LET f == Now(w).filing
    IN  /\ At(w, "close")
        /\ lock[f] # NoOne
        /\ job' = [job EXCEPT ![w].pc = "blocked", ![w].snapshot = Len(versions[f])]
        /\ UNCHANGED <<provider, versions, lock, clock, announced, bounds>>

(* The row it waited for was closed meanwhile; the new one is not in its    *)
(* snapshot: it closes nothing.                                             *)
CloseMisses(w) ==
    LET f == Now(w).filing
    IN  /\ At(w, "blocked")
        /\ lock[f] = NoOne
        /\ job[w].snapshot # Len(versions[f])
        /\ job' = [job EXCEPT ![w].pc = "insert"]
        /\ UNCHANGED <<provider, versions, lock, clock, announced, bounds>>

(* uq_fundamentals_open *)
MayInsert(w, f) == OpenRows(f) = {} \/ f \in job[w].closed

Insert(w) ==
    LET f == Now(w).filing
    IN  /\ At(w, "insert")
        /\ lock[f] \in {NoOne, w}
        /\ MayInsert(w, f)
        /\ lock' = [lock EXCEPT ![f] = w]
        /\ job' = [job EXCEPT ![w] =
             [job[w] EXCEPT
                 !.pc = "read", !.left = Rest(w), !.current = FALSE, !.snapshot = 0,
                 !.wrote = @ \cup {[filing |-> f, value |-> Stored[Now(w).value]]},
                 !.revisions = IF job[w].current THEN @ \cup {f} ELSE @]]
        /\ UNCHANGED <<provider, versions, clock, announced, bounds>>

(* What closing with now() instead of the attempt's knowledge time would do. *)
VersionedNow(rows, v, kt) ==
    Append([i \in DOMAIN rows |->
              IF rows[i].to = Null THEN [rows[i] EXCEPT !.to = clock] ELSE rows[i]],
           [value |-> v, from |-> kt, to |-> Null])

(* The committed rows of a filing after its transaction. *)
Versioned(rows, v, kt) ==
    Append([i \in DOMAIN rows |->
              IF rows[i].to = Null THEN [rows[i] EXCEPT !.to = kt] ELSE rows[i]],
           [value |-> v, from |-> kt, to |-> Null])

CommitStock(w) ==
    /\ At(w, "read")
    /\ job[w].left = {}
    /\ versions' = [f \in Filings |->
         IF \E r \in job[w].wrote : r.filing = f
         THEN Versioned(versions[f],
                        (CHOOSE r \in job[w].wrote : r.filing = f).value, job[w].kt)
         ELSE versions[f]]
    /\ Release(w)
    /\ NextStock(w, job[w])
    /\ UNCHANGED <<provider, clock, announced, bounds>>

(* A statement of the transaction violates a constraint. *)
Rejected(w) ==
    LET f == Now(w).filing
    IN  /\ lock[f] \in {NoOne, w}
        /\ \/ /\ At(w, "close") \/ (At(w, "blocked") /\ job[w].snapshot = Len(versions[f]))
              /\ ~MayClose(f, job[w].kt)
           \/ /\ At(w, "insert")
              /\ ~MayInsert(w, f)

(* What an except without a rollback would do. *)
StockRejectedOpen(w) ==
    /\ job[w].left # {}
    /\ Rejected(w)
    /\ NextStock(w, job[w])
    /\ UNCHANGED <<provider, versions, lock, clock, announced, bounds>>

(* The except of the loop: the transaction is rolled back, the local list   *)
(* of revisions is not.                                                     *)
StockRejected(w) ==
    /\ job[w].left # {}
    /\ Rejected(w)
    /\ Release(w)
    /\ NextStock(w, job[w])
    /\ UNCHANGED <<provider, versions, clock, announced, bounds>>

StockFails(w) ==
    /\ job[w].pc \in {"read", "close", "blocked", "insert"}
    /\ faults + crashes < MaxUpsets
    /\ faults' = faults + 1
    /\ Release(w)
    /\ NextStock(w, job[w])
    /\ UNCHANGED <<provider, versions, clock, announced, restatements, crashes>>

(* FundamentalsUpdated, and FundamentalsRevised when there is a revision. *)
Publish(w) ==
    /\ At(w, "publish")
    /\ announced' = announced \cup
         [filing : job[w].revisions, time : {job[w].kt}]
    /\ job' = [job EXCEPT ![w] = Resting]
    /\ UNCHANGED <<provider, versions, lock, clock, bounds>>

Crash(w) ==
    /\ ~At(w, "idle")
    /\ faults + crashes < MaxUpsets
    /\ crashes' = crashes + 1
    /\ Release(w)
    /\ job' = [job EXCEPT ![w] = Resting]
    /\ UNCHANGED <<provider, versions, clock, announced, restatements, faults>>

-----------------------------------------------------------------------------
Step(w) ==
    \/ Fetch(w) \/ ReadOpen(w)
    \/ Close(w) \/ CloseWaits(w) \/ CloseMisses(w)
    \/ Insert(w) \/ CommitStock(w) \/ StockRejected(w)
    \/ Publish(w)

Next ==
    \/ \E f \in Filings, v \in Values : Restate(f, v)
    \/ \E w \in Workers :
         Begin(w) \/ Step(w) \/ FetchFails(w) \/ StockFails(w) \/ Crash(w)

Spec == Init /\ [][Next]_vars

(* A running worker keeps running; the database ends every wait. *)
FairSpec == Spec /\ \A w \in Workers : WF_vars(Step(w))

-----------------------------------------------------------------------------
(* Safety *)

(* The rows of a filing are one chain: each closes when its successor        *)
(* starts, only the last is open, no interval is empty.  With it an as-of    *)
(* read finds exactly one row per filing, at any time after the first, even  *)
(* when attempts overlap (_CLOSE_OPEN_SQL and the insert after it, the CHECK *)
(* and the partial unique index of migration 0005).                          *)
Contiguous ==
    \A f \in Filings :
        LET rows == versions[f]
        IN  \A i \in DOMAIN rows :
                IF i = Len(rows)
                THEN rows[i].to = Null
                ELSE rows[i].to = rows[i + 1].from /\ rows[i].from < rows[i].to

(* Every committed revision is announced, or is in the list of a running     *)
(* attempt that will announce it, as long as no worker dies: an error of     *)
(* another stock, or of a later attempt, does not lose it (the list is       *)
(* published after the loop whatever happened in it).                        *)
RevisionsAnnounced ==
    crashes = 0 =>
        \A f \in Filings : \A i \in DOMAIN versions[f] \ {1} :
            \/ [filing |-> f, time |-> versions[f][i].from] \in announced
            \/ \E w \in Workers : /\ job[w].kt = versions[f][i].from
                                  /\ f \in job[w].revisions

(* "identical -> unchanged (no write)" (record_fundamental_version): two     *)
(* neighbouring versions of a filing differ in what they say.                *)
VersionsDiffer ==
    \A f \in Filings : \A i \in DOMAIN versions[f] \ {1} :
        versions[f][i].value # versions[f][i - 1].value

(* What was known at a time never changes once every attempt still running   *)
(* has a later knowledge time: a score computed as of that time can be       *)
(* computed again (fundamentals_as_of over rows that are closed and never    *)
(* overwritten).                                                             *)
HistoryIsFixed ==
    [][\A s \in Stocks, t \in Times :
          (t <= clock /\ \A w \in Workers : At(w, "idle") \/ t < job[w].kt)
              => AsOf(s, t)' = AsOf(s, t)]_vars

(* The table implements the append-only log of KnowledgeLog: rows are only   *)
(* added, at later and later knowledge times, all filings of a stock at once *)
(* (the transaction of FundamentalsIngestionService.ingest).                 *)
Log == INSTANCE KnowledgeLog WITH
    Values <- Kept,
    MaxTime <- MaxAttempts,
    log <- [f \in Filings |-> [i \in DOMAIN versions[f] |->
              [value |-> versions[f][i].value, from |-> versions[f][i].from]]]

LogSpec == Log!LogSpec

-----------------------------------------------------------------------------
(* Liveness *)

(* No attempt waits for ever, on a row lock or on the unique index: the      *)
(* transactions of overlapping attempts take a stock's filings in one order  *)
(* and end with the stock (ingest).                                          *)
EveryAttemptEnds ==
    \A w \in Workers : ~At(w, "idle") ~> At(w, "idle")

(* The versions of a filing are one well-formed chain.                       *)
VersionsAreAChain == TypeOK /\ Contiguous

(* Nothing that was known is forgotten or rewritten (KnowledgeLog), and what *)
(* a reader saw as of a settled time it sees again (fundamentals_as_of).     *)
KnowledgeIsAppendOnly == HistoryIsFixed /\ LogSpec
=============================================================================
