--------------------------- MODULE IdempotentCreate ---------------------------
(***************************************************************************)
(* POST /portfolios with an Idempotency-Key: api/idempotency.py inside the *)
(* request's transaction, committed before the response is sent.           *)
(*                                                                         *)
(* Each HTTP request is an attempt.  A client that got no answer sends the *)
(* same request again, possibly while the first is still running, so       *)
(* attempts with one key overlap freely.  The tenant of an attempt is      *)
(* bound to its TRANSACTION (SET LOCAL app.tenant_id): row level security  *)
(* shows a transaction the rows of the tenant it is bound to, and nothing  *)
(* once the binding is gone.                                               *)
(***************************************************************************)
EXTENDS Integers, FiniteSets

CONSTANTS
    Attempts,   \* HTTP requests
    Tenants,
    Keys,       \* Idempotency-Key values
    Bodies,     \* request bodies (their fingerprints)
    TenantOf, KeyOf, BodyOf,
    NoKey,      \* the request has no Idempotency-Key
    Unbound,    \* the transaction is bound to no tenant
    Limit,      \* portfolios the plan allows a tenant
    MaxAborts   \* bound: requests that die on a database error or a crash

ASSUME RequestAssumption ==
    /\ TenantOf \in [Attempts -> Tenants]
    /\ KeyOf \in [Attempts -> Keys \cup {NoKey}]
    /\ BodyOf \in [Attempts -> Bodies]
    /\ NoKey \notin Keys /\ Unbound \notin Tenants
ASSUME LimitAssumption == Limit \in Nat /\ MaxAborts \in Nat

Codes == {"created", "conflict", "limit", "error"}

(* An idempotency_keys row; the portfolio of an attempt is named after it. *)
Rows == [tenant : Tenants, key : Keys, body : Bodies, portfolio : Attempts]

VARIABLES
    pc,          \* where each attempt is
    bound,       \* the tenant its transaction is bound to
    rows,        \* committed idempotency_keys
    portfolios,  \* committed portfolios, each named after its attempt
    reply,       \* what the attempt is going to answer, or has answered
    raced,       \* history: a quota check missed an insert not yet committed
    aborts       \* requests that died so far

vars == <<pc, bound, rows, portfolios, reply, raced, aborts>>

NoReply == [code |-> "none"]

Replies == [code : Codes, portfolio : Attempts]

Pcs == {"new", "lookup", "produce", "store", "reread", "commit", "reply", "answered"}

TypeOK ==
    /\ pc \in [Attempts -> Pcs]
    /\ bound \in [Attempts -> Tenants \cup {Unbound}]
    /\ rows \subseteq Rows
    /\ portfolios \subseteq Attempts
    /\ reply \in [Attempts -> Replies \cup {NoReply}]
    /\ raced \in BOOLEAN
    /\ aborts \in 0..MaxAborts

Init ==
    /\ pc = [a \in Attempts |-> "new"]
    /\ bound = [a \in Attempts |-> Unbound]
    /\ rows = {}
    /\ portfolios = {}
    /\ reply = [a \in Attempts |-> NoReply]
    /\ raced = FALSE
    /\ aborts = 0

Goto(a, from, to) ==
    /\ pc[a] = from
    /\ pc' = [pc EXCEPT ![a] = to]

Answer(a, code, p) ==
    reply' = [reply EXCEPT ![a] = [code |-> code, portfolio |-> p]]

(* What a table without row level security would show. *)
AllRows(a) == {r \in rows : bound[a] \in Tenants}

(* What row level security lets a transaction see. *)
VisibleRows(a) == {r \in rows : r.tenant = bound[a]}
VisiblePortfolios(a) == {p \in portfolios : TenantOf[p] = bound[a]}

Stored(a) == {r \in VisibleRows(a) : r.key = KeyOf[a]}

(* The transaction has inserted its key row and not yet committed it. *)
Holds(a) == pc[a] = "commit" /\ KeyOf[a] # NoKey

SameKey(a, b) == TenantOf[a] = TenantOf[b] /\ KeyOf[a] = KeyOf[b]

-----------------------------------------------------------------------------
Begin(a) ==
    /\ Goto(a, "new", IF KeyOf[a] = NoKey THEN "produce" ELSE "lookup")
    /\ bound' = [bound EXCEPT ![a] = TenantOf[a]]
    /\ UNCHANGED <<rows, portfolios, reply, raced, aborts>>

(* A stored response is replayed to the same request and refused to another. *)
Resolve(a, r) ==
    IF r.body = BodyOf[a] THEN Answer(a, "created", r.portfolio)
                          ELSE Answer(a, "conflict", r.portfolio)

Hit(a) ==
    /\ Goto(a, "lookup", "reply")
    /\ \E r \in Stored(a) : Resolve(a, r)
    /\ UNCHANGED <<bound, rows, portfolios, raced, aborts>>

Miss(a) ==
    /\ Goto(a, "lookup", "produce")
    /\ Stored(a) = {}
    /\ UNCHANGED <<bound, rows, portfolios, reply, raced, aborts>>

UnderLimit(a) == Cardinality(VisiblePortfolios(a)) < Limit

(* The transaction has inserted its portfolio and not yet committed it. *)
Creating(a) == pc[a] \in {"store", "commit"}

(* The insert stays in the transaction; Commit makes it visible. *)
Produce(a) ==
    /\ Goto(a, "produce", IF KeyOf[a] = NoKey THEN "commit" ELSE "store")
    /\ UnderLimit(a)
    /\ raced' = (raced \/ \E b \in Attempts : Creating(b) /\ TenantOf[b] = TenantOf[a])
    /\ UNCHANGED <<bound, rows, portfolios, reply, aborts>>

Refuse(a) ==
    /\ Goto(a, "produce", "reply")
    /\ ~UnderLimit(a)
    /\ Answer(a, "limit", a)
    /\ UNCHANGED <<bound, rows, portfolios, raced, aborts>>

(* UNIQUE (tenant_id, idempotency_key): the insert waits for a transaction  *)
(* that has inserted the same key, then succeeds or violates the constraint.*)
KeyTaken(a) == \E r \in rows : r.tenant = TenantOf[a] /\ r.key = KeyOf[a]
KeyFree(a) == \A b \in Attempts \ {a} : Holds(b) => ~SameKey(a, b)

(* What a table without the UNIQUE constraint would do. *)
StoreUnchecked(a) ==
    /\ Goto(a, "store", "commit")
    /\ UNCHANGED <<bound, rows, portfolios, reply, raced, aborts>>

(* What storing the response in a transaction of its own would do. *)
StoreCommitsAlone(a) ==
    /\ Goto(a, "store", "commit")
    /\ KeyFree(a) /\ ~KeyTaken(a)
    /\ rows' = rows \cup {[tenant |-> TenantOf[a], key |-> KeyOf[a],
                           body |-> BodyOf[a], portfolio |-> a]}
    /\ UNCHANGED <<bound, portfolios, reply, raced, aborts>>

Store(a) ==
    /\ Goto(a, "store", "commit")
    /\ KeyFree(a) /\ ~KeyTaken(a)
    /\ UNCHANGED <<bound, rows, portfolios, reply, raced, aborts>>

(* What starting over on the unbound session would do. *)
LoseRaceAndRestart(a) ==
    /\ Goto(a, "store", "lookup")
    /\ KeyFree(a) /\ KeyTaken(a)
    /\ bound' = [bound EXCEPT ![a] = Unbound]
    /\ UNCHANGED <<rows, portfolios, reply, raced, aborts>>

(* session.rollback(): the new portfolio is gone, and so is the binding. *)
LoseRace(a) ==
    /\ Goto(a, "store", "reread")
    /\ KeyFree(a) /\ KeyTaken(a)
    /\ bound' = [bound EXCEPT ![a] = Unbound]
    /\ UNCHANGED <<rows, portfolios, reply, raced, aborts>>

Reread(a) ==
    /\ Goto(a, "reread", "reply")
    /\ IF Stored(a) = {} THEN Answer(a, "error", a)
                         ELSE \E r \in Stored(a) : Resolve(a, r)
    /\ UNCHANGED <<bound, rows, portfolios, raced, aborts>>

NewRow(a) ==
    [tenant |-> TenantOf[a], key |-> KeyOf[a], body |-> BodyOf[a], portfolio |-> a]

Commit(a) ==
    /\ Goto(a, "commit", "reply")
    /\ portfolios' = portfolios \cup {a}
    /\ rows' = IF KeyOf[a] = NoKey THEN rows ELSE rows \cup {NewRow(a)}
    /\ Answer(a, "created", a)
    /\ UNCHANGED <<bound, raced, aborts>>

Respond(a) ==
    /\ Goto(a, "reply", "answered")
    /\ UNCHANGED <<bound, rows, portfolios, reply, raced, aborts>>

(* The request dies: an open transaction rolls back, the client gets an error. *)
Abort(a) ==
    /\ pc[a] \notin {"new", "answered"}
    /\ aborts < MaxAborts
    /\ aborts' = aborts + 1
    /\ pc' = [pc EXCEPT ![a] = "answered"]
    /\ Answer(a, "error", a)
    /\ UNCHANGED <<bound, rows, portfolios, raced>>

Work(a) ==
    \/ Hit(a) \/ Miss(a) \/ Produce(a) \/ Refuse(a)
    \/ Store(a) \/ LoseRace(a) \/ Reread(a)
    \/ Commit(a) \/ Respond(a)

Next == \E a \in Attempts : Begin(a) \/ Work(a) \/ Abort(a)

Spec == Init /\ [][Next]_vars

FairSpec == Spec /\ \A a \in Attempts : WF_vars(Work(a))

-----------------------------------------------------------------------------
(* Properties *)

(* produce takes effect "at most once per (tenant, key)", however attempts  *)
(* overlap, lose the race or die: two portfolios never share a key.         *)
AtMostOncePerKey ==
    \A a, b \in portfolios : SameKey(a, b) /\ KeyOf[a] # NoKey => a = b

(* The stored response and the portfolio it describes are one transaction:  *)
(* a key row never points to a portfolio that was rolled back, and a keyed  *)
(* portfolio never lacks its row (its retry would create a second one).     *)
RowsMatchPortfolios ==
    /\ \A r \in rows : r.portfolio \in portfolios
    /\ \A p \in portfolios : KeyOf[p] # NoKey => NewRow(p) \in rows

(* What a client reads is true.  After 201 its own tenant has the portfolio, *)
(* created for this very request or an identical one, and it is durable (the *)
(* response is sent after the commit); 409 is given only to a request that   *)
(* differs from the stored one.                                              *)
AnswersAreTrue ==
    \A a \in Attempts :
        /\ pc[a] = "answered" /\ reply[a].code = "created" =>
              LET p == reply[a].portfolio IN
              /\ p \in portfolios
              /\ TenantOf[p] = TenantOf[a] /\ BodyOf[p] = BodyOf[a] /\ KeyOf[p] = KeyOf[a]
              /\ KeyOf[a] = NoKey => p = a
        /\ reply[a].code = "conflict" =>
              \E r \in rows : /\ r.tenant = TenantOf[a] /\ r.key = KeyOf[a]
                              /\ r.body # BodyOf[a]

(* Waiting for another transaction's key ends: every request is answered.   *)
EveryAttemptAnswered ==
    \A a \in Attempts : pc[a] = "lookup" ~> pc[a] = "answered"

(* "A concurrent create that loses the UNIQUE race is caught and resolved   *)
(* to a replay/conflict" (api/idempotency.py:110).                          *)
LoserIsResolved ==
    \A a \in Attempts : reply[a].code = "error" => aborts > 0

(* The plan's quota holds as long as no create checked it while another one *)
(* of its tenant was in flight: replays, lost races and failed requests do  *)
(* not use it up.  (Two creates that check together do exceed it: the count *)
(* and the insert are not serialised.)                                      *)
QuotaHoldsUnlessRaced ==
    ~raced => \A t \in Tenants : Cardinality({p \in portfolios : TenantOf[p] = t}) <= Limit

(* Portfolios, keys and quota agree (run_idempotent around create_portfolio).*)
TablesAgree == TypeOK /\ RowsMatchPortfolios /\ QuotaHoldsUnlessRaced
=============================================================================
