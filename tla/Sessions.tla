------------------------------ MODULE Sessions ------------------------------
(* identity (QV-006): accounts and the lineage of refresh tokens.  A browser *)
(* keeps one refresh cookie for all its tabs; each tab has at most one       *)
(* request under way, and a request is a chain of transactions (PostgreSQL,  *)
(* read committed) whose answer may come late or never.  A token is its      *)
(* position in the table: the hash that is stored and the value in the       *)
(* cookie name the same token.                                               *)
EXTENDS Naturals, FiniteSets, Sequences

CONSTANTS
    Spellings,   \* addresses as they are typed
    Lower,       \* Lower[s]: the address stripped and lower-cased
    Tabs,        \* the tabs of one browser; each types a password of its own
    TTL,         \* refresh_token_ttl_seconds
    LastInstant, \* bound on the clock
    MaxTokens    \* bound on the tokens issued

ASSUME SessionsAssumption ==
    /\ Lower \in [Spellings -> Spellings]
    /\ TTL \in Nat \ {0} /\ LastInstant \in Nat /\ MaxTokens \in Nat

VARIABLES
    users, tenants, memberships, subscriptions,  \* the four tables of an account
    tokens,      \* refresh_tokens, in the order of insertion
    jar,         \* the token in the browser's cookie, 0 for none
    request,     \* request[t]: what tab t is waiting for
    instant,     \* now()
    ended,       \* families whose reuse was detected
    overlapped,       \* families written by two overlapping transactions
    disturbed    \* families with overlapping requests or a lost answer

accountVars == <<users, tenants, memberships, subscriptions>>
ghosts == <<ended, overlapped, disturbed>>
sessionVars == <<accountVars, tokens, jar, request, instant, ghosts>>

Free == [stage |-> "free"]       \* a tab with no request under way

SessionsInit ==
    /\ users = {} /\ tenants = {} /\ memberships = {} /\ subscriptions = {}
    /\ tokens = <<>> /\ jar = 0 /\ instant = 0
    /\ request = [t \in Tabs |-> Free]
    /\ ended = {} /\ overlapped = {} /\ disturbed = {}

Family(f) == {i \in DOMAIN tokens : tokens[i].family = f}
LiveIn(f) == {i \in Family(f) : ~tokens[i].revoked}

email_exists(e) == \E u \in users : u.email = e
primary_membership(u) == CHOOSE m \in memberships : m.user = u

(* The rows of revoke_refresh and revoke_family: only those still live.      *)
Revoked(table, ids, by) ==
    [i \in DOMAIN table |->
        IF i \in ids /\ ~table[i].revoked
        THEN [table[i] EXCEPT !.revoked = TRUE, !.replaced_by = by] ELSE table[i]]

Inserted(family, user) ==
    Append(tokens, [family |-> family, user |-> user, expires |-> instant + TTL,
                    revoked |-> FALSE, replaced_by |-> 0])

Waits(t, what) == request' = [request EXCEPT ![t] = what]
Stage(t, stage) == request[t].stage = stage
CarriesFamily(t) == request[t].stage \notin {"free", "insert", "issue"}

-----------------------------------------------------------------------------
(* POST /auth/register and /auth/login.  The address is looked up, then the  *)
(* four rows are written in one transaction; the unique index on lower(email) *)
(* makes the second of two overlapping registrations roll back.              *)
Register(t, s) ==
    /\ request[t] = Free /\ ~email_exists(Lower[s])
    /\ Waits(t, [stage |-> "insert", email |-> Lower[s]])
    /\ UNCHANGED <<accountVars, tokens, jar, instant, ghosts>>

InsertAccount(t) ==
    /\ Stage(t, "insert")
    /\ LET id == Cardinality(users) + 1
           e == request[t].email IN
       IF \E u \in users : Lower[u.email] = Lower[e]
       THEN Waits(t, Free) /\ UNCHANGED accountVars
       ELSE /\ tenants' = tenants \cup {id}
            /\ users' = users \cup {[id |-> id, email |-> e, password |-> t]}
            /\ memberships' = memberships \cup {[tenant |-> id, user |-> id, role |-> "owner"]}
            /\ subscriptions' = subscriptions \cup {[tenant |-> id, plan |-> "free"]}
            /\ Waits(t, [stage |-> "issue", user |-> id])
    /\ UNCHANGED <<tokens, jar, instant, ghosts>>

Login(t, s) ==
    /\ request[t] = Free
    /\ \E u \in users : /\ u.email = Lower[s] /\ u.password = t
                        /\ Waits(t, [stage |-> "issue", user |-> primary_membership(u.id).user])
    /\ UNCHANGED <<accountVars, tokens, jar, instant, ghosts>>

(* A new family. *)
IssueTokens(t) ==
    /\ Stage(t, "issue") /\ Len(tokens) < MaxTokens
    /\ tokens' = Inserted(Len(tokens) + 1, request[t].user)
    /\ Waits(t, [stage |-> "answer", family |-> Len(tokens) + 1, cookie |-> Len(tokens) + 1])
    /\ UNCHANGED <<accountVars, jar, instant, ghosts>>

-----------------------------------------------------------------------------
(* POST /auth/refresh and /auth/logout: the browser sends the cookie it has. *)
Send(t, op) ==
    /\ request[t] = Free /\ jar # 0
    /\ LET f == tokens[jar].family IN
       /\ Waits(t, [stage |-> op, family |-> f, raw |-> jar])
       /\ disturbed' = IF \E o \in Tabs : CarriesFamily(o) /\ request[o].family = f
                       THEN disturbed \cup {f} ELSE disturbed
    /\ UNCHANGED <<accountVars, tokens, jar, instant, ended, overlapped>>

(* rotate: the row is read, and what it says decides the writes.             *)
FindRefresh(t) ==
    /\ Stage(t, "refresh")
    /\ LET found == tokens[request[t].raw] IN
       Waits(t, [request[t] EXCEPT !.stage =
                    IF found.revoked THEN "reuse"
                    ELSE IF found.expires <= instant THEN "expired" ELSE "rotate"])
    /\ UNCHANGED <<accountVars, tokens, jar, instant, ghosts>>

(* The rotated token was still live when the child was committed. *)
RotateRefresh(t) ==
    /\ Stage(t, "rotate") /\ Len(tokens) < MaxTokens
    /\ LET raw == request[t].raw
           f == request[t].family
           child == Len(tokens) + 1 IN
       /\ tokens' = Revoked(Inserted(f, tokens[raw].user), {raw}, child)
       /\ overlapped' = IF tokens[raw].revoked THEN overlapped \cup {f} ELSE overlapped
       /\ Waits(t, [stage |-> "answer", family |-> f, cookie |-> child])
    /\ UNCHANGED <<accountVars, jar, instant, ended, disturbed>>

(* revoke_family is one UPDATE: it sees the rows committed when it starts,   *)
(* and waits for those another transaction is writing.                       *)
ScanFamily(t) ==
    /\ Stage(t, "reuse")
    /\ Waits(t, [stage |-> "revoke", family |-> request[t].family, raw |-> request[t].raw,
                 seen |-> LiveIn(request[t].family)])
    /\ UNCHANGED <<accountVars, tokens, jar, instant, ghosts>>

(* Raising inside the transaction rolls the revocation back. *)
RevokeFamilyThenRaise(t) ==
    /\ Stage(t, "revoke") /\ Waits(t, Free)
    /\ ended' = ended \cup {request[t].family}
    /\ UNCHANGED <<accountVars, tokens, jar, instant, overlapped, disturbed>>

(* The writes commit first; only then does rotate raise. *)
RevokeFamily(t) ==
    /\ Stage(t, "revoke")
    /\ LET f == request[t].family
           seen == request[t].seen IN
       /\ tokens' = Revoked(tokens, seen, 0)
       /\ ended' = ended \cup {f}
       /\ overlapped' = IF LiveIn(f) \subseteq seen THEN overlapped ELSE overlapped \cup {f}
       /\ Waits(t, Free)
    /\ UNCHANGED <<accountVars, jar, instant, disturbed>>

ExpireRefresh(t) ==
    /\ Stage(t, "expired")
    /\ tokens' = Revoked(tokens, {request[t].raw}, 0)
    /\ Waits(t, Free)
    /\ UNCHANGED <<accountVars, jar, instant, ghosts>>

Logout(t) ==
    /\ Stage(t, "logout")
    /\ tokens' = Revoked(tokens, {request[t].raw}, 0)
    /\ Waits(t, [stage |-> "answer", family |-> request[t].family, cookie |-> 0])
    /\ UNCHANGED <<accountVars, jar, instant, ghosts>>

(* The answer sets or deletes the cookie; an error leaves it as it is.       *)
AnswerArrives(t) ==
    /\ Stage(t, "answer")
    /\ jar' = request[t].cookie
    /\ Waits(t, Free)
    /\ UNCHANGED <<accountVars, tokens, instant, ghosts>>

(* The connection or the server goes away between two transactions.          *)
Lost(t) ==
    /\ request[t] # Free
    /\ disturbed' = IF CarriesFamily(t) THEN disturbed \cup {request[t].family} ELSE disturbed
    /\ Waits(t, Free)
    /\ UNCHANGED <<accountVars, tokens, jar, instant, ended, overlapped>>

Pass == /\ instant < LastInstant /\ instant' = instant + 1
        /\ UNCHANGED <<accountVars, tokens, jar, request, ghosts>>

SessionsNext ==
    \/ \E t \in Tabs :
        \/ \E s \in Spellings : Register(t, s) \/ Login(t, s)
        \/ \E op \in {"refresh", "logout"} : Send(t, op)
        \/ InsertAccount(t) \/ IssueTokens(t)
        \/ FindRefresh(t) \/ RotateRefresh(t) \/ ExpireRefresh(t)
        \/ ScanFamily(t) \/ RevokeFamily(t)
        \/ Logout(t) \/ AnswerArrives(t) \/ Lost(t)
    \/ Pass

SessionsSpec == SessionsInit /\ [][SessionsNext]_sessionVars

-----------------------------------------------------------------------------
(* me(): the account a token leads to, through its user and membership.      *)
MeView(i) ==
    LET m == primary_membership(tokens[i].user) IN
    [email |-> {u.email : u \in {v \in users : v.id = m.user}},
     plan |-> {s.plan : s \in {r \in subscriptions : r.tenant = m.tenant}}]

(* Registrations of one address that overlap leave one whole account: one    *)
(* user, who alone owns one tenant with one plan.                            *)
AccountsAreWhole ==
    /\ \A u, v \in users : Lower[u.email] = Lower[v.email] => u = v
    /\ tenants = {m.tenant : m \in memberships} /\ tenants = {s.tenant : s \in subscriptions}
    /\ {u.id : u \in users} = {m.user : m \in memberships}
    /\ Cardinality(memberships) = Cardinality(users)
    /\ Cardinality(subscriptions) = Cardinality(tenants)
    /\ \A i \in DOMAIN tokens : Cardinality(MeView(i).email) = 1 /\ MeView(i).plan = {"free"}

(* A family is one chain of one user: no more than one token of it is live,  *)
(* and none once reuse was detected, unless two transactions overlapped.     *)
FamiliesAreChains ==
    \A f \in DOMAIN tokens :
        /\ \A i, j \in Family(f) : tokens[i].user = tokens[j].user
        /\ \A i \in Family(f) : tokens[i].replaced_by # 0 =>
              tokens[i].replaced_by > i /\ tokens[i].replaced_by \in Family(f)
        /\ f \notin overlapped => Cardinality(LiveIn(f)) <= 1
        /\ f \in ended \ overlapped => LiveIn(f) = {}

(* A browser that sends one request of a session at a time and gets every    *)
(* answer stays signed in until the token expires.                           *)
QuietSessionLives ==
    (jar # 0 /\ (\A t \in Tabs : request[t] = Free) /\ tokens[jar].family \notin disturbed
        /\ tokens[jar].expires > instant)
    => ~tokens[jar].revoked

(* Registration, rotation, reuse detection and logout, interleaved and cut   *)
(* short anywhere, keep accounts whole, families chains, and an undisturbed  *)
(* session usable (AuthService.register, rotate, logout).                    *)
SessionsAreSound == AccountsAreWhole /\ FamiliesAreChains /\ QuietSessionLives
=============================================================================
