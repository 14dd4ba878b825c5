----------------------------- MODULE TenantProofs -----------------------------
(***************************************************************************)
(* Proofs about what requests do to the data of tenants: IdempotentCreate, *)
(* for any requests, tenants, keys, bodies and plan limit, and the accounts *)
(* and refresh families of Sessions, for any tabs and any clock.           *)
(***************************************************************************)
EXTENDS IdempotentCreate, Sessions, FiniteSetTheorems, TLAPS

-----------------------------------------------------------------------------
(* IdempotentCreate: tables, keys and answers *)

(* The inductive invariant.  An open transaction is bound to its own tenant  *)
(* until a rollback unbinds it.                                              *)
BindingHolds ==
    \A a \in Attempts :
        /\ pc[a] \in {"lookup", "produce", "store", "commit"} => bound[a] = TenantOf[a]
        /\ pc[a] = "reread" => bound[a] = Unbound
        /\ pc[a] \in {"lookup", "store", "reread"} => KeyOf[a] # NoKey

(* A committed key row is the one its portfolio wrote. *)
RowsAreOwn == \A r \in rows : r = NewRow(r.portfolio) /\ r.key # NoKey

(* A key is held by one open transaction at most, and by none once taken.    *)
KeysAreExclusive ==
    /\ \A a, b \in Attempts : Holds(a) /\ Holds(b) /\ SameKey(a, b) => a = b
    /\ \A a \in Attempts : Holds(a) => ~KeyTaken(a)

(* A request still at work has committed nothing. *)
OpenIsUncommitted ==
    \A a \in Attempts : pc[a] \in Pcs \ {"reply", "answered"} => a \notin portfolios

(* "created" names a committed portfolio of the same request, answered or not.*)
CreatedIsTrue ==
    \A a \in Attempts : reply[a].code = "created" =>
        LET p == reply[a].portfolio IN
        /\ p \in portfolios
        /\ TenantOf[p] = TenantOf[a] /\ BodyOf[p] = BodyOf[a] /\ KeyOf[p] = KeyOf[a]
        /\ KeyOf[a] = NoKey => p = a

ConflictIsTrue ==
    \A a \in Attempts : reply[a].code = "conflict" =>
        \E r \in rows : r.tenant = TenantOf[a] /\ r.key = KeyOf[a] /\ r.body # BodyOf[a]

(* What the quota is spent on: committed portfolios and open inserts.        *)
Spent(t) == {a \in Attempts : TenantOf[a] = t /\ (a \in portfolios \/ Creating(a))}

SpentWithinLimit ==
    ~raced => \A t \in Tenants : IsFiniteSet(Spent(t)) /\ Cardinality(Spent(t)) <= Limit

KeyInv == RowsMatchPortfolios /\ RowsAreOwn /\ KeysAreExclusive /\ AtMostOncePerKey

IndInv ==
    /\ TypeOK /\ BindingHolds /\ OpenIsUncommitted
    /\ KeyInv /\ CreatedIsTrue /\ ConflictIsTrue /\ SpentWithinLimit

-----------------------------------------------------------------------------
(* Lemmas about the operators of the model *)

LEMMA GotoMoves ==
    ASSUME TypeOK, NEW a \in Attempts, NEW from \in Pcs, NEW to \in Pcs, Goto(a, from, to)
    PROVE  /\ pc' \in [Attempts -> Pcs] /\ pc[a] = from /\ pc'[a] = to
           /\ \A b \in Attempts \ {a} : pc'[b] = pc[b]
BY DEF Goto, TypeOK

LEMMA AnswerSays ==
    ASSUME TypeOK, NEW a \in Attempts, NEW p \in Attempts, NEW code \in Codes,
           Answer(a, code, p)
    PROVE  /\ reply' \in [Attempts -> Replies \cup {NoReply}]
           /\ reply'[a].code = code /\ reply'[a].portfolio = p
           /\ \A b \in Attempts \ {a} : reply'[b] = reply[b]
BY DEF Answer, TypeOK, Replies

LEMMA RowParts ==
    ASSUME TypeOK, NEW r \in rows
    PROVE  r.tenant \in Tenants /\ r.key \in Keys /\ r.portfolio \in Attempts
BY DEF TypeOK, Rows

LEMMA NewRowParts ==
    ASSUME NEW a \in Attempts
    PROVE  /\ NewRow(a).tenant = TenantOf[a] /\ NewRow(a).key = KeyOf[a]
           /\ NewRow(a).body = BodyOf[a] /\ NewRow(a).portfolio = a
           /\ KeyOf[a] # NoKey => NewRow(a) \in Rows
BY RequestAssumption DEF NewRow, Rows

(* What row level security shows a bound transaction of a key is its row.    *)
LEMMA StoredIsOwn ==
    ASSUME IndInv, NEW a \in Attempts, bound[a] = TenantOf[a], NEW r \in Stored(a)
    PROVE  /\ r \in rows /\ r.tenant = TenantOf[a] /\ r.key = KeyOf[a] /\ KeyOf[a] # NoKey
           /\ r.portfolio \in portfolios /\ r = NewRow(r.portfolio)
BY DEF IndInv, KeyInv, Stored, VisibleRows, RowsMatchPortfolios, RowsAreOwn

(* Row level security shows an unbound transaction nothing. *)
LEMMA UnboundSeesNothing ==
    ASSUME TypeOK, NEW a \in Attempts, bound[a] = Unbound
    PROVE  Stored(a) = {}
BY RowParts, RequestAssumption DEF Stored, VisibleRows

(* What the steps that answer from a stored row, or find none, leave behind. *)
LEMMA ResolveSays ==
    ASSUME IndInv, NEW a \in Attempts, bound[a] = TenantOf[a],
           NEW r \in Stored(a), Resolve(a, r)
    PROVE  /\ reply' \in [Attempts -> Replies \cup {NoReply}]
           /\ \A b \in Attempts \ {a} : reply'[b] = reply[b]
           /\ \/ /\ reply'[a].code = "created" /\ reply'[a].portfolio = r.portfolio
                 /\ r.body = BodyOf[a]
              \/ reply'[a].code = "conflict" /\ r.body # BodyOf[a]
<1>1. r.portfolio \in Attempts
  BY StoredIsOwn DEF IndInv, TypeOK
<1>2. CASE r.body = BodyOf[a]
  <2>1. Answer(a, "created", r.portfolio)
    BY <1>2 DEF Resolve
  <2>2. QED
    BY <1>1, <1>2, <2>1, AnswerSays DEF IndInv, Codes
<1>3. CASE r.body # BodyOf[a]
  <2>1. Answer(a, "conflict", r.portfolio)
    BY <1>3 DEF Resolve
  <2>2. QED
    BY <1>1, <1>3, <2>1, AnswerSays DEF IndInv, Codes
<1>4. QED
  BY <1>2, <1>3

-----------------------------------------------------------------------------
LEMMA TypeInit == Init => TypeOK
<1> SUFFICES ASSUME Init PROVE TypeOK
  OBVIOUS
<1>1. pc \in [Attempts -> Pcs]
  BY DEF Init, Pcs
<1>2. reply \in [Attempts -> Replies \cup {NoReply}]
  BY DEF Init
<1>3. aborts \in 0..MaxAborts
  BY LimitAssumption DEF Init
<1>4. QED
  BY <1>1, <1>2, <1>3 DEF Init, TypeOK

LEMMA TypeNext == TypeOK /\ [Next]_vars => TypeOK'
<1> SUFFICES ASSUME TypeOK, [Next]_vars PROVE TypeOK'
  OBVIOUS
<1>1. CASE UNCHANGED vars
  BY <1>1 DEF vars, TypeOK
<1>2. ASSUME NEW a \in Attempts, Begin(a) PROVE TypeOK'
  <2>1. pc' \in [Attempts -> Pcs]
    BY <1>2 DEF Begin, Goto, TypeOK, Pcs
  <2>2. QED
    BY <1>2, <2>1, RequestAssumption DEF Begin, TypeOK
<1>3. ASSUME NEW a \in Attempts, Hit(a) PROVE TypeOK'
  <2>1. pc' \in [Attempts -> Pcs]
    BY <1>3, GotoMoves DEF Hit, Pcs
  <2>2. PICK r \in Stored(a) : Resolve(a, r)
    BY <1>3 DEF Hit
  <2>3. r.portfolio \in Attempts
    BY RowParts DEF Stored, VisibleRows
  <2>4. reply' \in [Attempts -> Replies \cup {NoReply}]
    BY <2>2, <2>3, AnswerSays DEF Resolve, Codes
  <2>5. QED
    BY <1>3, <2>1, <2>4 DEF Hit, TypeOK
<1>4. ASSUME NEW a \in Attempts, Miss(a) PROVE TypeOK'
  BY <1>4 DEF Miss, Goto, TypeOK, Pcs
<1>5. ASSUME NEW a \in Attempts, Produce(a) PROVE TypeOK'
  <2>1. pc' \in [Attempts -> Pcs]
    BY <1>5 DEF Produce, Goto, TypeOK, Pcs
  <2>2. raced' \in BOOLEAN
    BY <1>5 DEF Produce, TypeOK
  <2>3. QED
    BY <1>5, <2>1, <2>2 DEF Produce, TypeOK
<1>6. ASSUME NEW a \in Attempts, Refuse(a) PROVE TypeOK'
  <2>1. pc' \in [Attempts -> Pcs]
    BY <1>6, GotoMoves DEF Refuse, Pcs
  <2>2. reply' \in [Attempts -> Replies \cup {NoReply}]
    BY <1>6, AnswerSays DEF Refuse, Codes
  <2>3. QED
    BY <1>6, <2>1, <2>2 DEF Refuse, TypeOK
<1>7. ASSUME NEW a \in Attempts, Store(a) PROVE TypeOK'
  BY <1>7 DEF Store, Goto, TypeOK, Pcs
<1>8. ASSUME NEW a \in Attempts, LoseRace(a) PROVE TypeOK'
  BY <1>8 DEF LoseRace, Goto, TypeOK, Pcs
<1>9. ASSUME NEW a \in Attempts, Reread(a) PROVE TypeOK'
  <2>1. pc' \in [Attempts -> Pcs]
    BY <1>9, GotoMoves DEF Reread, Pcs
  <2>2. CASE Stored(a) = {}
    <3>1. reply' \in [Attempts -> Replies \cup {NoReply}]
      BY <1>9, <2>2, AnswerSays DEF Reread, Codes
    <3>2. QED
      BY <1>9, <2>1, <3>1 DEF Reread, TypeOK
  <2>3. CASE Stored(a) # {}
    <3>1. PICK r \in Stored(a) : Resolve(a, r)
      BY <1>9, <2>3 DEF Reread
    <3>2. r.portfolio \in Attempts
      BY RowParts DEF Stored, VisibleRows
    <3>3. reply' \in [Attempts -> Replies \cup {NoReply}]
      BY <3>1, <3>2, AnswerSays DEF Resolve, Codes
    <3>4. QED
      BY <1>9, <2>1, <3>3 DEF Reread, TypeOK
  <2>4. QED
    BY <2>2, <2>3
<1>10. ASSUME NEW a \in Attempts, Commit(a) PROVE TypeOK'
  <2>1. pc' \in [Attempts -> Pcs]
    BY <1>10, GotoMoves DEF Commit, Pcs
  <2>2. reply' \in [Attempts -> Replies \cup {NoReply}]
    BY <1>10, AnswerSays DEF Commit, Codes
  <2>3. rows' \subseteq Rows
    BY <1>10, NewRowParts DEF Commit, TypeOK
  <2>4. QED
    BY <1>10, <2>1, <2>2, <2>3 DEF Commit, TypeOK
<1>11. ASSUME NEW a \in Attempts, Respond(a) PROVE TypeOK'
  BY <1>11 DEF Respond, Goto, TypeOK, Pcs
<1>12. ASSUME NEW a \in Attempts, Abort(a) PROVE TypeOK'
  <2>1. pc' \in [Attempts -> Pcs]
    BY <1>12 DEF Abort, TypeOK, Pcs
  <2>2. reply' \in [Attempts -> Replies \cup {NoReply}]
    BY <1>12, AnswerSays DEF Abort, Codes
  <2>3. aborts' \in 0..MaxAborts
    BY <1>12, LimitAssumption DEF Abort, TypeOK
  <2>4. QED
    BY <1>12, <2>1, <2>2, <2>3 DEF Abort, TypeOK
<1>13. QED
  BY <1>1, <1>2, <1>3, <1>4, <1>5, <1>6, <1>7, <1>8, <1>9, <1>10, <1>11, <1>12
  DEF Next, Work

-----------------------------------------------------------------------------
(* What a step does, in the terms the invariant is written in *)

(* One request moves, along the edges of run_idempotent. *)
LEMMA StepEdges ==
    ASSUME TypeOK, NEW a \in Attempts, Begin(a) \/ Work(a) \/ Abort(a)
    PROVE  /\ \A b \in Attempts \ {a} : pc'[b] = pc[b] /\ reply'[b] = reply[b]
           /\ \A b \in Attempts \ {a} : bound'[b] = bound[b]
           /\ \/ pc[a] = "new" /\ pc'[a] = (IF KeyOf[a] = NoKey THEN "produce" ELSE "lookup")
              \/ pc[a] = "lookup" /\ pc'[a] \in {"produce", "reply"}
              \/ pc[a] = "produce" /\ pc'[a] = (IF KeyOf[a] = NoKey THEN "commit" ELSE "store")
              \/ pc[a] = "store" /\ pc'[a] \in {"commit", "reread"}
              \/ pc'[a] \in {"reply", "answered"}
<1>1. pc \in [Attempts -> Pcs] /\ bound \in [Attempts -> Tenants \cup {Unbound}]
        /\ reply \in [Attempts -> Replies \cup {NoReply}]
  BY DEF TypeOK
<1>2. CASE Begin(a)
  BY <1>1, <1>2 DEF Begin, Goto
<1>3. CASE Hit(a)
  BY <1>1, <1>3 DEF Hit, Goto, Resolve, Answer
<1>4. CASE Miss(a)
  BY <1>1, <1>4 DEF Miss, Goto
<1>5. CASE Produce(a)
  BY <1>1, <1>5 DEF Produce, Goto
<1>6. CASE Refuse(a)
  BY <1>1, <1>6 DEF Refuse, Goto, Answer
<1>7. CASE Store(a) \/ LoseRace(a)
  BY <1>1, <1>7 DEF Store, LoseRace, Goto
<1>8. CASE Reread(a)
  BY <1>1, <1>8 DEF Reread, Goto, Resolve, Answer
<1>9. CASE Commit(a)
  BY <1>1, <1>9 DEF Commit, Goto, Answer
<1>10. CASE Respond(a)
  BY <1>1, <1>10 DEF Respond, Goto
<1>11. CASE Abort(a)
  BY <1>1, <1>11 DEF Abort, Answer
<1>12. QED
  BY <1>2, <1>3, <1>4, <1>5, <1>6, <1>7, <1>8, <1>9, <1>10, <1>11 DEF Work

(* Only a commit writes the tables, and it adds to them. *)
LEMMA TablesMove ==
    ASSUME TypeOK, NEW a \in Attempts, Begin(a) \/ Work(a) \/ Abort(a)
    PROVE  \/ UNCHANGED <<rows, portfolios>>
           \/ /\ pc[a] = "commit" /\ pc'[a] = "reply"
              /\ portfolios' = portfolios \cup {a}
              /\ rows' = IF KeyOf[a] = NoKey THEN rows ELSE rows \cup {NewRow(a)}
              /\ reply'[a].code = "created" /\ reply'[a].portfolio = a
<1>1. CASE Commit(a)
  <2>1. pc[a] = "commit" /\ pc'[a] = "reply"
    BY <1>1, GotoMoves DEF Commit, Pcs
  <2>2. reply'[a].code = "created" /\ reply'[a].portfolio = a
    BY <1>1, AnswerSays DEF Commit, Codes
  <2>3. QED
    BY <1>1, <2>1, <2>2 DEF Commit
<1>2. CASE ~Commit(a)
  BY <1>2 DEF Work, Begin, Hit, Miss, Produce, Refuse, Store, LoseRace, Reread, Respond, Abort
<1>3. QED
  BY <1>1, <1>2

(* A row that was there stays there. *)
LEMMA RowsGrow ==
    ASSUME TypeOK, NEW a \in Attempts, Begin(a) \/ Work(a) \/ Abort(a)
    PROVE  rows \subseteq rows' /\ portfolios \subseteq portfolios'
BY TablesMove

-----------------------------------------------------------------------------
(* The invariant is inductive: one lemma for each part of it *)

LEMMA BindingNext ==
    ASSUME TypeOK, BindingHolds, NEW a \in Attempts, Begin(a) \/ Work(a) \/ Abort(a)
    PROVE  BindingHolds'
<1>1. \A b \in Attempts \ {a} : pc'[b] = pc[b] /\ bound'[b] = bound[b]
  BY StepEdges
<1>2. pc'[a] \in {"lookup", "produce", "store", "commit"} => bound'[a] = TenantOf[a]
  <2>1. CASE Begin(a)
    BY <2>1 DEF Begin, TypeOK
  <2>2. CASE LoseRace(a)
    BY <2>2, GotoMoves DEF LoseRace, Pcs
  <2>3. CASE (Work(a) \/ Abort(a)) /\ ~LoseRace(a)
    <3>1. bound' = bound
      BY <2>3 DEF Work, Hit, Miss, Produce, Refuse, Store, Reread, Commit, Respond, Abort
    <3>2. CASE pc[a] = "new"
      BY <2>3, <3>2 DEF Work, Hit, Miss, Produce, Refuse, Store, Reread, Commit, Respond,
                        Abort, Goto
    <3>3. QED
      BY <3>1, <3>2, StepEdges DEF BindingHolds
  <2>4. QED
    BY <2>1, <2>2, <2>3
<1>3. pc'[a] = "reread" => bound'[a] = Unbound
  <2>1. CASE LoseRace(a)
    BY <2>1 DEF LoseRace, TypeOK
  <2>2. CASE ~LoseRace(a)
    <3>1. pc'[a] # "reread"
      BY <2>2 DEF Begin, Work, Hit, Miss, Produce, Refuse, Store, Reread, Commit, Respond,
                  Abort, Goto, TypeOK
    <3>2. QED
      BY <3>1
  <2>3. QED
    BY <2>1, <2>2
<1>4. pc'[a] \in {"lookup", "store", "reread"} => KeyOf[a] # NoKey
  BY StepEdges DEF BindingHolds
<1>5. QED
  BY <1>1, <1>2, <1>3, <1>4 DEF BindingHolds

LEMMA OpenNext ==
    ASSUME TypeOK, OpenIsUncommitted, NEW a \in Attempts, Begin(a) \/ Work(a) \/ Abort(a)
    PROVE  OpenIsUncommitted'
<1>1. \A b \in Attempts \ {a} : pc'[b] = pc[b]
  BY StepEdges
<1>2. pc[a] \in Pcs \ {"reply", "answered"} \/ pc'[a] \in {"reply", "answered"}
  BY StepEdges DEF Pcs
<1>3. QED
  BY <1>1, <1>2, TablesMove DEF OpenIsUncommitted, Pcs

(* A commit needs its key, and it is the only holder. *)
LEMMA KeyNext ==
    ASSUME TypeOK, KeyInv, BindingHolds, NEW a \in Attempts,
           Begin(a) \/ Work(a) \/ Abort(a)
    PROVE  KeyInv'
<1>1. CASE UNCHANGED <<rows, portfolios>>
  <2>1. RowsMatchPortfolios' /\ RowsAreOwn' /\ AtMostOncePerKey'
    BY <1>1 DEF KeyInv, RowsMatchPortfolios, RowsAreOwn, AtMostOncePerKey, SameKey, NewRow
  <2>2. \A b \in Attempts \ {a} : Holds(b)' = Holds(b)
    BY StepEdges DEF Holds
  <2>3. \A b \in Attempts : KeyTaken(b)' = KeyTaken(b)
    BY <1>1 DEF KeyTaken
  <2>4. Holds(a)' => /\ ~KeyTaken(a)
                    /\ \A b \in Attempts \ {a} : Holds(b) => ~SameKey(a, b)
    <3>1. CASE Store(a)
      BY <3>1 DEF Store, KeyFree
    <3>2. CASE ~Store(a)
      <4>1. ~Holds(a)'
        BY <3>2, StepEdges DEF Begin, Work, Hit, Miss, Produce, Refuse, LoseRace, Reread,
              Commit, Respond, Abort, Goto, Holds, TypeOK
      <4>2. QED
        BY <4>1
    <3>3. QED
      BY <3>1, <3>2
  <2>5. KeysAreExclusive'
    BY <2>2, <2>3, <2>4 DEF KeyInv, KeysAreExclusive, SameKey
  <2>6. QED
    BY <2>1, <2>5 DEF KeyInv
<1>2. CASE /\ pc[a] = "commit" /\ pc'[a] = "reply"
           /\ portfolios' = portfolios \cup {a}
           /\ rows' = IF KeyOf[a] = NoKey THEN rows ELSE rows \cup {NewRow(a)}
  <2>1. \A b \in Attempts : Holds(b)' => Holds(b) /\ b # a
    BY <1>2, StepEdges DEF Holds
  <2>2. RowsAreOwn'
    BY <1>2, NewRowParts DEF KeyInv, RowsAreOwn, NewRow
  <2>3. RowsMatchPortfolios'
    BY <1>2, NewRowParts DEF KeyInv, RowsMatchPortfolios, NewRow
  <2>4. KeysAreExclusive'
    <3>1. CASE KeyOf[a] = NoKey
      BY <1>2, <2>1, <3>1 DEF KeyInv, KeysAreExclusive, SameKey, KeyTaken, Holds
    <3>2. CASE KeyOf[a] # NoKey
      <4>1. Holds(a)
        BY <1>2, <3>2 DEF Holds
      <4>2. ASSUME NEW b \in Attempts, Holds(b)' PROVE ~KeyTaken(b)'
        <5>1. Holds(b) /\ ~SameKey(a, b) /\ ~KeyTaken(b)
          BY <2>1, <4>1, <4>2 DEF KeyInv, KeysAreExclusive
        <5>2. QED
          BY <1>2, <3>2, <5>1, NewRowParts DEF KeyTaken, SameKey
      <4>3. QED
        BY <2>1, <4>2 DEF KeyInv, KeysAreExclusive, SameKey
    <3>3. QED
      BY <3>1, <3>2
  <2>5. AtMostOncePerKey'
    <3>1. ASSUME NEW p \in portfolios, KeyOf[a] # NoKey, SameKey(a, p) PROVE FALSE
      <4>1. Holds(a)
        BY <1>2, <3>1 DEF Holds
      <4>2. NewRow(p) \in rows /\ p \in Attempts
        BY <3>1 DEF KeyInv, RowsMatchPortfolios, SameKey, TypeOK
      <4>3. KeyTaken(a)
        BY <3>1, <4>2, NewRowParts DEF KeyTaken, SameKey
      <4>4. QED
        BY <4>1, <4>3 DEF KeyInv, KeysAreExclusive
    <3>2. QED
      BY <1>2, <3>1 DEF KeyInv, AtMostOncePerKey, SameKey
  <2>6. QED
    BY <2>2, <2>3, <2>4, <2>5 DEF KeyInv
<1>3. QED
  BY <1>1, <1>2, TablesMove

(* What a request hears: its own portfolio, a stored row's, or a refusal. *)
LEMMA ReplyMoves ==
    ASSUME IndInv, NEW a \in Attempts, Begin(a) \/ Work(a) \/ Abort(a)
    PROVE  \/ reply' = reply
           \/ reply'[a].code \in {"limit", "error"}
           \/ Commit(a) /\ reply'[a].code = "created" /\ reply'[a].portfolio = a
           \/ \E r \in Stored(a) :
                 /\ bound[a] = TenantOf[a]
                 /\ \/ /\ reply'[a].code = "created" /\ reply'[a].portfolio = r.portfolio
                       /\ r.body = BodyOf[a]
                    \/ reply'[a].code = "conflict" /\ r.body # BodyOf[a]
<1>1. CASE Hit(a)
  <2>1. bound[a] = TenantOf[a]
    BY <1>1 DEF Hit, Goto, IndInv, BindingHolds
  <2>2. PICK r \in Stored(a) : Resolve(a, r)
    BY <1>1 DEF Hit
  <2>3. QED
    BY <2>1, <2>2, ResolveSays
<1>2. CASE Reread(a)
  <2>1. bound[a] = Unbound
    BY <1>2 DEF Reread, Goto, IndInv, BindingHolds
  <2>2. Stored(a) = {}
    BY <2>1, UnboundSeesNothing DEF IndInv
  <2>3. Answer(a, "error", a)
    BY <1>2, <2>2 DEF Reread
  <2>4. QED
    BY <2>3, AnswerSays DEF IndInv, Codes
<1>3. CASE Refuse(a)
  BY <1>3, AnswerSays DEF Refuse, IndInv, Codes
<1>4. CASE Abort(a)
  BY <1>4, AnswerSays DEF Abort, IndInv, Codes
<1>5. CASE Commit(a)
  BY <1>5, AnswerSays DEF Commit, IndInv, Codes
<1>6. CASE Begin(a) \/ Miss(a) \/ Produce(a) \/ Store(a) \/ LoseRace(a) \/ Respond(a)
  BY <1>6 DEF Begin, Miss, Produce, Store, LoseRace, Respond
<1>7. QED
  BY <1>1, <1>2, <1>3, <1>4, <1>5, <1>6 DEF Work

LEMMA CreatedNext ==
    ASSUME IndInv, NEW a \in Attempts, Begin(a) \/ Work(a) \/ Abort(a)
    PROVE  CreatedIsTrue'
<1>1. TypeOK /\ CreatedIsTrue
  BY DEF IndInv
<1>2. portfolios \subseteq portfolios'
  BY <1>1, RowsGrow
<1>3. \A b \in Attempts \ {a} : reply'[b] = reply[b]
  BY <1>1, StepEdges
<1>4. reply'[a].code = "created" =>
        /\ reply'[a].portfolio \in portfolios'
        /\ TenantOf[reply'[a].portfolio] = TenantOf[a]
        /\ BodyOf[reply'[a].portfolio] = BodyOf[a]
        /\ KeyOf[reply'[a].portfolio] = KeyOf[a]
        /\ KeyOf[a] = NoKey => reply'[a].portfolio = a
  <2>1. CASE reply' = reply
    BY <1>1, <1>2, <2>1 DEF CreatedIsTrue
  <2>2. CASE reply'[a].code \in {"limit", "error"}
    BY <2>2
  <2>3. CASE Commit(a) /\ reply'[a].code = "created" /\ reply'[a].portfolio = a
    BY <2>3 DEF Commit
  <2>4. ASSUME NEW r \in Stored(a), bound[a] = TenantOf[a], r.body = BodyOf[a],
               reply'[a].portfolio = r.portfolio
        PROVE  /\ reply'[a].portfolio \in portfolios'
               /\ TenantOf[reply'[a].portfolio] = TenantOf[a]
               /\ BodyOf[reply'[a].portfolio] = BodyOf[a]
               /\ KeyOf[reply'[a].portfolio] = KeyOf[a]
               /\ KeyOf[a] = NoKey => reply'[a].portfolio = a
    <3>1. /\ r.tenant = TenantOf[a] /\ r.key = KeyOf[a] /\ KeyOf[a] # NoKey
          /\ r.portfolio \in portfolios /\ r = NewRow(r.portfolio)
      BY <2>4, StoredIsOwn
    <3>2. r.portfolio \in Attempts
      BY <1>1, <3>1 DEF TypeOK
    <3>3. /\ r.tenant = TenantOf[r.portfolio] /\ r.key = KeyOf[r.portfolio]
          /\ r.body = BodyOf[r.portfolio]
      BY <3>1, <3>2, NewRowParts
    <3>4. QED
      BY <1>2, <2>4, <3>1, <3>3
  <2>5. QED
    BY <2>1, <2>2, <2>3, <2>4, ReplyMoves
<1>5. QED
  BY <1>1, <1>2, <1>3, <1>4 DEF CreatedIsTrue

LEMMA ConflictNext ==
    ASSUME IndInv, NEW a \in Attempts, Begin(a) \/ Work(a) \/ Abort(a)
    PROVE  ConflictIsTrue'
<1>1. TypeOK /\ ConflictIsTrue
  BY DEF IndInv
<1>2. rows \subseteq rows'
  BY <1>1, RowsGrow
<1>3. \A b \in Attempts \ {a} : reply'[b] = reply[b]
  BY <1>1, StepEdges
<1>4. reply'[a].code = "conflict" =>
        \E r \in rows' : r.tenant = TenantOf[a] /\ r.key = KeyOf[a] /\ r.body # BodyOf[a]
  <2>1. CASE reply' = reply
    BY <1>1, <1>2, <2>1 DEF ConflictIsTrue
  <2>2. ASSUME NEW r \in Stored(a), bound[a] = TenantOf[a], r.body # BodyOf[a]
        PROVE  \E q \in rows' : q.tenant = TenantOf[a] /\ q.key = KeyOf[a]
                                /\ q.body # BodyOf[a]
    BY <1>2, <2>2, StoredIsOwn
  <2>3. QED
    BY <2>1, <2>2, ReplyMoves
<1>5. QED
  BY <1>1, <1>2, <1>3, <1>4 DEF ConflictIsTrue

-----------------------------------------------------------------------------
LEMMA AtMostOneMore ==
    ASSUME NEW S, NEW x, IsFiniteSet(S)
    PROVE  /\ IsFiniteSet(S \cup {x})
           /\ Cardinality(S \cup {x}) <= Cardinality(S) + 1
<1>1. Cardinality(S) \in Nat
  BY FS_CardinalityType
<1>2. /\ IsFiniteSet(S \cup {x})
      /\ Cardinality(S \cup {x}) = IF x \in S THEN Cardinality(S) ELSE Cardinality(S) + 1
  BY FS_AddElement
<1>3. Cardinality(S \cup {x}) \in {Cardinality(S), Cardinality(S) + 1}
  BY <1>2
<1>4. QED
  BY <1>1, <1>2, <1>3

(* The quota.  An insert that found nobody else's in flight adds one to what *)
(* is spent; every other step keeps it or gives back.                        *)
LEMMA ProduceSpends ==
    ASSUME TypeOK, BindingHolds, NEW a \in Attempts, Produce(a), ~raced', SpentWithinLimit,
           NEW t \in Tenants
    PROVE  IsFiniteSet(Spent(t)') /\ Cardinality(Spent(t)') <= Limit
<1>1. ~raced /\ \A b \in Attempts : Creating(b) => TenantOf[b] # TenantOf[a]
  BY DEF Produce, TypeOK
<1>2. IsFiniteSet(Spent(t)) /\ Cardinality(Spent(t)) <= Limit
  BY <1>1 DEF SpentWithinLimit
<1>3. pc[a] = "produce" /\ \A b \in Attempts \ {a} : pc'[b] = pc[b]
  BY DEF Produce, Goto, TypeOK
<1>4. portfolios' = portfolios
  BY DEF Produce
<1>5. CASE TenantOf[a] # t
  <2>1. Spent(t)' = Spent(t)
    BY <1>3, <1>4, <1>5 DEF Spent, Creating
  <2>2. QED
    BY <1>2, <2>1
<1>6. CASE TenantOf[a] = t
  <2>1. bound[a] = t
    BY <1>3, <1>6 DEF BindingHolds
  <2>2. Spent(t) = VisiblePortfolios(a)
    BY <1>1, <1>6, <2>1 DEF Spent, VisiblePortfolios, TypeOK
  <2>3. Cardinality(Spent(t)) < Limit
    BY <2>2 DEF Produce, UnderLimit
  <2>4. Spent(t)' \subseteq Spent(t) \cup {a}
    BY <1>3, <1>4 DEF Spent, Creating
  <2>5. /\ IsFiniteSet(Spent(t) \cup {a})
        /\ Cardinality(Spent(t) \cup {a}) <= Cardinality(Spent(t)) + 1
    BY <1>2, AtMostOneMore
  <2>6. /\ IsFiniteSet(Spent(t)')
        /\ Cardinality(Spent(t)') <= Cardinality(Spent(t) \cup {a})
    BY <2>4, <2>5, FS_Subset
  <2>7. /\ Cardinality(Spent(t)) \in Nat /\ Cardinality(Spent(t)') \in Nat
        /\ Cardinality(Spent(t) \cup {a}) \in Nat
    BY <1>2, <2>5, <2>6, FS_CardinalityType
  <2>8. QED
    BY <2>3, <2>5, <2>6, <2>7, LimitAssumption
<1>7. QED
  BY <1>5, <1>6

LEMMA OtherStepsSpendNothing ==
    ASSUME TypeOK, OpenIsUncommitted, NEW a \in Attempts,
           Begin(a) \/ Work(a) \/ Abort(a), ~Produce(a), NEW t \in Tenants
    PROVE  Spent(t)' \subseteq Spent(t)
<1>1. \A b \in Attempts \ {a} : pc'[b] = pc[b]
  BY StepEdges
<1>2. CASE UNCHANGED <<rows, portfolios>>
  <2>1. Creating(a)' => Creating(a)
    <3>1. pc[a] \notin {"store", "commit"} => pc'[a] \notin {"store", "commit"}
      BY DEF Begin, Work, Hit, Miss, Refuse, Store, LoseRace, Reread, Commit, Respond,
             Abort, Goto, TypeOK
    <3>2. QED
      BY <3>1 DEF Creating
  <2>2. QED
    BY <1>1, <1>2, <2>1 DEF Spent, Creating
<1>3. CASE pc[a] = "commit" /\ portfolios' = portfolios \cup {a}
  BY <1>1, <1>3 DEF Spent, Creating
<1>4. QED
  BY <1>2, <1>3, TablesMove

LEMMA SpentNext ==
    ASSUME IndInv, NEW a \in Attempts, Begin(a) \/ Work(a) \/ Abort(a)
    PROVE  SpentWithinLimit'
<1>1. CASE Produce(a)
  BY <1>1, ProduceSpends DEF IndInv, SpentWithinLimit
<1>2. CASE ~Produce(a)
  <2>1. raced' = raced
    BY <1>2 DEF Begin, Work, Hit, Miss, Refuse, Store, LoseRace, Reread, Commit, Respond, Abort
  <2>2. SUFFICES ASSUME ~raced, NEW t \in Tenants
                 PROVE  IsFiniteSet(Spent(t)') /\ Cardinality(Spent(t)') <= Limit
    BY <2>1 DEF SpentWithinLimit
  <2>3. IsFiniteSet(Spent(t)) /\ Cardinality(Spent(t)) <= Limit
    BY <2>2 DEF IndInv, SpentWithinLimit
  <2>4. Spent(t)' \subseteq Spent(t)
    BY <1>2, OtherStepsSpendNothing DEF IndInv
  <2>5. IsFiniteSet(Spent(t)') /\ Cardinality(Spent(t)') <= Cardinality(Spent(t))
    BY <2>3, <2>4, FS_Subset
  <2>6. Cardinality(Spent(t)) \in Nat /\ Cardinality(Spent(t)') \in Nat
    BY <2>3, <2>5, FS_CardinalityType
  <2>7. QED
    BY <2>3, <2>5, <2>6, LimitAssumption
<1>3. QED
  BY <1>1, <1>2

-----------------------------------------------------------------------------
LEMMA IndInit == Init => IndInv
<1> SUFFICES ASSUME Init PROVE IndInv
  OBVIOUS
<1>1. TypeOK
  BY TypeInit
<1>2. BindingHolds /\ OpenIsUncommitted
  BY DEF Init, BindingHolds, OpenIsUncommitted
<1>3. KeyInv
  BY DEF Init, KeyInv, RowsMatchPortfolios, RowsAreOwn, KeysAreExclusive, AtMostOncePerKey,
         Holds
<1>4. CreatedIsTrue /\ ConflictIsTrue
  BY DEF Init, CreatedIsTrue, ConflictIsTrue, NoReply
<1>5. SpentWithinLimit
  <2>1. \A t \in Tenants : Spent(t) = {}
    BY DEF Init, Spent, Creating
  <2>2. QED
    BY <2>1, FS_EmptySet, LimitAssumption DEF SpentWithinLimit
<1>6. QED
  BY <1>1, <1>2, <1>3, <1>4, <1>5 DEF IndInv

LEMMA IndNext == IndInv /\ [Next]_vars => IndInv'
<1> SUFFICES ASSUME IndInv, [Next]_vars PROVE IndInv'
  OBVIOUS
<1>1. TypeOK'
  BY TypeNext DEF IndInv
<1>2. CASE UNCHANGED vars
  <2>1. BindingHolds' /\ OpenIsUncommitted' /\ CreatedIsTrue' /\ ConflictIsTrue'
    BY <1>2 DEF vars, IndInv, BindingHolds, OpenIsUncommitted, CreatedIsTrue, ConflictIsTrue
  <2>2. KeyInv'
    BY <1>2 DEF vars, IndInv, KeyInv, RowsMatchPortfolios, RowsAreOwn, KeysAreExclusive,
          AtMostOncePerKey, Holds, SameKey, KeyTaken, NewRow
  <2>3. SpentWithinLimit'
    BY <1>2 DEF vars, IndInv, SpentWithinLimit, Spent, Creating
  <2>4. QED
    BY <1>1, <2>1, <2>2, <2>3 DEF IndInv
<1>3. ASSUME NEW a \in Attempts, Begin(a) \/ Work(a) \/ Abort(a) PROVE IndInv'
  <2>1. BindingHolds'
    BY <1>3, BindingNext DEF IndInv
  <2>2. OpenIsUncommitted'
    BY <1>3, OpenNext DEF IndInv
  <2>3. KeyInv'
    BY <1>3, KeyNext DEF IndInv
  <2>4. CreatedIsTrue' /\ ConflictIsTrue'
    BY <1>3, CreatedNext, ConflictNext
  <2>5. SpentWithinLimit'
    BY <1>3, SpentNext
  <2>6. QED
    BY <1>1, <2>1, <2>2, <2>3, <2>4, <2>5 DEF IndInv
<1>4. QED
  BY <1>2, <1>3 DEF Next

(* The inductive invariant holds in every reachable state. *)
THEOREM IndInvHolds == Spec => []IndInv
BY IndInit, IndNext, PTL DEF Spec

(* A key row and the portfolio it describes exist together, and the plan's   *)
(* quota holds unless two creates checked it together (run_idempotent around *)
(* create_portfolio), for any limit and any number of requests.              *)
THEOREM TablesAlwaysAgree == Spec => []TablesAgree
<1>1. IndInv => TablesAgree
  <2> SUFFICES ASSUME IndInv PROVE TablesAgree
    OBVIOUS
  <2>1. QuotaHoldsUnlessRaced
    <3> SUFFICES ASSUME ~raced, NEW t \in Tenants
                 PROVE  Cardinality({p \in portfolios : TenantOf[p] = t}) <= Limit
      BY DEF QuotaHoldsUnlessRaced
    <3> DEFINE P == {p \in portfolios : TenantOf[p] = t}
    <3>1. IsFiniteSet(Spent(t)) /\ Cardinality(Spent(t)) <= Limit
      BY DEF IndInv, SpentWithinLimit
    <3>2. P \subseteq Spent(t)
      BY DEF IndInv, TypeOK, Spent
    <3>3. IsFiniteSet(P) /\ Cardinality(P) <= Cardinality(Spent(t))
      BY <3>1, <3>2, FS_Subset
    <3>4. Cardinality(P) \in Nat /\ Cardinality(Spent(t)) \in Nat
      BY <3>1, <3>3, FS_CardinalityType
    <3>5. QED
      BY <3>1, <3>3, <3>4, LimitAssumption
  <2>2. QED
    BY <2>1 DEF IndInv, KeyInv, TablesAgree
<1>2. QED
  BY <1>1, IndInvHolds, PTL

(* A key creates at most one portfolio, however its requests overlap, lose   *)
(* the race or die.                                                          *)
THEOREM KeysCreateOnce == Spec => []AtMostOncePerKey
<1>1. IndInv => AtMostOncePerKey
  BY DEF IndInv, KeyInv
<1>2. QED
  BY <1>1, IndInvHolds, PTL

(* A 201 names a committed portfolio of the same request, and a 409 means    *)
(* the key stored another body.                                              *)
THEOREM AnswersAreAlwaysTrue == Spec => []AnswersAreTrue
<1>1. IndInv => AnswersAreTrue
  BY DEF IndInv, CreatedIsTrue, ConflictIsTrue, AnswersAreTrue
<1>2. QED
  BY <1>1, IndInvHolds, PTL

-----------------------------------------------------------------------------
(* Sessions: accounts are whole *)

Ids == 1..Cardinality(users)
Owner(n) == [tenant |-> n, user |-> n, role |-> "owner"]
FreePlan(n) == [tenant |-> n, plan |-> "free"]

(* Account n is the n-th user, who owns tenant n on the free plan. *)
AccountsInv ==
    /\ users \subseteq [id : Nat, email : Spellings, password : Tabs]
    /\ IsFiniteSet(users)
    /\ {u.id : u \in users} = Ids
    /\ \A u, v \in users : u.id = v.id => u = v
    /\ \A u, v \in users : Lower[u.email] = Lower[v.email] => u = v
    /\ tenants = Ids
    /\ memberships = {Owner(n) : n \in Ids}
    /\ subscriptions = {FreePlan(n) : n \in Ids}
    /\ IsFiniteSet(memberships) /\ Cardinality(memberships) = Cardinality(users)
    /\ IsFiniteSet(subscriptions) /\ Cardinality(subscriptions) = Cardinality(users)

LEMMA AccountsInvInit == SessionsInit => AccountsInv
<1> SUFFICES ASSUME SessionsInit PROVE AccountsInv
  OBVIOUS
<1>1. users = {} /\ tenants = {} /\ memberships = {} /\ subscriptions = {}
  BY DEF SessionsInit
<1>2. IsFiniteSet(users) /\ Cardinality(users) = 0
  BY <1>1, FS_EmptySet
<1>3. Ids = {}
  BY <1>2 DEF Ids
<1>4. QED
  BY <1>1, <1>2, <1>3 DEF AccountsInv

LEMMA OneMore ==
    ASSUME NEW S, NEW x, NEW T, IsFiniteSet(S), x \notin S, T = S \cup {x}
    PROVE  IsFiniteSet(T) /\ Cardinality(T) = Cardinality(S) + 1
BY FS_AddElement

LEMMA RegistrationKeepsAccounts ==
    ASSUME AccountsInv, NEW t \in Tabs, NEW e \in Spellings,
           \A u \in users : Lower[u.email] # Lower[e],
           LET id == Cardinality(users) + 1
           IN  /\ tenants' = tenants \cup {id}
               /\ users' = users \cup {[id |-> id, email |-> e, password |-> t]}
               /\ memberships' = memberships \cup {[tenant |-> id, user |-> id, role |-> "owner"]}
               /\ subscriptions' = subscriptions \cup {[tenant |-> id, plan |-> "free"]}
    PROVE  AccountsInv' /\ Cardinality(users') = Cardinality(users) + 1
<1> DEFINE n == Cardinality(users)
           new == [id |-> n + 1, email |-> e, password |-> t]
<1>1. n \in Nat /\ IsFiniteSet(users)
  BY FS_CardinalityType DEF AccountsInv
<1>2. users' = users \cup {new} /\ new.id = n + 1 /\ new.email = e
      /\ new \in [id : Nat, email : Spellings, password : Tabs]
  BY <1>1
<1>3. /\ tenants' = tenants \cup {n + 1}
      /\ memberships' = memberships \cup {Owner(n + 1)}
      /\ subscriptions' = subscriptions \cup {FreePlan(n + 1)}
  BY DEF Owner, FreePlan
<1> HIDE DEF new
<1>4. Ids = 1..n /\ n + 1 \notin Ids
  BY <1>1 DEF Ids
<1>5. /\ new \notin users
      /\ Owner(n + 1) \notin memberships /\ FreePlan(n + 1) \notin subscriptions
  <2>1. new \notin users
    BY <1>2, <1>4 DEF AccountsInv
  <2>2. \A m \in Ids : m # n + 1
    BY <1>4
  <2>3. \A m \in Ids : Owner(m).tenant = m /\ FreePlan(m).tenant = m
    BY DEF Owner, FreePlan
  <2>4. Owner(n + 1).tenant = n + 1 /\ FreePlan(n + 1).tenant = n + 1
    BY DEF Owner, FreePlan
  <2>5. memberships = {Owner(m) : m \in Ids} /\ subscriptions = {FreePlan(m) : m \in Ids}
    BY DEF AccountsInv
  <2>6. QED
    BY <2>1, <2>2, <2>3, <2>4, <2>5
<1>6. /\ IsFiniteSet(users') /\ Cardinality(users') = n + 1
      /\ IsFiniteSet(memberships') /\ Cardinality(memberships') = n + 1
      /\ IsFiniteSet(subscriptions') /\ Cardinality(subscriptions') = n + 1
  <2>1. /\ IsFiniteSet(memberships) /\ Cardinality(memberships) = n
        /\ IsFiniteSet(subscriptions) /\ Cardinality(subscriptions) = n
    BY DEF AccountsInv
  <2> HIDE DEF n
  <2>2. IsFiniteSet(users') /\ Cardinality(users') = n + 1
    <3>1. users' = users \cup {new} /\ new \notin users /\ IsFiniteSet(users)
      BY <1>1, <1>2, <1>5
    <3>2. QED
      BY <3>1, OneMore DEF n
  <2>3. IsFiniteSet(memberships') /\ Cardinality(memberships') = n + 1
    <3>1. memberships' = memberships \cup {Owner(n + 1)} /\ Owner(n + 1) \notin memberships
      BY <1>3, <1>5
    <3>2. QED
      BY <2>1, <3>1, OneMore
  <2>4. IsFiniteSet(subscriptions') /\ Cardinality(subscriptions') = n + 1
    BY <1>3, <1>5, <2>1, FS_AddElement
  <2>5. QED
    BY <2>2, <2>3, <2>4
<1>7. Ids' = Ids \cup {n + 1}
  BY <1>1, <1>4, <1>6 DEF Ids
<1>8. \A u \in users : u.id # n + 1
  BY <1>4 DEF AccountsInv
<1>9. /\ users' \subseteq [id : Nat, email : Spellings, password : Tabs]
      /\ {u.id : u \in users'} = Ids'
      /\ \A u, v \in users' : u.id = v.id => u = v
      /\ \A u, v \in users' : Lower[u.email] = Lower[v.email] => u = v
  BY <1>2, <1>7, <1>8 DEF AccountsInv
<1>10. /\ tenants' = Ids'
       /\ memberships' = {Owner(m) : m \in Ids'}
       /\ subscriptions' = {FreePlan(m) : m \in Ids'}
  BY <1>3, <1>7 DEF AccountsInv
<1>11. QED
  BY <1>6, <1>9, <1>10 DEF AccountsInv

-----------------------------------------------------------------------------
(* Sessions: families are chains *)

TokenRecords == [family : Nat, user : Nat, expires : Nat, revoked : BOOLEAN, replaced_by : Nat]

(* The rows of the table: a family is named after its first token, and the   *)
(* token that replaced another one is a later one of the family.             *)
RowOK(i) ==
    /\ tokens[i].family \in 1..i
    /\ tokens[i].user \in Ids
    /\ tokens[i].replaced_by # 0 =>
          tokens[i].replaced_by > i /\ tokens[i].replaced_by \in Family(tokens[i].family)

OneUser == \A i, j \in DOMAIN tokens :
              tokens[i].family = tokens[j].family => tokens[i].user = tokens[j].user

(* Of a family that no two transactions overlapped in, at most one token is  *)
(* live, and none after a detected reuse.                                    *)
LiveInv ==
    /\ \A i, j \in DOMAIN tokens :
          /\ tokens[i].family = tokens[j].family /\ tokens[i].family \notin overlapped
          /\ ~tokens[i].revoked /\ ~tokens[j].revoked
          => i = j
    /\ \A i \in DOMAIN tokens :
          tokens[i].family \in ended \ overlapped => tokens[i].revoked

TokensInv ==
    /\ tokens \in Seq(TokenRecords)
    /\ \A i \in DOMAIN tokens : RowOK(i)
    /\ OneUser /\ LiveInv /\ ended \subseteq 1..Len(tokens)

LEMMA TokensAreRows ==
    ASSUME tokens \in Seq(TokenRecords)
    PROVE  /\ DOMAIN tokens = 1..Len(tokens) /\ Len(tokens) \in Nat
           /\ \A i \in 1..Len(tokens) : tokens[i] \in TokenRecords
OBVIOUS

LEMMA RevokedRows ==
    ASSUME NEW table \in Seq(TokenRecords), NEW ids, NEW by \in Nat,
           tokens' = Revoked(table, ids, by)
    PROVE  /\ tokens' \in Seq(TokenRecords) /\ Len(tokens') = Len(table)
           /\ DOMAIN tokens' = 1..Len(table)
           /\ \A i \in 1..Len(table) :
                 /\ tokens'[i].family = table[i].family /\ tokens'[i].user = table[i].user
                 /\ tokens'[i].expires = table[i].expires
                 /\ tokens'[i].revoked <=> table[i].revoked \/ i \in ids
                 /\ tokens'[i].replaced_by \in {by, table[i].replaced_by}
                 /\ i \notin ids => tokens'[i] = table[i]
<1> DEFINE g(i) == IF i \in ids /\ ~table[i].revoked
                   THEN [table[i] EXCEPT !.revoked = TRUE, !.replaced_by = by] ELSE table[i]
<1>1. DOMAIN table = 1..Len(table) /\ Len(table) \in Nat
      /\ \A i \in 1..Len(table) : table[i] \in TokenRecords
  OBVIOUS
<1>2. tokens' = [i \in 1..Len(table) |-> g(i)]
  BY <1>1 DEF Revoked
<1>3. ASSUME NEW i \in 1..Len(table)
      PROVE  /\ g(i) \in TokenRecords
             /\ g(i).family = table[i].family /\ g(i).user = table[i].user
             /\ g(i).expires = table[i].expires
             /\ g(i).revoked <=> table[i].revoked \/ i \in ids
             /\ g(i).replaced_by \in {by, table[i].replaced_by}
             /\ i \notin ids => g(i) = table[i]
  <2>1. table[i] \in TokenRecords
    BY <1>1
  <2>2. CASE i \in ids /\ ~table[i].revoked
    <3>1. g(i) = [table[i] EXCEPT !.revoked = TRUE, !.replaced_by = by]
      BY <2>2
    <3> HIDE DEF g
    <3>2. QED
      BY <2>1, <2>2, <3>1 DEF TokenRecords
  <2>3. CASE ~(i \in ids /\ ~table[i].revoked)
    BY <2>1, <2>3 DEF TokenRecords
  <2>4. QED
    BY <2>2, <2>3
<1> HIDE DEF g
<1>4. [i \in 1..Len(table) |-> g(i)] \in Seq(TokenRecords)
      /\ Len([i \in 1..Len(table) |-> g(i)]) = Len(table)
  BY <1>1, <1>3
<1>5. QED
  BY <1>2, <1>3, <1>4

LEMMA InsertedRows ==
    ASSUME tokens \in Seq(TokenRecords), instant \in Nat, NEW f \in Nat, NEW u \in Nat
    PROVE  /\ Inserted(f, u) \in Seq(TokenRecords)
           /\ Len(Inserted(f, u)) = Len(tokens) + 1
           /\ \A i \in 1..Len(tokens) : Inserted(f, u)[i] = tokens[i]
           /\ Inserted(f, u)[Len(tokens) + 1].family = f
           /\ Inserted(f, u)[Len(tokens) + 1].user = u
           /\ ~Inserted(f, u)[Len(tokens) + 1].revoked
           /\ Inserted(f, u)[Len(tokens) + 1].replaced_by = 0
<1> DEFINE new == [family |-> f, user |-> u, expires |-> instant + TTL,
                   revoked |-> FALSE, replaced_by |-> 0]
<1>1. new \in TokenRecords
  BY SessionsAssumption DEF TokenRecords
<1>2. /\ new.family = f /\ new.user = u
      /\ ~new.revoked /\ new.replaced_by = 0
  OBVIOUS
<1>3. Inserted(f, u) = Append(tokens, new)
  BY DEF Inserted
<1> HIDE DEF new
<1>4. QED
  BY <1>1, <1>2, <1>3

LEMMA TokensInvRows ==
    ASSUME TokensInv
    PROVE  /\ tokens \in Seq(TokenRecords) /\ DOMAIN tokens = 1..Len(tokens) /\ Len(tokens) \in Nat
           /\ \A i \in 1..Len(tokens) : tokens[i] \in TokenRecords /\ RowOK(i)
           /\ \A i, j \in 1..Len(tokens) :
                 tokens[i].family = tokens[j].family => tokens[i].user = tokens[j].user
           /\ \A i, j \in 1..Len(tokens) :
                 /\ tokens[i].family = tokens[j].family /\ tokens[i].family \notin overlapped
                 /\ ~tokens[i].revoked /\ ~tokens[j].revoked
                 => i = j
           /\ \A i \in 1..Len(tokens) :
                 tokens[i].family \in ended \ overlapped => tokens[i].revoked
BY TokensAreRows DEF TokensInv, OneUser, LiveInv

LEMMA FamilyRows ==
    ASSUME tokens \in Seq(TokenRecords), NEW f, NEW i
    PROVE  /\ i \in Family(f) <=> i \in 1..Len(tokens) /\ tokens[i].family = f
           /\ i \in LiveIn(f) <=> i \in Family(f) /\ ~tokens[i].revoked
BY TokensAreRows DEF Family, LiveIn

LEMMA TokensInvInit == SessionsInit => TokensInv
<1> SUFFICES ASSUME SessionsInit PROVE TokensInv
  OBVIOUS
<1>1. tokens = <<>> /\ ended = {}
  BY DEF SessionsInit
<1>2. tokens \in Seq(TokenRecords) /\ DOMAIN tokens = {}
  BY <1>1
<1>3. QED
  BY <1>1, <1>2 DEF TokensInv, OneUser, LiveInv

(* More accounts, the same tokens. *)
LEMMA AccountsLeaveTokens ==
    ASSUME TokensInv, Ids \subseteq Ids', UNCHANGED <<tokens, overlapped, ended>>
    PROVE  TokensInv'
<1>1. \A i \in DOMAIN tokens : RowOK(i)'
  BY DEF TokensInv, RowOK, Family
<1>2. QED
  BY <1>1 DEF TokensInv, OneUser, LiveInv

(* Revocations: of single tokens, or of all that was live of one family. *)
LEMMA RevocationKeepsTokens ==
    ASSUME TokensInv, NEW ids, tokens' = Revoked(tokens, ids, 0), Ids' = Ids,
           overlapped \subseteq overlapped', NEW f \in 1..Len(tokens),
           \/ ended' = ended
           \/ ended' = ended \cup {f} /\ (f \notin overlapped' => LiveIn(f) \subseteq ids)
    PROVE  TokensInv'
<1>1. /\ tokens \in Seq(TokenRecords) /\ DOMAIN tokens = 1..Len(tokens) /\ Len(tokens) \in Nat
      /\ \A i \in 1..Len(tokens) : tokens[i] \in TokenRecords
  BY TokensAreRows DEF TokensInv
<1>2. /\ tokens' \in Seq(TokenRecords) /\ Len(tokens') = Len(tokens)
      /\ \A i \in 1..Len(tokens) :
            /\ tokens'[i].family = tokens[i].family /\ tokens'[i].user = tokens[i].user
            /\ tokens'[i].revoked <=> tokens[i].revoked \/ i \in ids
            /\ tokens'[i].replaced_by \in {0, tokens[i].replaced_by}
  BY <1>1, RevokedRows
<1>3. DOMAIN tokens' = 1..Len(tokens)
  BY <1>2
<1>4. \A g : Family(g)' = Family(g)
  BY <1>1, <1>2, <1>3 DEF Family
<1>5. \A i \in DOMAIN tokens : RowOK(i)'
  BY <1>1, <1>2, <1>4 DEF TokensInv, RowOK
<1>6. OneUser'
  BY <1>1, <1>2, <1>3 DEF TokensInv, OneUser
<1>7. LiveInv'
  <2>1. \A i, j \in DOMAIN tokens :
          /\ tokens'[i].family = tokens'[j].family /\ tokens'[i].family \notin overlapped'
          /\ ~tokens'[i].revoked /\ ~tokens'[j].revoked
          => i = j
    BY <1>1, <1>2 DEF TokensInv, LiveInv
  <2>2. ASSUME NEW i \in DOMAIN tokens, tokens'[i].family \in ended' \ overlapped'
        PROVE  tokens'[i].revoked
    <3>1. tokens'[i].family = tokens[i].family /\ (tokens'[i].revoked <=> tokens[i].revoked \/ i \in ids)
      BY <1>1, <1>2
    <3>2. CASE tokens[i].family \in ended
      BY <2>2, <3>1, <3>2 DEF TokensInv, LiveInv
    <3>3. CASE tokens[i].family \notin ended
      <4>1. tokens[i].family = f /\ LiveIn(f) \subseteq ids
        BY <2>2, <3>1, <3>3
      <4>2. tokens[i].revoked \/ i \in LiveIn(f)
        BY <1>1, <4>1 DEF LiveIn, Family
      <4>3. QED
        BY <3>1, <4>1, <4>2
    <3>4. QED
      BY <3>2, <3>3
  <2>3. QED
    BY <1>1, <1>3, <2>1, <2>2 DEF LiveInv
<1>8. QED
  BY <1>1, <1>2, <1>3, <1>5, <1>6, <1>7 DEF TokensInv

(* A new token of a family of its own. *)
LEMMA IssueKeepsTokens ==
    ASSUME TokensInv, instant \in Nat, NEW u \in Ids, u \in Nat,
           tokens' = Inserted(Len(tokens) + 1, u), Ids' = Ids,
           UNCHANGED <<overlapped, ended>>
    PROVE  TokensInv'
<1>0. PICK c : c = Len(tokens) + 1
  OBVIOUS
<1>1. /\ tokens \in Seq(TokenRecords) /\ DOMAIN tokens = 1..Len(tokens) /\ Len(tokens) \in Nat
      /\ \A i \in 1..Len(tokens) : tokens[i] \in TokenRecords
  BY TokensAreRows DEF TokensInv
<1>2. /\ tokens' \in Seq(TokenRecords) /\ Len(tokens') = c
      /\ \A i \in 1..Len(tokens) : tokens'[i] = tokens[i]
      /\ tokens'[c].family = c /\ tokens'[c].user = u
      /\ ~tokens'[c].revoked /\ tokens'[c].replaced_by = 0
  <2>1. c \in Nat
    BY <1>0, <1>1
  <2>2. tokens' = Inserted(c, u)
    BY <1>0
  <2>3. QED
    BY <1>0, <1>1, <2>1, <2>2, InsertedRows
<1>3. DOMAIN tokens' = 1..c /\ 1..c = (1..Len(tokens)) \cup {c} /\ c \notin 1..Len(tokens)
      /\ c \in 1..c
  BY <1>0, <1>1, <1>2
<1>4. \A i \in 1..Len(tokens) : tokens[i].family \in 1..i /\ tokens[i].family # c
  BY <1>0, <1>1 DEF TokensInv, RowOK
<1>5. \A i \in 1..Len(tokens) : RowOK(i)'
  BY <1>1, <1>2, <1>3 DEF TokensInv, RowOK, Family
<1>6. RowOK(c)'
  BY <1>1, <1>2, <1>3 DEF RowOK
<1>7. OneUser'
  <2>1. \A i \in 1..Len(tokens) : /\ tokens'[i].family = tokens[i].family
                                 /\ tokens'[i].user = tokens[i].user
                                 /\ tokens'[i].family # c
    BY <1>2, <1>4
  <2>2. \A i, j \in 1..Len(tokens) :
            tokens[i].family = tokens[j].family => tokens[i].user = tokens[j].user
    BY TokensInvRows
  <2>3. \A i, j \in 1..Len(tokens) :
            tokens'[i].family = tokens'[j].family => tokens'[i].user = tokens'[j].user
    BY <2>1, <2>2
  <2>4. \A i, j \in (1..Len(tokens)) \cup {c} :
            tokens'[i].family = tokens'[j].family => tokens'[i].user = tokens'[j].user
    <3> TAKE i, j \in (1..Len(tokens)) \cup {c}
    <3>1. tokens'[c].family = c
      BY <1>2
    <3>2. CASE i = c \/ j = c
      BY <2>1, <3>1, <3>2, Zenon
    <3>3. CASE i # c /\ j # c
      BY <2>3, <3>3, Zenon
    <3>4. QED
      BY <3>2, <3>3
  <2>5. DOMAIN tokens' = (1..Len(tokens)) \cup {c}
    BY <1>3
  <2>6. QED
    BY <2>4, <2>5, Zenon DEF OneUser
<1>8. LiveInv'
  <2>1. c \notin ended
    BY <1>3 DEF TokensInv
  <2>2. \A i \in 1..Len(tokens) : tokens'[i].family # tokens'[c].family
    BY <1>2, <1>4
  <2>3. \A i, j \in 1..c :
          /\ tokens'[i].family = tokens'[j].family /\ tokens'[i].family \notin overlapped
          /\ ~tokens'[i].revoked /\ ~tokens'[j].revoked
          => i = j
    BY <1>2, <1>3, <2>2, TokensInvRows
  <2>4. \A i \in 1..c : tokens'[i].family \in ended \ overlapped => tokens'[i].revoked
    BY <1>2, <1>3, <2>1, TokensInvRows
  <2>5. QED
    BY <1>3, <2>3, <2>4 DEF LiveInv
<1>9. QED
  BY <1>1, <1>2, <1>3, <1>5, <1>6, <1>7, <1>8 DEF TokensInv

(* A token replaced by a new one of its family. *)
LEMMA RotationKeepsTokens ==
    ASSUME TokensInv, instant \in Nat, NEW raw \in 1..Len(tokens),
           tokens' = Revoked(Inserted(tokens[raw].family, tokens[raw].user), {raw}, Len(tokens) + 1),
           overlapped' = IF tokens[raw].revoked THEN overlapped \cup {tokens[raw].family}
                         ELSE overlapped,
           Ids' = Ids, ended' = ended
    PROVE  /\ TokensInv'
           /\ Len(tokens') = Len(tokens) + 1
           /\ \A i \in 1..Len(tokens) :
                 /\ tokens'[i].family = tokens[i].family
                 /\ tokens'[i].expires = tokens[i].expires
                 /\ i # raw => tokens'[i] = tokens[i]
           /\ tokens'[Len(tokens) + 1].family = tokens[raw].family
           /\ ~tokens'[Len(tokens) + 1].revoked
<1>0. PICK c, f, u, mid : /\ c = Len(tokens) + 1 /\ f = tokens[raw].family
                          /\ u = tokens[raw].user /\ mid = Inserted(f, u)
  OBVIOUS
<1>1. /\ tokens \in Seq(TokenRecords) /\ DOMAIN tokens = 1..Len(tokens) /\ Len(tokens) \in Nat
      /\ \A i \in 1..Len(tokens) : tokens[i] \in TokenRecords
  BY TokensAreRows DEF TokensInv
<1>2. f \in Nat /\ u \in Nat
  BY <1>0, <1>1 DEF TokenRecords
<1>3. /\ mid \in Seq(TokenRecords) /\ Len(mid) = c
      /\ \A i \in 1..Len(tokens) : mid[i] = tokens[i]
      /\ mid[c].family = f /\ mid[c].user = u /\ ~mid[c].revoked /\ mid[c].replaced_by = 0
  <2>1. mid = Inserted(f, u) /\ c = Len(tokens) + 1
    BY <1>0
  <2>2. /\ mid \in Seq(TokenRecords) /\ Len(mid) = Len(tokens) + 1
        /\ \A i \in 1..Len(tokens) : mid[i] = tokens[i]
        /\ mid[Len(tokens) + 1].family = f /\ mid[Len(tokens) + 1].user = u
        /\ ~mid[Len(tokens) + 1].revoked /\ mid[Len(tokens) + 1].replaced_by = 0
    BY <1>1, <1>2, <2>1, InsertedRows
  <2>3. QED
    BY <2>1, <2>2, Zenon
<1>4. 1..c = (1..Len(tokens)) \cup {c} /\ c \notin 1..Len(tokens) /\ c \in 1..c /\ c \in Nat /\ raw # c
  BY <1>0, <1>1
<1>5. tokens' = Revoked(mid, {raw}, c)
  BY <1>0
<1>6. /\ tokens' \in Seq(TokenRecords) /\ Len(tokens') = c
      /\ \A i \in 1..c :
            /\ tokens'[i].family = mid[i].family /\ tokens'[i].user = mid[i].user
            /\ tokens'[i].expires = mid[i].expires
            /\ tokens'[i].revoked <=> mid[i].revoked \/ i = raw
            /\ tokens'[i].replaced_by \in {c, mid[i].replaced_by}
            /\ i # raw => tokens'[i] = mid[i]
  <2>1. PICK ids : ids = {raw}
    OBVIOUS
  <2>2. tokens' = Revoked(mid, ids, c)
    BY <1>5, <2>1
  <2>3. /\ tokens' \in Seq(TokenRecords) /\ Len(tokens') = Len(mid)
        /\ \A i \in 1..Len(mid) :
            /\ tokens'[i].family = mid[i].family /\ tokens'[i].user = mid[i].user
            /\ tokens'[i].expires = mid[i].expires
            /\ tokens'[i].revoked <=> mid[i].revoked \/ i \in ids
            /\ tokens'[i].replaced_by \in {c, mid[i].replaced_by}
            /\ i \notin ids => tokens'[i] = mid[i]
    <3>1. mid \in Seq(TokenRecords) /\ c \in Nat
      BY <1>3, <1>4
    <3>2. QED
      BY <2>2, <3>1, RevokedRows
  <2>4. \A i \in 1..c : i \in ids <=> i = raw
    BY <2>1
  <2>5. Len(mid) = c
    BY <1>3
  <2>6. QED
    BY <2>3, <2>4, <2>5, Zenon
<1>7. /\ \A i \in 1..Len(tokens) :
            /\ tokens'[i].family = tokens[i].family /\ tokens'[i].user = tokens[i].user
            /\ tokens'[i].expires = tokens[i].expires
            /\ tokens'[i].revoked <=> tokens[i].revoked \/ i = raw
            /\ tokens'[i].replaced_by \in {c, tokens[i].replaced_by}
            /\ i # raw => tokens'[i] = tokens[i]
      /\ tokens'[c].family = f /\ tokens'[c].user = u
      /\ ~tokens'[c].revoked /\ tokens'[c].replaced_by = 0
      /\ DOMAIN tokens' = 1..c
  <2>1. DOMAIN tokens' = 1..c
    BY <1>6
  <2>2. /\ tokens'[c].family = f /\ tokens'[c].user = u
        /\ ~tokens'[c].revoked /\ tokens'[c].replaced_by = 0
    BY <1>3, <1>4, <1>6
  <2>3. ASSUME NEW i \in 1..Len(tokens)
        PROVE  /\ tokens'[i].family = tokens[i].family /\ tokens'[i].user = tokens[i].user
               /\ tokens'[i].expires = tokens[i].expires
               /\ tokens'[i].revoked <=> tokens[i].revoked \/ i = raw
               /\ tokens'[i].replaced_by \in {c, tokens[i].replaced_by}
               /\ i # raw => tokens'[i] = tokens[i]
    <3>1. i \in 1..c /\ mid[i] = tokens[i]
      BY <1>3, <1>4
    <3>2. /\ tokens'[i].family = mid[i].family /\ tokens'[i].user = mid[i].user
          /\ tokens'[i].expires = mid[i].expires
          /\ tokens'[i].revoked <=> mid[i].revoked \/ i = raw
          /\ tokens'[i].replaced_by \in {c, mid[i].replaced_by}
          /\ i # raw => tokens'[i] = mid[i]
      BY <1>6, <3>1, Zenon
    <3>3. QED
      BY <3>1, <3>2
  <2>4. QED
    BY <2>1, <2>2, <2>3
<1>8. \A i \in 1..Len(tokens) : tokens[i].family \in 1..i /\ tokens[i].user \in Ids /\ RowOK(i)
  BY <1>1 DEF TokensInv, RowOK
<1>9. \A g : Family(g) \subseteq Family(g)' /\ c \in Family(f)'
  BY <1>1, <1>4, <1>7 DEF Family
<1>10. ASSUME NEW i \in 1..c PROVE RowOK(i)'
  <2>1. CASE i = c
    <3>1. f \in 1..c /\ u \in Ids
      BY <1>0, <1>1, <1>4, <1>8
    <3>2. QED
      BY <1>7, <2>1, <3>1 DEF RowOK
  <2>2. CASE i \in 1..Len(tokens)
    <3>1. c > i /\ i \in Nat
      BY <1>0, <1>1, <2>2
    <3>2. QED
      <4>1. /\ tokens'[i].family \in 1..i /\ tokens'[i].user \in Ids'
            /\ Family(tokens[i].family) \subseteq Family(tokens[i].family)'
        BY <1>7, <1>8, <1>9, <2>2
      <4>2. CASE i # raw
        <5>1. tokens'[i] = tokens[i] /\ RowOK(i)
          BY <1>7, <1>8, <2>2, <4>2
        <5>2. QED
          BY <4>1, <5>1 DEF RowOK
      <4>3. CASE i = raw
        <5>1. tokens'[i].family = f /\ tokens[i].family = f
          BY <1>0, <1>7, <2>2, <4>3
        <5>2. CASE tokens'[i].replaced_by = c
          BY <1>9, <3>1, <4>1, <5>1, <5>2 DEF RowOK
        <5>3. CASE tokens'[i].replaced_by = tokens[i].replaced_by
          BY <1>8, <1>9, <2>2, <4>1, <5>1, <5>3 DEF RowOK
        <5>4. QED
          BY <1>7, <2>2, <5>2, <5>3
      <4>4. QED
        BY <4>2, <4>3
  <2>3. QED
    BY <1>4, <2>1, <2>2
<1>11. OneUser'
  <2>1. \A i \in 1..Len(tokens) :
            tokens'[i].family = tokens[i].family /\ tokens'[i].user = tokens[i].user
    BY <1>7
  <2>2. \A i, j \in 1..Len(tokens) :
            tokens[i].family = tokens[j].family => tokens[i].user = tokens[j].user
    BY TokensInvRows
  <2>3. \A i \in 1..Len(tokens) : tokens[i].family = f => tokens[i].user = u
    BY <1>0, <2>2
  <2>4. ASSUME NEW i \in 1..c, NEW j \in 1..c, tokens'[i].family = tokens'[j].family
        PROVE  tokens'[i].user = tokens'[j].user
    <3>1. CASE i \in 1..Len(tokens) /\ j \in 1..Len(tokens)
      BY <2>1, <2>2, <2>4, <3>1
    <3>2. CASE i = c /\ j \in 1..Len(tokens)
      <4>1. tokens[j].family = f
        BY <1>7, <2>1, <2>4, <3>2
      <4>2. tokens[j].user = u /\ tokens'[j].user = tokens[j].user
        BY <2>1, <2>3, <3>2, <4>1
      <4>3. tokens'[i].user = u
        BY <1>7, <3>2
      <4>4. QED
        BY <4>2, <4>3
    <3>3. CASE i \in 1..Len(tokens) /\ j = c
      <4>1. tokens[i].family = f
        BY <1>7, <2>1, <2>4, <3>3
      <4>2. tokens[i].user = u /\ tokens'[i].user = tokens[i].user
        BY <2>1, <2>3, <3>3, <4>1
      <4>3. tokens'[j].user = u
        BY <1>7, <3>3
      <4>4. QED
        BY <4>2, <4>3
    <3>4. QED
      BY <1>4, <3>1, <3>2, <3>3
  <2>5. DOMAIN tokens' = 1..c
    BY <1>7
  <2>6. \A i, j \in DOMAIN tokens' :
            tokens'[i].family = tokens'[j].family => tokens'[i].user = tokens'[j].user
    <3> SUFFICES ASSUME NEW i \in DOMAIN tokens', NEW j \in DOMAIN tokens',
                        tokens'[i].family = tokens'[j].family
                 PROVE  tokens'[i].user = tokens'[j].user
      OBVIOUS
    <3>1. i \in 1..c /\ j \in 1..c
      BY <2>5
    <3>2. QED
      BY <2>4, <3>1
  <2>7. QED
    BY <2>6 DEF OneUser
<1>12. LiveInv'
  <2>1. ASSUME NEW i \in 1..c, NEW j \in 1..c,
               tokens'[i].family = tokens'[j].family, tokens'[i].family \notin overlapped',
               ~tokens'[i].revoked, ~tokens'[j].revoked
        PROVE  i = j
    <3>1. CASE i \in 1..Len(tokens) /\ j \in 1..Len(tokens)
      <4>1. /\ tokens[i].family = tokens[j].family /\ tokens[i].family \notin overlapped
            /\ ~tokens[i].revoked /\ ~tokens[j].revoked
        BY <1>7, <2>1, <3>1
      <4>2. QED
        BY <3>1, <4>1, TokensInvRows
    <3>2. CASE i = c /\ j = c
      BY <3>2
    <3>3. \A k \in 1..Len(tokens) :
              tokens[k].family = f /\ f \notin overlapped' => tokens'[k].revoked
      <4> SUFFICES ASSUME NEW k \in 1..Len(tokens), tokens[k].family = f, f \notin overlapped',
                          ~tokens'[k].revoked
                   PROVE  FALSE
        OBVIOUS
      <4>1. k # raw /\ ~tokens[k].revoked
        BY <1>7
      <4>2. ~tokens[raw].revoked /\ f \notin overlapped
        BY <1>0
      <4>3. QED
        BY <1>0, <4>1, <4>2, TokensInvRows
    <3>4. CASE (i = c /\ j # c) \/ (i # c /\ j = c)
      <4>1. PICK k \in 1..Len(tokens) : tokens'[k].family = f /\ ~tokens'[k].revoked
                                       /\ f \notin overlapped'
        <5>1. tokens'[c].family = f
          BY <1>7
        <5>2. PICK k \in {i, j} : k # c /\ k \in 1..c
          BY <2>1, <3>4
        <5>3. k \in 1..Len(tokens)
          BY <1>4, <5>2
        <5>4. tokens'[k].family = f /\ ~tokens'[k].revoked /\ f \notin overlapped'
          BY <2>1, <3>4, <5>1, <5>2
        <5>5. QED
          BY <5>3, <5>4
      <4>2. tokens[k].family = f
        BY <1>7, <4>1
      <4>3. QED
        BY <3>3, <4>1, <4>2
    <3>5. QED
      BY <1>4, <3>1, <3>2, <3>4
  <2>2. ASSUME NEW i \in 1..c, tokens'[i].family \in ended' \ overlapped'
        PROVE  tokens'[i].revoked
    <3>1. CASE i \in 1..Len(tokens)
      BY <1>0, <1>1, <1>7, <2>2, <3>1 DEF TokensInv, LiveInv
    <3>2. CASE i = c
      BY <1>0, <1>1, <1>7, <2>2, <3>2 DEF TokensInv, LiveInv
    <3>3. QED
      BY <1>4, <3>1, <3>2
  <2>3. DOMAIN tokens' = 1..c
    BY <1>7
  <2>4. \A i, j \in DOMAIN tokens' :
           /\ tokens'[i].family = tokens'[j].family /\ tokens'[i].family \notin overlapped'
           /\ ~tokens'[i].revoked /\ ~tokens'[j].revoked
           => i = j
    BY <2>1, <2>3, Zenon
  <2>5. \A i \in DOMAIN tokens' : tokens'[i].family \in ended' \ overlapped' => tokens'[i].revoked
    BY <2>2, <2>3, Zenon
  <2>6. QED
    BY <2>4, <2>5 DEF LiveInv
<1>13. ended' \subseteq 1..Len(tokens')
  BY <1>4, <1>6 DEF TokensInv
<1>14. TokensInv'
  BY <1>6, <1>7, <1>10, <1>11, <1>12, <1>13 DEF TokensInv
<1>15. QED
  BY <1>0, <1>6, <1>7, <1>14

-----------------------------------------------------------------------------
(* Sessions: an undisturbed session lives *)

RawStages == {"refresh", "logout", "reuse", "expired", "rotate"}
RequestRecords ==
    {Free} \cup [stage : {"insert"}, email : Spellings]
           \cup [stage : {"issue"}, user : Nat]
           \cup [stage : {"answer"}, family : Nat, cookie : Nat]
           \cup [stage : RawStages, family : Nat, raw : Nat]
           \cup [stage : {"revoke"}, family : Nat, raw : Nat, seen : SUBSET Nat]

SendsToken(t) == request[t].stage \in RawStages \cup {"revoke"}
Expired(i) == tokens[i].expires <= instant
Usable(i) == ~tokens[i].revoked \/ Expired(i)

(* What a request names exists, and its token is one of its family. *)
RequestOK(t) ==
    /\ Stage(t, "issue") => request[t].user \in Ids
    /\ CarriesFamily(t) => request[t].family \in 1..Len(tokens)
    /\ SendsToken(t) => request[t].raw \in Family(request[t].family)
    /\ Stage(t, "answer") => request[t].cookie = 0 \/ request[t].cookie \in Family(request[t].family)
    /\ Stage(t, "revoke") => request[t].seen \subseteq Family(request[t].family)

(* A session nothing disturbed: the only request of its family works on the  *)
(* token of the cookie, finds it revoked only when it has expired, and       *)
(* answers with one that can be used.                                        *)
QuietOK(t) ==
    CarriesFamily(t) /\ request[t].family \notin disturbed =>
        /\ request[t].stage \in {"refresh", "logout"} => Usable(request[t].raw)
        /\ request[t].stage \in {"reuse", "expired", "revoke"} => Expired(request[t].raw)
        /\ Stage(t, "answer") /\ request[t].cookie # 0 => Usable(request[t].cookie)
        /\ SendsToken(t) /\ jar # 0 /\ tokens[jar].family = request[t].family =>
              jar = request[t].raw

OneRequest ==
    \A t, o \in Tabs :
        /\ CarriesFamily(t) /\ CarriesFamily(o)
        /\ request[t].family = request[o].family /\ request[t].family \notin disturbed
        => t = o

JarOK ==
    /\ jar \in 0..Len(tokens)
    /\ /\ jar # 0 /\ tokens[jar].family \notin disturbed
       /\ \A t \in Tabs : CarriesFamily(t) => request[t].family # tokens[jar].family
       => Usable(jar)

RequestsInv ==
    /\ request \in [Tabs -> RequestRecords] /\ instant \in Nat
    /\ \A t \in Tabs : RequestOK(t) /\ QuietOK(t)
    /\ OneRequest /\ JarOK

SessionsInv == AccountsInv /\ TokensInv /\ RequestsInv

LEMMA RequestsInvInit == SessionsInit => RequestsInv
<1> SUFFICES ASSUME SessionsInit PROVE RequestsInv
  OBVIOUS
<1>1. /\ request = [t \in Tabs |-> Free] /\ jar = 0 /\ instant = 0 /\ tokens = <<>>
  BY DEF SessionsInit
<1>2. \A t \in Tabs : request[t].stage = "free"
  BY <1>1 DEF Free
<1>3. \A t \in Tabs : RequestOK(t) /\ QuietOK(t) /\ ~CarriesFamily(t)
  BY <1>2 DEF RequestOK, QuietOK, CarriesFamily, SendsToken, Stage, RawStages
<1>4. request \in [Tabs -> RequestRecords]
  BY <1>1 DEF RequestRecords
<1>5. QED
  BY <1>1, <1>3, <1>4 DEF RequestsInv, OneRequest, JarOK

(* A step of tab t: it may rewrite rows of the family it carries, and add    *)
(* rows.                                                                     *)
OneTabMoves(t) ==
    /\ \A o \in Tabs \ {t} : request'[o] = request[o]
    /\ Len(tokens') \in Nat /\ Len(tokens) <= Len(tokens')
    /\ \A i \in 1..Len(tokens) :
          /\ tokens'[i].family = tokens[i].family /\ tokens'[i].expires = tokens[i].expires
          /\ (CarriesFamily(t) /\ tokens[i].family = request[t].family) \/ tokens'[i] = tokens[i]
    /\ DOMAIN tokens' = 1..Len(tokens') /\ Ids \subseteq Ids'
    /\ jar' = jar /\ instant' = instant /\ disturbed \subseteq disturbed'

LEMMA OthersStand ==
    ASSUME TokensInv, RequestsInv, NEW t \in Tabs, OneTabMoves(t), NEW o \in Tabs \ {t}
    PROVE  /\ RequestOK(o)' /\ QuietOK(o)'
           /\ CarriesFamily(o)' <=> CarriesFamily(o)
           /\ request'[o].family = request[o].family
<1>1. /\ DOMAIN tokens = 1..Len(tokens) /\ Len(tokens) \in Nat
      /\ RequestOK(o) /\ QuietOK(o) /\ jar \in 0..Len(tokens)
  BY TokensInvRows DEF RequestsInv, JarOK
<1>2. request'[o] = request[o]
  BY DEF OneTabMoves
<1>3. \A f : Family(f) \subseteq Family(f)'
  BY <1>1 DEF OneTabMoves, Family
<1>4. /\ CarriesFamily(o)' <=> CarriesFamily(o)
      /\ SendsToken(o)' <=> SendsToken(o)
      /\ \A s : Stage(o, s)' <=> Stage(o, s)
  BY <1>2 DEF CarriesFamily, SendsToken, Stage
<1>5. RequestOK(o)'
  BY <1>1, <1>2, <1>3, <1>4 DEF RequestOK, OneTabMoves
<1>6. QuietOK(o)'
  <2> SUFFICES ASSUME CarriesFamily(o), request[o].family \notin disturbed'
               PROVE  QuietOK(o)'
    BY <1>2, <1>4 DEF QuietOK
  <2>1. request[o].family \notin disturbed
    BY DEF OneTabMoves
  <2>2. \A i \in Family(request[o].family) : tokens'[i] = tokens[i]
    BY <1>1, <2>1 DEF OneTabMoves, Family, RequestsInv, OneRequest
  <2>3. \A i \in Family(request[o].family) : (Usable(i)' <=> Usable(i)) /\ (Expired(i)' <=> Expired(i))
    BY <2>2 DEF Usable, Expired, OneTabMoves
  <2>4. jar' = jar /\ (jar # 0 => tokens'[jar].family = tokens[jar].family)
    BY <1>1 DEF OneTabMoves
  <2>5. QED
    BY <1>1, <1>2, <1>4, <2>1, <2>3, <2>4 DEF QuietOK, RequestOK, SendsToken, Stage, RawStages
<1>7. QED
  BY <1>2, <1>4, <1>5, <1>6

(* ... to a request that is sound, alone on its family, and gives up a       *)
(* family whose token is the cookie only when that token has expired.        *)
SoundMove(t) ==
    /\ OneTabMoves(t) /\ request' \in [Tabs -> RequestRecords]
    /\ RequestOK(t)' /\ QuietOK(t)'
    /\ CarriesFamily(t)' =>
          \/ request'[t].family \in disturbed'
          \/ \A o \in Tabs \ {t} : CarriesFamily(o) => request[o].family # request'[t].family
    /\ CarriesFamily(t) /\ request[t].family \notin disturbed'
          /\ jar # 0 /\ tokens[jar].family = request[t].family =>
          \/ CarriesFamily(t)' /\ request'[t].family = request[t].family
          \/ Expired(jar)

LEMMA RequestsKept ==
    ASSUME TokensInv, RequestsInv, NEW t \in Tabs, SoundMove(t)
    PROVE  RequestsInv'
<1>0. /\ OneTabMoves(t) /\ request' \in [Tabs -> RequestRecords]
      /\ RequestOK(t)' /\ QuietOK(t)'
      /\ CarriesFamily(t)' =>
            \/ request'[t].family \in disturbed'
            \/ \A o \in Tabs \ {t} : CarriesFamily(o) => request[o].family # request'[t].family
      /\ CarriesFamily(t) /\ request[t].family \notin disturbed'
            /\ jar # 0 /\ tokens[jar].family = request[t].family =>
            \/ CarriesFamily(t)' /\ request'[t].family = request[t].family
            \/ Expired(jar)
  BY DEF SoundMove
<1>1. /\ DOMAIN tokens = 1..Len(tokens) /\ Len(tokens) \in Nat
      /\ request \in [Tabs -> RequestRecords] /\ instant' \in Nat
      /\ jar' = jar /\ jar \in 0..Len(tokens) /\ jar \in 0..Len(tokens')
  BY <1>0, TokensInvRows DEF RequestsInv, JarOK, OneTabMoves
<1>3. \A o \in Tabs \ {t} : /\ RequestOK(o)' /\ QuietOK(o)'
                            /\ CarriesFamily(o)' <=> CarriesFamily(o)
                            /\ request'[o].family = request[o].family
  BY <1>0, OthersStand
<1>4. \A o \in Tabs : RequestOK(o)' /\ QuietOK(o)'
  BY <1>0, <1>3
<1>5. OneRequest'
  <2> SUFFICES ASSUME NEW p \in Tabs, NEW q \in Tabs, CarriesFamily(p)', CarriesFamily(q)',
                      request'[p].family = request'[q].family,
                      request'[p].family \notin disturbed'
               PROVE  p = q
    BY DEF OneRequest
  <2>1. CASE p # t /\ q # t
    BY <1>0, <1>3, <2>1 DEF RequestsInv, OneRequest, OneTabMoves
  <2>2. CASE p = t \/ q = t
    BY <1>0, <1>3, <2>2
  <2>3. QED
    BY <2>1, <2>2
<1>6. JarOK'
  <2> SUFFICES ASSUME jar # 0, tokens'[jar].family \notin disturbed',
                      \A o \in Tabs : CarriesFamily(o)' => request'[o].family # tokens'[jar].family
               PROVE  Usable(jar)'
    BY <1>1 DEF JarOK
  <2>1. jar \in 1..Len(tokens)
    BY <1>1
  <2>2. /\ tokens'[jar].family = tokens[jar].family /\ tokens'[jar].expires = tokens[jar].expires
        /\ instant' = instant /\ tokens[jar].family \notin disturbed
    BY <1>0, <2>1 DEF OneTabMoves
  <2>3. CASE CarriesFamily(t) /\ request[t].family = tokens[jar].family
    <3>1. Expired(jar)
      BY <1>0, <2>2, <2>3
    <3>2. QED
      BY <1>1, <2>2, <3>1 DEF Usable, Expired
  <2>4. CASE ~(CarriesFamily(t) /\ request[t].family = tokens[jar].family)
    <3>1. tokens'[jar] = tokens[jar]
      BY <1>0, <2>1, <2>4 DEF OneTabMoves
    <3>2. \A o \in Tabs : CarriesFamily(o) => request[o].family # tokens[jar].family
      BY <1>3, <2>2, <2>4
    <3>3. Usable(jar)
      BY <2>2, <3>2 DEF RequestsInv, JarOK
    <3>4. QED
      BY <1>1, <2>2, <3>1, <3>3 DEF Usable, Expired
  <2>5. QED
    BY <2>3, <2>4
<1>7. QED
  BY <1>0, <1>1, <1>4, <1>5, <1>6 DEF RequestsInv

(* The tables stand still. *)
LEMMA SameTables ==
    ASSUME TokensInv, RequestsInv, NEW t \in Tabs, NEW R, tokens' = tokens,
           request' = [request EXCEPT ![t] = R], Ids \subseteq Ids',
           UNCHANGED <<jar, instant>>, disturbed \subseteq disturbed'
    PROVE  /\ OneTabMoves(t) /\ request'[t] = R
           /\ R \in RequestRecords => request' \in [Tabs -> RequestRecords]
BY TokensInvRows DEF RequestsInv, OneTabMoves

(* A step to a request that carries no family. *)
LEMMA RestingRequest ==
    ASSUME NEW t \in Tabs, request'[t].stage \in {"free", "insert", "issue"},
           request'[t].stage = "issue" => request'[t].user \in Ids'
    PROVE  RequestOK(t)' /\ QuietOK(t)' /\ ~CarriesFamily(t)'
BY DEF RequestOK, QuietOK, CarriesFamily, SendsToken, Stage, RawStages

LEMMA SignInKeeps ==
    ASSUME SessionsInv, NEW t \in Tabs, ~CarriesFamily(t), NEW R \in RequestRecords,
           R.stage \in {"free", "insert", "issue"}, R.stage = "issue" => R.user \in Ids',
           request' = [request EXCEPT ![t] = R], tokens' = tokens, Ids \subseteq Ids',
           UNCHANGED <<jar, instant, ended, overlapped>>, disturbed' = disturbed
    PROVE  TokensInv' /\ RequestsInv'
<1>1. TokensInv /\ RequestsInv
  BY DEF SessionsInv
<1>2. TokensInv'
  BY <1>1, AccountsLeaveTokens
<1>3. OneTabMoves(t) /\ request'[t] = R /\ request' \in [Tabs -> RequestRecords]
  BY <1>1, SameTables
<1>4. RequestOK(t)' /\ QuietOK(t)' /\ ~CarriesFamily(t)'
  BY <1>3, RestingRequest
<1>5. SoundMove(t)
  BY <1>3, <1>4 DEF SoundMove
<1>6. QED
  BY <1>1, <1>2, <1>5, RequestsKept

LEMMA RegisterKeeps ==
    ASSUME SessionsInv, NEW t \in Tabs, NEW s \in Spellings, Register(t, s)
    PROVE  SessionsInv'
<1> DEFINE R == [stage |-> "insert", email |-> Lower[s]]
<1>1. R \in RequestRecords /\ R.stage = "insert"
  BY SessionsAssumption DEF RequestRecords
<1>2. request' = [request EXCEPT ![t] = R] /\ request[t].stage = "free"
  BY DEF Register, Waits, Free
<1> HIDE DEF R
<1>3. AccountsInv' /\ Ids' = Ids
  BY DEF SessionsInv, AccountsInv, Ids, Register, accountVars
<1>4. TokensInv' /\ RequestsInv'
  BY <1>1, <1>2, <1>3, SignInKeeps DEF CarriesFamily, Register, ghosts
<1>5. QED
  BY <1>3, <1>4 DEF SessionsInv

LEMMA InsertAccountKeeps ==
    ASSUME SessionsInv, NEW t \in Tabs, InsertAccount(t)
    PROVE  SessionsInv'
<1> DEFINE id == Cardinality(users) + 1
           e == request[t].email
<1>1. request[t] \in RequestRecords /\ request[t].stage = "insert" /\ AccountsInv
  BY DEF SessionsInv, RequestsInv, InsertAccount, Stage
<1>2. e \in Spellings /\ ~CarriesFamily(t)
  BY <1>1 DEF RequestRecords, Free, RawStages, CarriesFamily
<1>3. Cardinality(users) \in Nat
  BY <1>1, FS_CardinalityType DEF AccountsInv
<1>4. UNCHANGED <<tokens, jar, instant, ended, overlapped>> /\ disturbed' = disturbed
  BY DEF InsertAccount, ghosts
<1>5. CASE \E u \in users : Lower[u.email] = Lower[e]
  <2>1. request' = [request EXCEPT ![t] = Free] /\ UNCHANGED accountVars
    BY <1>5 DEF InsertAccount, Waits
  <2>2. AccountsInv' /\ Ids' = Ids
    BY <1>1, <2>1 DEF AccountsInv, Ids, accountVars
  <2>3. Free \in RequestRecords /\ Free.stage = "free"
    BY DEF Free, RequestRecords
  <2>4. TokensInv' /\ RequestsInv'
    BY <1>2, <1>4, <2>1, <2>2, <2>3, SignInKeeps
  <2>5. QED
    BY <2>2, <2>4 DEF SessionsInv
<1>6. CASE ~\E u \in users : Lower[u.email] = Lower[e]
  <2> DEFINE R == [stage |-> "issue", user |-> id]
  <2>1. /\ tenants' = tenants \cup {id}
        /\ users' = users \cup {[id |-> id, email |-> e, password |-> t]}
        /\ memberships' = memberships \cup {[tenant |-> id, user |-> id, role |-> "owner"]}
        /\ subscriptions' = subscriptions \cup {[tenant |-> id, plan |-> "free"]}
        /\ request' = [request EXCEPT ![t] = R]
    BY <1>6 DEF InsertAccount, Waits
  <2>2. AccountsInv' /\ Cardinality(users') = id
    BY <1>1, <1>2, <1>6, <2>1, RegistrationKeepsAccounts
  <2>3. Ids \subseteq Ids' /\ id \in Ids'
    BY <1>3, <2>2 DEF Ids
  <2>4. R \in RequestRecords /\ R.stage = "issue" /\ R.user = id
    BY <1>3 DEF RequestRecords
  <2> HIDE DEF R, id
  <2>5. TokensInv' /\ RequestsInv'
    BY <1>2, <1>4, <2>1, <2>3, <2>4, SignInKeeps
  <2>6. QED
    BY <2>2, <2>5 DEF SessionsInv
<1>7. QED
  BY <1>5, <1>6

LEMMA MembershipOfUser ==
    ASSUME AccountsInv, NEW n \in Ids
    PROVE  primary_membership(n) = Owner(n)
<1>1. Owner(n) \in memberships /\ Owner(n).user = n
  BY DEF AccountsInv, Owner
<1>2. \A m \in memberships : m.user = n => m = Owner(n)
  BY DEF AccountsInv, Owner
<1>3. QED
  BY <1>1, <1>2 DEF primary_membership

LEMMA LoginKeeps ==
    ASSUME SessionsInv, NEW t \in Tabs, NEW s \in Spellings, Login(t, s)
    PROVE  SessionsInv'
<1>1. PICK u \in users :
          request' = [request EXCEPT ![t] = [stage |-> "issue", user |-> primary_membership(u.id).user]]
  BY DEF Login, Waits
<1>2. AccountsInv /\ u.id \in Ids /\ u.id \in Nat
  BY DEF SessionsInv, AccountsInv
<1>3. primary_membership(u.id).user = u.id
  BY <1>2, MembershipOfUser DEF Owner
<1> DEFINE R == [stage |-> "issue", user |-> u.id]
<1>4. R \in RequestRecords /\ R.stage = "issue" /\ R.user = u.id
  BY <1>2 DEF RequestRecords
<1>5. request' = [request EXCEPT ![t] = R] /\ request[t].stage = "free"
  BY <1>1, <1>3 DEF Login, Free
<1> HIDE DEF R
<1>6. AccountsInv' /\ Ids' = Ids
  BY DEF SessionsInv, AccountsInv, Ids, Login, accountVars
<1>7. TokensInv' /\ RequestsInv'
  BY <1>2, <1>4, <1>5, <1>6, SignInKeeps DEF CarriesFamily, Login, ghosts
<1>8. QED
  BY <1>6, <1>7 DEF SessionsInv

(* A request that works on a family. *)
LEMMA CarriedRequest ==
    ASSUME SessionsInv, NEW t \in Tabs, CarriesFamily(t)
    PROVE  /\ request[t] \in RequestRecords
           /\ request[t].family \in 1..Len(tokens) /\ request[t].family \in Nat
           /\ SendsToken(t) => /\ request[t].raw \in 1..Len(tokens) /\ request[t].raw \in Nat
                               /\ tokens[request[t].raw].family = request[t].family
<1>1. request[t] \in RequestRecords /\ RequestOK(t) /\ TokensInv
  BY DEF SessionsInv, RequestsInv
<1>2. request[t].family \in 1..Len(tokens) /\ Len(tokens) \in Nat
  BY <1>1, TokensInvRows DEF RequestOK
<1>3. SendsToken(t) => request[t].raw \in 1..Len(tokens)
                       /\ tokens[request[t].raw].family = request[t].family
  BY <1>1, FamilyRows DEF RequestOK, TokensInv
<1>4. QED
  BY <1>1, <1>2, <1>3

LEMMA SendKeeps ==
    ASSUME SessionsInv, NEW t \in Tabs, NEW op \in {"refresh", "logout"}, Send(t, op)
    PROVE  SessionsInv'
<1> DEFINE f == tokens[jar].family
           R == [stage |-> op, family |-> f, raw |-> jar]
<1>1. /\ TokensInv /\ RequestsInv /\ AccountsInv /\ jar \in 1..Len(tokens)
      /\ request[t].stage = "free"
  BY TokensInvRows DEF SessionsInv, RequestsInv, JarOK, Send, Free
<1>2. f \in 1..Len(tokens) /\ f \in Nat /\ jar \in Nat /\ jar \in Family(f)
  <2>1. f \in 1..jar /\ Len(tokens) \in Nat
    BY <1>1, TokensInvRows DEF RowOK
  <2>2. QED
    BY <1>1, <2>1, FamilyRows DEF TokensInv
<1>3. R \in RequestRecords /\ R.stage = op /\ R.family = f /\ R.raw = jar
  BY <1>2 DEF RequestRecords, RawStages
<1>4. request' = [request EXCEPT ![t] = R]
  BY DEF Send, Waits
<1>5. /\ disturbed \subseteq disturbed'
      /\ f \notin disturbed' => \A o \in Tabs : CarriesFamily(o) => request[o].family # f
      /\ UNCHANGED <<tokens, jar, instant, ended, overlapped, accountVars>>
  BY DEF Send
<1>6. AccountsInv' /\ Ids' = Ids
  BY <1>1, <1>5 DEF AccountsInv, Ids, accountVars
<1>7. TokensInv'
  BY <1>1, <1>5, <1>6, AccountsLeaveTokens
<1> HIDE DEF R
<1>8. OneTabMoves(t) /\ request'[t] = R /\ request' \in [Tabs -> RequestRecords]
  BY <1>1, <1>3, <1>4, <1>5, <1>6, SameTables
<1>9. CarriesFamily(t)' /\ SendsToken(t)' /\ ~CarriesFamily(t)
  BY <1>1, <1>3, <1>8 DEF CarriesFamily, SendsToken, RawStages
<1>10. RequestOK(t)'
  BY <1>2, <1>3, <1>5, <1>8 DEF RequestOK, Stage, Family
<1>11. f \notin disturbed' => Usable(jar)
  BY <1>1, <1>5 DEF RequestsInv, JarOK
<1>12. QuietOK(t)'
  BY <1>3, <1>5, <1>8, <1>11 DEF QuietOK, Stage, Usable, Expired, SendsToken
<1>13. RequestsInv'
  <2>1. request'[t].family = f
    BY <1>3, <1>8
  <2>2. CarriesFamily(t)' =>
            \/ request'[t].family \in disturbed'
            \/ \A o \in Tabs \ {t} : CarriesFamily(o) => request[o].family # request'[t].family
    BY <1>5, <2>1
  <2>3. SoundMove(t)
    BY <1>8, <1>9, <1>10, <1>12, <2>2 DEF SoundMove
  <2>4. QED
    BY <1>1, <2>3, RequestsKept
<1>14. QED
  BY <1>6, <1>7, <1>13 DEF SessionsInv

(* A request that goes on with its family and writes nothing. *)
LEMMA GoingOnKeeps ==
    ASSUME SessionsInv, NEW t \in Tabs, CarriesFamily(t), NEW R \in RequestRecords,
           request' = [request EXCEPT ![t] = R], R.family = request[t].family,
           CarriesFamily(t)', RequestOK(t)', QuietOK(t)',
           UNCHANGED <<accountVars, tokens, jar, instant, ghosts>>
    PROVE  SessionsInv'
<1>1. TokensInv /\ RequestsInv /\ AccountsInv
  BY DEF SessionsInv
<1>2. AccountsInv' /\ Ids' = Ids
  BY <1>1 DEF AccountsInv, Ids, accountVars
<1>3. TokensInv'
  BY <1>1, <1>2, AccountsLeaveTokens DEF ghosts
<1>4. OneTabMoves(t) /\ request'[t] = R /\ request' \in [Tabs -> RequestRecords]
  BY <1>1, <1>2, SameTables DEF ghosts
<1>5. request'[t].family = request[t].family
  BY <1>4
<1>6. CarriesFamily(t)' =>
          \/ request'[t].family \in disturbed'
          \/ \A o \in Tabs \ {t} : CarriesFamily(o) => request[o].family # request'[t].family
  <2>1. disturbed' = disturbed
    BY DEF ghosts
  <2>2. QED
    BY <1>1, <1>5, <2>1 DEF RequestsInv, OneRequest
<1>7. RequestsInv'
  <2>1. SoundMove(t)
    BY <1>4, <1>5, <1>6 DEF SoundMove
  <2>2. QED
    BY <1>1, <2>1, RequestsKept
<1>8. QED
  BY <1>2, <1>3, <1>7 DEF SessionsInv

LEMMA FindKeeps ==
    ASSUME SessionsInv, NEW t \in Tabs, FindRefresh(t)
    PROVE  SessionsInv'
<1> DEFINE raw == request[t].raw
           next == IF tokens[raw].revoked THEN "reuse"
                   ELSE IF tokens[raw].expires <= instant THEN "expired" ELSE "rotate"
           R == [request[t] EXCEPT !.stage = next]
<1>1. CarriesFamily(t) /\ SendsToken(t) /\ request[t].stage = "refresh"
  BY DEF FindRefresh, Stage, CarriesFamily, SendsToken, RawStages
<1>2. /\ request[t] \in RequestRecords /\ RequestOK(t) /\ QuietOK(t)
      /\ request \in [Tabs -> RequestRecords]
  BY DEF SessionsInv, RequestsInv
<1>3. request[t] \in [stage : RawStages, family : Nat, raw : Nat]
  BY <1>1, <1>2 DEF RequestRecords, Free
<1>4. next \in {"reuse", "expired", "rotate"} /\ next \in RawStages
  BY DEF RawStages
<1>5. request' = [request EXCEPT ![t] = R]
  BY DEF FindRefresh, Waits
<1>6. UNCHANGED <<accountVars, tokens, jar, instant, ghosts>>
  BY DEF FindRefresh
<1>7. /\ next = "reuse" => tokens[raw].revoked
      /\ next = "expired" => Expired(raw)
  BY DEF Expired
<1> HIDE DEF next
<1>8. R \in RequestRecords /\ R.stage = next /\ R.family = request[t].family /\ R.raw = raw
  BY <1>3, <1>4 DEF RequestRecords
<1> HIDE DEF R
<1>9. request'[t] = R
  BY <1>2, <1>5
<1>10. CarriesFamily(t)' /\ SendsToken(t)'
  BY <1>4, <1>8, <1>9 DEF CarriesFamily, SendsToken, RawStages
<1>11. RequestOK(t)'
  BY <1>1, <1>2, <1>4, <1>6, <1>8, <1>9 DEF RequestOK, Stage, Family
<1>12. QuietOK(t)'
  <2> SUFFICES ASSUME request[t].family \notin disturbed
               PROVE  QuietOK(t)'
    BY <1>6, <1>8, <1>9 DEF QuietOK, ghosts
  <2>1. Usable(raw) /\ (jar # 0 /\ tokens[jar].family = request[t].family => jar = raw)
    BY <1>1, <1>2 DEF QuietOK
  <2>2. next \in {"reuse", "expired"} => Expired(raw)
    BY <1>7, <2>1 DEF Usable
  <2>3. QED
    BY <1>4, <1>6, <1>8, <1>9, <2>1, <2>2 DEF QuietOK, Stage, Usable, Expired
<1>13. QED
  BY <1>1, <1>5, <1>6, <1>8, <1>10, <1>11, <1>12, GoingOnKeeps

LEMMA ScanKeeps ==
    ASSUME SessionsInv, NEW t \in Tabs, ScanFamily(t)
    PROVE  SessionsInv'
<1> DEFINE f == request[t].family
           R == [stage |-> "revoke", family |-> f, raw |-> request[t].raw, seen |-> LiveIn(f)]
<1>1. CarriesFamily(t) /\ SendsToken(t) /\ request[t].stage = "reuse"
  BY DEF ScanFamily, Stage, CarriesFamily, SendsToken, RawStages
<1>2. /\ RequestOK(t) /\ QuietOK(t) /\ TokensInv /\ request \in [Tabs -> RequestRecords]
      /\ f \in Nat /\ request[t].raw \in Nat
  BY <1>1, CarriedRequest DEF SessionsInv, RequestsInv
<1>3. LiveIn(f) \subseteq Family(f) /\ Family(f) \subseteq Nat
  BY <1>2, TokensInvRows DEF LiveIn, Family
<1>4. R \in RequestRecords
  BY <1>2, <1>3 DEF RequestRecords
<1>5. R.stage = "revoke" /\ R.family = f /\ R.raw = request[t].raw /\ R.seen = LiveIn(f)
  OBVIOUS
<1>6. /\ request' = [request EXCEPT ![t] = R]
      /\ UNCHANGED <<accountVars, tokens, jar, instant, ghosts>>
  BY DEF ScanFamily, Waits
<1> HIDE DEF R
<1>7. request'[t] = R
  BY <1>2, <1>6
<1>8. CarriesFamily(t)' /\ SendsToken(t)'
  BY <1>5, <1>7 DEF CarriesFamily, SendsToken
<1>9. RequestOK(t)'
  BY <1>1, <1>2, <1>3, <1>5, <1>6, <1>7 DEF RequestOK, Stage, Family
<1>10. QuietOK(t)'
  BY <1>1, <1>2, <1>5, <1>6, <1>7 DEF QuietOK, Stage, Usable, Expired, ghosts
<1>11. QED
  BY <1>1, <1>4, <1>5, <1>6, <1>8, <1>9, <1>10, GoingOnKeeps

(* A step that writes tokens.                                                *)
LEMMA WritingMoves ==
    ASSUME SessionsInv, NEW t \in Tabs, NEW R \in RequestRecords,
           request' = [request EXCEPT ![t] = R], TokensInv', Len(tokens) <= Len(tokens'),
           \A i \in 1..Len(tokens) :
              /\ tokens'[i].family = tokens[i].family /\ tokens'[i].expires = tokens[i].expires
              /\ (CarriesFamily(t) /\ tokens[i].family = request[t].family) \/ tokens'[i] = tokens[i],
           UNCHANGED <<accountVars, jar, instant, disturbed>>
    PROVE  /\ AccountsInv' /\ TokensInv /\ RequestsInv
           /\ OneTabMoves(t) /\ request'[t] = R /\ request' \in [Tabs -> RequestRecords]
<1>1. AccountsInv /\ TokensInv /\ RequestsInv
  BY DEF SessionsInv
<1>2. AccountsInv' /\ Ids' = Ids
  BY <1>1 DEF AccountsInv, Ids, accountVars
<1>3. request \in [Tabs -> RequestRecords]
  BY <1>1 DEF RequestsInv
<1>4. request'[t] = R /\ request' \in [Tabs -> RequestRecords]
      /\ \A o \in Tabs \ {t} : request'[o] = request[o]
  BY <1>3
<1>5. tokens' \in Seq(TokenRecords)
  BY DEF TokensInv
<1>6. DOMAIN tokens' = 1..Len(tokens') /\ Len(tokens') \in Nat
  BY <1>5
<1>7. OneTabMoves(t)
  BY <1>2, <1>4, <1>6 DEF OneTabMoves
<1>8. QED
  BY <1>1, <1>2, <1>4, <1>7

LEMMA IssueTokensKeeps ==
    ASSUME SessionsInv, NEW t \in Tabs, IssueTokens(t)
    PROVE  SessionsInv'
<1>0. PICK c : c = Len(tokens) + 1
  OBVIOUS
<1>1. /\ AccountsInv /\ TokensInv /\ RequestsInv /\ request[t].stage = "issue"
      /\ request[t].user \in Ids /\ instant \in Nat
  BY DEF SessionsInv, RequestsInv, RequestOK, IssueTokens, Stage
<1>2. ~CarriesFamily(t)
  BY <1>1 DEF CarriesFamily
<1>3. /\ tokens \in Seq(TokenRecords) /\ Len(tokens) \in Nat /\ c \in Nat /\ Len(tokens) < c
      /\ \A i \in 1..Len(tokens) : RowOK(i)
  BY <1>0, <1>1, TokensInvRows
<1>4. /\ tokens' = Inserted(c, request[t].user)
      /\ request' = [request EXCEPT ![t] = [stage |-> "answer", family |-> c, cookie |-> c]]
      /\ UNCHANGED <<accountVars, jar, instant, disturbed, overlapped, ended>>
  BY <1>0 DEF IssueTokens, Waits, ghosts
<1>5. request[t].user \in Nat
  BY <1>1, FS_CardinalityType DEF AccountsInv, Ids
<1>6. TokensInv'
  <2>1. Ids' = Ids
    BY <1>4 DEF Ids, accountVars
  <2>2. QED
    BY <1>0, <1>1, <1>4, <1>5, <2>1, IssueKeepsTokens
<1>7. /\ Len(tokens') = c /\ tokens'[c].family = c /\ ~tokens'[c].revoked
      /\ \A i \in 1..Len(tokens) : tokens'[i] = tokens[i]
  BY <1>0, <1>1, <1>3, <1>4, <1>5, InsertedRows
<1> DEFINE R == [stage |-> "answer", family |-> c, cookie |-> c]
<1>8. R \in RequestRecords /\ R.stage = "answer" /\ R.family = c /\ R.cookie = c
  BY <1>3 DEF RequestRecords
<1> HIDE DEF R
<1>9. /\ AccountsInv' /\ OneTabMoves(t) /\ request'[t] = R
      /\ request' \in [Tabs -> RequestRecords]
  <2>1. \A i \in 1..Len(tokens) :
           /\ tokens'[i].family = tokens[i].family /\ tokens'[i].expires = tokens[i].expires
           /\ (CarriesFamily(t) /\ tokens[i].family = request[t].family) \/ tokens'[i] = tokens[i]
    BY <1>7
  <2>2. request' = [request EXCEPT ![t] = R] /\ Len(tokens) <= Len(tokens')
    BY <1>3, <1>4, <1>7 DEF R
  <2>3. QED
    BY <1>4, <1>6, <1>8, <2>1, <2>2, WritingMoves
<1>10. c \in 1..Len(tokens') /\ c \in Family(c)'
  <2>1. tokens' \in Seq(TokenRecords)
    BY <1>6 DEF TokensInv
  <2>2. DOMAIN tokens' = 1..c
    BY <1>7, <2>1
  <2>3. QED
    BY <1>3, <1>7, <2>2 DEF Family
<1>11. CarriesFamily(t)' /\ ~SendsToken(t)'
  BY <1>8, <1>9 DEF CarriesFamily, SendsToken, RawStages
<1>12. RequestOK(t)'
  BY <1>8, <1>9, <1>10, <1>11 DEF RequestOK, Stage
<1>13. QuietOK(t)'
  BY <1>7, <1>8, <1>9, <1>11 DEF QuietOK, Stage, Usable
<1>14. \A o \in Tabs : CarriesFamily(o) => request[o].family # c
  BY <1>1, <1>3 DEF RequestsInv, RequestOK
<1>15. SoundMove(t)
  BY <1>2, <1>8, <1>9, <1>12, <1>13, <1>14 DEF SoundMove
<1>16. QED
  BY <1>1, <1>6, <1>9, <1>15, RequestsKept DEF SessionsInv

LEMMA RotateKeeps ==
    ASSUME SessionsInv, NEW t \in Tabs, RotateRefresh(t)
    PROVE  SessionsInv'
<1>0. PICK c : c = Len(tokens) + 1
  OBVIOUS
<1>f. PICK f : f = request[t].family
  OBVIOUS
<1>r. PICK raw : raw = request[t].raw
  OBVIOUS
<1>1. /\ AccountsInv /\ TokensInv /\ RequestsInv /\ request[t].stage = "rotate"
      /\ CarriesFamily(t) /\ SendsToken(t) /\ instant \in Nat
  BY DEF SessionsInv, RequestsInv, RotateRefresh, Stage, CarriesFamily, SendsToken, RawStages
<1>2. /\ f \in 1..Len(tokens) /\ f \in Nat
      /\ raw \in 1..Len(tokens) /\ tokens[raw].family = f
  BY <1>1, <1>f, <1>r, CarriedRequest
<1>3. Len(tokens) \in Nat /\ c \in Nat /\ Len(tokens) < c
  BY <1>0, <1>1, TokensInvRows
<1>4. /\ tokens' = Revoked(Inserted(tokens[raw].family, tokens[raw].user), {raw}, Len(tokens) + 1)
      /\ overlapped' = IF tokens[raw].revoked THEN overlapped \cup {tokens[raw].family}
                       ELSE overlapped
      /\ request' = [request EXCEPT ![t] = [stage |-> "answer", family |-> f, cookie |-> c]]
      /\ UNCHANGED <<accountVars, jar, instant, disturbed, ended>>
  BY <1>0, <1>2, <1>f, <1>r DEF RotateRefresh, Waits
<1>5. Ids' = Ids
  BY <1>4 DEF Ids, accountVars
<1>6. /\ TokensInv' /\ Len(tokens') = c
      /\ \A i \in 1..Len(tokens) :
            /\ tokens'[i].family = tokens[i].family /\ tokens'[i].expires = tokens[i].expires
            /\ i # raw => tokens'[i] = tokens[i]
      /\ tokens'[c].family = f /\ ~tokens'[c].revoked
  BY <1>0, <1>1, <1>2, <1>4, <1>5, RotationKeepsTokens
<1> DEFINE R == [stage |-> "answer", family |-> f, cookie |-> c]
<1>7. R \in RequestRecords /\ R.stage = "answer" /\ R.family = f /\ R.cookie = c
  BY <1>2, <1>3 DEF RequestRecords
<1> HIDE DEF R
<1>8. /\ AccountsInv' /\ OneTabMoves(t) /\ request'[t] = R
      /\ request' \in [Tabs -> RequestRecords]
  <2>1. \A i \in 1..Len(tokens) :
           /\ tokens'[i].family = tokens[i].family /\ tokens'[i].expires = tokens[i].expires
           /\ (CarriesFamily(t) /\ tokens[i].family = request[t].family) \/ tokens'[i] = tokens[i]
    BY <1>1, <1>2, <1>6, <1>f
  <2>2. request' = [request EXCEPT ![t] = R] /\ Len(tokens) <= Len(tokens')
    BY <1>3, <1>4, <1>6 DEF R
  <2>3. QED
    BY <1>4, <1>6, <1>7, <2>1, <2>2, WritingMoves
<1>9. f \in 1..Len(tokens') /\ c \in Family(f)'
  <2>1. tokens' \in Seq(TokenRecords)
    BY <1>6 DEF TokensInv
  <2>2. DOMAIN tokens' = 1..c
    BY <1>6, <2>1
  <2>3. QED
    BY <1>2, <1>3, <1>6, <2>2 DEF Family
<1>10. CarriesFamily(t)' /\ ~SendsToken(t)'
  BY <1>7, <1>8 DEF CarriesFamily, SendsToken, RawStages
<1>11. RequestOK(t)'
  BY <1>7, <1>8, <1>9, <1>10 DEF RequestOK, Stage
<1>12. QuietOK(t)'
  BY <1>6, <1>7, <1>8, <1>10 DEF QuietOK, Stage, Usable
<1>13. f \in disturbed' \/ \A o \in Tabs \ {t} : CarriesFamily(o) => request[o].family # f
  BY <1>1, <1>4, <1>f DEF RequestsInv, OneRequest
<1>14. SoundMove(t)
  BY <1>7, <1>8, <1>10, <1>11, <1>12, <1>13, <1>f DEF SoundMove
<1>15. QED
  BY <1>1, <1>6, <1>8, <1>14, RequestsKept DEF SessionsInv

(* A step that revokes tokens of the family its request carries.             *)
LEMMA RevokingMoves ==
    ASSUME SessionsInv, NEW t \in Tabs, CarriesFamily(t), NEW R \in RequestRecords,
           request' = [request EXCEPT ![t] = R], NEW ids, ids \subseteq Family(request[t].family),
           tokens' = Revoked(tokens, ids, 0), TokensInv',
           UNCHANGED <<accountVars, jar, instant, disturbed>>
    PROVE  /\ AccountsInv' /\ TokensInv /\ RequestsInv
           /\ OneTabMoves(t) /\ request'[t] = R /\ request' \in [Tabs -> RequestRecords]
           /\ Len(tokens') = Len(tokens)
<1>1. tokens \in Seq(TokenRecords)
  BY DEF SessionsInv, TokensInv
<1>2. /\ Len(tokens') = Len(tokens) /\ Len(tokens) \in Nat
      /\ \A i \in 1..Len(tokens) :
            /\ tokens'[i].family = tokens[i].family /\ tokens'[i].expires = tokens[i].expires
            /\ i \notin ids => tokens'[i] = tokens[i]
  BY <1>1, RevokedRows
<1>3. \A i \in 1..Len(tokens) : i \in ids => tokens[i].family = request[t].family
  BY DEF Family
<1>4. \A i \in 1..Len(tokens) :
         /\ tokens'[i].family = tokens[i].family /\ tokens'[i].expires = tokens[i].expires
         /\ (CarriesFamily(t) /\ tokens[i].family = request[t].family) \/ tokens'[i] = tokens[i]
  BY <1>2, <1>3
<1>5. Len(tokens) <= Len(tokens')
  BY <1>2
<1>6. QED
  BY <1>2, <1>4, <1>5, WritingMoves

(* The end of a request that revokes: its token was the cookie's only if it  *)
(* had expired.                                                              *)
LEMMA RevokingEnds ==
    ASSUME SessionsInv, NEW t \in Tabs, request[t].stage \in {"revoke", "expired"},
           request' = [request EXCEPT ![t] = Free], NEW ids, ids \subseteq Family(request[t].family),
           tokens' = Revoked(tokens, ids, 0), TokensInv',
           UNCHANGED <<accountVars, jar, instant, disturbed>>
    PROVE  SessionsInv'
<1>1. CarriesFamily(t) /\ SendsToken(t) /\ request[t].stage \in {"reuse", "expired", "revoke"}
  BY DEF CarriesFamily, SendsToken, RawStages
<1>2. Free \in RequestRecords /\ Free.stage = "free"
  BY DEF Free, RequestRecords
<1>3. /\ AccountsInv' /\ TokensInv /\ RequestsInv
      /\ OneTabMoves(t) /\ request'[t] = Free /\ request' \in [Tabs -> RequestRecords]
  BY <1>1, <1>2, RevokingMoves
<1>4. RequestOK(t)' /\ QuietOK(t)' /\ ~CarriesFamily(t)'
  BY <1>2, <1>3, RestingRequest
<1>5. request[t].family \notin disturbed /\ jar # 0 /\ tokens[jar].family = request[t].family
      => Expired(jar)
  BY <1>1, <1>3 DEF RequestsInv, QuietOK
<1>6. SoundMove(t)
  BY <1>3, <1>4, <1>5 DEF SoundMove
<1>7. QED
  BY <1>3, <1>6, RequestsKept DEF SessionsInv

LEMMA RevokeFamilyKeeps ==
    ASSUME SessionsInv, NEW t \in Tabs, RevokeFamily(t)
    PROVE  SessionsInv'
<1>f. PICK f : f = request[t].family
  OBVIOUS
<1>s. PICK seen : seen = request[t].seen
  OBVIOUS
<1>1. /\ TokensInv /\ RequestOK(t) /\ request[t].stage = "revoke" /\ CarriesFamily(t)
  BY DEF SessionsInv, RequestsInv, RevokeFamily, Stage, CarriesFamily
<1>2. f \in 1..Len(tokens) /\ seen \subseteq Family(f)
  BY <1>1, <1>f, <1>s, CarriedRequest DEF RequestOK, Stage
<1>3. /\ tokens' = Revoked(tokens, seen, 0) /\ ended' = ended \cup {f}
      /\ overlapped' = IF LiveIn(f) \subseteq seen THEN overlapped ELSE overlapped \cup {f}
      /\ request' = [request EXCEPT ![t] = Free]
      /\ UNCHANGED <<accountVars, jar, instant, disturbed>>
  BY <1>f, <1>s DEF RevokeFamily, Waits
<1>4. Ids' = Ids
  BY <1>3 DEF Ids, accountVars
<1>5. overlapped \subseteq overlapped' /\ (f \notin overlapped' => LiveIn(f) \subseteq seen)
  BY <1>3
<1>6. TokensInv'
  BY <1>1, <1>2, <1>3, <1>4, <1>5, RevocationKeepsTokens
<1>7. QED
  BY <1>1, <1>2, <1>3, <1>6, <1>f, RevokingEnds

LEMMA ExpireKeeps ==
    ASSUME SessionsInv, NEW t \in Tabs, ExpireRefresh(t)
    PROVE  SessionsInv'
<1>r. PICK raw : raw = request[t].raw
  OBVIOUS
<1>1. /\ TokensInv /\ RequestOK(t) /\ request[t].stage = "expired"
      /\ CarriesFamily(t) /\ SendsToken(t)
  BY DEF SessionsInv, RequestsInv, ExpireRefresh, Stage, CarriesFamily, SendsToken, RawStages
<1>2. request[t].family \in 1..Len(tokens) /\ {raw} \subseteq Family(request[t].family)
  BY <1>1, <1>r, CarriedRequest DEF RequestOK
<1>3. /\ tokens' = Revoked(tokens, {raw}, 0)
      /\ request' = [request EXCEPT ![t] = Free]
      /\ UNCHANGED <<accountVars, jar, instant, disturbed, ended, overlapped>>
  BY <1>r DEF ExpireRefresh, Waits, ghosts
<1>4. Ids' = Ids
  BY <1>3 DEF Ids, accountVars
<1>5. TokensInv'
  BY <1>1, <1>2, <1>3, <1>4, RevocationKeepsTokens
<1>6. QED
  BY <1>1, <1>2, <1>3, <1>5, RevokingEnds

LEMMA LogoutKeeps ==
    ASSUME SessionsInv, NEW t \in Tabs, Logout(t)
    PROVE  SessionsInv'
<1>f. PICK f : f = request[t].family
  OBVIOUS
<1>r. PICK raw : raw = request[t].raw
  OBVIOUS
<1>1. /\ TokensInv /\ RequestsInv /\ RequestOK(t) /\ request[t].stage = "logout"
      /\ CarriesFamily(t) /\ SendsToken(t)
  BY DEF SessionsInv, RequestsInv, Logout, Stage, CarriesFamily, SendsToken, RawStages
<1>2. f \in 1..Len(tokens) /\ f \in Nat /\ {raw} \subseteq Family(request[t].family)
  BY <1>1, <1>f, <1>r, CarriedRequest DEF RequestOK
<1> DEFINE R == [stage |-> "answer", family |-> f, cookie |-> 0]
<1>3. /\ tokens' = Revoked(tokens, {raw}, 0) /\ request' = [request EXCEPT ![t] = R]
      /\ UNCHANGED <<accountVars, jar, instant, disturbed, ended, overlapped>>
  BY <1>f, <1>r DEF Logout, Waits, ghosts
<1>4. R \in RequestRecords /\ R.stage = "answer" /\ R.family = f /\ R.cookie = 0
  BY <1>2 DEF RequestRecords
<1> HIDE DEF R
<1>5. Ids' = Ids
  BY <1>3 DEF Ids, accountVars
<1>6. TokensInv'
  BY <1>1, <1>2, <1>3, <1>5, RevocationKeepsTokens
<1>7. /\ AccountsInv' /\ OneTabMoves(t) /\ request'[t] = R
      /\ request' \in [Tabs -> RequestRecords] /\ Len(tokens') = Len(tokens)
  BY <1>1, <1>2, <1>3, <1>4, <1>6, RevokingMoves
<1>8. CarriesFamily(t)' /\ ~SendsToken(t)'
  BY <1>4, <1>7 DEF CarriesFamily, SendsToken, RawStages
<1>9. RequestOK(t)' /\ QuietOK(t)'
  BY <1>2, <1>4, <1>7, <1>8 DEF RequestOK, QuietOK, Stage
<1>10. f \in disturbed' \/ \A o \in Tabs \ {t} : CarriesFamily(o) => request[o].family # f
  BY <1>1, <1>3, <1>f DEF RequestsInv, OneRequest
<1>11. SoundMove(t)
  BY <1>4, <1>7, <1>8, <1>9, <1>10, <1>f DEF SoundMove
<1>12. QED
  BY <1>1, <1>6, <1>7, <1>11, RequestsKept DEF SessionsInv

LEMMA LostKeeps ==
    ASSUME SessionsInv, NEW t \in Tabs, Lost(t)
    PROVE  SessionsInv'
<1>1. AccountsInv /\ TokensInv /\ RequestsInv
  BY DEF SessionsInv
<1>2. /\ request' = [request EXCEPT ![t] = Free] /\ disturbed \subseteq disturbed'
      /\ CarriesFamily(t) => request[t].family \in disturbed'
      /\ UNCHANGED <<accountVars, tokens, jar, instant, ended, overlapped>>
  BY DEF Lost, Waits
<1>3. AccountsInv' /\ Ids' = Ids
  BY <1>1, <1>2 DEF AccountsInv, Ids, accountVars
<1>4. TokensInv'
  BY <1>1, <1>2, <1>3, AccountsLeaveTokens
<1>5. Free \in RequestRecords /\ Free.stage = "free"
  BY DEF Free, RequestRecords
<1>6. OneTabMoves(t) /\ request'[t] = Free /\ request' \in [Tabs -> RequestRecords]
  BY <1>1, <1>2, <1>3, <1>5, SameTables
<1>7. RequestOK(t)' /\ QuietOK(t)' /\ ~CarriesFamily(t)'
  BY <1>5, <1>6, RestingRequest
<1>8. SoundMove(t)
  BY <1>2, <1>6, <1>7 DEF SoundMove
<1>9. QED
  BY <1>1, <1>3, <1>4, <1>8, RequestsKept DEF SessionsInv

LEMMA AnswerKeeps ==
    ASSUME SessionsInv, NEW t \in Tabs, AnswerArrives(t)
    PROVE  SessionsInv'
<1>f. PICK f : f = request[t].family
  OBVIOUS
<1>c. PICK c : c = request[t].cookie
  OBVIOUS
<1>1. /\ AccountsInv /\ TokensInv /\ RequestsInv /\ RequestOK(t) /\ QuietOK(t)
      /\ Stage(t, "answer") /\ CarriesFamily(t) /\ instant \in Nat
      /\ request \in [Tabs -> RequestRecords]
  BY DEF SessionsInv, RequestsInv, AnswerArrives, Stage, CarriesFamily
<1>2. /\ jar' = c /\ request' = [request EXCEPT ![t] = Free]
      /\ UNCHANGED <<accountVars, tokens, instant, ended, overlapped, disturbed>>
  BY <1>c DEF AnswerArrives, Waits, ghosts
<1>3. AccountsInv' /\ Ids' = Ids
  BY <1>1, <1>2 DEF AccountsInv, Ids, accountVars
<1>4. TokensInv'
  BY <1>1, <1>2, <1>3, AccountsLeaveTokens
<1>5. c = 0 \/ (c \in 1..Len(tokens) /\ tokens[c].family = f)
  <2>1. tokens \in Seq(TokenRecords)
    BY <1>1 DEF TokensInv
  <2>2. c = 0 \/ c \in Family(f)
    BY <1>1, <1>c, <1>f DEF RequestOK
  <2>3. \A i : i \in Family(f) => i \in 1..Len(tokens) /\ tokens[i].family = f
    BY <2>1, FamilyRows
  <2>4. QED
    BY <2>2, <2>3
<1>6. Len(tokens) \in Nat /\ jar' \in 0..Len(tokens)
  BY <1>1, <1>2, <1>5, TokensInvRows
<1>7. c # 0 /\ f \notin disturbed => Usable(c)
  BY <1>1, <1>c, <1>f DEF QuietOK
<1>8. Free \in RequestRecords /\ Free.stage = "free"
  BY DEF Free, RequestRecords
<1>9. /\ request' \in [Tabs -> RequestRecords] /\ request'[t] = Free
      /\ \A o \in Tabs \ {t} : request'[o] = request[o]
  BY <1>1, <1>2, <1>8
<1>10. RequestOK(t)' /\ QuietOK(t)' /\ ~CarriesFamily(t)'
  BY <1>8, <1>9, RestingRequest
<1>11. ASSUME NEW o \in Tabs \ {t}
       PROVE  /\ RequestOK(o)' /\ QuietOK(o)' /\ (CarriesFamily(o)' <=> CarriesFamily(o))
              /\ request'[o].family = request[o].family
  <2>1. /\ request'[o] = request[o] /\ tokens' = tokens /\ Ids' = Ids
        /\ instant' = instant /\ disturbed' = disturbed
    BY <1>2, <1>3, <1>9
  <2>2. RequestOK(o) /\ QuietOK(o)
    BY <1>1 DEF RequestsInv
  <2>3. /\ CarriesFamily(o)' <=> CarriesFamily(o)
        /\ SendsToken(o)' <=> SendsToken(o)
    BY <2>1 DEF CarriesFamily, SendsToken
  <2>4. RequestOK(o)'
    BY <2>1, <2>2, <2>3 DEF RequestOK, Stage, Family
  <2>5. CarriesFamily(o) /\ request[o].family \notin disturbed => request[o].family # f
    BY <1>1, <1>f DEF RequestsInv, OneRequest
  <2>6. QuietOK(o)'
    BY <1>2, <1>5, <2>1, <2>2, <2>3, <2>5 DEF QuietOK, Stage, Usable, Expired
  <2>7. QED
    BY <2>1, <2>3, <2>4, <2>6
<1>12. \A o \in Tabs : RequestOK(o)' /\ QuietOK(o)'
  BY <1>10, <1>11
<1>13. OneRequest'
  BY <1>1, <1>2, <1>10, <1>11 DEF RequestsInv, OneRequest
<1>14. JarOK'
  <2> SUFFICES ASSUME jar' # 0, tokens'[jar'].family \notin disturbed'
               PROVE  Usable(jar)'
    BY <1>2, <1>6 DEF JarOK
  <2>1. c # 0 /\ f \notin disturbed
    BY <1>2, <1>5
  <2>2. QED
    BY <1>2, <1>7, <2>1 DEF Usable, Expired
<1>15. QED
  BY <1>1, <1>2, <1>3, <1>4, <1>9, <1>12, <1>13, <1>14 DEF SessionsInv, RequestsInv

LEMMA PassKeeps ==
    ASSUME SessionsInv, Pass
    PROVE  SessionsInv'
<1>1. AccountsInv /\ TokensInv /\ RequestsInv
  BY DEF SessionsInv
<1>2. /\ instant' = instant + 1 /\ instant \in Nat
      /\ UNCHANGED <<accountVars, tokens, jar, request, ended, overlapped, disturbed>>
  BY <1>1 DEF Pass, ghosts, RequestsInv
<1>3. AccountsInv' /\ Ids' = Ids
  BY <1>1, <1>2 DEF AccountsInv, Ids, accountVars
<1>4. TokensInv'
  BY <1>1, <1>2, <1>3, AccountsLeaveTokens
<1>5. \A i \in 1..Len(tokens) : /\ Expired(i) => Expired(i)'
                                /\ Usable(i) => Usable(i)'
  <2> SUFFICES ASSUME NEW i \in 1..Len(tokens)
               PROVE  (Expired(i) => Expired(i)') /\ (Usable(i) => Usable(i)')
    OBVIOUS
  <2>1. tokens[i].expires \in Nat
    BY <1>1, TokensInvRows DEF TokenRecords
  <2>2. QED
    BY <1>2, <2>1 DEF Usable, Expired
<1>6. ASSUME NEW o \in Tabs
      PROVE  RequestOK(o)' /\ QuietOK(o)' /\ (CarriesFamily(o)' <=> CarriesFamily(o))
  <2>1. RequestOK(o) /\ QuietOK(o)
    BY <1>1 DEF RequestsInv
  <2>2. /\ CarriesFamily(o)' <=> CarriesFamily(o)
        /\ SendsToken(o)' <=> SendsToken(o)
    BY <1>2 DEF CarriesFamily, SendsToken
  <2>3. RequestOK(o)'
    BY <1>2, <1>3, <2>1, <2>2 DEF RequestOK, Stage, Family
  <2>4. /\ SendsToken(o) => request[o].raw \in 1..Len(tokens)
        /\ Stage(o, "answer") => request[o].cookie = 0 \/ request[o].cookie \in 1..Len(tokens)
    <3>1. tokens \in Seq(TokenRecords)
      BY <1>1 DEF TokensInv
    <3>2. QED
      BY <2>1, <3>1, FamilyRows DEF RequestOK
  <2>5. QuietOK(o)'
    BY <1>2, <1>5, <2>1, <2>2, <2>4 DEF QuietOK, Stage, SendsToken, RawStages
  <2>6. QED
    BY <2>2, <2>3, <2>5
<1>7. OneRequest'
  BY <1>1, <1>2, <1>6 DEF RequestsInv, OneRequest
<1>8. JarOK'
  BY <1>1, <1>2, <1>5, <1>6 DEF RequestsInv, JarOK
<1>9. RequestsInv'
  BY <1>1, <1>2, <1>6, <1>7, <1>8 DEF RequestsInv
<1>10. QED
  BY <1>3, <1>4, <1>9 DEF SessionsInv

LEMMA SessionsInvStutter ==
    ASSUME SessionsInv, UNCHANGED sessionVars
    PROVE  SessionsInv'
<1>1. /\ users' = users /\ tenants' = tenants /\ memberships' = memberships
      /\ subscriptions' = subscriptions /\ tokens' = tokens /\ jar' = jar
      /\ request' = request /\ instant' = instant
      /\ ended' = ended /\ overlapped' = overlapped /\ disturbed' = disturbed
  BY DEF sessionVars, accountVars, ghosts
<1>2. AccountsInv' /\ Ids' = Ids
  BY <1>1 DEF SessionsInv, AccountsInv, Ids
<1>3. TokensInv'
  BY <1>1, <1>2, AccountsLeaveTokens DEF SessionsInv
<1>4. \A o \in Tabs : /\ RequestOK(o)' <=> RequestOK(o)
                      /\ QuietOK(o)' <=> QuietOK(o)
                      /\ CarriesFamily(o)' <=> CarriesFamily(o)
  BY <1>1, <1>2 DEF RequestOK, QuietOK, CarriesFamily, SendsToken, Stage, Usable, Expired, Family
<1>5. RequestsInv'
  BY <1>1, <1>4 DEF SessionsInv, RequestsInv, OneRequest, JarOK, Usable, Expired
<1>6. QED
  BY <1>2, <1>3, <1>5 DEF SessionsInv

LEMMA SessionsInvNext ==
    ASSUME SessionsInv, [SessionsNext]_sessionVars
    PROVE  SessionsInv'
<1>1. ASSUME NEW t \in Tabs, NEW s \in Spellings, Register(t, s) PROVE SessionsInv'
  BY <1>1, RegisterKeeps
<1>2. ASSUME NEW t \in Tabs, NEW s \in Spellings, Login(t, s) PROVE SessionsInv'
  BY <1>2, LoginKeeps
<1>3. ASSUME NEW t \in Tabs, NEW op \in {"refresh", "logout"}, Send(t, op) PROVE SessionsInv'
  BY <1>3, SendKeeps
<1>4. ASSUME NEW t \in Tabs, InsertAccount(t) PROVE SessionsInv'
  BY <1>4, InsertAccountKeeps
<1>5. ASSUME NEW t \in Tabs, IssueTokens(t) PROVE SessionsInv'
  BY <1>5, IssueTokensKeeps
<1>6. ASSUME NEW t \in Tabs, FindRefresh(t) PROVE SessionsInv'
  BY <1>6, FindKeeps
<1>7. ASSUME NEW t \in Tabs, RotateRefresh(t) PROVE SessionsInv'
  BY <1>7, RotateKeeps
<1>8. ASSUME NEW t \in Tabs, ExpireRefresh(t) PROVE SessionsInv'
  BY <1>8, ExpireKeeps
<1>9. ASSUME NEW t \in Tabs, ScanFamily(t) PROVE SessionsInv'
  BY <1>9, ScanKeeps
<1>10. ASSUME NEW t \in Tabs, RevokeFamily(t) PROVE SessionsInv'
  BY <1>10, RevokeFamilyKeeps
<1>11. ASSUME NEW t \in Tabs, Logout(t) PROVE SessionsInv'
  BY <1>11, LogoutKeeps
<1>12. ASSUME NEW t \in Tabs, AnswerArrives(t) PROVE SessionsInv'
  BY <1>12, AnswerKeeps
<1>13. ASSUME NEW t \in Tabs, Lost(t) PROVE SessionsInv'
  BY <1>13, LostKeeps
<1>14. CASE Pass
  BY <1>14, PassKeeps
<1>15. CASE UNCHANGED sessionVars
  BY <1>15, SessionsInvStutter
<1>16. QED
  BY <1>1, <1>2, <1>3, <1>4, <1>5, <1>6, <1>7, <1>8, <1>9, <1>10, <1>11, <1>12, <1>13,
     <1>14, <1>15 DEF SessionsNext

LEMMA InvMakesAccountsWhole == SessionsInv => AccountsAreWhole
<1> SUFFICES ASSUME SessionsInv PROVE AccountsAreWhole
  OBVIOUS
<1>1. AccountsInv /\ TokensInv
  BY DEF SessionsInv
<1>2. /\ \A u, v \in users : Lower[u.email] = Lower[v.email] => u = v
      /\ {u.id : u \in users} = Ids /\ tenants = Ids
      /\ memberships = {Owner(n) : n \in Ids} /\ subscriptions = {FreePlan(n) : n \in Ids}
  BY <1>1 DEF AccountsInv
<1>3. \A n \in Ids : /\ Owner(n).tenant = n /\ Owner(n).user = n
                     /\ FreePlan(n).tenant = n /\ FreePlan(n).plan = "free"
  BY DEF Owner, FreePlan
<1>4. /\ tenants = {m.tenant : m \in memberships} /\ tenants = {s.tenant : s \in subscriptions}
      /\ {u.id : u \in users} = {m.user : m \in memberships}
  <2>1. Ids = {m.tenant : m \in memberships} /\ Ids = {m.user : m \in memberships}
    BY <1>2, <1>3
  <2>2. Ids = {s.tenant : s \in subscriptions}
    BY <1>2, <1>3
  <2>3. QED
    BY <1>2, <2>1, <2>2
<1>5. Cardinality(subscriptions) = Cardinality(tenants)
  <2>1. Cardinality(users) \in Nat
    BY <1>1, FS_CardinalityType DEF AccountsInv
  <2>2. Cardinality(Ids) = Cardinality(users)
    BY <2>1, FS_Interval DEF Ids
  <2>3. QED
    BY <1>1, <2>2 DEF AccountsInv
<1>6. ASSUME NEW i \in DOMAIN tokens
      PROVE  Cardinality(MeView(i).email) = 1 /\ MeView(i).plan = {"free"}
  <2> DEFINE n == tokens[i].user
  <2>1. n \in Ids
    BY <1>1 DEF TokensInv, RowOK
  <2>2. primary_membership(n) = Owner(n)
    BY <1>1, <2>1, MembershipOfUser
  <2>3. PICK u \in users : u.id = n
    BY <1>2, <2>1
  <2>4. {v \in users : v.id = n} = {u}
    BY <1>1, <2>3 DEF AccountsInv
  <2>5. {r \in subscriptions : r.tenant = n} = {FreePlan(n)}
    BY <1>2, <1>3, <2>1
  <2>6. MeView(i) = [email |-> {v.email : v \in {u}}, plan |-> {s.plan : s \in {FreePlan(n)}}]
    <3>1. MeView(i) = [email |-> {v.email : v \in {w \in users : w.id = Owner(n).user}},
                       plan |-> {s.plan : s \in {r \in subscriptions : r.tenant = Owner(n).tenant}}]
      BY <2>2 DEF MeView
    <3>2. QED
      BY <1>3, <2>1, <2>4, <2>5, <3>1
  <2>7. MeView(i).email = {u.email} /\ MeView(i).plan = {"free"}
    BY <1>3, <2>1, <2>6
  <2>8. QED
    BY <2>7, FS_Singleton
<1>7. QED
  BY <1>1, <1>2, <1>4, <1>5, <1>6 DEF AccountsAreWhole, AccountsInv

LEMMA InvMakesChains == SessionsInv => FamiliesAreChains
<1> SUFFICES ASSUME SessionsInv, NEW f \in DOMAIN tokens
             PROVE  /\ \A i, j \in Family(f) : tokens[i].user = tokens[j].user
                    /\ \A i \in Family(f) : tokens[i].replaced_by # 0 =>
                          tokens[i].replaced_by > i /\ tokens[i].replaced_by \in Family(f)
                    /\ f \notin overlapped => Cardinality(LiveIn(f)) <= 1
                    /\ f \in ended \ overlapped => LiveIn(f) = {}
  BY DEF FamiliesAreChains
<1>1. TokensInv /\ tokens \in Seq(TokenRecords)
  BY DEF SessionsInv, TokensInv
<1>2. \A i : /\ i \in Family(f) <=> i \in 1..Len(tokens) /\ tokens[i].family = f
             /\ i \in LiveIn(f) <=> i \in Family(f) /\ ~tokens[i].revoked
  BY <1>1, FamilyRows
<1>3. \A i, j \in Family(f) : tokens[i].user = tokens[j].user
  BY <1>1, <1>2, TokensInvRows
<1>4. ASSUME NEW i \in Family(f), tokens[i].replaced_by # 0
      PROVE  tokens[i].replaced_by > i /\ tokens[i].replaced_by \in Family(f)
  <2>1. RowOK(i) /\ tokens[i].family = f
    BY <1>1, <1>2, TokensInvRows
  <2>2. QED
    BY <1>4, <2>1 DEF RowOK
<1>5. ASSUME f \notin overlapped
      PROVE  Cardinality(LiveIn(f)) <= 1
  <2>1. \A i, j \in LiveIn(f) : i = j
    BY <1>1, <1>2, <1>5, TokensInvRows
  <2>2. CASE LiveIn(f) = {}
    BY <2>2, FS_EmptySet
  <2>3. CASE LiveIn(f) # {}
    <3>1. PICK i : LiveIn(f) = {i}
      BY <2>1, <2>3
    <3>2. QED
      BY <3>1, FS_Singleton
  <2>4. QED
    BY <2>2, <2>3
<1>6. ASSUME f \in ended \ overlapped
      PROVE  LiveIn(f) = {}
  BY <1>1, <1>2, <1>6, TokensInvRows
<1>7. QED
  BY <1>3, <1>4, <1>5, <1>6

LEMMA InvKeepsQuietSessionsAlive == SessionsInv => QuietSessionLives
<1> SUFFICES ASSUME SessionsInv, jar # 0, \A t \in Tabs : request[t] = Free,
                    tokens[jar].family \notin disturbed, tokens[jar].expires > instant
             PROVE  ~tokens[jar].revoked
  BY DEF QuietSessionLives
<1>1. Free.stage = "free"
  BY DEF Free
<1>2. \A t \in Tabs : ~CarriesFamily(t)
  BY <1>1 DEF CarriesFamily
<1>3. Usable(jar)
  BY <1>2 DEF SessionsInv, RequestsInv, JarOK
<1>4. tokens[jar].expires \in Nat /\ instant \in Nat
  <2>1. TokensInv /\ jar \in 0..Len(tokens) /\ instant \in Nat
    BY DEF SessionsInv, RequestsInv, JarOK
  <2>2. jar \in 1..Len(tokens)
    BY <2>1, TokensInvRows
  <2>3. QED
    BY <2>1, <2>2, TokensInvRows DEF TokenRecords
<1>5. QED
  BY <1>3, <1>4 DEF Usable, Expired

LEMMA SessionsInvIsInvariant == SessionsSpec => []SessionsInv
<1>1. SessionsInit => SessionsInv
  BY AccountsInvInit, TokensInvInit, RequestsInvInit DEF SessionsInv
<1>2. SessionsInv /\ [SessionsNext]_sessionVars => SessionsInv'
  BY SessionsInvNext
<1>3. QED
  BY <1>1, <1>2, PTL DEF SessionsSpec

(* Whatever requests of however many tabs interleave, and wherever they are  *)
(* cut short: every account is one user who owns one tenant on one plan,     *)
(* every family of refresh tokens is one user's chain with at most one live  *)
(* token (none after a detected reuse) unless two transactions overlapped,   *)
(* and a browser nothing disturbed stays signed in until its token expires.  *)
THEOREM AuthKeepsSessionsSound == SessionsSpec => []SessionsAreSound
<1>1. SessionsInv => SessionsAreSound
  BY InvMakesAccountsWhole, InvMakesChains, InvKeepsQuietSessionsAlive DEF SessionsAreSound
<1>2. QED
  BY <1>1, SessionsInvIsInvariant, PTL
===============================================================================
