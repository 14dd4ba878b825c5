-------------------------------- MODULE EventBus --------------------------------
(***************************************************************************)
(* core/events.py: IEventBus over its three backends.                      *)
(*   in_process     publish calls every handler inline, in the publisher   *)
(*   redis_streams  publish appends to the topic's stream; a reader of the *)
(*                  consumer group takes new entries, calls every handler, *)
(*                  and acknowledges                                       *)
(*   kafka          publish appends to the topic's only partition; the     *)
(*                  reader it is assigned to takes one message after the   *)
(*                  other, and the client commits its position in between  *)
(* An event is <<topic, n>>, the n-th of its topic.  A reader is a process *)
(* whose thread runs _run; what it has read and not finished is a local    *)
(* list, and is gone with the process.                                     *)
(***************************************************************************)
EXTENDS Integers, Sequences, FiniteSets, SequencesExt

CONSTANTS
    Topics,
    Handlers,      \* topic -> the handlers subscribed to it, in order
    Backends,      \* the values of Settings.event_bus_backend considered
    Readers,       \* processes of the consumer group
    Count,         \* entries of a topic taken by one read (10)
    NoGroup,
    MaxEvents,     \* bound: events of a topic
    MaxFaults      \* bound: reader errors and lost processes

ASSUME BusAssumption ==
    /\ Count \in Nat \ {0} /\ MaxEvents \in Nat /\ MaxFaults \in Nat
    /\ IsFiniteSet(Topics) /\ \A t \in Topics : Handlers[t] \in Seq(ToSet(Handlers[t]))
    /\ NoGroup \notin Readers /\ NoGroup \notin 0..MaxEvents

VARIABLES
    backend,
    length,      \* topic -> entries of its stream
    cursor,      \* topic -> last entry delivered to the group, or NoGroup
    owner,       \* topic -> the reader its partition is assigned to, or NoGroup
    pel,         \* entries delivered to the group and not acknowledged
    acked,       \* acknowledged, or before the committed position
    up,          \* readers whose thread runs
    batch,       \* reader -> entries it has read and not finished
    left,        \* reader -> handlers of its first entry still to be called
    calls,       \* <<event, handler>> called
    faults

busVars == <<backend, length, cursor, owner, pel, acked, up, batch, left, calls, faults>>

Entries == Topics \X (1..MaxEvents)

BusInit ==
    /\ backend \in Backends
    /\ length = [t \in Topics |-> 0]
    /\ cursor = [t \in Topics |-> NoGroup] /\ owner = [t \in Topics |-> NoGroup]
    /\ pel = {} /\ acked = {} /\ up = {} /\ calls = {}
    /\ batch = [r \in Readers |-> <<>>]
    /\ left = [r \in Readers |-> <<>>]
    /\ faults = 0

Fault == faults < MaxFaults /\ faults' = faults + 1

AppendEvent(t) ==
    /\ length[t] < MaxEvents
    /\ length' = [length EXCEPT ![t] = @ + 1]

(* In process: the publisher itself goes through the handlers. *)
PublishInline(r, t) ==
    /\ backend = "in_process" /\ batch[r] = <<>>
    /\ AppendEvent(t)
    /\ batch' = [batch EXCEPT ![r] = << <<t, length[t] + 1>> >>]
    /\ left' = [left EXCEPT ![r] = Handlers[t]]
    /\ UNCHANGED <<backend, owner, cursor, pel, acked, up, calls, faults>>

PublishStream(t) ==
    /\ backend = "redis_streams"
    /\ AppendEvent(t)
    /\ UNCHANGED <<backend, owner, cursor, pel, acked, up, batch, left, calls, faults>>

(* send and flush: the broker has the message when publish returns. *)
PublishKafka(t) ==
    /\ backend = "kafka"
    /\ AppendEvent(t)
    /\ UNCHANGED <<backend, owner, cursor, pel, acked, up, batch, left, calls, faults>>

(* The group of a topic starts at the end of the stream, once: BUSYGROUP is  *)
(* passed over.  Only subscribed topics have one.                            *)
Start(r) ==
    /\ backend = "redis_streams" /\ r \notin up
    /\ cursor' = [t \in Topics |-> IF Handlers[t] # <<>> /\ cursor[t] = NoGroup
                                   THEN length[t] ELSE cursor[t]]
    /\ up' = up \cup {r}
    /\ UNCHANGED <<backend, owner, length, pel, acked, batch, left, calls, faults>>

(* XREADGROUP with ">": up to Count entries of each topic that no reader of  *)
(* the group has been given.                                                 *)
ReadUpTo(t) == IF cursor[t] = NoGroup THEN 0 ELSE
               IF length[t] < cursor[t] + Count THEN length[t] ELSE cursor[t] + Count
NewEntries(t) == IF cursor[t] = NoGroup THEN {} ELSE {t} \X ((cursor[t] + 1)..ReadUpTo(t))

(* The streams in some order, the entries of each in theirs. *)
StreamByStream(s) ==
    \A i, j \in DOMAIN s : i < j =>
        IF s[i][1] = s[j][1] THEN s[i][2] < s[j][2]
        ELSE \A k \in j..Len(s) : s[k][1] # s[i][1]

AfterRead(t) == IF cursor[t] = NoGroup THEN NoGroup ELSE ReadUpTo(t)

Read(r) ==
    /\ backend = "redis_streams" /\ r \in up /\ batch[r] = <<>>
    /\ \E taken \in SetToSeqs(UNION {NewEntries(t) : t \in Topics}) :
          /\ taken # <<>> /\ StreamByStream(taken)
          /\ batch' = [batch EXCEPT ![r] = taken]
          /\ left' = [left EXCEPT ![r] = Handlers[Head(taken)[1]]]
          /\ pel' = pel \cup ToSet(taken)
    /\ cursor' = [t \in Topics |-> AfterRead(t)]
    /\ UNCHANGED <<backend, owner, length, acked, up, calls, faults>>

(* Kafka.  The group gives a partition to one reader, which goes on from the *)
(* committed position - from the first message, if there is none.            *)
Unowned(r) == [t \in Topics |-> IF owner[t] = r THEN NoGroup ELSE owner[t]]
Passed(r) == {e \in Entries : owner[e[1]] = r /\ e[2] <= cursor[e[1]]}
Committed(t) == Cardinality({e \in acked : e[1] = t})

StartConsumer(r) ==
    /\ backend = "kafka" /\ r \notin up
    /\ up' = up \cup {r}
    /\ UNCHANGED <<backend, owner, length, cursor, pel, acked, batch, left, calls, faults>>

Assign(r, t) ==
    /\ backend = "kafka" /\ r \in up /\ owner[t] = NoGroup /\ Handlers[t] # <<>>
    /\ owner' = [owner EXCEPT ![t] = r]
    /\ cursor' = [cursor EXCEPT ![t] = Committed(t)]
    /\ UNCHANGED <<backend, length, pel, acked, up, batch, left, calls, faults>>

(* The iterator moves past a message when it hands it over. *)
Take(r, t) ==
    /\ r \in up /\ owner[t] = r /\ batch[r] = <<>> /\ cursor[t] < length[t]
    /\ cursor' = [cursor EXCEPT ![t] = @ + 1]
    /\ batch' = [batch EXCEPT ![r] = << <<t, cursor[t] + 1>> >>]
    /\ left' = [left EXCEPT ![r] = Handlers[t]]
    /\ UNCHANGED <<backend, owner, length, pel, acked, up, calls, faults>>

(* The next turn of the loop: the client may commit what it has handed over. *)
NextMessage(r, commits) ==
    /\ backend = "kafka" /\ batch[r] # <<>> /\ left[r] = <<>>
    /\ batch' = [batch EXCEPT ![r] = <<>>]
    /\ acked' = IF commits THEN acked \cup Passed(r) ELSE acked
    /\ UNCHANGED <<backend, owner, length, cursor, pel, up, left, calls, faults>>

(* A reader that stays away for too long is taken for lost: the group gives  *)
(* its partition away while it still works on a message.                     *)
Evict(r) ==
    /\ backend = "kafka" /\ \E t \in Topics : owner[t] = r
    /\ Fault
    /\ owner' = Unowned(r)
    /\ UNCHANGED <<backend, length, cursor, pel, acked, up, batch, left, calls>>

(* One handler; whether it returns or raises, the next one is called. *)
AfterHandlerStops(r) == {Tail(left[r]), <<>>}
AfterHandler(r) == {Tail(left[r])}
Dispatch(r) ==
    /\ batch[r] # <<>> /\ left[r] # <<>>
    /\ calls' = calls \cup {<<Head(batch[r]), Head(left[r])>>}
    /\ \E rest \in AfterHandler(r) : left' = [left EXCEPT ![r] = rest]
    /\ UNCHANGED <<backend, owner, length, cursor, pel, acked, up, batch, faults>>

NextEntry(r) ==
    /\ batch' = [batch EXCEPT ![r] = Tail(@)]
    /\ left' = [left EXCEPT ![r] = IF Tail(batch[r]) = <<>> THEN <<>>
                                   ELSE Handlers[batch[r][2][1]]]

(* XACK after dispatch; in process there is nothing to acknowledge. *)
AckEntry(r) ==
    /\ backend # "kafka" /\ batch[r] # <<>> /\ left[r] = <<>>
    /\ NextEntry(r)
    /\ acked' = acked \cup {Head(batch[r])}
    /\ pel' = pel \ {Head(batch[r])}
    /\ UNCHANGED <<backend, owner, length, cursor, up, calls, faults>>

(* An error outside the handlers (Redis, or the entry's JSON) leaves the two *)
(* loops: the rest of the read is dropped, and the thread reads on.          *)
ReaderError(r) ==
    /\ backend = "redis_streams" /\ r \in up /\ batch[r] # <<>>
    /\ left[r] \in {<<>>, Handlers[Head(batch[r])[1]]}
    /\ Fault
    /\ batch' = [batch EXCEPT ![r] = <<>>]
    /\ left' = [left EXCEPT ![r] = <<>>]
    /\ UNCHANGED <<backend, owner, length, cursor, pel, acked, up, calls>>

(* The process is lost, its thread with it. *)
CrashReader(r) ==
    /\ r \in up \/ batch[r] # <<>>
    /\ Fault
    /\ up' = up \ {r}
    /\ owner' = Unowned(r)
    /\ batch' = [batch EXCEPT ![r] = <<>>]
    /\ left' = [left EXCEPT ![r] = <<>>]
    /\ UNCHANGED <<backend, length, cursor, pel, acked, calls>>

(* stop() is seen between two reads; closing a Kafka consumer commits. *)
Stop(r) ==
    /\ r \in up /\ batch[r] = <<>>
    /\ up' = up \ {r}
    /\ owner' = Unowned(r)
    /\ acked' = acked \cup Passed(r)
    /\ UNCHANGED <<backend, length, cursor, pel, batch, left, calls, faults>>

BusNext ==
    \/ \E t \in Topics : \/ PublishStream(t) \/ PublishKafka(t)
                         \/ \E r \in Readers : PublishInline(r, t)
    \/ \E r \in Readers : \/ Start(r) \/ Read(r) \/ Dispatch(r) \/ AckEntry(r)
                          \/ ReaderError(r) \/ CrashReader(r) \/ Stop(r)
    \/ \E r \in Readers : \/ StartConsumer(r) \/ Evict(r)
                          \/ \E t \in Topics : Assign(r, t) \/ Take(r, t)
                          \/ \E commits \in BOOLEAN : NextMessage(r, commits)

BusSpec == BusInit /\ [][BusNext]_busVars

-----------------------------------------------------------------------------
Published == {e \in Entries : e[2] <= length[e[1]]}
InHand == UNION {ToSet(batch[r]) : r \in Readers}
Reached(e) == {<<e, h>> : h \in ToSet(Handlers[e[1]])} \subseteq calls

(* Entries are acknowledged once read, and only readers hold them. *)
BusTypeOK ==
    /\ acked \subseteq Published /\ pel \subseteq Published \ acked
    /\ InHand \subseteq Published
    /\ calls \subseteq Entries \X UNION {ToSet(Handlers[t]) : t \in Topics}
    /\ up \subseteq Readers

(* "One failure never blocks the others", and XACK comes after dispatch: an  *)
(* acknowledged event was given to every handler of its topic.  Two readers  *)
(* of the group never hold the same event, unless Kafka took one for lost.   *)
(* A stream gives an event up - read, held by no reader and never            *)
(* acknowledged - only at a fault; a Kafka group reads every event of its    *)
(* topics, those published before it existed included.                       *)
EventsAreAccountedFor ==
    /\ \A e \in acked : Reached(e)
    /\ backend # "kafka" \/ faults = 0 =>
          \A r, q \in Readers : r # q => ToSet(batch[r]) \cap ToSet(batch[q]) = {}
    /\ backend = "kafka" => \A t \in Topics : owner[t] # NoGroup =>
          \A n \in 1..cursor[t] : <<t, n>> \in InHand \/ Reached(<<t, n>>)
    /\ pel \subseteq InHand \/ faults > 0
=============================================================================
