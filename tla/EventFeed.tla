------------------------------ MODULE EventFeed ------------------------------
(***************************************************************************)
(* The event log, the event stream and the clients that follow a tenant's  *)
(* messages: by MessagesQuery, page after page from a cursor, and by       *)
(* MessagesSubscribe, from the moment they subscribe.                      *)
(*                                                                         *)
(* The event log is an index sorted by watermark with a reverse lookup     *)
(* from message CID to watermark.  The watermark is drawn when append is   *)
(* called; the batch that writes it is committed later, and two batches    *)
(* in flight may be committed in either order.                             *)
(***************************************************************************)
EXTENDS Integers, FiniteSets

CONSTANTS
    Msg,           \* messages, numbered by age
    Matching,      \* those that match the clients' filter
    Quiet,         \* those never emitted: initial writes without data
    Handlers,      \* handler invocations that store messages
    Clients,       \* clients that follow the messages
    MaxRestarts,   \* bound on the restarts of the process
    MaxMarks       \* bound on the watermarks drawn

ASSUME EventFeedAssumption ==
    /\ Msg \subseteq Nat /\ Msg # {}
    /\ Matching \subseteq Msg /\ Quiet \subseteq Msg
    /\ MaxRestarts \in Nat /\ MaxMarks \in Nat

VARIABLES
    \* the event log
    entries,      \* <<watermark, message>> pairs in the watermark index
    lookup,       \* the watermark of each message, 0 if it has none
    clock,        \* the last watermark drawn
    \* the handlers
    pc,           \* where each handler invocation is
    msg,          \* the message it stores, or whose event it deletes
    mark,         \* the watermark it drew, or looked up
    \* the event stream
    open,         \* the stream has not been closed
    listeners,    \* clients with a listener on the tenant's channel
    \* the clients
    cursor,       \* watermark of the last event seen since subscribing, or 0
    paged,        \* messages returned by queries since subscribing
    heard,        \* messages that came with the subscription
    synced,       \* the client has subscribed and then queried
    restarts,
    \* the message store
    stored,       \* messages stored
    superseded    \* messages deleted from it again

log == <<entries, lookup>>
handling == <<pc, msg, mark>>
clients == <<open, listeners, cursor, paged, heard, synced>>
store == <<stored, superseded>>
vars == <<log, clock, handling, clients, store, restarts>>

NoMsg == CHOOSE m \in Msg : TRUE

Init ==
    /\ entries = {} /\ lookup = [m \in Msg |-> 0] /\ clock = 0
    /\ pc = [h \in Handlers |-> "idle"]
    /\ msg = [h \in Handlers |-> NoMsg]
    /\ mark = [h \in Handlers |-> 0]
    /\ open = TRUE /\ listeners = {}
    /\ cursor = [c \in Clients |-> 0]
    /\ paged = [c \in Clients |-> {}]
    /\ heard = [c \in Clients |-> {}]
    /\ synced = [c \in Clients |-> FALSE]
    /\ restarts = 0
    /\ stored = {} /\ superseded = {}

Goto(h, label) == pc' = [pc EXCEPT ![h] = label]

----------------------------------------------------------------------------
\* A handler stores a message, appends its event and emits it.

\* The message is not in the store yet when the handler looks; the same message
\* may have been sent twice and be in the hands of another handler.
Receive(h) ==
    /\ pc[h] = "idle"
    /\ \E m \in Msg \ (stored \cup superseded) : msg' = [msg EXCEPT ![h] = m]
    /\ Goto(h, "put")
    /\ UNCHANGED <<log, clock, mark, clients, store, restarts>>

\* What a client hears of a message: all listeners are called one after the
\* other, synchronously, and each one passes on what matches its filter.
Deliver(m) ==
    heard' = [c \in Clients |->
                IF open /\ c \in listeners /\ m \in Matching \ Quiet
                THEN heard[c] \cup {m} ELSE heard[c]]

\* The message is emitted before its event is appended.
PutBad(h) ==
    /\ pc[h] = "put" /\ clock < MaxMarks
    /\ stored' = stored \cup {msg[h]}
    /\ clock' = clock + 1
    /\ mark' = [mark EXCEPT ![h] = clock']
    /\ Deliver(msg[h])
    /\ Goto(h, "append")
    /\ UNCHANGED <<log, msg, open, listeners, cursor, paged, synced, superseded,
                   restarts>>

\* MessageStore.put, and then append draws the watermark.
Put(h) ==
    /\ pc[h] = "put" /\ clock < MaxMarks
    /\ stored' = stored \cup {msg[h]}
    /\ clock' = clock + 1
    /\ mark' = [mark EXCEPT ![h] = clock']
    /\ Goto(h, "append")
    /\ UNCHANGED <<log, msg, clients, superseded, restarts>>

\* IndexLevel.put: one batch writes the entry and the reverse lookup; an entry
\* of the same message under another watermark stays.
Append(h) ==
    /\ pc[h] = "append"
    /\ entries' = entries \cup {<<mark[h], msg[h]>>}
    /\ lookup' = [lookup EXCEPT ![msg[h]] = mark[h]]
    /\ Goto(h, "emit")
    /\ UNCHANGED <<clock, msg, mark, clients, store, restarts>>

\* The message is emitted once its event is logged; then the clean-up begins.
Emit(h) ==
    /\ pc[h] = "emit"
    /\ Deliver(msg[h])
    /\ Goto(h, "clean")
    /\ UNCHANGED <<log, clock, msg, mark, open, listeners, cursor, paged, synced,
                   store, restarts>>

----------------------------------------------------------------------------
\* The clean-up deletes an older message, and then its event.

Supersede(h) ==
    /\ pc[h] = "clean"
    /\ \E m \in stored :
        /\ m < msg[h]
        /\ stored' = stored \ {m}
        /\ superseded' = superseded \cup {m}
        /\ msg' = [msg EXCEPT ![h] = m]
    /\ Goto(h, "lookup")
    /\ UNCHANGED <<log, clock, mark, clients, restarts>>

Return(h) ==
    /\ Goto(h, "idle")
    /\ msg' = [msg EXCEPT ![h] = NoMsg]
    /\ mark' = [mark EXCEPT ![h] = 0]

\* IndexLevel.delete reads the reverse lookup ...
LookUp(h) ==
    /\ pc[h] = "lookup"
    /\ lookup[msg[h]] # 0
    /\ mark' = [mark EXCEPT ![h] = lookup[msg[h]]]
    /\ Goto(h, "delete")
    /\ UNCHANGED <<log, clock, msg, clients, store, restarts>>

\* ... and deletes the lookup and the entry it led to in one batch.
Delete(h) ==
    /\ pc[h] = "delete"
    /\ entries' = entries \ {<<mark[h], msg[h]>>}
    /\ lookup' = [lookup EXCEPT ![msg[h]] = 0]
    /\ Return(h)
    /\ UNCHANGED <<clock, clients, store, restarts>>

\* There was nothing to clean up, or no event to delete.
Finish(h) ==
    /\ \/ pc[h] = "clean"
       \/ pc[h] = "lookup" /\ lookup[msg[h]] = 0
    /\ Return(h)
    /\ UNCHANGED <<log, clock, clients, store, restarts>>

----------------------------------------------------------------------------
\* The clients.  A client whose subscription begins or ends starts anew from
\* the first page.

StartAnew(C) ==
    /\ cursor' = [c \in Clients |-> IF c \in C THEN 0 ELSE cursor[c]]
    /\ paged' = [c \in Clients |-> IF c \in C THEN {} ELSE paged[c]]
    /\ heard' = [c \in Clients |-> IF c \in C THEN {} ELSE heard[c]]
    /\ synced' = [c \in Clients |-> c \notin C /\ synced[c]]

\* Requests are made while the DWN is open: the stream itself does not look.
Subscribe(c) ==
    /\ open /\ c \notin listeners
    /\ listeners' = listeners \cup {c}
    /\ StartAnew({c})
    /\ UNCHANGED <<log, clock, handling, open, store, restarts>>

\* The channel's listeners are all removed.
UnsubscribeBad(c) ==
    /\ c \in listeners
    /\ listeners' = {}
    /\ StartAnew({c})
    /\ UNCHANGED <<log, clock, handling, open, store, restarts>>

Unsubscribe(c) ==
    /\ c \in listeners
    /\ listeners' = listeners \ {c}
    /\ StartAnew({c})
    /\ UNCHANGED <<log, clock, handling, open, store, restarts>>

\* The filter is not applied to the events after the cursor.
PageBad(c) == {e \in entries : e[1] > cursor[c]}

\* What queryEvents returns: the matching events after the cursor.
Page(c) == {e \in entries : e[1] > cursor[c] /\ e[2] \in Matching}

\* MessagesQuery with the cursor of the last reply; the cursor of the reply is
\* that of its last event, and there is none in an empty reply.
Query(c) ==
    /\ open
    /\ \/ Page(c) = {} /\ UNCHANGED cursor
       \/ \E last \in Page(c) :
            /\ \A e \in Page(c) : e[1] <= last[1]
            /\ cursor' = [cursor EXCEPT ![c] = last[1]]
    /\ paged' = [paged EXCEPT ![c] = @ \cup {e[2] : e \in Page(c)}]
    /\ synced' = [synced EXCEPT ![c] = c \in listeners]
    /\ UNCHANGED <<log, clock, handling, open, listeners, heard, store, restarts>>

----------------------------------------------------------------------------
\* Dwn.close closes the stream first: the listeners are gone, and what handlers
\* in progress emit goes to the error handler.
Close ==
    /\ open /\ restarts < MaxRestarts
    /\ open' = FALSE /\ listeners' = {}
    /\ StartAnew(listeners)
    /\ UNCHANGED <<log, clock, handling, store, restarts>>

\* The process ends, closed or not, and starts again.
Restart ==
    /\ restarts < MaxRestarts
    /\ restarts' = restarts + 1
    /\ open' = TRUE /\ listeners' = {}
    /\ StartAnew(listeners)
    /\ pc' = [h \in Handlers |-> "idle"]
    /\ msg' = [h \in Handlers |-> NoMsg]
    /\ mark' = [h \in Handlers |-> 0]
    /\ UNCHANGED <<log, clock, store>>

Handle(h) ==
    \/ Receive(h) \/ Put(h) \/ Append(h) \/ Emit(h)
    \/ Supersede(h) \/ LookUp(h) \/ Delete(h) \/ Finish(h)

Next ==
    \/ \E h \in Handlers : Handle(h)
    \/ \E c \in Clients : Subscribe(c) \/ Unsubscribe(c) \/ Query(c)
    \/ Close \/ Restart

Spec == Init /\ [][Next]_vars

----------------------------------------------------------------------------
TypeOK ==
    /\ entries \subseteq (1 .. clock) \X Msg
    /\ lookup \in [Msg -> 0 .. clock] /\ clock \in Nat
    /\ pc \in [Handlers -> {"idle", "put", "append", "emit", "clean", "lookup",
                            "delete"}]
    /\ msg \in [Handlers -> Msg] /\ mark \in [Handlers -> 0 .. clock]
    /\ \A h \in Handlers : pc[h] = "append" => mark[h] # 0
    /\ open \in BOOLEAN /\ listeners \subseteq Clients
    /\ cursor \in [Clients -> 0 .. clock]
    /\ paged \in [Clients -> SUBSET Matching]
    /\ heard \in [Clients -> SUBSET Matching]
    /\ synced \in [Clients -> BOOLEAN]
    /\ stored \subseteq Msg /\ superseded \subseteq Msg
    /\ restarts \in Nat

\* A client that subscribes and then queries from the start misses nothing that
\* can be queried: what is in the log when it asks comes with the page, what is
\* logged later with the subscription, whatever order the batches of the log
\* are committed in.  (records-write.ts:137-144, messages-query.ts:41)
SyncComplete ==
    \A c \in Clients : synced[c] =>
        \A e \in entries : e[2] \in Matching \ Quiet =>
            \/ e[2] \in paged[c] \cup heard[c]
            \/ \E h \in Handlers : pc[h] = "emit" /\ msg[h] = e[2]

Logged(m) == \E e \in entries : e[2] = m

\* A subscriber never hears of a message that is not yet in the log, where a
\* client without a subscription would find it; only what is being superseded
\* may be gone again.  (records-write.ts:137-144)
HeardIsLogged ==
    \A c \in Clients : \A m \in heard[c] : Logged(m) \/ m \in superseded

\* What the two rest on: a handler emits what is logged and deletes what is
\* superseded, and a subscription begins with a query of the whole log.
FeedInv ==
    /\ \A h \in Handlers : pc[h] = "emit" => Logged(msg[h]) \/ msg[h] \in superseded
    /\ \A h \in Handlers : pc[h] \in {"lookup", "delete"} => msg[h] \in superseded
    /\ listeners # {} => open
    /\ \A c \in Clients : synced[c] => c \in listeners
    /\ \A c \in listeners : ~synced[c] => cursor[c] = 0
    /\ HeardIsLogged
    /\ SyncComplete
=============================================================================
