--------------------------- MODULE EventFeedProofs ---------------------------
(***************************************************************************)
(* Type correctness of the event feed, and that subscribers hear what is   *)
(* logged and miss nothing, for any messages, handlers and clients.        *)
(***************************************************************************)
EXTENDS EventFeed, TLAPS

\* A subscription that begins or ends leaves the clients' state well typed, and
\* marks the clients concerned as not synced.
LEMMA StartAnewTypes ==
    ASSUME TypeOK, NEW C, StartAnew(C)
    PROVE  /\ cursor' \in [Clients -> 0 .. clock]
           /\ paged' \in [Clients -> SUBSET Matching]
           /\ heard' \in [Clients -> SUBSET Matching]
           /\ synced' \in [Clients -> BOOLEAN]
<1>1. \A c \in Clients : (c \notin C /\ synced[c]) \in BOOLEAN
  OBVIOUS
<1>2. synced' \in [Clients -> BOOLEAN]
  BY <1>1, Zenon DEF StartAnew
<1> QED
  BY <1>2 DEF StartAnew, TypeOK

\* Every variable of the feed keeps its type: watermarks in the log and cursors
\* of clients are watermarks drawn before.
THEOREM FeedTypeCorrect == Spec => []TypeOK
<1> USE EventFeedAssumption
<1>1. NoMsg \in Msg
  BY DEF NoMsg
<1>2. Init => TypeOK
  BY <1>1 DEF Init, TypeOK
<1>3. TypeOK /\ [Next]_vars => TypeOK'
  <2> SUFFICES ASSUME TypeOK, [Next]_vars PROVE TypeOK'
    OBVIOUS
  <2> USE DEF Goto
  <2>1. ASSUME NEW h \in Handlers, Receive(h) PROVE TypeOK'
    BY <2>1 DEF TypeOK, Receive, log, clients, store
  <2>2. ASSUME NEW h \in Handlers, Put(h) PROVE TypeOK'
    <3>1. /\ clock' \in Nat /\ clock' > clock /\ clock' # 0
          /\ mark' \in [Handlers -> 0 .. clock']
          /\ mark'[h] # 0 /\ \A k \in Handlers \ {h} : mark'[k] = mark[k]
      BY <2>2 DEF TypeOK, Put
    <3>2. stored' \subseteq Msg
      BY <2>2 DEF TypeOK, Put
    <3>3. /\ pc' \in [Handlers -> {"idle", "put", "append", "emit", "clean",
                                   "lookup", "delete"}]
          /\ \A k \in Handlers : pc'[k] = "append" => mark'[k] # 0
      BY <2>2, <3>1 DEF TypeOK, Put
    <3>4. /\ entries' \subseteq (1 .. clock') \X Msg
          /\ lookup' \in [Msg -> 0 .. clock']
          /\ cursor' \in [Clients -> 0 .. clock']
      BY <2>2, <3>1 DEF TypeOK, Put, log, clients
    <3> QED
      BY <2>2, <3>1, <3>2, <3>3, <3>4 DEF TypeOK, Put, clients
  <2>3. ASSUME NEW h \in Handlers, Append(h) PROVE TypeOK'
    BY <2>3 DEF TypeOK, Append, clients, store
  <2>4. ASSUME NEW h \in Handlers, Emit(h) PROVE TypeOK'
    BY <2>4 DEF TypeOK, Emit, Deliver, log, store
  <2>5. ASSUME NEW h \in Handlers, Supersede(h) PROVE TypeOK'
    BY <2>5 DEF TypeOK, Supersede, log, clients
  <2>6. ASSUME NEW h \in Handlers, LookUp(h) PROVE TypeOK'
    BY <2>6 DEF TypeOK, LookUp, log, clients, store
  <2>7. ASSUME NEW h \in Handlers, Delete(h) PROVE TypeOK'
    BY <1>1, <2>7 DEF TypeOK, Delete, Return, clients, store
  <2>8. ASSUME NEW h \in Handlers, Finish(h) PROVE TypeOK'
    BY <1>1, <2>8 DEF TypeOK, Finish, Return, log, clients, store
  <2>9. ASSUME NEW c \in Clients, Subscribe(c) PROVE TypeOK'
    BY <2>9, StartAnewTypes DEF TypeOK, Subscribe, log, handling, store
  <2>10. ASSUME NEW c \in Clients, Unsubscribe(c) PROVE TypeOK'
    BY <2>10, StartAnewTypes DEF TypeOK, Unsubscribe, log, handling, store
  <2>11. ASSUME NEW c \in Clients, Query(c) PROVE TypeOK'
    BY <2>11 DEF TypeOK, Query, Page, log, handling, store
  <2>12. CASE Close
    BY <2>12, StartAnewTypes DEF TypeOK, Close, log, handling, store
  <2>13. CASE Restart
    BY <1>1, <2>13, StartAnewTypes DEF TypeOK, Restart, log, store
  <2>14. CASE UNCHANGED vars
    BY <2>14 DEF TypeOK, vars, log, handling, clients, store
  <2> QED
    BY <2>1, <2>2, <2>3, <2>4, <2>5, <2>6, <2>7, <2>8, <2>9, <2>10, <2>11,
       <2>12, <2>13, <2>14 DEF Next, Handle
<1> QED
  BY <1>2, <1>3, PTL DEF Spec

\* The inductive invariant behind the two properties of subscribers.
THEOREM FeedSafe == Spec => []FeedInv
<1> USE DEF HeardIsLogged, Logged, SyncComplete
<1>1. Init => FeedInv
  BY DEF Init, FeedInv
<1>2. TypeOK /\ TypeOK' /\ FeedInv /\ [Next]_vars => FeedInv'
  <2> SUFFICES ASSUME TypeOK, TypeOK', FeedInv, [Next]_vars PROVE FeedInv'
    OBVIOUS
  <2> USE DEF Goto
  <2>1. ASSUME NEW h \in Handlers, Receive(h) PROVE FeedInv'
    BY <2>1 DEF TypeOK, FeedInv, Receive, log, clients, store
  <2>2. ASSUME NEW h \in Handlers, Put(h) PROVE FeedInv'
    BY <2>2 DEF TypeOK, FeedInv, Put, log, clients
  <2>3. ASSUME NEW h \in Handlers, Append(h) PROVE FeedInv'
    <3>1. /\ entries \subseteq entries' /\ pc'[h] = "emit" /\ msg' = msg
          /\ \A e \in entries' \ entries : e[2] = msg[h]
          /\ \E e \in entries' : e[2] = msg[h]
          /\ \A k \in Handlers \ {h} : pc'[k] = pc[k]
      <4>1. entries' = entries \cup {<<mark[h], msg[h]>>}
        BY <2>3 DEF Append
      <4>2. <<mark[h], msg[h]>>[2] = msg[h]
        OBVIOUS
      <4>3. /\ pc'[h] = "emit" /\ msg' = msg
            /\ \A k \in Handlers \ {h} : pc'[k] = pc[k]
        BY <2>3 DEF TypeOK, Append
      <4>4. \E e \in entries' : e[2] = msg[h]
        BY <4>1, <4>2, Zenon
      <4>5. \A e \in entries' \ entries : e[2] = msg[h]
        BY <4>1, <4>2, Zenon
      <4> QED
        BY <4>1, <4>3, <4>4, <4>5
    <3>2. UNCHANGED <<clients, superseded>>
      BY <2>3 DEF Append, store
    <3>3. \A c \in Clients : synced[c] =>
            \A e \in entries' : e[2] \in Matching \ Quiet =>
                \/ e[2] \in paged[c] \cup heard[c]
                \/ \E k \in Handlers : pc'[k] = "emit" /\ msg[k] = e[2]
      BY <2>3, <3>1 DEF FeedInv, Append
    <3>4. \A k \in Handlers : pc'[k] = "emit" => Logged(msg[k])' \/ msg[k] \in superseded
      BY <2>3, <3>1 DEF FeedInv
    <3>5. \A k \in Handlers : pc'[k] \in {"lookup", "delete"} => msg[k] \in superseded
      BY <2>3, <3>1 DEF FeedInv
    <3> QED
      BY <3>1, <3>2, <3>3, <3>4, <3>5 DEF FeedInv, clients
  <2>4. ASSUME NEW h \in Handlers, Emit(h) PROVE FeedInv'
    BY <2>4 DEF TypeOK, FeedInv, Emit, Deliver, log, store
  <2>5. ASSUME NEW h \in Handlers, Supersede(h) PROVE FeedInv'
    BY <2>5 DEF TypeOK, FeedInv, Supersede, log, clients
  <2>6. ASSUME NEW h \in Handlers, LookUp(h) PROVE FeedInv'
    BY <2>6 DEF TypeOK, FeedInv, LookUp, log, clients, store
  <2>7. ASSUME NEW h \in Handlers, Delete(h) PROVE FeedInv'
    BY <2>7 DEF TypeOK, FeedInv, Delete, Return, clients, store
  <2>8. ASSUME NEW h \in Handlers, Finish(h) PROVE FeedInv'
    BY <2>8 DEF TypeOK, FeedInv, Finish, Return, log, clients, store
  <2>9. ASSUME NEW c \in Clients, Subscribe(c) PROVE FeedInv'
    BY <2>9 DEF TypeOK, FeedInv, Subscribe, StartAnew, log, handling, store
  <2>10. ASSUME NEW c \in Clients, Unsubscribe(c) PROVE FeedInv'
    BY <2>10 DEF TypeOK, FeedInv, Unsubscribe, StartAnew, log, handling, store
  <2>11. ASSUME NEW c \in Clients, Query(c) PROVE FeedInv'
    <3>1. UNCHANGED <<log, handling, open, listeners, heard, superseded>>
      BY <2>11 DEF Query, store
    <3>2. /\ \A d \in Clients \ {c} : /\ cursor'[d] = cursor[d]
                                     /\ paged'[d] = paged[d]
                                     /\ synced'[d] = synced[d]
          /\ synced'[c] = (c \in listeners)
          /\ paged'[c] = paged[c] \cup {e[2] : e \in Page(c)}
      BY <2>11 DEF TypeOK, Query
    <3>3. ASSUME c \in listeners, NEW e \in entries, e[2] \in Matching \ Quiet
          PROVE  \/ e[2] \in paged'[c] \cup heard[c]
                 \/ \E k \in Handlers : pc[k] = "emit" /\ msg[k] = e[2]
      <4>1. CASE synced[c]
        BY <3>2, <3>3, <4>1 DEF FeedInv
      <4>2. CASE ~synced[c]
        <5>1. cursor[c] = 0 /\ e[1] > 0
          BY <3>3, <4>2 DEF FeedInv, TypeOK
        <5>2. e \in Page(c)
          BY <3>3, <5>1 DEF Page
        <5> QED
          BY <3>2, <5>2
      <4> QED
        BY <4>1, <4>2
    <3>4. SyncComplete'
      <4>1. SUFFICES ASSUME NEW d \in Clients, synced'[d],
                            NEW e \in entries, e[2] \in Matching \ Quiet
                     PROVE  \/ e[2] \in paged'[d] \cup heard[d]
                            \/ \E k \in Handlers : pc[k] = "emit" /\ msg[k] = e[2]
        BY <3>1 DEF log, handling
      <4>2. CASE d = c
        BY <3>2, <3>3, <4>1, <4>2
      <4>3. CASE d # c
        BY <3>2, <4>1, <4>3 DEF FeedInv
      <4> QED
        BY <4>2, <4>3
    <3>5. \A d \in listeners : ~synced'[d] => cursor'[d] = 0
      BY <3>2 DEF FeedInv, TypeOK
    <3>6. \A d \in Clients : synced'[d] => d \in listeners
      BY <3>2 DEF FeedInv
    <3> QED
      BY <3>1, <3>4, <3>5, <3>6 DEF FeedInv, log, handling
  <2>12. CASE Close
    BY <2>12 DEF TypeOK, FeedInv, Close, StartAnew, log, handling, store
  <2>13. CASE Restart
    BY <2>13 DEF TypeOK, FeedInv, Restart, StartAnew, log, store
  <2>14. CASE UNCHANGED vars
    BY <2>14 DEF FeedInv, vars, log, handling, clients, store
  <2> QED
    BY <2>1, <2>2, <2>3, <2>4, <2>5, <2>6, <2>7, <2>8, <2>9, <2>10, <2>11,
       <2>12, <2>13, <2>14 DEF Next, Handle
<1> QED
  BY <1>1, <1>2, FeedTypeCorrect, PTL DEF Spec

\* No subscriber hears of a message that has no event and is not superseded.
THEOREM HeardIsLoggedAlways == Spec => []HeardIsLogged
<1>1. FeedInv => HeardIsLogged
  BY DEF FeedInv
<1> QED
  BY <1>1, FeedSafe, PTL

\* A client that subscribes and then queries misses nothing that is logged.
THEOREM SyncCompleteAlways == Spec => []SyncComplete
<1>1. FeedInv => SyncComplete
  BY DEF FeedInv
<1> QED
  BY <1>1, FeedSafe, PTL
=============================================================================
