----------------------------- MODULE RecordsStops -----------------------------
(***************************************************************************)
(* What holds of RecordsDwn with one handler at a time wherever the        *)
(* process stops: a stop leaves a record half stored or half cleaned up,   *)
(* and the next message of the record finds it so.                         *)
(***************************************************************************)
EXTENDS RecordsSerial

Alone(p) == Procs = {p}

----------------------------------------------------------------------------
\* One handler, and any number of stops.

\* Every set of messages has a newest one.
NewestExists ==
    \A S \in SUBSET indexed : S # {} => \E m \in S : \A n \in S : ~IsNewer(n, m)

\* Where a write that has looked at its record waits, until its event is logged.
Looked == {"dataPut", "unwind", "dataGet", "putBlock", "putIndex", "append"}

\* What the write found is what is stored: older messages, and no delete as the newest.
WriteFound(p) ==
    /\ existing[p] = OfRecord(Stored, req[p].rec) \ {req[p]}
    /\ ~IsDeleted(existing[p])
    /\ \A x \in existing[p] : IsOlder(x, req[p])

\* All the clean-up of a write leaves of an older message: the initial write, without
\* its data and out of the latest state.
Kept(m) == m.initial /\ m \notin latest /\ m \notin encoded

\* What is stored of the record beside the write is still to be cleaned up, or is what
\* the clean-up leaves.
WriteCleans(p) ==
    \A m \in OfRecord(Stored, req[p].rec) :
        \/ m = req[p]
        \/ m \in todo[p]
        \/ m = cur[p] /\ pc[p] = "cleanBlock"
        \/ Kept(m)

\* What the handler knows at its label.
LabelInv(p) ==
    /\ pc[p] \in {"fetch", "performFetch"} => existing[p] = OfRecord(indexed, req[p].rec)
    /\ pc[p] \in Looked /\ IsWrite(req[p]) => WriteFound(p)
    /\ pc[p] \in Cleaning /\ IsWrite(req[p]) => WriteCleans(p)
    /\ pc[p] = "cleanIndex" => cur[p] \notin blocks
    /\ pc[p] \in {"restoreBlock", "restoreIndex"} => cur[p].initial /\ cur[p] \notin latest
    /\ pc[p] = "restoreIndex" => cur[p] \notin encoded
    /\ pc[p] = "complete" => IsDelete(req[p])
    /\ pc[p] = "reply" /\ reply[p] \in {202, 204} /\ IsWrite(req[p]) =>
        \A m \in OfRecord(Stored, req[p].rec) : m = req[p] \/ Kept(m)

AloneInv(p) ==
    /\ StoreInv
    /\ NewestExists
    /\ LabelInv(p)

\* The handler is one of the process, and its variables have their types.
LEMMA AloneTypes ==
    ASSUME NEW p, Alone(p), StoreInv
    PROVE  /\ p \in Procs /\ TypeOK /\ HandlerInv(p)
           /\ req[p] \in Message /\ req[p].rec \in Record
           /\ existing[p] \subseteq Message /\ todo[p] \subseteq Message
           /\ cur[p] \in Message /\ Stored \subseteq Message
<1>1. p \in Procs /\ TypeOK /\ HandlerInv(p)
  BY DEF Alone, StoreInv
<1> QED  BY <1>1, Kinds DEF TypeOK, Stored

\* The newest of a set of stored messages is newer than all others.
LEMMA NewestIn ==
    ASSUME TypeOK, NewestExists, NEW S \in SUBSET indexed, S # {}
    PROVE  Newest(S) \in S /\ \A n \in S : n = Newest(S) \/ IsNewer(Newest(S), n)
<1>1. S \subseteq Message
  BY DEF TypeOK
<1>2. \E m \in S : \A n \in S : ~IsNewer(n, m)
  BY DEF NewestExists
<1>3. Newest(S) \in S /\ \A n \in S : ~IsNewer(n, Newest(S))
  BY <1>2 DEF Newest
<1> QED  BY <1>1, <1>3, NewerOrder

\* A message more or less in the index does not change that there is a newest one.
LEMMA NewestStays ==
    ASSUME TypeOK, NewestExists, NEW x \in Message, indexed' \subseteq indexed \cup {x}
    PROVE  NewestExists'
<1> SUFFICES ASSUME NEW S \in SUBSET indexed', S # {}
             PROVE  \E m \in S : \A n \in S : ~IsNewer(n, m)
  BY DEF NewestExists
<1>1. S \subseteq Message /\ S \ {x} \in SUBSET indexed
  BY DEF TypeOK
<1>2. CASE S \ {x} = {}
  <2>1. x \in S /\ \A n \in S : n = x
    BY <1>2
  <2> QED  BY <2>1, NewerOrder
<1>3. CASE S \ {x} # {}
  <2>1. PICK m \in S \ {x} : \A n \in S \ {x} : ~IsNewer(n, m)
    BY <1>1, <1>3 DEF NewestExists
  <2>2. CASE x \in S /\ IsNewer(x, m)
    <3>1. ASSUME NEW n \in S, IsNewer(n, x) PROVE FALSE
      <4>1. IsNewer(n, m)
        BY <1>1, <2>1, <2>2, <3>1, NewerOrder
      <4>2. n # x
        BY <3>1, NewerOrder
      <4> QED  BY <2>1, <4>1, <4>2
    <3> QED  BY <2>2, <3>1
  <2>3. CASE ~(x \in S /\ IsNewer(x, m))
    <3>1. \A n \in S : ~IsNewer(n, m)
      BY <2>1, <2>3
    <3> QED  BY <2>1, <3>1
  <2> QED  BY <2>2, <2>3
<1> QED  BY <1>2, <1>3

\* The labels that the invariant says nothing of, ...
LEMMA AloneAtEase ==
    ASSUME NEW p,
           pc'[p] \in {"idle", "integrity", "scan", "register", "performScan"}
    PROVE  LabelInv(p)'
BY DEF LabelInv, Looked, Cleaning, CleaningOne

\* ... and those of which it says nothing while a delete is handled.
LEMMA AloneDelete ==
    ASSUME NEW p, IsDelete(req'[p]),
           pc'[p] \notin {"fetch", "performFetch", "cleanIndex", "restoreBlock",
                          "restoreIndex"}
    PROVE  LabelInv(p)'
BY DEF LabelInv, IsDelete, IsWrite

\* A request that is refused.
LEMMA AloneRefused ==
    ASSUME NEW p, pc'[p] = "reply", reply'[p] \notin {202, 204}
    PROVE  LabelInv(p)'
BY DEF LabelInv, Looked, Cleaning, CleaningOne

\* A request or a task comes in, or a reply goes out.
LEMMA AloneReceive ==
    ASSUME NEW p, Alone(p), AloneInv(p), StoreInv', Receive(p) \/ Resume(p) \/ Reply(p)
    PROVE  AloneInv(p)'
<1>0. /\ p \in Procs /\ TypeOK /\ NewestExists /\ req[p] \in Message
      /\ indexed' = indexed
  BY AloneTypes DEF AloneInv, Receive, Resume, Reply, stores
<1>1. NewestExists'
  BY <1>0, NewestStays
<1>2. pc'[p] \in {"idle", "integrity", "scan", "performScan"}
  BY <1>0 DEF Receive, Resume, Reply, Release, Goto, TypeOK
<1> QED  BY <1>1, <1>2, AloneAtEase DEF AloneInv

\* The checks of a message before it is stored, apart from the look at its record.
LEMMA AloneCheck ==
    ASSUME NEW p, Alone(p), AloneInv(p), StoreInv',
           \/ CheckParent(p) \/ Refuse(p) \/ Unwind(p) \/ Scan(p) \/ DataPut(p)
           \/ DataGet(p) \/ DeleteFetch(p) \/ Register(p) \/ PerformFetch(p) \/ Complete(p)
    PROVE  AloneInv(p)'
<1>0. /\ p \in Procs /\ TypeOK /\ NewestExists /\ LabelInv(p) /\ HandlerInv(p)
      /\ req[p] \in Message /\ req' = req
      /\ UNCHANGED <<blocks, encoded, indexed, latest>>
  BY AloneTypes
  DEF AloneInv, CheckParent, Refuse, Unwind, Scan, DataPut, DataGet, DeleteFetch, Register,
      PerformFetch, Complete, stores, locals
<1>1. NewestExists'
  BY <1>0, NewestStays
<1>2. CASE CheckParent(p) \/ Refuse(p) \/ Unwind(p)
  <2>1. pc'[p] = "scan" \/ (pc'[p] = "reply" /\ reply'[p] \notin {202, 204})
    BY <1>0, <1>2 DEF CheckParent, Refuse, Unwind, Answer, Goto, TypeOK
  <2> QED  BY <1>1, <2>1, AloneAtEase, AloneRefused DEF AloneInv
<1>3. CASE Scan(p)
  <2>1. /\ pc'[p] \in {"fetch", "performFetch"}
        /\ existing'[p] = OfRecord(indexed', req'[p].rec)
    BY <1>0, <1>3 DEF Scan, Goto, TypeOK
  <2>2. LabelInv(p)'
    BY <2>1 DEF LabelInv, Looked, Cleaning, CleaningOne
  <2> QED  BY <1>1, <2>2 DEF AloneInv
<1>4. CASE DataPut(p) \/ DataGet(p)
  <2>1. /\ pc[p] \in {"dataPut", "dataGet"}
        /\ \/ pc'[p] \in {"putBlock", "unwind"}
           \/ pc'[p] = "reply" /\ reply'[p] \notin {202, 204}
        /\ existing' = existing
    BY <1>0, <1>4 DEF DataPut, DataGet, Answer, Goto, TypeOK, locals
  <2>2. CASE pc'[p] \in {"putBlock", "unwind"}
    <3>1. (IsWrite(req[p]) => WriteFound(p))'
      BY <1>0, <2>1 DEF LabelInv, Looked, WriteFound, Stored, IsDeleted
    <3> QED  BY <1>1, <2>2, <3>1 DEF AloneInv, LabelInv, Cleaning, CleaningOne
  <2> QED  BY <1>1, <2>1, <2>2, AloneRefused DEF AloneInv
<1>5. CASE DeleteFetch(p) \/ Register(p) \/ PerformFetch(p) \/ Complete(p)
  <2>1. IsDelete(req[p]) \/ pc'[p] = "performScan"
    BY <1>0, <1>5 DEF DeleteFetch, Register, PerformFetch, Complete, LabelInv, HandlerInv,
                      Performing, Goto, TypeOK
  <2>2. pc'[p] \notin {"fetch", "performFetch", "cleanIndex", "restoreBlock",
                       "restoreIndex"}
    BY <1>0, <1>5 DEF DeleteFetch, Register, PerformFetch, Complete, TaskFails, Answer, Goto,
                      TypeOK
  <2> QED  BY <1>0, <1>1, <2>1, <2>2, AloneDelete, AloneAtEase DEF AloneInv
<1> QED  BY <1>2, <1>3, <1>4, <1>5

\* A write that goes on has found a record that is not deleted and none but older messages.
LEMMA AloneWriteFetch ==
    ASSUME NEW p, Alone(p), AloneInv(p), StoreInv', WriteFetch(p)
    PROVE  AloneInv(p)'
<1> DEFINE S == Fetched(p)
<1>0. /\ p \in Procs /\ TypeOK /\ NewestExists /\ LabelInv(p)
      /\ req[p] \in Message /\ req' = req
      /\ UNCHANGED <<blocks, encoded, indexed, latest>> /\ pc[p] = "fetch"
      /\ existing'[p] = S
  BY AloneTypes DEF AloneInv, WriteFetch, stores, TypeOK
<1>1. NewestExists'
  BY <1>0, NewestStays
<1>2. S = OfRecord(Stored, req[p].rec)
  BY <1>0 DEF LabelInv, Fetched, OfRecord, Stored
<1>3. \/ pc'[p] = "reply" /\ reply'[p] \notin {202, 204}
      \/ ~Outdated(req[p], S) /\ ~IsDeleted(S) /\ pc'[p] \in {"putBlock", "dataPut", "dataGet"}
  <2>1. ASSUME TakeData(p, S)
        PROVE  \/ pc'[p] = "reply" /\ reply'[p] \notin {202, 204}
               \/ pc'[p] \in {"putBlock", "dataPut", "dataGet"}
    <3> HIDE DEF S
    <3> QED  BY <1>0, <2>1 DEF TakeData, Answer, Goto, TypeOK
  <2>2. \/ Answer(p, 400) \/ Answer(p, 409)
        \/ ~Outdated(req[p], S) /\ ~IsDeleted(S) /\ TakeData(p, S)
    BY DEF WriteFetch
  <2> HIDE DEF S
  <2> QED  BY <1>0, <2>1, <2>2 DEF Answer, Goto, TypeOK
<1>4. ASSUME ~Outdated(req[p], S), ~IsDeleted(S) PROVE WriteFound(p)'
  <2>1. S \in SUBSET indexed /\ S \subseteq Message
    BY <1>0, <1>2 DEF OfRecord, Stored, TypeOK
  <2>2. \A x \in S : IsOlder(x, req[p])
    <3> SUFFICES ASSUME NEW x \in S PROVE IsOlder(x, req[p])
      OBVIOUS
    <3>1. /\ Newest(S) \in S /\ IsNewer(req[p], Newest(S))
          /\ x = Newest(S) \/ IsNewer(Newest(S), x)
      <4>1. IsNewer(req[p], Newest(S))
        BY <1>4 DEF Outdated
      <4> HIDE DEF S
      <4> QED  BY <1>0, <2>1, <4>1, NewestIn
    <3> HIDE DEF S
    <3> QED  BY <1>0, <2>1, <3>1, NewerOrder
  <2>3. req[p] \notin S
    BY <1>0, <2>2, NewerOrder
  <2>4. Stored' = Stored
    BY <1>0 DEF Stored
  <2> HIDE DEF S
  <2> QED  BY <1>0, <1>2, <1>4, <2>2, <2>3, <2>4 DEF WriteFound
<1>5. CASE pc'[p] \in {"putBlock", "dataPut", "dataGet"}
  <2>1. WriteFound(p)'
    BY <1>3, <1>4, <1>5
  <2> QED  BY <1>1, <1>5, <2>1 DEF AloneInv, LabelInv, Cleaning, CleaningOne
<1> QED  BY <1>1, <1>3, <1>5, AloneRefused DEF AloneInv

\* The message is stored and its event logged; what was found goes on to be cleaned up.
LEMMA AloneStore ==
    ASSUME NEW p, Alone(p), AloneInv(p), StoreInv',
           PutBlock(p) \/ PutIndex(p) \/ AppendEvent(p)
    PROVE  AloneInv(p)'
<1>0. /\ p \in Procs /\ TypeOK /\ NewestExists /\ LabelInv(p)
      /\ req[p] \in Message /\ req' = req /\ existing' = existing
      /\ indexed' \subseteq indexed \cup {req[p]}
  BY AloneTypes DEF AloneInv, PutBlock, PutIndex, AppendEvent, locals
<1>1. NewestExists'
  BY <1>0, NewestStays
<1>2. OfRecord(Stored, req[p].rec)' \ {req[p]} = OfRecord(Stored, req[p].rec) \ {req[p]}
  BY <1>0 DEF PutBlock, PutIndex, AppendEvent, OfRecord, Stored
<1>3. pc[p] \in {"putBlock", "putIndex", "append"}
  BY DEF PutBlock, PutIndex, AppendEvent
<1>4. IsWrite(req[p]) => WriteFound(p) /\ WriteFound(p)'
  BY <1>0, <1>2, <1>3 DEF LabelInv, Looked, WriteFound
<1>5. CASE PutBlock(p) \/ PutIndex(p)
  <2>1. pc'[p] \in {"putIndex", "append"}
    BY <1>0, <1>5 DEF PutBlock, PutIndex, Goto, TypeOK
  <2> QED  BY <1>0, <1>1, <1>4, <2>1 DEF AloneInv, LabelInv, Cleaning, CleaningOne
<1>6. CASE AppendEvent(p)
  <2>1. /\ pc'[p] \in {"purge", "clean"} /\ UNCHANGED <<blocks, indexed>>
        /\ IsWrite(req[p]) => /\ pc'[p] = "clean"
                              /\ todo'[p] = Older(existing[p], req[p])
    BY <1>0, <1>6 DEF AppendEvent, Goto, TypeOK, IsWrite, IsDelete
  <2>2. CASE IsWrite(req[p])
    <3>1. todo'[p] = existing[p]
      BY <1>4, <2>1, <2>2 DEF WriteFound, Older
    <3>2. WriteCleans(p)'
      BY <1>0, <1>2, <1>4, <2>2, <3>1 DEF WriteFound, WriteCleans
    <3> QED  BY <1>1, <2>1, <3>2, <2>2 DEF AloneInv, LabelInv, Looked
  <2>3. CASE ~IsWrite(req[p])
    BY <1>0, <1>1, <2>1, <2>3, AloneDelete, Kinds DEF AloneInv
  <2> QED  BY <2>2, <2>3
<1> QED  BY <1>5, <1>6

\* The purge is the work of a delete.
LEMMA AlonePurge ==
    ASSUME NEW p, Alone(p), AloneInv(p), StoreInv', Purge(p)
    PROVE  AloneInv(p)'
<1>0. /\ p \in Procs /\ TypeOK /\ NewestExists /\ LabelInv(p) /\ HandlerInv(p)
      /\ req[p] \in Message
  BY AloneTypes DEF AloneInv
<1>1. /\ pc[p] \in {"purge", "purgeEvents", "purgeBlock", "purgeIndex"}
      /\ pc'[p] \in {"purge", "purgeEvents", "purgeBlock", "purgeIndex", "clean", "reply"}
      /\ indexed' \subseteq indexed /\ req' = req
  BY <1>0 DEF Purge, PurgeDescend, PurgeGroup, PurgeData, PurgeEvents, PurgeBlock, PurgeIndex,
              PurgeEnd, TaskFails, Answer, Goto, TypeOK, stores, locals
<1>2. NewestExists'
  BY <1>0, <1>1, NewestStays
<1>3. IsDelete(req[p])
  BY <1>0, <1>1 DEF HandlerInv, Performing, Purging
<1> QED  BY <1>1, <1>2, <1>3, AloneDelete DEF AloneInv

\* The clean-up of a write takes one message after the other, and leaves of each what it is
\* to leave.
LEMMA AloneClean ==
    ASSUME NEW p, Alone(p), AloneInv(p), StoreInv', Clean(p)
    PROVE  AloneInv(p)'
<1>0. /\ p \in Procs /\ TypeOK /\ NewestExists /\ LabelInv(p) /\ HandlerInv(p)
      /\ req[p] \in Message /\ cur[p] \in Message
      /\ pc[p] \in Cleaning
  BY AloneTypes DEF AloneInv, Clean, CleanData, CleanBlock, CleanIndex, RestoreBlock, RestoreIndex,
                    CleanEvents, CleanEnd, Cleaning, CleaningOne
<1>1. /\ req' = req /\ indexed' \subseteq indexed \cup {cur[p]}
  BY <1>0 DEF Clean, CleanData, CleanBlock, CleanIndex, RestoreBlock, RestoreIndex, CleanEvents,
              CleanEnd, stores, locals
<1>2. NewestExists'
  BY <1>0, <1>1, NewestStays
<1>3. CASE CleanData(p)
  <2>1. /\ pc[p] = "clean" /\ pc'[p] = "cleanBlock"
        /\ todo[p] \subseteq todo'[p] \cup {cur'[p]}
        /\ UNCHANGED <<blocks, encoded, indexed, latest>>
    BY <1>0, <1>3 DEF CleanData, Goto, TypeOK
  <2>2. IsWrite(req[p]) => WriteCleans(p)'
    BY <1>0, <1>1, <2>1 DEF LabelInv, WriteCleans, Kept, OfRecord, Stored
  <2> QED  BY <1>1, <1>2, <2>1, <2>2 DEF AloneInv, LabelInv, Looked
<1>4. CASE CleanBlock(p)
  <2>1. /\ pc[p] = "cleanBlock" /\ pc'[p] = "cleanIndex"
        /\ blocks' = blocks \ {cur[p]} /\ encoded' = encoded \ {cur[p]}
        /\ UNCHANGED <<todo, cur, indexed, latest>>
    BY <1>0, <1>4 DEF CleanBlock, Goto, TypeOK, locals
  <2>2. IsWrite(req[p]) => WriteCleans(p)'
    BY <1>0, <1>1, <2>1 DEF LabelInv, WriteCleans, Kept, OfRecord, Stored
  <2> QED  BY <1>1, <1>2, <2>1, <2>2 DEF AloneInv, LabelInv, Looked
<1>5. CASE CleanIndex(p)
  <2>1. /\ pc[p] = "cleanIndex" /\ pc'[p] \in {"restoreBlock", "cleanEvents"}
        /\ pc'[p] = "restoreBlock" => cur[p].initial
        /\ indexed' = indexed \ {cur[p]} /\ latest' = latest \ {cur[p]}
        /\ UNCHANGED <<todo, cur, blocks, encoded>>
    BY <1>0, <1>5 DEF CleanIndex, Goto, TypeOK, locals
  <2>2. IsWrite(req[p]) => WriteCleans(p)'
    BY <1>0, <1>1, <2>1 DEF LabelInv, WriteCleans, Kept, OfRecord, Stored
  <2> QED  BY <1>1, <1>2, <2>1, <2>2 DEF AloneInv, LabelInv, Looked
<1>6. CASE RestoreBlock(p)
  <2>1. /\ pc[p] = "restoreBlock" /\ pc'[p] = "restoreIndex"
        /\ blocks' = blocks \cup {cur[p]} /\ encoded' = encoded \ {cur[p]}
        /\ UNCHANGED <<todo, cur, indexed, latest>>
    BY <1>0, <1>6 DEF RestoreBlock, Goto, TypeOK, locals
  <2>2. Kept(cur[p])'
    BY <1>0, <2>1 DEF LabelInv, Kept
  <2>3. IsWrite(req[p]) => WriteCleans(p)'
    BY <1>0, <1>1, <2>1, <2>2 DEF LabelInv, WriteCleans, Kept, OfRecord, Stored
  <2> QED  BY <1>1, <1>2, <2>1, <2>2, <2>3 DEF AloneInv, LabelInv, Looked, Kept
<1>7. CASE RestoreIndex(p)
  <2>1. /\ pc[p] = "restoreIndex" /\ pc'[p] = "cleanEvents"
        /\ indexed' = indexed \cup {cur[p]} /\ latest' = latest \ {cur[p]}
        /\ UNCHANGED <<todo, cur, blocks, encoded>>
    BY <1>0, <1>7 DEF RestoreIndex, Goto, TypeOK, locals
  <2>2. Kept(cur[p])'
    BY <1>0, <2>1 DEF LabelInv, Kept
  <2>3. IsWrite(req[p]) => WriteCleans(p)'
    BY <1>0, <1>1, <2>1, <2>2 DEF LabelInv, WriteCleans, Kept, OfRecord, Stored
  <2> QED  BY <1>1, <1>2, <2>1, <2>3 DEF AloneInv, LabelInv, Looked
<1>8. CASE CleanEvents(p)
  <2>1. /\ pc[p] = "cleanEvents" /\ pc'[p] = "clean"
        /\ UNCHANGED <<todo, blocks, encoded, indexed, latest>>
    BY <1>0, <1>8 DEF CleanEvents, Goto, TypeOK, locals
  <2>2. IsWrite(req[p]) => WriteCleans(p)'
    BY <1>0, <1>1, <2>1 DEF LabelInv, WriteCleans, Kept, OfRecord, Stored
  <2> QED  BY <1>1, <1>2, <2>1, <2>2 DEF AloneInv, LabelInv, Looked
<1>9. CASE CleanEnd(p)
  <2>1. /\ pc[p] = "clean" /\ todo[p] = {} /\ pc'[p] \in {"reply", "complete"}
        /\ pc'[p] = "complete" => IsDelete(req[p])
        /\ UNCHANGED <<blocks, encoded, indexed, latest>>
    BY <1>0, <1>9 DEF CleanEnd, Answer, Goto, TypeOK, stores
  <2>2. (IsWrite(req[p]) => \A m \in OfRecord(Stored, req[p].rec) : m = req[p] \/ Kept(m))'
    BY <1>0, <1>1, <2>1 DEF LabelInv, WriteCleans, Kept, OfRecord, Stored
  <2> QED  BY <1>1, <1>2, <2>1, <2>2 DEF AloneInv, LabelInv, Looked, Cleaning, CleaningOne
<1> QED  BY <1>3, <1>4, <1>5, <1>6, <1>7, <1>8, <1>9 DEF Clean

\* Every step keeps the invariant; a stop leaves no handler to know anything.
LEMMA AloneStep ==
    ASSUME NEW p, Alone(p), AloneInv(p), [Next]_vars
    PROVE  AloneInv(p)'
<1>0. StoreInv' /\ p \in Procs /\ TypeOK /\ NewestExists /\ AnyMessage \in Message
  BY SafeStep, AloneTypes, AnyMessageType DEF AloneInv
<1>1. CASE Grab \/ UNCHANGED vars
  <2>1. UNCHANGED <<blocks, encoded, indexed, latest, pc, req, existing, todo, cur, reply>>
    BY <1>1 DEF Grab, vars, stores, locals
  <2>2. NewestExists'
    BY <1>0, <2>1, NewestStays
  <2>3. LabelInv(p)'
    BY <2>1 DEF AloneInv, LabelInv, WriteFound, WriteCleans, Kept, OfRecord, Stored, IsDeleted
  <2> QED  BY <1>0, <2>2, <2>3 DEF AloneInv
<1>2. CASE Crash
  <2>1. indexed' = indexed /\ pc'[p] = "idle"
    BY <1>0, <1>2 DEF Crash, stores
  <2> QED  BY <1>0, <2>1, NewestStays, AloneAtEase DEF AloneInv
<1> QED  BY <1>0, <1>1, <1>2, AloneReceive, AloneCheck, AloneWriteFetch, AloneStore, AlonePurge,
            AloneClean DEF Next, Run, Write, Delete, Store, Alone

\* At the start nothing is stored ...
LEMMA AloneInit ==
    ASSUME NEW p, Alone(p), Init
    PROVE  AloneInv(p)
<1>1. pc[p] = "idle" /\ indexed = {}
  BY DEF Init, Alone
<1>2. LabelInv(p)
  BY <1>1 DEF LabelInv, Looked, Cleaning, CleaningOne
<1> QED  BY <1>1, <1>2, SafeInit DEF AloneInv, NewestExists

\* ... and then the invariant holds.
LEMMA AloneAlways ==
    ASSUME NEW p, Alone(p)
    PROVE  Spec => []AloneInv(p)
<1>1. Init => AloneInv(p)
  BY AloneInit
<1>2. AloneInv(p) /\ [Next]_vars => AloneInv(p)'
  BY AloneStep
<1> QED  BY <1>1, <1>2, PTL DEF Spec

\* With one handler at a time a write is acknowledged only when its record is tidied up,
\* however many stops have cut the clean-up of earlier messages short: beside the write
\* only the initial write is left, without its data and out of the latest state.
\* (storage-controller.ts:206-207)
THEOREM CleanOnReplyAlways ==
    ASSUME NEW p, Alone(p)
    PROVE  Spec => []CleanOnReply
<1>1. AloneInv(p) => CleanOnReply
  BY DEF Alone, AloneInv, LabelInv, CleanOnReply, Kept
<1> QED  BY <1>1, AloneAlways, PTL

\* What a step puts or takes away does not matter to a record whose newest message is newer.
LEMMA NewestSame ==
    ASSUME NEW S \in SUBSET Message, NEW T \in SUBSET Message, NEW x \in Message, NEW m \in S,
           \A n \in S : n = m \/ IsNewer(m, n), IsNewer(m, x),
           S \ {x} \subseteq T, T \subseteq S \cup {x}
    PROVE  T # {} /\ Newest(T) = m
<1>1. m # x
  BY NewerOrder
<1>2. m \in T /\ \A n \in T : n = m \/ IsNewer(m, n)
  BY <1>1
<1> QED  BY <1>2, NewestIs

\* The clean-up works on messages that are overtaken.
LEMMA CleanedIsOld ==
    ASSUME StoreInv, NEW p \in Procs, pc[p] \in CleaningOne
    PROVE  cur[p] \in Message /\ (cur[p].rec \in purged \/ Overtaken(cur[p]))
<1>0. TypeOK /\ HandlerInv(p) /\ req[p] \in Message /\ cur[p] \in Message
  BY DEF StoreInv, TypeOK
<1>1. req[p] \in accepted /\ cur[p].rec = req[p].rec /\ IsOlder(cur[p], req[p])
  BY <1>0 DEF HandlerInv, AfterPut, Cleaning, OfRecord, Older
<1>2. Covered(req[p])
  BY <1>1 DEF StoreInv
<1>3. ASSUME req[p].rec \notin purged PROVE Overtaken(cur[p])
  <2>1. PICK n \in Stored \cap accepted :
          n.rec = req[p].rec /\ (n = req[p] \/ IsNewer(n, req[p]))
    BY <1>2, <1>3 DEF Covered
  <2>2. n \in Message
    BY <1>0 DEF TypeOK
  <2>3. IsNewer(n, cur[p])
    BY <1>0, <1>1, <2>1, <2>2, NewerOrder
  <2> QED  BY <1>1, <2>1, <2>3 DEF Overtaken
<1> QED  BY <1>0, <1>1, <1>3

\* The steps that change what is stored: for a record that is not purged, the put of the
\* message in hand, and the clean-up of one message.
LEMMA StoredStep ==
    ASSUME NEW p, Alone(p), AloneInv(p), [Next]_vars, NEW r \in Record \ purged',
           OfRecord(Stored, r)' # OfRecord(Stored, r)
    PROVE  \/ (PutBlock(p) \/ PutIndex(p)) /\ r = req[p].rec
           \/ /\ CleanBlock(p) \/ CleanIndex(p) \/ RestoreBlock(p) \/ RestoreIndex(p)
              /\ r = cur[p].rec
<1>0. p \in Procs /\ TypeOK /\ HandlerInv(p) /\ cur[p] \in Message /\ todo[p] \subseteq Message
  BY AloneTypes DEF AloneInv
<1>1. blocks' # blocks \/ indexed' # indexed
  BY DEF OfRecord, Stored
<1>2. \/ PutBlock(p) \/ PutIndex(p) \/ PurgeBlock(p) \/ PurgeIndex(p)
      \/ CleanBlock(p) \/ CleanIndex(p) \/ RestoreBlock(p) \/ RestoreIndex(p)
  <2>1. CASE UNCHANGED vars \/ Grab \/ Crash \/ Receive(p) \/ Resume(p) \/ Reply(p) \/ Refuse(p)
             \/ Write(p) \/ Delete(p) \/ Scan(p)
    BY <1>1, <2>1 DEF vars, Grab, Crash, Receive, Resume, Reply, Refuse, Write, CheckParent,
                      WriteFetch, DataPut, Unwind, DataGet, Delete, DeleteFetch, Register,
                      PerformFetch, Complete, Scan, stores
  <2>2. CASE AppendEvent(p) \/ PurgeDescend(p) \/ PurgeGroup(p) \/ PurgeData(p) \/ PurgeEvents(p)
             \/ PurgeEnd(p) \/ CleanData(p) \/ CleanEvents(p) \/ CleanEnd(p)
    BY <1>1, <2>2 DEF AppendEvent, PurgeDescend, PurgeGroup, PurgeData, PurgeEvents, PurgeEnd,
                      CleanData, CleanEvents, CleanEnd, stores
  <2> QED  BY <2>1, <2>2 DEF Next, Run, Store, Purge, Clean, Alone
<1>3. CASE PutBlock(p) \/ PutIndex(p)
  BY <1>3 DEF PutBlock, PutIndex, OfRecord, Stored
<1>4. CASE PurgeBlock(p) \/ PurgeIndex(p)
  <2>1. purged' = purged
    BY <1>4 DEF PurgeBlock, PurgeIndex, history
  <2>2. PICK x \in Message : /\ x.rec \in purged
                             /\ blocks' \ {x} = blocks \ {x} /\ indexed' \ {x} = indexed \ {x}
    <3>1. CASE PurgeBlock(p)
      <4>1. pc[p] = "purgeBlock" /\ \A m \in todo[p] : m.rec \in purged
        BY <1>0, <3>1 DEF PurgeBlock, HandlerInv, Purging
      <4> QED  BY <1>0, <3>1, <4>1 DEF PurgeBlock
    <3>2. CASE PurgeIndex(p)
      BY <1>0, <3>2 DEF PurgeIndex, HandlerInv
    <3> QED  BY <1>4, <3>1, <3>2
  <2> QED  BY <2>1, <2>2 DEF OfRecord, Stored
<1>5. CASE CleanBlock(p) \/ CleanIndex(p) \/ RestoreBlock(p) \/ RestoreIndex(p)
  BY <1>5 DEF CleanBlock, CleanIndex, RestoreBlock, RestoreIndex, OfRecord, Stored
<1> QED  BY <1>2, <1>3, <1>4, <1>5

\* With one handler at a time a deleted record stays deleted, however many stops have cut
\* deletes and clean-ups short: a write looks at the record and is refused, and the clean-up
\* never takes the newest message.  (records-write.ts:91-97, storage-controller.ts:196-239)
THEOREM DeleteFinalAlways ==
    ASSUME NEW p, Alone(p)
    PROVE  Spec => DeleteFinal
<1>1. ASSUME AloneInv(p), [Next]_vars, NEW r \in Record \ purged',
             OfRecord(Stored, r) # {}, IsDelete(Newest(OfRecord(Stored, r)))
      PROVE  OfRecord(Stored', r) # {} /\ IsDelete(Newest(OfRecord(Stored', r)))
  <2> DEFINE S == OfRecord(Stored, r)
             T == OfRecord(Stored', r)
             d == Newest(S)
  <2>0. /\ p \in Procs /\ TypeOK /\ LabelInv(p) /\ req[p] \in Message /\ cur[p] \in Message
        /\ AloneInv(p)' /\ TypeOK' /\ NewestExists /\ NewestExists'
    BY <1>1, AloneTypes, AloneStep DEF AloneInv, StoreInv
  <2>1. S \in SUBSET indexed /\ T \in SUBSET indexed' /\ S \subseteq Message /\ T \subseteq Message
    BY <2>0 DEF OfRecord, Stored, TypeOK
  <2>2. d \in S /\ \A n \in S : n = d \/ IsNewer(d, n)
    <3> HIDE DEF S
    <3> QED  BY <1>1, <2>0, <2>1, NewestIn DEF S
  <2>3. CASE T = S
    BY <1>1, <2>3
  <2>4. CASE (PutBlock(p) \/ PutIndex(p)) /\ r = req[p].rec
    <3>1. S \subseteq T /\ T \subseteq S \cup {req[p]}
      BY <2>4 DEF PutBlock, PutIndex, OfRecord, Stored
    <3>2. CASE IsWrite(req[p])
      <4>1. existing[p] = S \ {req[p]} /\ ~IsDeleted(existing[p])
        <5>1. pc[p] \in Looked
          BY <2>4 DEF PutBlock, PutIndex, Looked
        <5> QED  BY <2>0, <2>4, <3>2, <5>1 DEF LabelInv, WriteFound
      <4>2. d \in existing[p] /\ \A n \in existing[p] : n = d \/ IsNewer(d, n)
        BY <1>1, <2>2, <3>2, <4>1 DEF IsWrite, IsDelete
      <4>3. Newest(existing[p]) = d
        <5>1. existing[p] \in SUBSET Message
          BY <2>1, <4>1
        <5> HIDE DEF d, S
        <5> QED  BY <4>2, <5>1, NewestIs
      <4> QED  BY <1>1, <4>1, <4>2, <4>3 DEF IsDeleted
    <3>3. CASE IsDelete(req[p])
      <4>1. T # {}
        BY <2>2, <3>1
      <4>2. Newest(T) \in T /\ \A n \in T : n = Newest(T) \/ IsNewer(Newest(T), n)
        <5>1. \A X \in SUBSET indexed' : X # {} => \E m \in X : \A n \in X : ~IsNewer(n, m)
          BY <2>0 DEF NewestExists
        <5>2. \E m \in T : \A n \in T : ~IsNewer(n, m)
          <6> HIDE DEF T
          <6> QED  BY <2>1, <4>1, <5>1
        <5> HIDE DEF T
        <5>3. Newest(T) \in T /\ \A n \in T : ~IsNewer(n, Newest(T))
          BY <5>2 DEF Newest
        <5> QED  BY <2>1, <5>3, NewerOrder
      <4>3. CASE Newest(T) = req[p]
        BY <3>3, <4>1, <4>3
      <4>4. CASE Newest(T) # req[p]
        <5>1. Newest(T) \in S /\ \A n \in S : n = Newest(T) \/ IsNewer(Newest(T), n)
          BY <3>1, <4>2, <4>4
        <5>2. Newest(T) = d
          <6> HIDE DEF S, T, d
          <6> QED  BY <2>1, <2>2, <5>1, NewerOrder
        <5> QED  BY <1>1, <4>1, <5>2
      <4> QED  BY <4>3, <4>4
    <3> QED  BY <2>0, <3>2, <3>3, Kinds
  <2>5. CASE /\ CleanBlock(p) \/ CleanIndex(p) \/ RestoreBlock(p) \/ RestoreIndex(p)
             /\ r = cur[p].rec
    <3>1. purged' = purged /\ S \ {cur[p]} \subseteq T /\ T \subseteq S \cup {cur[p]}
      BY <2>5 DEF CleanBlock, CleanIndex, RestoreBlock, RestoreIndex, OfRecord, Stored, history
    <3>2. Overtaken(cur[p])
      <4>1. pc[p] \in CleaningOne
        BY <2>5 DEF CleanBlock, CleanIndex, RestoreBlock, RestoreIndex, CleaningOne
      <4> QED  BY <1>1, <2>0, <2>5, <3>1, <4>1, CleanedIsOld DEF AloneInv
    <3>3. PICK n \in S : IsNewer(n, cur[p])
      BY <1>1, <2>5, <3>1, <3>2 DEF Overtaken, OfRecord
    <3>4. IsNewer(d, cur[p])
      <4> HIDE DEF S, d
      <4> QED  BY <2>0, <2>1, <2>2, <3>3, NewerOrder
    <3>5. T # {} /\ Newest(T) = d
      <4> HIDE DEF S, T, d
      <4> QED  BY <2>0, <2>1, <2>2, <3>1, <3>4, NewestSame
    <3> QED  BY <1>1, <3>5
  <2>6. T = OfRecord(Stored, r)'
    BY DEF OfRecord
  <2> QED  BY <1>1, <2>3, <2>4, <2>5, <2>6, StoredStep
<1>2. AloneInv(p) /\ [Next]_vars =>
        [\A r \in Record \ purged' :
            LET S == OfRecord(Stored, r)
                T == OfRecord(Stored', r)
            IN  S # {} /\ IsDelete(Newest(S)) => T # {} /\ IsDelete(Newest(T))]_vars
  BY <1>1
<1> QED  BY <1>2, AloneAlways, PTL DEF Spec, DeleteFinal

----------------------------------------------------------------------------
\* One handler, streams that are what their messages say, and at most one stop.

\* No write of its record that was ever stored is newer than the delete.
Final(d) ==
    \/ d.rec \in purged
    \/ \A w \in OfRecord(accepted, d.rec) : IsWrite(w) => IsNewer(d, w)

\* Where the handler has not looked at the record yet, or is done with it.
Outside == {"idle", "integrity", "scan", "fetch", "reply"}

\* The calls of a prune name messages of the record they are for.
OwnItem ==
    {item \in PlanItem : item.op = "purge" => \A m \in item.msgs : m.rec = item.rec}

\* A registered delete is the one in hand until the first stop, and what open() takes up
\* again is final.
TasksInv(p) ==
    /\ resuming # {} \/ resumed[p] => opening
    /\ pc[p] = "idle" => ~resumed[p]
    /\ opening =>
        /\ pc[p] = "idle" \/ IsDelete(req[p])
        /\ \A d \in tasks \cup resuming : Final(d)
    /\ crashes = 0 =>
        /\ SerialInv(p)
        /\ tasks # {} => /\ tasks = {req[p]} /\ IsDelete(req[p])
                         /\ pc[p] \notin Outside \cup {"register"}

\* A large write that comes into the latest state has its data.
DataInv(p) ==
    /\ stream[p] # "bad" /\ pc[p] # "unwind"
    /\ pc[p] \in Putting /\ BringsData(p) => <<req[p].rec, req[p].data>> \in data
    /\ NewestHasData

OneStopInv(p) ==
    /\ AloneInv(p)
    /\ TasksInv(p)
    /\ pc[p] \notin Outside /\ IsDelete(req[p]) => Final(req[p])
    /\ plan[p] \in Seq(OwnItem)
    /\ DataInv(p)

LEMMA OneStopIs ==
    ASSUME NEW p, Serial(p), OneStopInv(p)
    PROVE  /\ Alone(p) /\ AloneInv(p) /\ StoreInv /\ TypeOK /\ p \in Procs /\ HandlerInv(p)
           /\ req[p] \in Message /\ req[p].rec \in Record /\ TasksInv(p)
           /\ \A d \in tasks \cup resuming : IsDelete(d) /\ d \in Message
<1>1. Alone(p) /\ AloneInv(p) /\ StoreInv /\ TasksInv(p)
  BY DEF Serial, Alone, OneStopInv, AloneInv
<1> QED  BY <1>1, AloneTypes DEF StoreInv, TypeOK

\* A delete stays final while no write is stored.
LEMMA FinalKept ==
    ASSUME NEW d, Final(d), purged \subseteq purged',
           \A x \in accepted' : x \in accepted \/ IsDelete(x)
    PROVE  Final(d)'
BY DEF Final, OfRecord, IsDelete, IsWrite

\* What each step leaves alone.
LEMMA HandSteps ==
    ASSUME NEW p, Alone(p), StoreInv, [Next]_vars
    PROVE  /\ purged \subseteq purged' /\ accepted \subseteq accepted'
           /\ \A x \in accepted' : x \in accepted \/ (PutIndex(p) /\ x = req[p])
           /\ \/ Receive(p) \/ Resume(p) \/ Reply(p) \/ Crash
              \/ req' = req /\ stream' = stream /\ resumed' = resumed
<1>1. CASE UNCHANGED vars \/ Grab \/ Crash \/ Receive(p) \/ Resume(p) \/ Reply(p) \/ Refuse(p)
  BY <1>1 DEF vars, Grab, Crash, Receive, Resume, Reply, Refuse, history, locals
<1>2. CASE Write(p) \/ Delete(p)
  BY <1>2 DEF Write, CheckParent, WriteFetch, DataPut, Unwind, DataGet, Delete, DeleteFetch,
              Register, PerformFetch, Complete, history, locals
<1>3. CASE Scan(p) \/ PutBlock(p) \/ AppendEvent(p)
  BY <1>3 DEF Scan, PutBlock, AppendEvent, history, locals
<1>4. CASE PutIndex(p)
  BY <1>4 DEF PutIndex, locals
<1>5. CASE Purge(p)
  BY <1>5 DEF Purge, PurgeDescend, PurgeGroup, PurgeData, PurgeEvents, PurgeBlock, PurgeIndex,
              PurgeEnd, history, locals
<1>6. CASE Clean(p)
  BY <1>6 DEF Clean, CleanData, CleanBlock, CleanIndex, RestoreBlock, RestoreIndex, CleanEvents,
              CleanEnd, history, locals
<1> QED  BY <1>1, <1>2, <1>3, <1>4, <1>5, <1>6 DEF Next, Run, Store, Alone

\* What the purge of the data of one record leaves alone, and where it goes on.
LEMMA PurgeDataIs ==
    ASSUME NEW p \in Procs, TypeOK, PurgeData(p)
    PROVE  /\ pc[p] = "purge" /\ plan[p] # <<>> /\ plan'[p] \in {plan[p], Tail(plan[p])}
           /\ UNCHANGED <<tasks, opening, req, stream, resumed, crashes, accepted>>
           /\ pc'[p] \in {"purgeEvents", "reply"}
<1>1. pc[p] = "purge" /\ plan[p] # <<>>
  BY DEF PurgeData
<1>2. UNCHANGED <<tasks, opening, req, stream, resumed, crashes, accepted>>
  BY DEF PurgeData
<1>3. plan' = plan \/ plan' = [plan EXCEPT ![p] = Tail(@)]
  BY DEF PurgeData
<1>4. TaskFails(p) \/ Goto(p, "purgeEvents")
  BY DEF PurgeData
<1>5. plan'[p] \in {plan[p], Tail(plan[p])}
  BY <1>3 DEF TypeOK
<1>6. pc'[p] \in {"purgeEvents", "reply"}
  BY <1>4 DEF TaskFails, Answer, Goto, TypeOK
<1> QED  BY <1>1, <1>2, <1>5, <1>6

\* A delete that is not outdated is newer than all that was ever stored of its record: what
\* was stored is covered by what is.
LEMMA NotOutdatedIsFinal ==
    ASSUME NEW p, Alone(p), AloneInv(p), DeleteFetch(p), pc'[p] = "register"
    PROVE  Final(req[p])
<1> DEFINE S == Fetched(p)
<1>0. /\ p \in Procs /\ TypeOK /\ NewestExists /\ LabelInv(p) /\ req[p] \in Message
      /\ accepted \subseteq Message /\ StoreInv
  BY AloneTypes DEF AloneInv, TypeOK
<1>1. S = OfRecord(Stored, req[p].rec)
  BY <1>0 DEF DeleteFetch, LabelInv, Fetched, OfRecord, Stored
<1>2. S # {} /\ ~Outdated(req[p], S)
  BY <1>0 DEF DeleteFetch, Answer, Goto, CanPerformDelete, TypeOK
<1>3. S \in SUBSET indexed /\ S \subseteq Message
  BY <1>0, <1>1 DEF OfRecord, Stored, TypeOK
<1>4. \A n \in S : IsNewer(req[p], n)
  <2>1. IsNewer(req[p], Newest(S))
    BY <1>2 DEF Outdated
  <2> HIDE DEF S
  <2>2. Newest(S) \in S /\ \A n \in S : n = Newest(S) \/ IsNewer(Newest(S), n)
    BY <1>0, <1>2, <1>3, NewestIn
  <2> QED  BY <1>0, <1>3, <2>1, <2>2, NewerOrder
<1>5. SUFFICES ASSUME req[p].rec \notin purged, NEW w \in OfRecord(accepted, req[p].rec)
               PROVE  IsNewer(req[p], w)
  BY DEF Final
<1>6. w \in accepted /\ w.rec = req[p].rec /\ w \in Message
  BY <1>0 DEF OfRecord
<1>7. PICK n \in Stored : n.rec = w.rec /\ (n = w \/ IsNewer(n, w))
  BY <1>0, <1>5, <1>6 DEF StoreInv, Covered
<1>8. n \in S
  BY <1>1, <1>6, <1>7 DEF OfRecord
<1> HIDE DEF S
<1> QED  BY <1>0, <1>3, <1>4, <1>6, <1>7, <1>8, NewerOrder

\* The delete in hand is final.
LEMMA FinalStep ==
    ASSUME NEW p, Serial(p), OneStopInv(p), [Next]_vars,
           pc'[p] \notin Outside, IsDelete(req'[p])
    PROVE  Final(req[p])'
<1>0. /\ Alone(p) /\ AloneInv(p) /\ StoreInv /\ TypeOK /\ p \in Procs /\ TasksInv(p)
  BY OneStopIs
<1>1. CASE Crash \/ Receive(p) \/ Reply(p)
  <2>1. pc'[p] \in Outside
    BY <1>0, <1>1 DEF Crash, Receive, Reply, Release, Goto, TypeOK, Outside
  <2> QED  BY <2>1
<1>2. CASE Resume(p)
  <2>1. req'[p] \in resuming /\ opening /\ UNCHANGED history
    BY <1>0, <1>2 DEF Resume, TasksInv, TypeOK
  <2>2. Final(req'[p])
    BY <1>0, <2>1 DEF TasksInv
  <2> QED  BY <2>1, <2>2 DEF Final, OfRecord, history
<1>3. CASE DeleteFetch(p) /\ pc'[p] = "register"
  <2>1. Final(req[p])
    BY <1>0, <1>3, NotOutdatedIsFinal
  <2> QED  BY <1>3, <2>1 DEF DeleteFetch, Final, OfRecord, history
<1>4. CASE /\ req' = req
           /\ ~(DeleteFetch(p) /\ pc'[p] = "register")
           /\ ~Crash /\ ~Receive(p) /\ ~Reply(p) /\ ~Resume(p)
  <2>1. pc[p] \notin Outside
    <3>1. ~CheckParent(p) /\ ~Refuse(p)
      BY <1>0 DEF CheckParent, Refuse, Answer, Goto, TypeOK, Outside
    <3>2. ~WriteFetch(p)
      <4>1. req'[p] = req[p]
        BY <1>4
      <4> QED  BY <1>0, <4>1 DEF WriteFetch, IsWrite, IsDelete
    <3>3. ~DeleteFetch(p)
      BY <1>0, <1>4 DEF DeleteFetch, Answer, Goto, TypeOK, Outside
    <3>4. Scan(p) => pc[p] \notin Outside
      BY <1>0 DEF Scan, Goto, TypeOK, Outside
    <3>5. CASE UNCHANGED vars \/ Grab
      BY <3>5 DEF vars, Grab
    <3>6. CASE DataPut(p) \/ Unwind(p) \/ DataGet(p) \/ Register(p) \/ PerformFetch(p)
               \/ Complete(p) \/ PutBlock(p) \/ PutIndex(p) \/ AppendEvent(p)
      BY <3>6 DEF DataPut, Unwind, DataGet, Register, PerformFetch, Complete, PutBlock, PutIndex,
                  AppendEvent, Outside
    <3>7. CASE Purge(p) \/ Clean(p)
      BY <3>7 DEF Purge, PurgeDescend, PurgeGroup, PurgeData, PurgeEvents, PurgeBlock, PurgeIndex,
                  PurgeEnd, Clean, CleanData, CleanBlock, CleanIndex, RestoreBlock, RestoreIndex,
                  CleanEvents, CleanEnd, Outside
    <3> QED  BY <1>4, <3>1, <3>2, <3>3, <3>4, <3>5, <3>6, <3>7
             DEF Next, Run, Write, Delete, Store, Serial
  <2>2. Final(req[p])
    BY <1>4, <2>1 DEF OneStopInv
  <2>3. purged \subseteq purged' /\ \A x \in accepted' : x \in accepted \/ x = req[p]
    BY <1>0, HandSteps
  <2>4. IsDelete(req[p])
    BY <1>4
  <2>5. Final(req[p])'
    BY <1>4, <2>2, <2>3, <2>4 DEF Final, OfRecord, IsDelete, IsWrite
  <2> QED  BY <2>5
<1> QED  BY <1>0, <1>1, <1>2, <1>3, <1>4, HandSteps

\* The calls of a prune stay those for messages of their records.
LEMMA OwnStep ==
    ASSUME NEW p, Serial(p), OneStopInv(p), [Next]_vars
    PROVE  plan'[p] \in Seq(OwnItem)
<1>0. /\ Alone(p) /\ StoreInv /\ TypeOK /\ p \in Procs /\ req[p].rec \in Record
      /\ plan[p] \in Seq(OwnItem) /\ OwnItem \subseteq PlanItem
  BY OneStopIs DEF OneStopInv, OwnItem
<1>1. CASE UNCHANGED vars \/ Grab \/ Receive(p) \/ Resume(p) \/ Refuse(p) \/ Write(p) \/ Delete(p)
           \/ Scan(p) \/ PutBlock(p) \/ PutIndex(p) \/ Clean(p)
  BY <1>0, <1>1
  DEF vars, Grab, Receive, Resume, Refuse, Write, CheckParent, WriteFetch, DataPut, Unwind,
      DataGet, Delete, DeleteFetch, Register, PerformFetch, Complete, Scan, PutBlock, PutIndex,
      Clean, CleanData, CleanBlock, CleanIndex, RestoreBlock, RestoreIndex, CleanEvents, CleanEnd,
      locals
<1>2. CASE Crash \/ Reply(p)
  <2>1. plan'[p] = <<>>
    BY <1>0, <1>2 DEF Crash, Reply, Release, TypeOK
  <2> QED  BY <2>1
<1>3. CASE AppendEvent(p)
  <2> DEFINE item == [op |-> "descend", rec |-> req[p].rec, msgs |-> {}]
  <2>1. plan'[p] = plan[p] \/ plan'[p] = <<item>>
    BY <1>0, <1>3 DEF AppendEvent, TypeOK
  <2>2. item \in OwnItem
    BY <1>0 DEF OwnItem, PlanItem
  <2> HIDE DEF item
  <2>3. <<item>> \in Seq(OwnItem)
    BY <2>2
  <2>4. CASE plan'[p] = plan[p]
    BY <1>0, <2>4
  <2>5. CASE plan'[p] = <<item>>
    BY <2>3, <2>5
  <2> QED  BY <2>1, <2>4, <2>5
<1>4. CASE PurgeDescend(p)
  <2> DEFINE r == Head(plan[p]).rec
             item == [op |-> "group", rec |-> r, msgs |-> Children(r)]
  <2>1. plan'[p] = <<item>> \o Tail(plan[p]) /\ plan[p] # <<>>
    BY <1>0, <1>4 DEF PurgeDescend, TypeOK
  <2>2. Head(plan[p]) \in PlanItem /\ Tail(plan[p]) \in Seq(OwnItem)
    BY <1>0, <2>1
  <2>3. item \in OwnItem
    <3>1. r \in Record /\ Children(r) \in SUBSET Message
      BY <1>0, <2>2 DEF PlanItem, Children, TypeOK
    <3> HIDE DEF r
    <3> QED  BY <3>1 DEF OwnItem, PlanItem
  <2> HIDE DEF item
  <2> QED  BY <2>1, <2>2, <2>3
<1>5. CASE PurgeGroup(p)
  <2> DEFINE S == Head(plan[p]).msgs \cap blocks
             kids == {m.rec : m \in S}
             N == 1 .. Cardinality(kids)
  <2>1. plan[p] # <<>>
    BY <1>5 DEF PurgeGroup
  <2>2. Tail(plan[p]) \in Seq(OwnItem)
    BY <1>0, <2>1
  <2>3. S \subseteq Message /\ kids \subseteq Record
    BY <1>0, Kinds DEF TypeOK
  <2>4. Cardinality(kids) \in Nat
    <3>1. IsFiniteSet(kids)
      BY <2>3, RecordsDwnAssumption, FS_Subset
    <3> QED  BY <3>1, FS_CardinalityType
  <2>5. PICK order \in [N -> kids] :
          plan' = [plan EXCEPT ![p] =
              [i \in N |-> [op |-> "descend", rec |-> order[i], msgs |-> {}]]
              \o [i \in N |-> [op |-> "purge", rec |-> order[i],
                               msgs |-> OfRecord(S, order[i])]]
              \o Tail(plan[p])]
    BY <1>5 DEF PurgeGroup
  <2> DEFINE D == [i \in N |-> [op |-> "descend", rec |-> order[i], msgs |-> {}]]
             P == [i \in N |-> [op |-> "purge", rec |-> order[i],
                                msgs |-> OfRecord(S, order[i])]]
  <2>6. \A i \in N : /\ order[i] \in Record
                     /\ OfRecord(S, order[i]) \in SUBSET Message
                     /\ \A m \in OfRecord(S, order[i]) : m.rec = order[i]
    BY <2>3 DEF OfRecord
  <2>7. D \in Seq(OwnItem) /\ P \in Seq(OwnItem)
    <3>1. \A i \in N : D[i] \in OwnItem
      BY <2>6 DEF PlanItem, OwnItem
    <3>2. \A i \in N : P[i] \in OwnItem
      <4> HIDE DEF S, N
      <4> QED  BY <2>6 DEF PlanItem, OwnItem
    <3>3. D \in [N -> OwnItem] /\ P \in [N -> OwnItem]
      <4> HIDE DEF S, N
      <4> QED  BY <3>1, <3>2
    <3> HIDE DEF D, P, kids
    <3> QED  BY <3>3, <2>4
  <2>8. plan'[p] = D \o P \o Tail(plan[p])
    BY <1>0, <2>5 DEF TypeOK
  <2> HIDE DEF D, P
  <2> QED  BY <2>2, <2>7, <2>8
<1>6. CASE PurgeData(p)
  <2>1. plan[p] # <<>> /\ plan'[p] \in {plan[p], Tail(plan[p])}
    BY <1>0, <1>6, PurgeDataIs
  <2>2. Tail(plan[p]) \in Seq(OwnItem)
    <3> HIDE DEF OwnItem
    <3> QED  BY <1>0, <2>1
  <2> HIDE DEF OwnItem
  <2> QED  BY <1>0, <2>1, <2>2
<1>7. CASE PurgeEvents(p) \/ PurgeBlock(p) \/ PurgeIndex(p) \/ PurgeEnd(p)
  BY <1>0, <1>7 DEF PurgeEvents, PurgeBlock, PurgeIndex, PurgeEnd, locals
<1> QED  BY <1>0, <1>1, <1>2, <1>3, <1>4, <1>5, <1>6, <1>7
         DEF Next, Run, Store, Purge, Alone

\* Before the first stop no task fails: every stored record has its initial write.
LEMMA NoTaskFails ==
    ASSUME NEW p, Serial(p), SerialInv(p), PerformFetch(p) \/ PurgeData(p), TaskFails(p)
    PROVE  pc'[p] \in {"complete", "putBlock", "purgeEvents"}
<1>0. /\ p \in Procs /\ TypeOK /\ req[p].rec \in Record /\ StoreInv
  BY Handler DEF SerialInv
<1>1. CASE PerformFetch(p)
  <2>1. pc[p] = "performFetch" /\ Fetched(p) = OfRecord(indexed, req[p].rec)
    BY <1>1, Found DEF PerformFetch
  <2>2. AtRest(req[p].rec)
    BY <1>0, <2>1, AllAtRest, CalmIsNotBusy DEF Calm
  <2>3. Fetched(p) # {} => \E w \in Fetched(p) : w.initial
    BY <1>0, <2>1, <2>2, InitialOf DEF AtRest, OfRecord
  <2>4. CanPerformDelete(req[p], Fetched(p)) => \E w \in Fetched(p) : w.initial
    BY <2>3 DEF CanPerformDelete
  <2> QED  BY <1>0, <1>1, <2>4 DEF PerformFetch, Goto, TypeOK
<1>2. CASE PurgeData(p)
  <2> DEFINE item == Head(plan[p])
             writes == {m \in item.msgs : IsWrite(m)}
  <2>1. pc[p] = "purge" /\ pc[p] \in Purge0 /\ plan[p] # <<>> /\ item.op = "purge"
    BY <1>2, HoldingIs DEF PurgeData
  <2>2. item = plan[p][1] /\ 1 \in Calls(p) /\ item.rec \in Record
    BY <2>1, PruningIs
  <2>3. PurgeCall(p, 1)
    BY <2>1, <2>2, PruningIs DEF PlanInv, Purges
  <2>4. /\ item.rec # req[p].rec /\ Exists(item.rec)
        /\ item.msgs = OfRecord(indexed, item.rec)
    BY <2>2, <2>3 DEF PurgeCall
  <2>5. AtRest(item.rec)
    BY <2>1, <2>2, <2>4, BetweenCalls
  <2>6. InitialWrite(item.rec) \in writes
    <3>1. InitialWrite(item.rec) \in indexed
      BY <2>4, <2>5 DEF AtRest, Exists
    <3> QED  BY <2>2, <2>4, <3>1, InitialOf DEF OfRecord
  <2>7. writes # {} /\ Goto(p, "purgeEvents")
    BY <1>2, <2>6 DEF PurgeData
  <2> QED  BY <1>0, <2>7 DEF Goto, TypeOK
<1> QED  BY <1>1, <1>2

\* A step that is none of an open(), and neither begins nor ends a task.
LEMMA TasksStay ==
    ASSUME NEW p, Serial(p), OneStopInv(p), SerialInv(p) => SerialInv(p)',
           UNCHANGED <<tasks, resuming, opening, resumed, req, crashes>>,
           purged \subseteq purged', \A x \in accepted' : x \in accepted \/ x = req[p],
           pc[p] # "idle",
           pc'[p] # "idle",
           \/ pc'[p] \notin Outside \cup {"register"}
           \/ crashes = 0 => tasks = {}
    PROVE  TasksInv(p)'
<1>1. TasksInv(p) /\ \A d \in tasks \cup resuming : IsDelete(d) /\ d \in Message
  BY OneStopIs
<1>2. opening => IsDelete(req[p])
  BY <1>1 DEF TasksInv
<1>3. ASSUME opening, NEW d \in tasks \cup resuming PROVE Final(d)'
  <2>1. Final(d)
    BY <1>1, <1>3 DEF TasksInv
  <2> QED  BY <1>2, <1>3, <2>1, FinalKept
<1> QED  BY <1>1, <1>2, <1>3 DEF TasksInv

\* Until the first stop there is no task but the one in hand.
LEMMA NoTask ==
    ASSUME NEW p, Serial(p), OneStopInv(p), crashes = 0,
           pc[p] \in Outside \cup {"register", "integrity", "dataPut", "dataGet"} \/ IsWrite(req[p])
    PROVE  tasks = {}
<1>1. TasksInv(p) /\ SerialInv(p)
  BY OneStopIs DEF TasksInv
<1>2. pc[p] \in {"dataPut", "dataGet"} => IsWrite(req[p])
  BY <1>1 DEF SerialInv, Knows
<1>3. IsWrite(req[p]) => ~IsDelete(req[p])
  BY DEF IsWrite, IsDelete
<1> QED  BY <1>1, <1>2, <1>3 DEF TasksInv, Outside

\* What open() takes up again is final, and is all that is taken up again.
LEMMA TasksStep ==
    ASSUME NEW p, Serial(p), MaxCrashes <= 1, OneStopInv(p), [Next]_vars
    PROVE  TasksInv(p)'
<1>0. /\ Alone(p) /\ AloneInv(p) /\ StoreInv /\ TypeOK /\ p \in Procs /\ TasksInv(p)
      /\ HandlerInv(p) /\ req[p] \in Message /\ crashes \in Nat /\ MaxCrashes \in Nat
      /\ \A d \in tasks \cup resuming : IsDelete(d) /\ d \in Message
  BY OneStopIs, RecordsDwnAssumption DEF TypeOK
<1>1. /\ purged \subseteq purged' /\ \A x \in accepted' : x \in accepted \/ x = req[p]
  BY <1>0, HandSteps
<1>2. ~Crash => (SerialInv(p) => SerialInv(p)')
  BY SerialStep
<1>3. CASE UNCHANGED vars
  <2>1. UNCHANGED <<tasks, resuming, opening, resumed, req, crashes, pc, history>> /\ ~Crash
    BY <1>0, <1>3 DEF vars, stores, locals, Crash
  <2>2. \A d : Final(d)' <=> Final(d)
    BY <2>1 DEF Final, OfRecord, history
  <2> QED  BY <1>0, <1>2, <2>1, <2>2 DEF TasksInv
<1>4. CASE Grab
  <2>1. /\ opening /\ pc[p] = "idle" /\ resuming' \subseteq tasks /\ opening' = (resuming' # {})
        /\ UNCHANGED <<tasks, resumed, req, crashes, pc, history>> /\ ~Crash
    BY <1>0, <1>4 DEF Grab, NoneRunning, stores, locals, Crash
  <2>2. \A d : Final(d)' <=> Final(d)
    BY <2>1 DEF Final, OfRecord, history
  <2> QED  BY <1>0, <1>2, <2>1, <2>2 DEF TasksInv
<1>5. CASE Crash
  <2>1. /\ crashes = 0 /\ crashes' = 1 /\ resuming' = {} /\ opening'
        /\ pc'[p] = "idle" /\ resumed'[p] = FALSE /\ UNCHANGED <<tasks, history>>
    BY <1>0, <1>5 DEF Crash, stores
  <2>2. \A d \in tasks : Final(d)
    BY <1>0, <2>1 DEF TasksInv, OneStopInv
  <2>3. \A d \in tasks : Final(d)'
    BY <2>1, <2>2 DEF Final, OfRecord, history
  <2> QED  BY <2>1, <2>3 DEF TasksInv
<1>6. CASE Receive(p)
  <2>1. /\ ~opening /\ pc[p] = "idle" /\ pc'[p] \in {"integrity", "scan"}
        /\ UNCHANGED <<tasks, resuming, opening, resumed, crashes>> /\ ~Crash
    BY <1>0, <1>6 DEF Receive, Goto, TypeOK, stores, Crash
  <2>2. crashes = 0 => tasks = {}
    BY <2>1, NoTask DEF Outside
  <2> QED  BY <1>0, <1>2, <2>1, <2>2 DEF TasksInv
<1>7. CASE Resume(p)
  <2>1. /\ resuming' \subseteq resuming /\ resuming # {} /\ req'[p] \in resuming
        /\ pc'[p] = "performScan"
        /\ UNCHANGED <<tasks, opening, crashes, history>>
    BY <1>0, <1>7 DEF Resume, Goto, TypeOK, stores
  <2>2. opening /\ crashes # 0
    BY <1>0, <2>1 DEF TasksInv, SerialInv
  <2>3. \A d : Final(d)' <=> Final(d)
    BY <2>1 DEF Final, OfRecord, history
  <2> QED  BY <1>0, <2>1, <2>2, <2>3 DEF TasksInv
<1>8. CASE Reply(p)
  <2>1. /\ pc[p] = "reply" /\ pc'[p] = "idle" /\ resumed'[p] = FALSE
        /\ UNCHANGED <<tasks, resuming, opening, crashes, history>> /\ ~Crash
    BY <1>0, <1>8 DEF Reply, Release, Goto, TypeOK, stores, Crash
  <2>2. crashes = 0 => tasks = {}
    BY <2>1, NoTask DEF Outside
  <2>3. \A d : Final(d)' <=> Final(d)
    BY <2>1 DEF Final, OfRecord, history
  <2> QED  BY <1>0, <1>2, <2>1, <2>2, <2>3 DEF TasksInv
<1>9. CASE CheckParent(p) \/ Refuse(p) \/ WriteFetch(p) \/ DataPut(p) \/ DataGet(p)
           \/ DeleteFetch(p) \/ (Scan(p) /\ pc[p] = "scan")
  <2>1. /\ UNCHANGED <<tasks, resuming, opening, resumed, req, crashes>> /\ ~Crash
        /\ pc[p] \in {"integrity", "scan", "register", "fetch", "dataPut", "dataGet"}
    BY <1>0, <1>9 DEF CheckParent, Refuse, WriteFetch, DataPut, DataGet, DeleteFetch, Scan, stores,
                      locals, Crash
  <2>2. pc'[p] # "idle"
    <3>1. ASSUME WriteFetch(p) PROVE pc'[p] # "idle"
      <4>1. Answer(p, 400) \/ Answer(p, 409) \/ TakeData(p, Fetched(p))
        BY <3>1 DEF WriteFetch
      <4> QED  BY <1>0, <4>1 DEF TakeData, Answer, Goto, TypeOK
    <3> QED  BY <1>0, <1>9, <3>1 DEF CheckParent, Refuse, DataPut, DataGet, DeleteFetch, Scan,
                                     Answer, Goto, TypeOK
  <2>3. crashes = 0 => tasks = {}
    BY <2>1, NoTask DEF Outside
  <2> QED  BY <1>1, <1>2, <2>1, <2>2, <2>3, TasksStay
<1>10. CASE Unwind(p)
  BY <1>10 DEF Unwind, OneStopInv, DataInv
<1>11. CASE Register(p)
  <2>1. /\ pc[p] = "register" /\ pc'[p] = "performScan" /\ tasks' = tasks \cup {req[p]}
        /\ UNCHANGED <<resuming, opening, resumed, req, crashes, history>> /\ ~Crash
    BY <1>0, <1>11 DEF Register, Goto, TypeOK, locals, Crash
  <2>2. IsDelete(req[p])
    BY <1>0, <2>1 DEF HandlerInv, Performing
  <2>3. Final(req[p])
    BY <2>1, <2>2 DEF OneStopInv, Outside
  <2>4. crashes = 0 => tasks = {}
    BY <2>1, NoTask
  <2>5. \A d : Final(d)' <=> Final(d)
    BY <2>1 DEF Final, OfRecord, history
  <2>6. tasks' = {} \/ crashes # 0 \/ (tasks' = {req'[p]} /\ IsDelete(req'[p]))
    BY <2>1, <2>2, <2>4
  <2>7. \A d \in tasks' \cup resuming' : d \in tasks \cup resuming \/ d = req[p]
    BY <2>1
  <2>8. opening' => \A d \in tasks' \cup resuming' : Final(d)'
    BY <1>0, <2>1, <2>3, <2>5, <2>7 DEF TasksInv
  <2>9. pc'[p] \notin Outside \cup {"register"}
    BY <2>1 DEF Outside
  <2>10. crashes' = 0 => SerialInv(p)'
    BY <1>0, <1>2, <2>1 DEF TasksInv
  <2>11. (resuming # {} \/ resumed[p] => opening)' /\ (pc[p] = "idle" => ~resumed[p])'
    BY <1>0, <2>1 DEF TasksInv
  <2>12. (crashes = 0 =>
            /\ SerialInv(p)
            /\ tasks # {} => /\ tasks = {req[p]} /\ IsDelete(req[p])
                             /\ pc[p] \notin Outside \cup {"register"})'
    BY <2>1, <2>6, <2>9, <2>10
  <2>13. (opening =>
            /\ pc[p] = "idle" \/ IsDelete(req[p])
            /\ \A d \in tasks \cup resuming : Final(d))'
    BY <2>1, <2>2, <2>8
  <2> QED  BY <2>11, <2>12, <2>13, Zenon DEF TasksInv
<1>12. CASE PerformFetch(p) \/ PurgeData(p)
  <2>1. /\ pc[p] \in {"performFetch", "purge"}
        /\ UNCHANGED <<tasks, opening, resumed, req, crashes>>
        /\ accepted' = accepted /\ ~Crash
    <3>1. crashes' = crashes => ~Crash
      BY <1>0 DEF Crash
    <3>2. CASE PerformFetch(p)
      BY <3>1, <3>2 DEF PerformFetch, stores, history
    <3>3. CASE PurgeData(p)
      BY <1>0, <3>1, <3>3, PurgeDataIs
    <3> QED  BY <1>12, <3>2, <3>3
  <2>2. IsDelete(req[p])
    BY <1>0, <2>1 DEF HandlerInv, Performing
  <2>3. Final(req[p])
    BY <2>1, <2>2 DEF OneStopInv, Outside
  <2>4. CASE TaskFails(p)
    <3>1. /\ resuming' = resuming \/ (resuming' = resuming \cup {req[p]} /\ resumed[p])
          /\ pc'[p] = "reply"
      BY <1>0, <2>4 DEF TaskFails, Answer, Goto, TypeOK
    <3>2. crashes # 0
      BY <1>0, <1>12, <2>4, <3>1, NoTaskFails DEF TasksInv
    <3>3. \A d : Final(d) => Final(d)'
      BY <1>1, <2>1 DEF Final, OfRecord
    <3> QED  BY <1>0, <2>1, <2>2, <2>3, <3>1, <3>2, <3>3 DEF TasksInv
  <2>5. CASE ~TaskFails(p)
    <3>1. resuming' = resuming /\ pc'[p] \in {"complete", "putBlock", "purgeEvents"}
      BY <1>0, <1>12, <2>5 DEF PerformFetch, PurgeData, Goto, TypeOK
    <3> QED  BY <1>1, <1>2, <2>1, <3>1, TasksStay DEF Outside
  <2> QED  BY <2>4, <2>5
<1>13. CASE Complete(p)
  <2>1. /\ pc[p] = "complete" /\ pc'[p] = "reply" /\ tasks' = tasks \ {req[p]}
        /\ UNCHANGED <<resuming, opening, resumed, req, crashes, history>> /\ ~Crash
    BY <1>0, <1>13 DEF Complete, Answer, Goto, TypeOK, Crash
  <2>2. crashes = 0 => tasks' = {}
    BY <1>0, <2>1 DEF TasksInv
  <2>3. \A d : Final(d)' <=> Final(d)
    BY <2>1 DEF Final, OfRecord, history
  <2> QED  BY <1>0, <1>2, <2>1, <2>2, <2>3 DEF TasksInv
<1>14. CASE (Scan(p) /\ pc[p] = "performScan") \/ PutBlock(p) \/ PutIndex(p) \/ AppendEvent(p)
  <2>1. /\ UNCHANGED <<tasks, resuming, opening, resumed, req, crashes>> /\ ~Crash
        /\ pc[p] \in {"performScan", "putBlock", "putIndex", "append"}
        /\ pc'[p] \in {"performFetch", "putIndex", "append", "purge", "clean"}
    BY <1>0, <1>14 DEF Scan, PutBlock, PutIndex, AppendEvent, Goto, TypeOK, stores, locals, Crash
  <2> QED  BY <1>1, <1>2, <2>1, TasksStay DEF Outside
<1>15. CASE PurgeDescend(p) \/ PurgeGroup(p) \/ PurgeEvents(p) \/ PurgeBlock(p) \/ PurgeIndex(p)
            \/ PurgeEnd(p)
  <2>1. /\ UNCHANGED <<tasks, resuming, opening, resumed, req, crashes>> /\ ~Crash
        /\ pc[p] \in {"purge", "purgeEvents", "purgeBlock", "purgeIndex"}
        /\ pc'[p] \in {"purge", "purgeEvents", "purgeBlock", "purgeIndex", "clean"}
    BY <1>0, <1>15 DEF PurgeDescend, PurgeGroup, PurgeEvents, PurgeBlock, PurgeIndex, PurgeEnd,
                       Goto, TypeOK, stores, locals, Crash
  <2> QED  BY <1>1, <1>2, <2>1, TasksStay DEF Outside
<1>16. CASE Clean(p) /\ ~CleanEnd(p)
  <2>1. /\ UNCHANGED <<tasks, resuming, opening, resumed, req, crashes>> /\ ~Crash
        /\ pc[p] \in Cleaning /\ pc'[p] \in Cleaning
    BY <1>0, <1>16 DEF Clean, CleanData, CleanBlock, CleanIndex, RestoreBlock, RestoreIndex,
                       CleanEvents, Goto, TypeOK, stores, locals, Crash, Cleaning, CleaningOne
  <2> QED  BY <1>1, <1>2, <2>1, TasksStay DEF Outside, Cleaning, CleaningOne
<1>17. CASE CleanEnd(p)
  <2>1. /\ UNCHANGED <<tasks, resuming, opening, resumed, req, crashes>> /\ ~Crash
        /\ pc[p] = "clean"
        /\ pc'[p] = "complete" \/ (pc'[p] = "reply" /\ IsWrite(req[p]))
    BY <1>0, <1>17 DEF CleanEnd, Answer, Goto, TypeOK, stores, Crash
  <2>2. IsWrite(req[p]) => (crashes = 0 => tasks = {})
    BY NoTask
  <2> QED  BY <1>1, <1>2, <2>1, <2>2, TasksStay DEF Outside
<1> QED  BY <1>0, <1>3, <1>4, <1>5, <1>6, <1>7, <1>8, <1>9, <1>10, <1>11, <1>12, <1>13, <1>14,
            <1>15, <1>16, <1>17 DEF Next, Run, Write, Delete, Store, Purge, Scan, Alone

\* A large write that is to come into the latest state comes with its data or finds it.
LEMMA HeldStep ==
    ASSUME NEW p, Serial(p), OneStopInv(p), [Next]_vars
    PROVE  /\ stream'[p] # "bad" /\ pc'[p] # "unwind"
           /\ pc'[p] \in Putting /\ BringsData(p)' => <<req'[p].rec, req'[p].data>> \in data'
<1>0. /\ Alone(p) /\ StoreInv /\ TypeOK /\ p \in Procs /\ HandlerInv(p)
      /\ req[p] \in Message /\ TasksInv(p)
      /\ \A d \in resuming : IsDelete(d)
      /\ stream[p] # "bad" /\ pc[p] # "unwind"
  BY OneStopIs DEF OneStopInv, DataInv
<1>1. CASE Receive(p) \/ Resume(p) \/ Reply(p) \/ Crash
  <2>1. pc'[p] \notin Putting /\ pc'[p] # "unwind"
    BY <1>0, <1>1 DEF Receive, Resume, Reply, Crash, Release, Goto, TypeOK, Putting
  <2>2. CASE Receive(p)
    <3>1. PICK s \in Streams \cup {"none"} : stream' = [stream EXCEPT ![p] = s]
      BY <2>2 DEF Receive
    <3>2. stream'[p] # "bad"
      BY <1>0, <3>1 DEF Serial, TypeOK
    <3> QED  BY <2>1, <3>2
  <2>3. CASE Resume(p) \/ Reply(p) \/ Crash
    <3>1. stream'[p] # "bad"
      BY <1>0, <2>3 DEF Resume, Reply, Crash, Release, TypeOK
    <3> QED  BY <2>1, <3>1
  <2> QED  BY <1>1, <2>2, <2>3
<1>2. ASSUME req' = req, stream' = stream PROVE BringsData(p)' <=> BringsData(p)
  BY <1>2 DEF BringsData, BecomesLatest
<1>3. CASE WriteFetch(p)
  <2>1. /\ req' = req /\ stream' = stream /\ data' = data
        /\ Answer(p, 400) \/ Answer(p, 409) \/ TakeData(p, Fetched(p))
    BY <1>3 DEF WriteFetch, stores
  <2>2. pc'[p] # "unwind"
    BY <1>0, <2>1 DEF TakeData, Answer, Goto, TypeOK
  <2>3. pc'[p] \notin Putting \/ ~BringsData(p)
    <3>1. CASE Answer(p, 400) \/ Answer(p, 409)
      BY <1>0, <3>1 DEF Answer, Goto, TypeOK, Putting
    <3>2. CASE TakeData(p, Fetched(p))
      BY <1>0, <3>2 DEF TakeData, Answer, Goto, TypeOK, Putting, BringsData, BecomesLatest
    <3> QED  BY <2>1, <3>1, <3>2
  <2> QED  BY <1>0, <1>2, <2>1, <2>2, <2>3
<1>4. CASE DataPut(p) \/ DataGet(p)
  <2>1. req' = req /\ stream' = stream
    BY <1>4 DEF DataPut, DataGet, locals
  <2>2. pc'[p] = "reply" \/ (pc'[p] = "putBlock" /\ <<req[p].rec, req[p].data>> \in data')
    BY <1>0, <1>4 DEF DataPut, DataGet, Answer, Goto, TypeOK, stores
  <2> QED  BY <1>0, <2>1, <2>2 DEF Putting
<1>5. CASE PerformFetch(p)
  <2>1. req' = req /\ stream' = stream /\ IsDelete(req[p])
        /\ pc'[p] \in {"complete", "reply", "putBlock"}
    BY <1>0, <1>5 DEF PerformFetch, TaskFails, Answer, Goto, TypeOK, HandlerInv, Performing
  <2>2. ~BringsData(p)
    BY <2>1 DEF BringsData, IsWrite, IsDelete
  <2> QED  BY <1>0, <1>2, <2>1, <2>2
<1>6. CASE PutBlock(p) \/ PutIndex(p) \/ Grab \/ UNCHANGED vars
  <2>1. /\ UNCHANGED <<req, stream, data>>
        /\ pc'[p] = pc[p] \/ (pc[p] \in Putting /\ pc'[p] \in {"putIndex", "append"})
    BY <1>0, <1>6 DEF PutBlock, PutIndex, Grab, vars, stores, locals, Goto, TypeOK, Putting
  <2>2. pc'[p] # "unwind" /\ (pc'[p] \in Putting => pc[p] \in Putting)
    BY <1>0, <2>1 DEF Putting
  <2> QED  BY <1>0, <1>2, <2>1, <2>2 DEF OneStopInv, DataInv
<1>7. CASE CheckParent(p) \/ Refuse(p) \/ DeleteFetch(p) \/ Register(p) \/ Complete(p) \/ Scan(p)
           \/ AppendEvent(p)
  <2>1. /\ UNCHANGED <<req, stream, data>>
        /\ pc'[p] \notin Putting /\ pc'[p] # "unwind"
    BY <1>0, <1>7 DEF CheckParent, Refuse, DeleteFetch, Register, Complete, Scan, AppendEvent,
                      Answer, Goto, TypeOK, stores, locals, Putting
  <2> QED  BY <1>0, <2>1
<1>8. CASE Purge(p)
  <2>1. UNCHANGED <<req, stream>> /\ pc'[p] \notin Putting /\ pc'[p] # "unwind"
    <3>1. CASE PurgeData(p)
      BY <1>0, <3>1, PurgeDataIs DEF Putting
    <3>2. CASE ~PurgeData(p)
      BY <1>0, <1>8, <3>2 DEF Purge, PurgeDescend, PurgeGroup, PurgeEvents, PurgeBlock, PurgeIndex,
                              PurgeEnd, Goto, TypeOK, locals, Putting
    <3> QED  BY <3>1, <3>2
  <2> QED  BY <1>0, <2>1
<1>9. CASE Clean(p)
  <2>1. /\ UNCHANGED <<req, stream>> /\ pc'[p] \notin Putting /\ pc'[p] # "unwind"
    BY <1>0, <1>9 DEF Clean, CleanData, CleanBlock, CleanIndex, RestoreBlock, RestoreIndex,
                      CleanEvents, CleanEnd, Answer, Goto, TypeOK, locals, Putting
  <2> QED  BY <1>0, <2>1
<1>10. ~Unwind(p)
  BY <1>0 DEF Unwind
<1> QED  BY <1>0, <1>1, <1>3, <1>4, <1>5, <1>6, <1>7, <1>8, <1>9, <1>10
         DEF Next, Run, Write, Delete, Store, Alone

\* The data of a newest state is taken only with its record: what is cleaned up is older,
\* and the data that the newest message shares with it is kept.
LEMMA DataStays ==
    ASSUME NEW p, Serial(p), OneStopInv(p), [Next]_vars, NEW r \in Record \ purged',
           NEW n \in OfRecord(Stored, r), \A x \in OfRecord(Stored, r) : x = n \/ IsNewer(n, x),
           IsWrite(n), n \in latest, <<r, n.data>> \in data
    PROVE  <<r, n.data>> \in data'
<1>0. /\ Alone(p) /\ AloneInv(p) /\ StoreInv /\ TypeOK /\ p \in Procs /\ HandlerInv(p)
      /\ req[p] \in Message /\ LabelInv(p)
      /\ n \in Message /\ n.rec = r /\ n \in Stored /\ OfRecord(Stored, r) \subseteq Message
      /\ pc[p] # "unwind"
  BY OneStopIs DEF OneStopInv, DataInv, AloneInv, OfRecord, Stored, TypeOK
<1>1. CASE UNCHANGED vars \/ Grab \/ Crash \/ Receive(p) \/ Resume(p) \/ Reply(p) \/ Refuse(p)
           \/ CheckParent(p) \/ WriteFetch(p) \/ DataPut(p) \/ DataGet(p) \/ Delete(p) \/ Store(p)
  BY <1>1 DEF vars, Grab, Crash, Receive, Resume, Reply, Refuse, CheckParent, WriteFetch, DataPut,
              DataGet, Delete, DeleteFetch, Register, PerformFetch, Complete, Store, Scan, PutBlock,
              PutIndex, AppendEvent, stores
<1>2. CASE PurgeDescend(p) \/ PurgeGroup(p) \/ PurgeEvents(p) \/ PurgeBlock(p) \/ PurgeIndex(p)
           \/ PurgeEnd(p) \/ (Clean(p) /\ ~CleanData(p))
  BY <1>2 DEF PurgeDescend, PurgeGroup, PurgeEvents, PurgeBlock, PurgeIndex, PurgeEnd, Clean,
              CleanBlock, CleanIndex, RestoreBlock, RestoreIndex, CleanEvents, CleanEnd, stores
<1>3. CASE PurgeData(p)
  <2> DEFINE item == Head(plan[p])
             writes == {m \in item.msgs : IsWrite(m)}
  <2>1. item \in OwnItem /\ item.op = "purge"
    <3>1. plan[p] # <<>> /\ item.op = "purge"
      BY <1>3 DEF PurgeData
    <3>2. plan[p] \in Seq(OwnItem)
      BY DEF OneStopInv
    <3> QED  BY <3>1, <3>2
  <2>2. CASE writes = {}
    BY <1>3, <2>2 DEF PurgeData
  <2>3. CASE writes # {}
    <3>1. /\ data' = data \ {<<item.rec, Newest(writes).data>>}
          /\ purged' = purged \cup {m.rec : m \in item.msgs}
      BY <1>3, <2>3 DEF PurgeData
    <3>2. \A m \in item.msgs : m.rec = item.rec
      BY <2>1 DEF OwnItem
    <3>3. item.rec \in purged'
      BY <2>3, <3>1, <3>2
    <3>4. item.rec # r
      BY <3>3
    <3> HIDE DEF item, writes
    <3> QED  BY <3>1, <3>4
  <2> QED  BY <2>2, <2>3
<1>4. CASE CleanData(p)
  <2>1. PICK m \in todo[p] :
          data' = IF IsWrite(m) /\ IsLarge(m) /\ m.data # req[p].data
                  THEN data \ {<<m.rec, m.data>>} ELSE data
    BY <1>4 DEF CleanData
  <2>2. /\ pc[p] = "clean" /\ req[p] \in accepted /\ purged' = purged
        /\ \A x \in todo[p] : x.rec = req[p].rec /\ IsOlder(x, req[p])
    BY <1>0, <1>4 DEF CleanData, HandlerInv, AfterPut, Cleaning, Older, OfRecord, history
  <2>3. CASE m.rec # r \/ n.data = req[p].data \/ n.data # m.data
    BY <2>1, <2>3
  <2>4. CASE m.rec = r /\ n.data # req[p].data
    <3>1. req[p].rec = r /\ n # req[p]
      BY <2>2, <2>4
    <3>2. PICK x \in Stored \cap accepted : x.rec = r /\ (x = req[p] \/ IsNewer(x, req[p]))
      BY <1>0, <2>2, <3>1 DEF StoreInv, Covered
    <3>3. x \in OfRecord(Stored, r)
      BY <3>2 DEF OfRecord
    <3>4. IsNewer(n, req[p])
      BY <1>0, <3>1, <3>2, <3>3, NewerOrder
    <3>5. CASE IsDelete(req[p])
      <4>1. Final(req[p])
        BY <2>2, <3>5 DEF OneStopInv, Outside
      <4>2. n \in OfRecord(accepted, r)
        BY <1>0 DEF OfRecord, Stored, StoreInv
      <4>3. IsNewer(req[p], n)
        BY <2>2, <3>1, <4>1, <4>2 DEF Final
      <4> QED  BY <1>0, <3>4, <4>3, NewerOrder
    <3>6. CASE IsWrite(req[p])
      <4>1. n \in todo[p]
        BY <1>0, <2>2, <3>1, <3>6 DEF LabelInv, WriteCleans, Cleaning, CleaningOne, Kept
      <4>2. IsNewer(req[p], n)
        BY <1>0, <2>2, <4>1, NewerOrder
      <4> QED  BY <1>0, <3>4, <4>2, NewerOrder
    <3> QED  BY <1>0, <3>5, <3>6, Kinds
  <2> QED  BY <2>3, <2>4
<1>5. ~Unwind(p)
  BY <1>0 DEF Unwind
<1> QED  BY <1>0, <1>1, <1>2, <1>3, <1>4, <1>5 DEF Next, Run, Write, Purge, Clean, Alone

\* What a step brings into the latest state is the message in hand, with its data.
LEMMA LatestStep ==
    ASSUME NEW p, Serial(p), OneStopInv(p), [Next]_vars, NEW n \in latest', n \notin latest
    PROVE  PutIndex(p) /\ n = req[p] /\ BecomesLatest(p)
<1>0. Alone(p)
  BY OneStopIs
<1>1. CASE UNCHANGED vars \/ Grab \/ Crash \/ Receive(p) \/ Resume(p) \/ Reply(p) \/ Refuse(p)
           \/ Write(p) \/ Delete(p) \/ Scan(p) \/ PutBlock(p) \/ AppendEvent(p)
  BY <1>1 DEF vars, Grab, Crash, Receive, Resume, Reply, Refuse, Write, CheckParent, WriteFetch,
              DataPut, Unwind, DataGet, Delete, DeleteFetch, Register, PerformFetch, Complete, Scan,
              PutBlock, AppendEvent, stores
<1>2. CASE Purge(p) \/ Clean(p)
  BY <1>2 DEF Purge, PurgeDescend, PurgeGroup, PurgeData, PurgeEvents, PurgeBlock, PurgeIndex,
              PurgeEnd, Clean, CleanData, CleanBlock, CleanIndex, RestoreBlock, RestoreIndex,
              CleanEvents, CleanEnd, stores
<1>3. CASE PutIndex(p)
  BY <1>3 DEF PutIndex
<1> QED  BY <1>0, <1>1, <1>2, <1>3 DEF Next, Run, Store, Alone

\* A newest write of the latest state is the one that was, or comes with its data.
LEMMA NewestHasDataStep ==
    ASSUME NEW p, Serial(p), OneStopInv(p), AloneInv(p)', [Next]_vars
    PROVE  NewestHasData'
<1>0. /\ Alone(p) /\ AloneInv(p) /\ StoreInv /\ TypeOK /\ TypeOK' /\ p \in Procs /\ HandlerInv(p)
      /\ req[p] \in Message /\ cur[p] \in Message /\ LabelInv(p) /\ NewestExists /\ NewestExists'
  BY OneStopIs, AloneTypes DEF AloneInv, StoreInv
<1> SUFFICES ASSUME NEW r \in Record \ purged',
                    OfRecord(Stored', r) # {}, NEW n, n = Newest(OfRecord(Stored', r)),
                    IsWrite(n), IsLarge(n), n \in latest'
             PROVE  <<r, n.data>> \in data'
  BY DEF NewestHasData
<1> DEFINE S == OfRecord(Stored, r)
           T == OfRecord(Stored', r)
<1>1. /\ S \in SUBSET indexed /\ T \in SUBSET indexed' /\ S \subseteq Message
      /\ T \subseteq Message /\ r \notin purged
  BY <1>0, HandSteps DEF OfRecord, Stored, TypeOK
<1>2. n \in T /\ \A x \in T : x = n \/ IsNewer(n, x)
  <2>1. \A X \in SUBSET indexed' : X # {} => \E m \in X : \A x \in X : ~IsNewer(x, m)
    BY <1>0 DEF NewestExists
  <2>2. T # {}
    OBVIOUS
  <2> HIDE DEF T
  <2>3. \E m \in T : \A x \in T : ~IsNewer(x, m)
    BY <1>1, <2>1, <2>2
  <2>4. Newest(T) \in T /\ \A x \in T : ~IsNewer(x, Newest(T))
    BY <2>3 DEF Newest
  <2>5. n = Newest(T)
    BY DEF T
  <2> QED  BY <1>1, <2>4, <2>5, NewerOrder
<1>3. n \in Message /\ n.rec = r
  BY <1>1, <1>2 DEF OfRecord
\* The message in hand, newly in the latest state.
<1>4. CASE n \notin latest
  <2>1. PutIndex(p) /\ n = req[p] /\ BecomesLatest(p)
    BY <1>4, LatestStep
  <2>2. <<req[p].rec, req[p].data>> \in data
    BY <2>1 DEF OneStopInv, DataInv, PutIndex, Putting, BringsData
  <2> QED  BY <1>3, <2>1, <2>2 DEF PutIndex
\* The newest that was.
<1>5. ASSUME n \in latest, n \in S, \A x \in S : x = n \/ IsNewer(n, x)
      PROVE  <<r, n.data>> \in data'
  <2>1. Newest(S) = n
    <3> HIDE DEF S
    <3> QED  BY <1>1, <1>5, NewestIs
  <2>2. <<r, n.data>> \in data
    BY <1>1, <1>5, <2>1 DEF OneStopInv, DataInv, NewestHasData
  <2> QED  BY <1>5, <2>2, DataStays
<1>6. CASE n \in latest /\ T = S
  BY <1>2, <1>5, <1>6
<1>7. CASE n \in latest /\ (PutBlock(p) \/ PutIndex(p)) /\ r = req[p].rec
  <2>1. S \subseteq T /\ T \subseteq S \cup {req[p]} /\ data' = data
    BY <1>7 DEF PutBlock, PutIndex, OfRecord, Stored
  <2>2. CASE n # req[p]
    BY <1>2, <1>5, <1>7, <2>1, <2>2
  <2>3. CASE n = req[p] /\ n \in S
    BY <1>2, <1>5, <1>7, <2>1, <2>3
  <2>4. CASE n = req[p] /\ n \notin S
    <3>1. CASE PutIndex(p)
      <4>1. BecomesLatest(p)
        BY <2>4, <3>1 DEF PutIndex
      <4>2. <<req[p].rec, req[p].data>> \in data
        BY <2>4, <3>1, <4>1 DEF OneStopInv, DataInv, PutIndex, Putting, BringsData
      <4> QED  BY <1>7, <2>1, <2>4, <4>2
    <3>2. CASE PutBlock(p)
      <4>1. n \in indexed /\ n \in accepted
        BY <1>0, <1>2, <3>2 DEF PutBlock, OfRecord, Stored, StoreInv
      <4>2. PICK x \in Stored : x.rec = r /\ (x = n \/ IsNewer(x, n))
        BY <1>0, <1>1, <1>3, <4>1 DEF StoreInv, Covered
      <4>3. x \in S /\ x # n
        BY <2>4, <4>2 DEF OfRecord
      <4> QED  BY <1>1, <1>2, <1>3, <2>1, <4>2, <4>3, NewerOrder
    <3> QED  BY <1>7, <3>1, <3>2
  <2> QED  BY <2>2, <2>3, <2>4
<1>8. CASE /\ n \in latest
           /\ CleanBlock(p) \/ CleanIndex(p) \/ RestoreBlock(p) \/ RestoreIndex(p)
           /\ r = cur[p].rec
  <2>1. S \ {cur[p]} \subseteq T /\ T \subseteq S \cup {cur[p]}
    BY <1>8 DEF CleanBlock, CleanIndex, RestoreBlock, RestoreIndex, OfRecord, Stored
  <2>2. Overtaken(cur[p])
    <3>1. pc[p] \in CleaningOne
      BY <1>8 DEF CleanBlock, CleanIndex, RestoreBlock, RestoreIndex, CleaningOne
    <3> QED  BY <1>0, <1>1, <1>8, <3>1, CleanedIsOld
  <2>3. PICK y \in S : IsNewer(y, cur[p])
    BY <1>1, <1>8, <2>2 DEF Overtaken, OfRecord
  <2>4. y \in T /\ IsNewer(n, cur[p]) /\ n # cur[p]
    <3>1. y # cur[p] /\ y \in Message
      BY <1>0, <1>1, <2>3, NewerOrder
    <3>2. y \in T
      BY <2>1, <2>3, <3>1
    <3> QED  BY <1>0, <1>2, <1>3, <2>3, <3>1, <3>2, NewerOrder
  <2>5. n \in S /\ \A x \in S : x = n \/ IsNewer(n, x)
    BY <1>2, <2>1, <2>4
  <2> QED  BY <1>5, <1>8, <2>5
<1>9. T = OfRecord(Stored, r)'
  BY DEF OfRecord
<1> QED  BY <1>0, <1>4, <1>6, <1>7, <1>8, <1>9, StoredStep

\* At the start nothing is stored and nothing is to be resumed, ...
LEMMA OneStopInit ==
    ASSUME NEW p, Serial(p), Init
    PROVE  OneStopInv(p)
<1>1. /\ p \in Procs /\ pc[p] = "idle" /\ indexed = {} /\ stream[p] = "none" /\ plan[p] = <<>>
      /\ tasks = {} /\ resuming = {} /\ resumed[p] = FALSE
  BY DEF Init, Serial
<1>2. AloneInv(p) /\ SerialInv(p)
  BY SerialInit, AloneInit DEF Serial, Alone
<1>3. TasksInv(p)
  BY <1>1, <1>2 DEF TasksInv
<1>4. DataInv(p)
  BY <1>1 DEF DataInv, Putting, NewestHasData, OfRecord, Stored
<1> QED  BY <1>1, <1>2, <1>3, <1>4 DEF OneStopInv, Outside

\* ... every step keeps the invariant of one handler and at most one stop, ...
LEMMA OneStopStep ==
    ASSUME NEW p, Serial(p), MaxCrashes <= 1, OneStopInv(p), [Next]_vars
    PROVE  OneStopInv(p)'
<1>1. AloneInv(p)'
  BY OneStopIs, AloneStep
<1>2. DataInv(p)'
  BY <1>1, HeldStep, NewestHasDataStep DEF DataInv
<1> QED  BY <1>1, <1>2, TasksStep, FinalStep, OwnStep DEF OneStopInv

\* ... which so holds always.
LEMMA OneStopAlways ==
    ASSUME NEW p, Serial(p), MaxCrashes <= 1
    PROVE  Spec => []OneStopInv(p)
<1>1. Init => OneStopInv(p)
  BY OneStopInit
<1>2. OneStopInv(p) /\ [Next]_vars => OneStopInv(p)'
  BY OneStopStep
<1> QED  BY <1>1, <1>2, PTL DEF Spec

\* With one handler at a time, streams that are what their messages say and at most one stop,
\* the newest write of a record has its data: what is resumed after the stop is newer than all
\* it cleans up, and what it keeps of the shared data is what the newest write needs.
\* (storage-controller.ts:102-121, resumable-task-manager.ts:72-97)
THEOREM NewestHasDataAlways ==
    ASSUME NEW p, Serial(p), MaxCrashes <= 1
    PROVE  Spec => []NewestHasData
<1>1. OneStopInv(p) => NewestHasData
  BY DEF OneStopInv, DataInv
<1> QED  BY <1>1, OneStopAlways, PTL

----------------------------------------------------------------------------
\* One handler, at most one stop, and no delete that prunes.

\* No delete asks for the descendants of its record to be pruned: it is the prune that a stop
\* cuts short (PruneComplete) that leaves records nothing can be said about.
NoPrunes == \A m \in Message : IsDelete(m) => ~m.prune

\* Nothing is purged then.  Only initial writes leave the latest state, only writes have data
\* and all of it is large, and what has encoded data or is no initial write, and was taken in,
\* has its index entry as long as its block.
UnprunedStores ==
    /\ purged = {}
    /\ latest \subseteq indexed
    /\ \A x \in indexed : ~x.initial => x \in latest
    /\ encoded \subseteq blocks /\ \A x \in encoded : IsWrite(x)
    /\ \A e \in data : e[2] \in Large
    /\ \A x \in accepted : x \in encoded \/ (x \in blocks /\ ~x.initial) => x \in indexed

\* What the handler found of the record is what is stored beside its message: older messages,
\* a write as the newest of them, and the initial write.
Meets(p) ==
    /\ existing[p] = OfRecord(Stored, req[p].rec) \ {req[p]}
    /\ ~IsDeleted(existing[p])
    /\ \A x \in existing[p] : IsOlder(x, req[p])
    /\ req[p].initial \/ InitialWrite(req[p].rec) \in existing[p]

\* The message in hand is newer than all that was ever taken in of its record.
Leads(p) == \A n \in OfRecord(accepted, req[p].rec) : IsNewer(req[p], n)

\* Where the data of the initial write is.
InitialData(r) == <<r, InitialWrite(r).data>>

\* Beside the message there is what is still to be cleaned up and what the clean-up leaves; a
\* message half cleaned up before the stop has no block, and is no initial write.
Leaves(p) ==
    /\ \A m \in OfRecord(Stored, req[p].rec) :
        m = req[p] \/ m \in todo[p] \/ (m = cur[p] /\ pc[p] = "cleanBlock") \/ Kept(m)
    /\ \A m \in OfRecord(latest, req[p].rec) :
        \/ m = req[p] \/ m \in todo[p]
        \/ m = cur[p] /\ pc[p] \in {"cleanBlock", "cleanIndex"}
        \/ m \notin blocks /\ ~m.initial
    /\ IsDelete(req[p]) =>
        InitialWrite(req[p].rec) \in todo[p] \/ InitialData(req[p].rec) \notin data

\* The message is taken in and all that the clean-up was to take is gone.
Cleaned(p) ==
    /\ req[p] \in accepted
    /\ \A m \in OfRecord(Stored, req[p].rec) : m = req[p] \/ Kept(m)
    /\ \A m \in OfRecord(latest, req[p].rec) : m = req[p] \/ (m \notin blocks /\ ~m.initial)
    /\ IsDelete(req[p]) => Final(req[p]) /\ InitialData(req[p].rec) \notin data

\* What the handler knows at its label, beyond LabelInv; a delete that open() resumes may
\* find that it was done already.
UnprunedLabel(p) ==
    /\ pc[p] \notin {"purge"} \cup Purging
    /\ pc[p] = "dataPut" => IsLarge(req[p])
    /\ pc[p] \in Storing \cup {"append"} => Meets(p)
    /\ pc[p] \in Storing => Leads(p)
    /\ pc[p] \in Cleaning => Leaves(p)
    /\ pc[p] \in {"register", "performScan", "performFetch"} /\ ~resumed[p] =>
        CanPerformDelete(req[p], OfRecord(Stored, req[p].rec))
    /\ ~resumed[p] /\ (pc[p] = "complete" \/ (pc[p] = "reply" /\ reply[p] = 202)) => Cleaned(p)

UnprunedInv(p) ==
    /\ OneStopInv(p)
    /\ UnprunedStores
    /\ UnprunedLabel(p)

LEMMA UnprunedIs ==
    ASSUME NEW p, Serial(p), UnprunedInv(p)
    PROVE  /\ Alone(p) /\ AloneInv(p) /\ StoreInv /\ TypeOK /\ p \in Procs /\ HandlerInv(p)
           /\ req[p] \in Message /\ req[p].rec \in Record /\ LabelInv(p) /\ NewestExists
           /\ cur[p] \in Message /\ todo[p] \subseteq Message /\ existing[p] \subseteq Message
           /\ accepted \subseteq Message /\ Stored \subseteq accepted /\ ~Purge(p)
           /\ purged = {} /\ pc[p] # "unwind"
<1>1. /\ Alone(p) /\ AloneInv(p) /\ StoreInv /\ TypeOK /\ p \in Procs /\ HandlerInv(p)
      /\ req[p] \in Message /\ req[p].rec \in Record /\ LabelInv(p) /\ NewestExists
      /\ cur[p] \in Message /\ todo[p] \subseteq Message /\ existing[p] \subseteq Message
  BY OneStopIs, AloneTypes DEF UnprunedInv, AloneInv
<1>2. ~Purge(p)
  BY DEF UnprunedInv, UnprunedLabel, Purge, PurgeDescend, PurgeGroup, PurgeData, PurgeEvents,
         PurgeBlock, PurgeIndex, PurgeEnd, Purging
<1>3. accepted \subseteq Message /\ Stored \subseteq accepted
  BY <1>1 DEF StoreInv, TypeOK, Stored
<1> QED  BY <1>1, <1>2, <1>3 DEF UnprunedInv, UnprunedStores, OneStopInv, DataInv

\* The steps that change what is stored.
LEMMA UnprunedSteps ==
    ASSUME NEW p, Alone(p), [Next]_vars, ~Purge(p)
    PROVE  \/ PutBlock(p) \/ PutIndex(p) \/ DataPut(p)
           \/ CleanBlock(p) \/ CleanIndex(p) \/ RestoreBlock(p) \/ RestoreIndex(p)
           \/ /\ UNCHANGED <<blocks, encoded, indexed, latest, accepted, purged>>
              /\ data' \subseteq data
<1>1. CASE UNCHANGED vars \/ Grab \/ Crash \/ Receive(p) \/ Resume(p) \/ Reply(p) \/ Refuse(p)
  BY <1>1 DEF vars, Grab, Crash, Receive, Resume, Reply, Refuse, stores, history
<1>2. CASE (Write(p) /\ ~DataPut(p)) \/ Delete(p)
  BY <1>2 DEF Write, CheckParent, WriteFetch, Unwind, DataGet, Delete, DeleteFetch, Register,
              PerformFetch, Complete, stores, history
<1>3. CASE Scan(p) \/ AppendEvent(p)
  BY <1>3 DEF Scan, AppendEvent, stores, history
<1>4. CASE CleanData(p) \/ CleanEvents(p) \/ CleanEnd(p)
  <2>1. CASE CleanData(p)
    BY <2>1 DEF CleanData, history
  <2> QED  BY <1>4, <2>1 DEF CleanEvents, CleanEnd, stores, history
<1> QED  BY <1>1, <1>2, <1>3, <1>4 DEF Next, Run, Write, Store, Clean, Alone

\* What is older than all that is stored was never taken in: what was is covered.
LEMMA LeadsAll ==
    ASSUME NEW p, Serial(p), UnprunedInv(p),
           \A x \in OfRecord(Stored, req[p].rec) : IsNewer(req[p], x)
    PROVE  Leads(p)
<1>1. /\ StoreInv /\ req[p] \in Message /\ purged = {}
      /\ accepted \subseteq Message /\ Stored \subseteq accepted
  BY UnprunedIs
<1> SUFFICES ASSUME NEW n \in OfRecord(accepted, req[p].rec) PROVE IsNewer(req[p], n)
  BY DEF Leads
<1>2. n \in accepted /\ n.rec = req[p].rec
  BY DEF OfRecord
<1>3. PICK x \in Stored : x.rec = n.rec /\ (x = n \/ IsNewer(x, n))
  BY <1>1, <1>2 DEF StoreInv, Covered
<1>4. IsNewer(req[p], x)
  BY <1>2, <1>3 DEF OfRecord
<1> QED  BY <1>1, <1>2, <1>3, <1>4, NewerOrder

\* The stores stay so.
LEMMA UnprunedStoresStep ==
    ASSUME NEW p, Serial(p), UnprunedInv(p), [Next]_vars
    PROVE  UnprunedStores'
<1>0. /\ Alone(p) /\ p \in Procs /\ TypeOK /\ req[p] \in Message /\ cur[p] \in Message
      /\ LabelInv(p) /\ UnprunedStores /\ UnprunedLabel(p) /\ ~Purge(p)
  BY UnprunedIs DEF UnprunedInv
<1>1. CASE PutBlock(p)
  <2>1. req[p] \notin accepted
    <3>1. Leads(p)
      BY <1>0, <1>1 DEF PutBlock, UnprunedLabel, Storing
    <3> QED  BY <1>0, <3>1, NewerOrder DEF Leads, OfRecord
  <2> QED  BY <1>0, <1>1, <2>1 DEF PutBlock, UnprunedStores, BecomesEncoded, history
<1>2. CASE PutIndex(p)
  BY <1>0, <1>2 DEF PutIndex, UnprunedStores, BecomesLatest
<1>3. CASE DataPut(p)
  <2>1. IsLarge(req[p])
    BY <1>0, <1>3 DEF DataPut, UnprunedLabel
  <2> QED  BY <1>0, <1>3, <2>1 DEF DataPut, UnprunedStores, IsLarge, history
<1>4. CASE CleanBlock(p)
  BY <1>0, <1>4 DEF CleanBlock, UnprunedStores, history
<1>5. CASE CleanIndex(p)
  <2>1. cur[p] \notin blocks
    BY <1>0, <1>5 DEF CleanIndex, LabelInv
  <2> QED  BY <1>0, <1>5, <2>1 DEF CleanIndex, UnprunedStores, history
<1>6. CASE RestoreBlock(p)
  <2>1. cur[p].initial
    BY <1>0, <1>6 DEF RestoreBlock, LabelInv
  <2> QED  BY <1>0, <1>6, <2>1 DEF RestoreBlock, UnprunedStores, history
<1>7. CASE RestoreIndex(p)
  <2>1. cur[p].initial /\ cur[p] \notin latest
    BY <1>0, <1>7 DEF RestoreIndex, LabelInv
  <2> QED  BY <1>0, <1>7, <2>1 DEF RestoreIndex, UnprunedStores, history
<1>8. CASE /\ UNCHANGED <<blocks, encoded, indexed, latest, accepted, purged>>
           /\ data' \subseteq data
  BY <1>0, <1>8 DEF UnprunedStores
<1> QED  BY <1>0, <1>1, <1>2, <1>3, <1>4, <1>5, <1>6, <1>7, <1>8, UnprunedSteps

\* The labels at which there is nothing to know.
LEMMA UnprunedAtEase ==
    ASSUME NEW p,
           \/ pc'[p] \in {"idle", "integrity", "scan", "fetch"}
           \/ pc'[p] = "reply" /\ (resumed'[p] \/ reply'[p] # 202)
           \/ pc'[p] \in {"register", "performScan", "performFetch", "complete"} /\ resumed'[p]
    PROVE  UnprunedLabel(p)'
BY DEF UnprunedLabel, Storing, Purging, Cleaning, CleaningOne

\* A step that leaves the stores and the record in hand alone.
LEMMA UnprunedStands ==
    ASSUME NEW p, UnprunedLabel(p), pc'[p] = pc[p],
           UNCHANGED <<blocks, encoded, indexed, latest, data, accepted, purged>>,
           UNCHANGED <<req, existing, todo, cur, resumed, reply>>
    PROVE  UnprunedLabel(p)'
<1>1. /\ Meets(p) => Meets(p)'
      /\ Leads(p) => Leads(p)'
      /\ Leaves(p) => Leaves(p)'
      /\ Cleaned(p) => Cleaned(p)'
      /\ CanPerformDelete(req[p], OfRecord(Stored, req[p].rec)) =>
            CanPerformDelete(req[p], OfRecord(Stored, req[p].rec))'
  BY DEF Meets, Leads, Leaves, Cleaned, Kept, Final, InitialData, OfRecord, Stored, IsDeleted,
         CanPerformDelete
<1> QED  BY <1>1 DEF UnprunedLabel

\* The open, and requests that come in or are refused.
LEMMA UnprunedOpen ==
    ASSUME NEW p, Serial(p), UnprunedInv(p),
           \/ UNCHANGED vars \/ Grab \/ Crash \/ Receive(p) \/ Resume(p) \/ Reply(p)
           \/ Refuse(p) \/ CheckParent(p) \/ Unwind(p)
    PROVE  UnprunedLabel(p)'
<1>0. p \in Procs /\ TypeOK /\ UnprunedLabel(p)
  BY UnprunedIs DEF UnprunedInv
<1>1. CASE UNCHANGED vars \/ Grab
  <2>1. UNCHANGED <<blocks, encoded, indexed, latest, data, accepted, purged>>
    BY <1>1 DEF vars, Grab, stores, history
  <2>2. pc' = pc /\ UNCHANGED <<req, existing, todo, cur, resumed, reply>>
    BY <1>1 DEF vars, Grab, locals
  <2> QED  BY <1>0, <2>1, <2>2, UnprunedStands
<1>2. CASE Crash \/ Receive(p) \/ Reply(p)
  <2>1. pc'[p] \in {"idle", "integrity", "scan"}
    BY <1>0, <1>2 DEF Crash, Receive, Reply, Release, Goto, TypeOK
  <2> QED  BY <2>1, UnprunedAtEase
<1>3. CASE Resume(p)
  <2>1. pc'[p] = "performScan" /\ resumed'[p]
    BY <1>0, <1>3 DEF Resume, Goto, TypeOK
  <2> QED  BY <2>1, UnprunedAtEase
<1>4. CASE Refuse(p) \/ CheckParent(p) \/ Unwind(p)
  <2>1. pc'[p] = "scan" \/ (pc'[p] = "reply" /\ reply'[p] # 202)
    BY <1>0, <1>4 DEF Refuse, CheckParent, Unwind, Answer, Goto, TypeOK
  <2> QED  BY <2>1, UnprunedAtEase
<1> QED  BY <1>1, <1>2, <1>3, <1>4

\* A delete that is registered can be performed, and what it can be performed on stays until
\* it is.
LEMMA UnprunedRegister ==
    ASSUME NEW p, Serial(p), UnprunedInv(p), DeleteFetch(p) \/ Register(p) \/ Scan(p)
    PROVE  UnprunedLabel(p)'
<1>0. p \in Procs /\ TypeOK /\ UnprunedLabel(p) /\ LabelInv(p)
  BY UnprunedIs DEF UnprunedInv
<1>1. /\ UNCHANGED <<blocks, indexed, req, resumed>>
      /\ OfRecord(Stored, req[p].rec)' = OfRecord(Stored, req[p].rec)
  BY DEF DeleteFetch, Register, Scan, stores, locals, OfRecord, Stored
<1>2. CASE DeleteFetch(p)
  <2>1. Fetched(p) = OfRecord(Stored, req[p].rec)
    BY <1>0, <1>2 DEF DeleteFetch, LabelInv, Fetched, OfRecord, Stored
  <2>2. \/ pc'[p] = "reply" /\ reply'[p] # 202
        \/ pc'[p] = "register" /\ CanPerformDelete(req[p], Fetched(p))
    BY <1>0, <1>2 DEF DeleteFetch, Answer, Goto, TypeOK
  <2>3. CASE pc'[p] = "register" /\ CanPerformDelete(req[p], Fetched(p))
    <3>1. CanPerformDelete(req[p], OfRecord(Stored, req[p].rec))'
      BY <1>1, <2>1, <2>3 DEF CanPerformDelete
    <3> QED  BY <2>3, <3>1 DEF UnprunedLabel, Storing, Purging, Cleaning, CleaningOne
  <2> QED  BY <2>2, <2>3, UnprunedAtEase
<1>3. CASE Register(p) \/ Scan(p)
  <2>1. \/ pc[p] = "scan" /\ pc'[p] = "fetch"
        \/ /\ pc[p] \in {"register", "performScan"}
           /\ pc'[p] \in {"performScan", "performFetch"}
    BY <1>0, <1>3 DEF Register, Scan, Goto, TypeOK
  <2>2. CASE pc[p] # "scan" /\ ~resumed[p]
    <3>1. CanPerformDelete(req[p], OfRecord(Stored, req[p].rec))
      BY <1>0, <2>1, <2>2 DEF UnprunedLabel
    <3>2. CanPerformDelete(req[p], OfRecord(Stored, req[p].rec))'
      BY <1>1, <3>1 DEF CanPerformDelete
    <3> QED  BY <2>1, <2>2, <3>2 DEF UnprunedLabel, Storing, Purging, Cleaning, CleaningOne
  <2>3. CASE pc[p] = "scan" \/ resumed[p]
    BY <1>1, <2>1, <2>3, UnprunedAtEase
  <2> QED  BY <2>2, <2>3
<1> QED  BY <1>2, <1>3

\* A write that goes on has found what there is, all of it older.
LEMMA UnprunedWriteFetch ==
    ASSUME NEW p, Serial(p), UnprunedInv(p), AloneInv(p)', WriteFetch(p)
    PROVE  UnprunedLabel(p)'
<1> DEFINE S == Fetched(p)
<1>0. /\ p \in Procs /\ TypeOK /\ req[p] \in Message /\ Stored \subseteq Message
      /\ req' = req /\ UNCHANGED <<blocks, indexed, accepted>> /\ existing'[p] = S
      /\ IsWrite(req[p])
  BY UnprunedIs DEF WriteFetch, stores, history, TypeOK
<1>1. S = OfRecord(Stored, req[p].rec)
  BY UnprunedIs DEF WriteFetch, LabelInv, Fetched, OfRecord, Stored
<1>2. \/ pc'[p] = "reply" /\ reply'[p] # 202
      \/ /\ KeepsImmutable(req[p], S) /\ pc'[p] \in {"putBlock", "dataPut", "dataGet"}
         /\ pc'[p] = "dataPut" => IsLarge(req[p])
  <2>1. ASSUME TakeData(p, S)
        PROVE  \/ pc'[p] = "reply" /\ reply'[p] # 202
               \/ /\ pc'[p] \in {"putBlock", "dataPut", "dataGet"}
                  /\ pc'[p] = "dataPut" => IsLarge(req[p])
    <3> HIDE DEF S
    <3> QED  BY <1>0, <2>1 DEF TakeData, Answer, Goto, TypeOK
  <2>2. Answer(p, 400) \/ Answer(p, 409) \/ (KeepsImmutable(req[p], S) /\ TakeData(p, S))
    BY DEF WriteFetch
  <2> HIDE DEF S
  <2> QED  BY <1>0, <2>1, <2>2 DEF Answer, Goto, TypeOK
<1>3. CASE pc'[p] = "reply" /\ reply'[p] # 202
  BY <1>3, UnprunedAtEase
<1>4. CASE /\ KeepsImmutable(req[p], S) /\ pc'[p] \in {"putBlock", "dataPut", "dataGet"}
           /\ pc'[p] = "dataPut" => IsLarge(req[p])
  <2>1. WriteFound(p)'
    BY <1>0, <1>4 DEF AloneInv, LabelInv, Looked
  <2>2. req[p].initial \/ InitialWrite(req[p].rec) \in S
    <3>1. CASE ~req[p].initial
      <4>1. PICK w \in S : w.initial
        BY <1>4, <3>1 DEF KeepsImmutable
      <4>2. w \in Message /\ w.rec = req[p].rec
        BY <1>0, <1>1, <4>1 DEF OfRecord
      <4> QED  BY <4>1, <4>2, Kinds
    <3> QED  BY <3>1
  <2>3. Meets(p)'
    BY <1>0, <2>1, <2>2 DEF WriteFound, Meets
  <2>4. \A x \in S : IsNewer(req[p], x)
    <3>1. \A x \in S : IsOlder(x, req[p]) /\ x \in Message
      BY <1>0, <1>1, <2>1 DEF WriteFound, OfRecord
    <3> QED  BY <1>0, <3>1, NewerOrder
  <2>5. Leads(p)
    BY <1>1, <2>4, LeadsAll
  <2>6. Leads(p)'
    BY <1>0, <2>5 DEF Leads, OfRecord
  <2> QED  BY <1>0, <1>4, <2>3, <2>6 DEF UnprunedLabel, Storing, Purging, Cleaning, CleaningOne
<1> QED  BY <1>2, <1>3, <1>4

\* The data of a write.
LEMMA UnprunedData ==
    ASSUME NEW p, Serial(p), UnprunedInv(p), DataPut(p) \/ DataGet(p)
    PROVE  UnprunedLabel(p)'
<1>0. p \in Procs /\ TypeOK /\ UnprunedLabel(p)
  BY UnprunedIs DEF UnprunedInv
<1>1. /\ UNCHANGED <<blocks, indexed, accepted, req, existing>>
      /\ pc[p] \in {"dataPut", "dataGet"}
      /\ pc'[p] \in {"putBlock", "unwind"} \/ (pc'[p] = "reply" /\ reply'[p] # 202)
  BY <1>0 DEF DataPut, DataGet, Answer, Goto, TypeOK, stores, locals, history
<1>2. Meets(p) /\ Leads(p)
  BY <1>0, <1>1 DEF UnprunedLabel, Storing
<1>3. Meets(p)' /\ Leads(p)'
  BY <1>1, <1>2 DEF Meets, Leads, OfRecord, Stored, IsDeleted
<1>4. CASE pc'[p] \in {"putBlock", "unwind"}
  BY <1>3, <1>4 DEF UnprunedLabel, Storing, Purging, Cleaning, CleaningOne
<1> QED  BY <1>1, <1>4, UnprunedAtEase

\* A delete that is performed has found what there is: no delete, for that would be the
\* newest, or a write that is newer.
LEMMA UnprunedPerform ==
    ASSUME NEW p, Serial(p), NoPrunes, UnprunedInv(p), PerformFetch(p)
    PROVE  UnprunedLabel(p)'
<1> DEFINE S == Fetched(p)
<1>0. /\ p \in Procs /\ TypeOK /\ req[p] \in Message /\ Stored \subseteq Message
      /\ Stored \subseteq accepted /\ purged = {} /\ NewestExists /\ HandlerInv(p)
      /\ req' = req /\ UNCHANGED <<blocks, indexed, accepted, resumed>> /\ existing'[p] = S
      /\ pc[p] = "performFetch" /\ UnprunedLabel(p)
  BY UnprunedIs DEF PerformFetch, stores, history, TypeOK, UnprunedInv
<1>1. S = OfRecord(Stored, req[p].rec)
  BY UnprunedIs DEF PerformFetch, LabelInv, Fetched, OfRecord, Stored
<1>2. IsDelete(req[p]) /\ ~req[p].prune
  BY <1>0 DEF HandlerInv, Performing, NoPrunes
<1>3. CASE ~CanPerformDelete(req[p], S)
  <2>1. resumed[p]
    BY <1>0, <1>1, <1>3 DEF UnprunedLabel
  <2>2. pc'[p] = "complete"
    BY <1>0, <1>3 DEF PerformFetch, Goto, TypeOK
  <2> QED  BY <1>0, <2>1, <2>2, UnprunedAtEase
<1>4. CASE CanPerformDelete(req[p], S) /\ (\A w \in S : ~w.initial)
  <2>1. TaskFails(p)
    BY <1>4 DEF PerformFetch
  <2>2. pc'[p] = "reply" /\ (resumed'[p] \/ reply'[p] # 202)
    BY <1>0, <2>1 DEF TaskFails, Answer, Goto, TypeOK
  <2> QED  BY <2>2, UnprunedAtEase
<1>5. CASE CanPerformDelete(req[p], S) /\ (\E w \in S : w.initial)
  <2>1. pc'[p] = "putBlock"
    BY <1>0, <1>5 DEF PerformFetch, Goto, TypeOK
  <2>2. S # {} /\ ~IsDelete(Newest(S))
    BY <1>2, <1>5 DEF CanPerformDelete
  <2>3. S \in SUBSET indexed /\ S \subseteq Message /\ S \subseteq OfRecord(accepted, req[p].rec)
    BY <1>0, <1>1 DEF OfRecord, Stored
  <2>4. Newest(S) \in S /\ \A n \in S : n = Newest(S) \/ IsNewer(Newest(S), n)
    <3> HIDE DEF S
    <3> QED  BY <1>0, <2>2, <2>3, NewestIn
  <2>5. IsNewer(req[p], Newest(S))
    <3>1. Final(req[p])
      BY <1>0, <1>2 DEF UnprunedInv, OneStopInv, Outside
    <3>2. IsWrite(Newest(S)) /\ Newest(S) \in OfRecord(accepted, req[p].rec)
      <4> HIDE DEF S
      <4> QED  BY <2>2, <2>3, <2>4, Kinds
    <3> HIDE DEF S
    <3> QED  BY <1>0, <3>1, <3>2 DEF Final
  <2>6. \A x \in S : IsNewer(req[p], x) /\ IsOlder(x, req[p])
    <3> HIDE DEF S
    <3> QED  BY <1>0, <2>3, <2>4, <2>5, NewerOrder
  <2>7. req[p] \notin S
    <3> HIDE DEF S
    <3> QED  BY <1>0, <2>6, NewerOrder
  <2>8. InitialWrite(req[p].rec) \in S
    <3>1. PICK w \in S : w.initial
      BY <1>5
    <3>2. w \in Message /\ w.rec = req[p].rec
      BY <1>0, <1>1, <3>1 DEF OfRecord
    <3> QED  BY <3>1, <3>2, Kinds
  <2>9. OfRecord(Stored, req[p].rec)' = S
    BY <1>0, <1>1 DEF OfRecord, Stored
  <2>10. Meets(p)'
    <3> HIDE DEF S
    <3> QED  BY <1>0, <2>2, <2>6, <2>7, <2>8, <2>9 DEF Meets, IsDeleted
  <2>11. Leads(p)
    BY <1>1, <2>6, LeadsAll
  <2>12. Leads(p)'
    BY <1>0, <2>11 DEF Leads, OfRecord
  <2> QED  BY <2>1, <2>10, <2>12 DEF UnprunedLabel, Storing, Purging, Cleaning, CleaningOne
<1> QED  BY <1>3, <1>4, <1>5

\* The message is stored beside what was found, and its event logged.
LEMMA UnprunedStore ==
    ASSUME NEW p, Serial(p), NoPrunes, UnprunedInv(p),
           PutBlock(p) \/ PutIndex(p) \/ AppendEvent(p)
    PROVE  UnprunedLabel(p)'
<1>0. /\ p \in Procs /\ TypeOK /\ req[p] \in Message /\ UnprunedLabel(p) /\ HandlerInv(p)
      /\ req[p].rec \in Record /\ latest \subseteq indexed /\ existing[p] \subseteq Message
  BY UnprunedIs DEF UnprunedInv, UnprunedStores
<1>1. Meets(p)
  BY <1>0 DEF PutBlock, PutIndex, AppendEvent, UnprunedLabel, Storing
<1>2. UNCHANGED <<req, existing>>
  BY DEF PutBlock, PutIndex, AppendEvent, locals
<1>3. OfRecord(Stored, req[p].rec)' \ {req[p]} = OfRecord(Stored, req[p].rec) \ {req[p]}
  BY <1>2 DEF PutBlock, PutIndex, AppendEvent, OfRecord, Stored
<1>4. Meets(p)'
  BY <1>1, <1>2, <1>3 DEF Meets
<1>5. CASE PutBlock(p)
  <2>1. Leads(p) /\ accepted' = accepted /\ pc'[p] = "putIndex"
    BY <1>0, <1>5 DEF PutBlock, UnprunedLabel, Storing, history, Goto, TypeOK
  <2>2. Leads(p)'
    BY <1>2, <2>1 DEF Leads, OfRecord
  <2> QED  BY <1>4, <2>1, <2>2 DEF UnprunedLabel, Storing, Purging, Cleaning, CleaningOne
<1>6. CASE PutIndex(p)
  <2>1. pc'[p] = "append"
    BY <1>0, <1>6 DEF PutIndex, Goto, TypeOK
  <2> QED  BY <1>4, <2>1 DEF UnprunedLabel, Storing, Purging, Cleaning, CleaningOne
<1>7. CASE AppendEvent(p)
  <2>1. /\ pc'[p] = "clean" /\ todo'[p] = Older(existing[p], req[p])
        /\ UNCHANGED <<blocks, indexed, latest, data>>
    BY <1>0, <1>7 DEF AppendEvent, Goto, TypeOK, NoPrunes
  <2>2. todo'[p] = existing[p]
    BY <1>1, <2>1 DEF Meets, Older
  <2>3. ASSUME NEW m \in OfRecord(latest, req[p].rec), m # req[p], m \notin existing[p]
        PROVE  m \notin blocks /\ ~m.initial
    <3>1. m \in latest /\ m \in indexed /\ m.rec = req[p].rec /\ m \in Message
      BY <1>0, <2>3 DEF OfRecord, TypeOK
    <3>2. m \notin blocks
      BY <1>1, <2>3, <3>1 DEF Meets, OfRecord, Stored
    <3>3. m # InitialWrite(req[p].rec)
      BY <1>0, <1>1, <2>3, Kinds DEF Meets
    <3> QED  BY <3>1, <3>2, <3>3, Kinds
  <2>4. IsDelete(req[p]) => InitialWrite(req[p].rec) \in existing[p]
    BY <1>0, <1>1, Kinds DEF Meets
  <2>5. Leaves(p)'
    BY <1>1, <1>2, <2>1, <2>2, <2>3, <2>4 DEF Leaves, Meets, OfRecord, Stored
  <2> QED  BY <2>1, <2>5 DEF UnprunedLabel, Storing, Purging
<1> QED  BY <1>5, <1>6, <1>7

\* The clean-up takes one message after the other; the data of the initial write goes first.
LEMMA UnprunedClean ==
    ASSUME NEW p, Serial(p), UnprunedInv(p), Clean(p)
    PROVE  UnprunedLabel(p)'
<1>0. /\ p \in Procs /\ TypeOK /\ req[p] \in Message /\ cur[p] \in Message
      /\ todo[p] \subseteq Message /\ req[p].rec \in Record
      /\ LabelInv(p) /\ UnprunedLabel(p) /\ UnprunedStores /\ HandlerInv(p)
      /\ pc[p] \in Cleaning
  BY UnprunedIs DEF UnprunedInv, Clean, CleanData, CleanBlock, CleanIndex, RestoreBlock,
                    RestoreIndex, CleanEvents, CleanEnd, Cleaning, CleaningOne
<1>1. Leaves(p) /\ req' = req
  BY <1>0 DEF UnprunedLabel, Clean, CleanData, CleanBlock, CleanIndex, RestoreBlock,
              RestoreIndex, CleanEvents, CleanEnd, locals
<1>2. ASSUME pc'[p] \in Cleaning, Leaves(p)' PROVE UnprunedLabel(p)'
  BY <1>2 DEF UnprunedLabel, Storing, Purging, Cleaning, CleaningOne
<1>3. CASE CleanData(p)
  <2>1. PICK m \in todo[p] :
          /\ cur' = [cur EXCEPT ![p] = m] /\ todo' = [todo EXCEPT ![p] = @ \ {m}]
          /\ data' = IF IsWrite(m) /\ IsLarge(m) /\ m.data # req[p].data
                     THEN data \ {<<m.rec, m.data>>} ELSE data
    BY <1>3 DEF CleanData
  <2>2. /\ cur'[p] = m /\ todo'[p] = todo[p] \ {m} /\ pc[p] = "clean" /\ pc'[p] = "cleanBlock"
        /\ UNCHANGED <<blocks, encoded, indexed, latest>> /\ data' \subseteq data
    BY <1>0, <1>3, <2>1 DEF CleanData, Goto, TypeOK
  <2>3. ASSUME IsDelete(req[p])
        PROVE  InitialWrite(req[p].rec) \in todo'[p] \/ InitialData(req[p].rec) \notin data'
    <3> DEFINE i == InitialWrite(req[p].rec)
    <3>1. i \in Message /\ i.rec = req[p].rec /\ IsWrite(i)
      BY <1>0, InitialOf
    <3>2. CASE m # i
      BY <1>1, <2>2, <2>3, <3>2 DEF Leaves
    <3>3. CASE m = i /\ IsLarge(i)
      <4>1. i.data # req[p].data
        BY <1>0, <2>3, <3>1, <3>3, Kinds, MessageAssumption DEF IsLarge
      <4> QED  BY <2>1, <3>1, <3>3, <4>1 DEF InitialData
    <3>4. CASE ~IsLarge(i)
      <4>1. \A e \in data : e[2] \in Large
        BY <1>0 DEF UnprunedStores
      <4>2. <<i.rec, i.data>> \notin data
        BY <3>4, <4>1 DEF IsLarge
      <4> QED  BY <2>2, <3>1, <4>2 DEF InitialData
    <3> QED  BY <3>2, <3>3, <3>4
  <2>4. Leaves(p)'
    BY <1>1, <2>2, <2>3 DEF Leaves, Kept, OfRecord, Stored
  <2> QED  BY <1>2, <2>2, <2>4 DEF Cleaning, CleaningOne
<1>4. CASE CleanBlock(p)
  <2>1. /\ pc[p] = "cleanBlock" /\ pc'[p] = "cleanIndex"
        /\ blocks' = blocks \ {cur[p]} /\ encoded' = encoded \ {cur[p]}
        /\ UNCHANGED <<todo, cur, indexed, latest, data>>
    BY <1>0, <1>4 DEF CleanBlock, Goto, TypeOK, locals
  <2>2. Leaves(p)'
    BY <1>1, <2>1 DEF Leaves, Kept, OfRecord, Stored
  <2> QED  BY <1>2, <2>1, <2>2 DEF Cleaning, CleaningOne
<1>5. CASE CleanIndex(p)
  <2>1. /\ pc[p] = "cleanIndex" /\ pc'[p] \in {"restoreBlock", "cleanEvents"}
        /\ indexed' = indexed \ {cur[p]} /\ latest' = latest \ {cur[p]}
        /\ UNCHANGED <<todo, cur, blocks, encoded, data>>
    BY <1>0, <1>5 DEF CleanIndex, Goto, TypeOK, locals
  <2>2. Leaves(p)'
    BY <1>1, <2>1 DEF Leaves, Kept, OfRecord, Stored
  <2> QED  BY <1>2, <2>1, <2>2 DEF Cleaning, CleaningOne
<1>6. CASE RestoreBlock(p)
  <2>1. /\ pc[p] = "restoreBlock" /\ pc'[p] = "restoreIndex"
        /\ blocks' = blocks \cup {cur[p]} /\ encoded' = encoded \ {cur[p]}
        /\ UNCHANGED <<todo, cur, indexed, latest, data>>
    BY <1>0, <1>6 DEF RestoreBlock, Goto, TypeOK, locals
  <2>2. Kept(cur[p])' /\ cur[p] \notin latest
    BY <1>0, <2>1 DEF LabelInv, Kept
  <2>3. Leaves(p)'
    BY <1>1, <2>1, <2>2 DEF Leaves, Kept, OfRecord, Stored
  <2> QED  BY <1>2, <2>1, <2>3 DEF Cleaning, CleaningOne
<1>7. CASE RestoreIndex(p)
  <2>1. /\ pc[p] = "restoreIndex" /\ pc'[p] = "cleanEvents"
        /\ indexed' = indexed \cup {cur[p]} /\ latest' = latest \ {cur[p]}
        /\ UNCHANGED <<todo, cur, blocks, encoded, data>>
    BY <1>0, <1>7 DEF RestoreIndex, Goto, TypeOK, locals
  <2>2. Kept(cur[p])'
    BY <1>0, <2>1 DEF LabelInv, Kept
  <2>3. Leaves(p)'
    BY <1>1, <2>1, <2>2 DEF Leaves, Kept, OfRecord, Stored
  <2> QED  BY <1>2, <2>1, <2>3 DEF Cleaning, CleaningOne
<1>8. CASE CleanEvents(p)
  <2>1. /\ pc[p] = "cleanEvents" /\ pc'[p] = "clean"
        /\ UNCHANGED <<todo, cur, blocks, encoded, indexed, latest, data>>
    BY <1>0, <1>8 DEF CleanEvents, Goto, TypeOK, locals
  <2>2. Leaves(p)'
    BY <1>1, <2>1 DEF Leaves, Kept, OfRecord, Stored
  <2> QED  BY <1>2, <2>1, <2>2 DEF Cleaning, CleaningOne
<1>9. CASE CleanEnd(p)
  <2>1. /\ pc[p] = "clean" /\ todo[p] = {} /\ pc'[p] \in {"reply", "complete"}
        /\ UNCHANGED <<blocks, encoded, indexed, latest, data, accepted, purged>>
    BY <1>0, <1>9 DEF CleanEnd, Answer, Goto, TypeOK, stores, history
  <2>2. req[p] \in accepted
    BY <1>0, <2>1 DEF HandlerInv, AfterPut, Cleaning
  <2>3. IsDelete(req[p]) => Final(req[p])
    BY <2>1 DEF UnprunedInv, OneStopInv, Outside
  <2>4. Cleaned(p)
    BY <1>1, <2>1, <2>2, <2>3 DEF Leaves, Cleaned
  <2>5. Cleaned(p)'
    BY <1>1, <2>1, <2>4 DEF Cleaned, Kept, Final, InitialData, OfRecord, Stored
  <2> QED  BY <2>1, <2>5 DEF UnprunedLabel, Storing, Purging, Cleaning, CleaningOne
<1> QED  BY <1>3, <1>4, <1>5, <1>6, <1>7, <1>8, <1>9 DEF Clean

\* The task is done.
LEMMA UnprunedComplete ==
    ASSUME NEW p, Serial(p), UnprunedInv(p), Complete(p)
    PROVE  UnprunedLabel(p)'
<1>0. p \in Procs /\ TypeOK /\ UnprunedLabel(p)
  BY UnprunedIs DEF UnprunedInv
<1>1. /\ pc[p] = "complete" /\ pc'[p] = "reply" /\ UNCHANGED <<req, resumed>>
      /\ UNCHANGED <<blocks, encoded, indexed, latest, data, accepted, purged>>
  BY <1>0 DEF Complete, Answer, Goto, TypeOK, history
<1>2. ~resumed[p] => Cleaned(p)'
  <2>1. Cleaned(p) => Cleaned(p)'
    BY <1>1 DEF Cleaned, Kept, Final, InitialData, OfRecord, Stored
  <2> QED  BY <1>0, <1>1, <2>1 DEF UnprunedLabel
<1> QED  BY <1>1, <1>2 DEF UnprunedLabel, Storing, Purging, Cleaning, CleaningOne

\* Every step keeps the invariant of one handler, one stop and no prunes.
LEMMA UnprunedStep ==
    ASSUME NEW p, Serial(p), MaxCrashes <= 1, NoPrunes, UnprunedInv(p), [Next]_vars
    PROVE  UnprunedInv(p)'
<1>1. OneStopInv(p)' /\ AloneInv(p)'
  BY OneStopStep DEF UnprunedInv, OneStopInv
<1>2. UnprunedStores'
  BY UnprunedStoresStep
<1>3. Alone(p) /\ ~Purge(p)
  BY UnprunedIs
<1>4. UnprunedLabel(p)'
  BY <1>1, <1>3, UnprunedOpen, UnprunedRegister, UnprunedWriteFetch, UnprunedData,
     UnprunedPerform, UnprunedStore, UnprunedClean, UnprunedComplete
  DEF Next, Run, Write, Delete, Store, Alone
<1> QED  BY <1>1, <1>2, <1>4 DEF UnprunedInv

LEMMA UnprunedInit ==
    ASSUME NEW p, Serial(p), Init
    PROVE  UnprunedInv(p)
<1>1. p \in Procs /\ pc[p] = "idle" /\ purged = {} /\ latest = {} /\ indexed = {}
      /\ encoded = {} /\ data = {} /\ accepted = {} /\ blocks = {}
  BY DEF Init, Serial
<1>2. UnprunedStores
  BY <1>1 DEF UnprunedStores
<1>3. UnprunedLabel(p)
  BY <1>1 DEF UnprunedLabel, Storing, Purging, Cleaning, CleaningOne
<1> QED  BY <1>2, <1>3, OneStopInit DEF UnprunedInv
=============================================================================
