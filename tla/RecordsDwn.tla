----------------------------- MODULE RecordsDwn -----------------------------
(***************************************************************************)
(* The records part of a DWN: the RecordsWrite and RecordsDelete handlers, *)
(* the storage controller, the resumable delete task, and the four stores  *)
(* they write (messages, data, events, tasks).                             *)
(*                                                                         *)
(* The handlers are async functions on one event loop without locks: every *)
(* await on a store lets another handler run, and the process may stop     *)
(* there.  One action is the code between two such awaits.  A message is   *)
(* put as a block and then as an index entry, and deleted in that order.   *)
(***************************************************************************)
EXTENDS DwnMessages, Sequences, FiniteSets

CONSTANTS
    Procs,        \* handler invocations that may be in progress at once
    Streams,      \* the data streams a RecordsWrite may come with
    MaxCrashes    \* bound on the stops of the process

ASSUME RecordsDwnAssumption ==
    /\ Message # {} /\ IsFiniteSet(Record)
    /\ Streams \subseteq {"none", "good", "bad"}
    /\ MaxCrashes \in Nat

VARIABLES
    \* the stores, which survive a crash
    blocks,       \* messages whose block is in the message store
    encoded,      \* those whose block carries encodedData
    indexed,      \* messages that have index entries in the message store
    latest,       \* those indexed with isLatestBaseState = true
    data,         \* <<record, dataCid>> pairs held by the data store
    events,       \* messages in the event log
    tasks,        \* RecordsDelete messages in the resumable task store
    \* the running process
    opening,      \* open() is still resuming tasks
    resuming,     \* tasks grabbed by open() and not yet taken up
    pc,           \* where each handler invocation waits
    req,          \* the message it handles
    stream,       \* the data stream that came with the message
    existing,     \* its copy of the record's messages (existingMessages)
    todo,         \* messages left to clean up or purge
    cur,          \* the message being cleaned up or purged
    plan,         \* what is left of the recursion of purgeRecordDescendants
    resumed,      \* the invocation is a resumed task, not a request
    reply,        \* status code of the reply
    emitted,      \* messages emitted on the event stream
    crashes,
    \* history, never read by the actions
    accepted,     \* messages the message store ever took in completely
    purged        \* records whose messages were purged under a pruned parent

stores == <<blocks, encoded, indexed, latest, data, events, tasks>>
locals == <<req, stream, existing, todo, cur, plan, resumed, reply>>
history == <<accepted, purged>>
vars == <<stores, opening, resuming, pc, locals, emitted, crashes, history>>

Labels ==
    {"idle", "integrity", "scan", "fetch", "dataPut", "unwind", "dataGet",
     "register", "performScan", "performFetch", "putBlock", "putIndex",
     "append", "purge", "purgeEvents", "purgeBlock", "purgeIndex", "clean",
     "cleanBlock", "cleanIndex", "restoreBlock", "restoreIndex",
     "cleanEvents", "complete", "reply"}

Codes == {0, 202, 204, 400, 401, 404, 409, 500}

PlanItem == [op : {"descend", "group", "purge"}, rec : Record,
             msgs : SUBSET Message]

AnyMessage == CHOOSE m \in Message : TRUE

----------------------------------------------------------------------------
\* What the stores answer.

\* MessageStore.query returns the indexed messages whose block is still there.
Stored == indexed \cap blocks

\* isLatestBaseState of the message being stored: true unless it is an initial
\* write that came without data.
BecomesLatest(p) == req[p].initial => stream[p] # "none"

\* Faulty variants of definitions end in Bad: the properties must tell them
\* apart from the code.  Here, deletes are not emitted.
EmitsBad(p) == IF BecomesLatest(p) /\ IsWrite(req[p]) THEN {req[p]} ELSE {}

\* Every message put into the latest base state is emitted.
Emits(p) == IF BecomesLatest(p) THEN {req[p]} ELSE {}

\* Small data travels in the stored message.
BecomesEncoded(p) ==
    IsWrite(req[p]) /\ ~IsLarge(req[p]) /\ BecomesLatest(p)

\* The initial write is skipped instead of put back; everything is deleted.
OlderBad(S, m) == {n \in S : IsOlder(n, m) /\ ~n.initial}
OlderWorse(S, m) == S \ {m}

\* The messages that deleteAllOlderMessagesButKeepInitialWrite goes through.
Older(S, m) == {n \in S : IsOlder(n, m)}

\* The tie between equal timestamps is not broken.
OutdatedBad(m, S) == S # {} /\ m.ts < Newest(S).ts

\* The message is no newer than the record it is for.
Outdated(m, S) == S # {} /\ ~IsNewer(m, Newest(S))

\* Only a prune is final.
IsDeletedBad(S) == S # {} /\ IsDelete(Newest(S)) /\ Newest(S).prune

IsDeleted(S) == S # {} /\ IsDelete(Newest(S))

\* A delete is not indexed under the parentId of its record.
ChildrenBad(r) == {m \in indexed : m.parent = r}

\* The indexed messages whose parentId is record r.
Children(r) == {m \in indexed : ParentOf(m) = r}

----------------------------------------------------------------------------
\* Control of one handler invocation.

Goto(p, label) == pc' = [pc EXCEPT ![p] = label]

Answer(p, code) ==
    /\ Goto(p, "reply")
    /\ reply' = [reply EXCEPT ![p] = code]

Release(p) ==
    /\ Goto(p, "idle")
    /\ req' = [req EXCEPT ![p] = AnyMessage]
    /\ stream' = [stream EXCEPT ![p] = "none"]
    /\ existing' = [existing EXCEPT ![p] = {}]
    /\ todo' = [todo EXCEPT ![p] = {}]
    /\ cur' = [cur EXCEPT ![p] = AnyMessage]
    /\ plan' = [plan EXCEPT ![p] = <<>>]
    /\ resumed' = [resumed EXCEPT ![p] = FALSE]
    /\ reply' = [reply EXCEPT ![p] = 0]

Init ==
    /\ blocks = {} /\ encoded = {} /\ indexed = {} /\ latest = {}
    /\ data = {} /\ events = {} /\ tasks = {}
    /\ opening = TRUE /\ resuming = {}
    /\ pc = [p \in Procs |-> "idle"]
    /\ req = [p \in Procs |-> AnyMessage]
    /\ stream = [p \in Procs |-> "none"]
    /\ existing = [p \in Procs |-> {}]
    /\ todo = [p \in Procs |-> {}]
    /\ cur = [p \in Procs |-> AnyMessage]
    /\ plan = [p \in Procs |-> <<>>]
    /\ resumed = [p \in Procs |-> FALSE]
    /\ reply = [p \in Procs |-> 0]
    /\ emitted = {} /\ crashes = 0
    /\ accepted = {} /\ purged = {}

----------------------------------------------------------------------------
\* Requests.

\* processMessage hands a message to its handler.
Receive(p) ==
    /\ ~opening /\ pc[p] = "idle"
    /\ \E m \in Message, s \in Streams \cup {"none"} :
        /\ IF IsDelete(m) THEN s = "none" ELSE s \in Streams
        /\ req' = [req EXCEPT ![p] = m]
        /\ stream' = [stream EXCEPT ![p] = s]
        /\ Goto(p, IF IsWrite(m) /\ m.parent # NoRecord THEN "integrity"
                                                         ELSE "scan")
    /\ UNCHANGED <<stores, opening, resuming, existing, todo, cur, plan,
                   resumed, reply, emitted, crashes, history>>

\* verifyProtocolPathAndContextId: the parent must be a record whose latest
\* state is a write.
CheckParent(p) ==
    /\ pc[p] = "integrity"
    /\ IF \E w \in latest \cap Stored : IsWrite(w) /\ w.rec = req[p].parent
       THEN Goto(p, "scan") /\ UNCHANGED reply
       ELSE Answer(p, 400)
    /\ UNCHANGED <<stores, opening, resuming, req, stream, existing, todo,
                   cur, plan, resumed, emitted, crashes, history>>

\* Any check that reads no record state may refuse the message: signatures,
\* grants, protocol rules.  A write is refused before the record is queried,
\* a delete after.
Refuse(p) ==
    /\ pc[p] = IF IsWrite(req[p]) THEN "scan" ELSE "register"
    /\ Answer(p, 401)
    /\ UNCHANGED <<stores, opening, resuming, req, stream, existing, todo,
                   cur, plan, resumed, emitted, crashes, history>>

\* The first half of query({ recordId }): the index is read ...
Scan(p) ==
    /\ \/ pc[p] = "scan" /\ Goto(p, "fetch")
       \/ pc[p] = "performScan" /\ Goto(p, "performFetch")
    /\ existing' = [existing EXCEPT ![p] = OfRecord(indexed, req[p].rec)]
    /\ UNCHANGED <<stores, opening, resuming, req, stream, todo, cur, plan,
                   resumed, reply, emitted, crashes, history>>

\* ... and then the block of every message found.
Fetched(p) == existing[p] \cap blocks

----------------------------------------------------------------------------
\* RecordsWriteHandler.handle

\* The initial write may be missing; the properties are not compared.
KeepsImmutableBad(m, S) ==
    m.initial \/ \A w \in S : w.initial => w.parent = m.parent
KeepsImmutableWorse(m, S) == m.initial \/ \E w \in S : w.initial

\* getInitialWrite and verifyEqualityOfImmutableProperties.
KeepsImmutable(m, S) ==
    \/ m.initial
    \/ \E w \in S : w.initial /\ w.parent = m.parent

\* How the handler goes on once the write is known to be the newest message:
\* with or without a data stream, for small or for large data.
TakeData(p, S) ==
    LET m == req[p] IN
    \/ stream[p] = "none" /\ m.initial
        /\ Goto(p, "putBlock") /\ UNCHANGED reply
    \/ stream[p] = "none" /\ ~m.initial /\ m.data # Newest(S).data
        /\ Answer(p, 400)
    \/ stream[p] = "none" /\ ~m.initial /\ m.data = Newest(S).data
        /\ \/ IsLarge(m) /\ Goto(p, "dataGet") /\ UNCHANGED reply
           \/ ~IsLarge(m) /\ Newest(S) \in encoded
                /\ Goto(p, "putBlock") /\ UNCHANGED reply
           \/ ~IsLarge(m) /\ Newest(S) \notin encoded /\ Answer(p, 400)
    \/ stream[p] # "none" /\ IsLarge(m)
        /\ Goto(p, "dataPut") /\ UNCHANGED reply
    \/ stream[p] = "good" /\ ~IsLarge(m)
        /\ Goto(p, "putBlock") /\ UNCHANGED reply
    \/ stream[p] = "bad" /\ ~IsLarge(m) /\ Answer(p, 400)

WriteFetch(p) ==
    /\ pc[p] = "fetch" /\ IsWrite(req[p])
    /\ LET m == req[p]
           S == Fetched(p)
       IN  /\ existing' = [existing EXCEPT ![p] = S]
           /\ \/ ~KeepsImmutable(m, S) /\ Answer(p, 400)
              \/ KeepsImmutable(m, S) /\ Outdated(m, S) /\ Answer(p, 409)
              \/ KeepsImmutable(m, S) /\ ~Outdated(m, S)
                    /\ IF IsDeleted(S) THEN Answer(p, 400) ELSE TakeData(p, S)
    /\ UNCHANGED <<stores, opening, resuming, req, stream, todo, cur, plan,
                   resumed, emitted, crashes, history>>

\* DataStore.put; a stream that does not hash to the message's dataCid is
\* stored under its own root, where nobody looks, and then refused.
DataPut(p) ==
    /\ pc[p] = "dataPut"
    /\ \/ /\ stream[p] = "good"
          /\ data' = data \cup {<<req[p].rec, req[p].data>>}
          /\ Goto(p, "putBlock")
       \/ /\ stream[p] = "bad"
          /\ Goto(p, "unwind") /\ UNCHANGED data
    /\ UNCHANGED <<blocks, encoded, indexed, latest, events, tasks, opening,
                   resuming, locals, emitted, crashes, history>>

\* The unwinding deletes all the data held for the record under the dataCid
\* the message names.
Unwind(p) ==
    /\ pc[p] = "unwind"
    /\ data' = data \ {<<req[p].rec, req[p].data>>}
    /\ Answer(p, 400)
    /\ UNCHANGED <<blocks, encoded, indexed, latest, events, tasks, opening,
                   resuming, req, stream, existing, todo, cur, plan, resumed,
                   emitted, crashes, history>>

\* Without a stream the large data must be in the data store already.
DataGet(p) ==
    /\ pc[p] = "dataGet"
    /\ IF <<req[p].rec, req[p].data>> \in data
       THEN Goto(p, "putBlock") /\ UNCHANGED reply
       ELSE Answer(p, 400)
    /\ UNCHANGED <<stores, opening, resuming, req, stream, existing, todo,
                   cur, plan, resumed, emitted, crashes, history>>

----------------------------------------------------------------------------
\* RecordsDeleteHandler.handle and StorageController.performRecordsDelete

DeleteFetch(p) ==
    /\ pc[p] = "fetch" /\ IsDelete(req[p])
    /\ LET m == req[p]
           S == Fetched(p)
       IN  /\ existing' = [existing EXCEPT ![p] = {}]
           /\ \/ ~CanPerformDelete(m, S) /\ Answer(p, 404)
              \/ CanPerformDelete(m, S) /\ Outdated(m, S) /\ Answer(p, 409)
              \/ CanPerformDelete(m, S) /\ ~Outdated(m, S)
                    /\ Goto(p, "register") /\ UNCHANGED reply
    /\ UNCHANGED <<stores, opening, resuming, req, stream, todo, cur, plan,
                   resumed, emitted, crashes, history>>

\* ResumableTaskManager.run registers the delete before performing it.
Register(p) ==
    /\ pc[p] = "register"
    /\ tasks' = tasks \cup {req[p]}
    /\ Goto(p, "performScan")
    /\ UNCHANGED <<blocks, encoded, indexed, latest, data, events, opening,
                   resuming, locals, emitted, crashes, history>>

\* The error of a failed task escapes the handler.
TaskFailsBad(p) ==
    IF resumed[p]
    THEN resuming' = resuming \cup {req[p]} /\ Goto(p, "reply")
            /\ UNCHANGED reply
    ELSE Goto(p, "failed") /\ UNCHANGED <<resuming, reply>>

\* A task that throws is retried by open(), and otherwise fails the request: 500
\* stands for the error that escapes the handler.  It stays registered either way.
TaskFails(p) ==
    IF resumed[p]
    THEN resuming' = resuming \cup {req[p]} /\ Goto(p, "reply")
            /\ UNCHANGED reply
    ELSE Answer(p, 500) /\ UNCHANGED resuming

\* performRecordsDelete looks at the record again; a delete that can no
\* longer be performed counts as done.
PerformFetch(p) ==
    /\ pc[p] = "performFetch"
    /\ LET S == Fetched(p)
       IN  /\ existing' = [existing EXCEPT ![p] = S]
           /\ \/ ~CanPerformDelete(req[p], S) /\ Goto(p, "complete")
                    /\ UNCHANGED <<reply, resuming>>
              \/ CanPerformDelete(req[p], S) /\ (\A w \in S : ~w.initial)
                    /\ TaskFails(p)
              \/ CanPerformDelete(req[p], S) /\ (\E w \in S : w.initial)
                    /\ Goto(p, "putBlock") /\ UNCHANGED <<reply, resuming>>
    /\ UNCHANGED <<stores, opening, req, stream, todo, cur, plan, resumed,
                   emitted, crashes, history>>

----------------------------------------------------------------------------
\* Storing a message, common to both handlers.

PutBlock(p) ==
    /\ pc[p] = "putBlock"
    /\ blocks' = blocks \cup {req[p]}
    /\ encoded' = IF BecomesEncoded(p) THEN encoded \cup {req[p]}
                                       ELSE encoded \ {req[p]}
    /\ Goto(p, "putIndex")
    /\ UNCHANGED <<indexed, latest, data, events, tasks, opening, resuming,
                   locals, emitted, crashes, history>>

PutIndex(p) ==
    /\ pc[p] = "putIndex"
    /\ indexed' = indexed \cup {req[p]}
    /\ latest' = IF BecomesLatest(p) THEN latest \cup {req[p]}
                                     ELSE latest \ {req[p]}
    /\ accepted' = accepted \cup {req[p]}
    /\ Goto(p, "append")
    /\ UNCHANGED <<blocks, encoded, data, events, tasks, opening, resuming,
                   locals, emitted, crashes, purged>>

\* EventLog.append, then the synchronous emit of what becomes queryable, then
\* on to the purge of a pruned record's descendants or to the clean-up.
AppendEvent(p) ==
    /\ pc[p] = "append"
    /\ events' = events \cup {req[p]}
    /\ emitted' = emitted \cup Emits(p)
    /\ \/ /\ IsDelete(req[p]) /\ req[p].prune
          /\ plan' = [plan EXCEPT ![p] =
                <<[op |-> "descend", rec |-> req[p].rec, msgs |-> {}]>>]
          /\ Goto(p, "purge") /\ UNCHANGED todo
       \/ /\ ~(IsDelete(req[p]) /\ req[p].prune)
          /\ todo' = [todo EXCEPT ![p] = Older(existing[p], req[p])]
          /\ Goto(p, "clean") /\ UNCHANGED plan
    /\ UNCHANGED <<blocks, encoded, indexed, latest, data, tasks, opening,
                   resuming, req, stream, existing, cur, resumed, reply,
                   crashes, history>>

----------------------------------------------------------------------------
\* purgeRecordDescendants and purgeRecordMessages.  The plan holds the calls
\* still to be made, the next one first.

\* The call stays on the plan: a recursion that does not end.
PurgeDescendBad(p) ==
    /\ pc[p] = "purge" /\ plan[p] # <<>> /\ Head(plan[p]).op = "descend"
    /\ LET r == Head(plan[p]).rec
       IN  plan' = [plan EXCEPT ![p] =
                <<[op |-> "group", rec |-> r, msgs |-> Children(r)]>> \o @]
    /\ UNCHANGED <<stores, opening, resuming, pc, req, stream, existing,
                   todo, cur, resumed, reply, emitted, crashes, history>>

\* The messages of the children are queried by parentId: index, then blocks.
PurgeDescend(p) ==
    /\ pc[p] = "purge" /\ plan[p] # <<>> /\ Head(plan[p]).op = "descend"
    /\ LET r == Head(plan[p]).rec
       IN  plan' = [plan EXCEPT ![p] =
                <<[op |-> "group", rec |-> r, msgs |-> Children(r)]>>
                \o Tail(@)]
    /\ UNCHANGED <<stores, opening, resuming, pc, req, stream, existing,
                   todo, cur, resumed, reply, emitted, crashes, history>>

\* First the descendants of every child, then the messages of every child.
PurgeGroup(p) ==
    /\ pc[p] = "purge" /\ plan[p] # <<>> /\ Head(plan[p]).op = "group"
    /\ LET S == Head(plan[p]).msgs \cap blocks
           kids == {m.rec : m \in S}
           N == 1 .. Cardinality(kids)
       IN  \E order \in [N -> kids] :
             /\ \A i, j \in N : order[i] = order[j] => i = j
             /\ plan' = [plan EXCEPT ![p] =
                  [i \in N |-> [op |-> "descend", rec |-> order[i],
                                msgs |-> {}]]
                  \o [i \in N |-> [op |-> "purge", rec |-> order[i],
                                   msgs |-> OfRecord(S, order[i])]]
                  \o Tail(@)]
    /\ UNCHANGED <<stores, opening, resuming, pc, req, stream, existing,
                   todo, cur, resumed, reply, emitted, crashes, history>>

\* The data of the newest write goes first; without any write the code reads
\* a property of undefined and throws.
PurgeData(p) ==
    /\ pc[p] = "purge" /\ plan[p] # <<>> /\ Head(plan[p]).op = "purge"
    /\ LET item == Head(plan[p])
           writes == {m \in item.msgs : IsWrite(m)}
       IN  IF writes = {}
           THEN /\ TaskFails(p)
                /\ UNCHANGED <<data, todo, plan, purged>>
           ELSE /\ data' = data \ {<<item.rec, Newest(writes).data>>}
                /\ todo' = [todo EXCEPT ![p] = item.msgs]
                /\ plan' = [plan EXCEPT ![p] = Tail(@)]
                /\ purged' = purged \cup {m.rec : m \in item.msgs}
                /\ Goto(p, "purgeEvents")
                /\ UNCHANGED <<reply, resuming>>
    /\ UNCHANGED <<blocks, encoded, indexed, latest, events, tasks, opening,
                   req, stream, existing, cur, resumed, emitted, crashes,
                   accepted>>

PurgeEvents(p) ==
    /\ pc[p] = "purgeEvents"
    /\ events' = events \ todo[p]
    /\ Goto(p, "purgeBlock")
    /\ UNCHANGED <<blocks, encoded, indexed, latest, data, tasks, opening,
                   resuming, locals, emitted, crashes, history>>

\* The messages are deleted in parallel: in any order.
PurgeBlock(p) ==
    /\ pc[p] = "purgeBlock"
    /\ \E m \in todo[p] :
        /\ cur' = [cur EXCEPT ![p] = m]
        /\ todo' = [todo EXCEPT ![p] = @ \ {m}]
        /\ blocks' = blocks \ {m}
        /\ encoded' = encoded \ {m}
    /\ Goto(p, "purgeIndex")
    /\ UNCHANGED <<indexed, latest, data, events, tasks, opening, resuming,
                   req, stream, existing, plan, resumed, reply, emitted,
                   crashes, history>>

PurgeIndex(p) ==
    /\ pc[p] = "purgeIndex"
    /\ indexed' = indexed \ {cur[p]}
    /\ latest' = latest \ {cur[p]}
    /\ Goto(p, IF todo[p] = {} THEN "purge" ELSE "purgeBlock")
    /\ UNCHANGED <<blocks, encoded, data, events, tasks, opening, resuming,
                   locals, emitted, crashes, history>>

PurgeEnd(p) ==
    /\ pc[p] = "purge" /\ plan[p] = <<>>
    /\ todo' = [todo EXCEPT ![p] = Older(existing[p], req[p])]
    /\ Goto(p, "clean")
    /\ UNCHANGED <<stores, opening, resuming, req, stream, existing, cur,
                   plan, resumed, reply, emitted, crashes, history>>

----------------------------------------------------------------------------
\* deleteAllOlderMessagesButKeepInitialWrite

\* The data of every older message goes, even if the newest one shares it.
CleanDataBad(p) ==
    /\ pc[p] = "clean"
    /\ \E m \in todo[p] :
        /\ \A n \in todo[p] : ~IsOlder(n, m)
        /\ cur' = [cur EXCEPT ![p] = m]
        /\ todo' = [todo EXCEPT ![p] = @ \ {m}]
        /\ data' = IF IsWrite(m) /\ IsLarge(m)
                   THEN data \ {<<m.rec, m.data>>}
                   ELSE data
    /\ Goto(p, "cleanBlock")
    /\ UNCHANGED <<blocks, encoded, indexed, latest, events, tasks, opening,
                   resuming, req, stream, existing, plan, resumed, reply,
                   emitted, crashes, history>>

\* The oldest message first, the order the query returned them in; then
\* deleteFromDataStoreIfNeeded.
CleanData(p) ==
    /\ pc[p] = "clean"
    /\ \E m \in todo[p] :
        /\ \A n \in todo[p] : ~IsOlder(n, m)
        /\ cur' = [cur EXCEPT ![p] = m]
        /\ todo' = [todo EXCEPT ![p] = @ \ {m}]
        /\ data' = IF IsWrite(m) /\ IsLarge(m) /\ m.data # req[p].data
                   THEN data \ {<<m.rec, m.data>>}
                   ELSE data
    /\ Goto(p, "cleanBlock")
    /\ UNCHANGED <<blocks, encoded, indexed, latest, events, tasks, opening,
                   resuming, req, stream, existing, plan, resumed, reply,
                   emitted, crashes, history>>

CleanBlock(p) ==
    /\ pc[p] = "cleanBlock"
    /\ blocks' = blocks \ {cur[p]}
    /\ encoded' = encoded \ {cur[p]}
    /\ Goto(p, "cleanIndex")
    /\ UNCHANGED <<indexed, latest, data, events, tasks, opening, resuming,
                   locals, emitted, crashes, history>>

\* The initial write is not put back.
CleanIndexBad(p) ==
    /\ pc[p] = "cleanIndex"
    /\ indexed' = indexed \ {cur[p]}
    /\ latest' = latest \ {cur[p]}
    /\ Goto(p, "cleanEvents")
    /\ UNCHANGED <<blocks, encoded, data, events, tasks, opening, resuming,
                   locals, emitted, crashes, history>>

CleanIndex(p) ==
    /\ pc[p] = "cleanIndex"
    /\ indexed' = indexed \ {cur[p]}
    /\ latest' = latest \ {cur[p]}
    /\ Goto(p, IF cur[p].initial THEN "restoreBlock" ELSE "cleanEvents")
    /\ UNCHANGED <<blocks, encoded, data, events, tasks, opening, resuming,
                   locals, emitted, crashes, history>>

\* The initial write is put back with its data.
RestoreBlockBad(p) ==
    /\ pc[p] = "restoreBlock"
    /\ blocks' = blocks \cup {cur[p]}
    /\ encoded' = encoded \cup {cur[p]}
    /\ Goto(p, "restoreIndex")
    /\ UNCHANGED <<indexed, latest, data, events, tasks, opening, resuming,
                   locals, emitted, crashes, history>>

\* The initial write is put back without its data and out of the latest state.
RestoreBlock(p) ==
    /\ pc[p] = "restoreBlock"
    /\ blocks' = blocks \cup {cur[p]}
    /\ encoded' = encoded \ {cur[p]}
    /\ Goto(p, "restoreIndex")
    /\ UNCHANGED <<indexed, latest, data, events, tasks, opening, resuming,
                   locals, emitted, crashes, history>>

\* The initial write comes back into the latest base state.
RestoreIndexBad(p) ==
    /\ pc[p] = "restoreIndex"
    /\ indexed' = indexed \cup {cur[p]}
    /\ latest' = latest \cup {cur[p]}
    /\ Goto(p, "cleanEvents")
    /\ UNCHANGED <<blocks, encoded, data, events, tasks, opening, resuming,
                   locals, emitted, crashes, history>>

RestoreIndex(p) ==
    /\ pc[p] = "restoreIndex"
    /\ indexed' = indexed \cup {cur[p]}
    /\ latest' = latest \ {cur[p]}
    /\ Goto(p, "cleanEvents")
    /\ UNCHANGED <<blocks, encoded, data, events, tasks, opening, resuming,
                   locals, emitted, crashes, history>>

\* The event of the initial write goes too, though the write came back.
CleanEventsBad(p) ==
    /\ pc[p] = "cleanEvents"
    /\ events' = events \ (Older(existing[p], req[p]) \ todo[p])
    /\ Goto(p, "clean")
    /\ UNCHANGED <<blocks, encoded, indexed, latest, data, tasks, opening,
                   resuming, locals, emitted, crashes, history>>

\* The events of all messages deleted so far, in every round of the loop.
CleanEvents(p) ==
    /\ pc[p] = "cleanEvents"
    /\ events' = events \ {m \in Older(existing[p], req[p]) :
                                ~m.initial /\ m \notin todo[p]}
    /\ Goto(p, "clean")
    /\ UNCHANGED <<blocks, encoded, indexed, latest, data, tasks, opening,
                   resuming, locals, emitted, crashes, history>>

CleanEnd(p) ==
    /\ pc[p] = "clean" /\ todo[p] = {}
    /\ \/ IsWrite(req[p]) /\ Answer(p, IF BecomesLatest(p) THEN 202 ELSE 204)
       \/ IsDelete(req[p]) /\ Goto(p, "complete") /\ UNCHANGED reply
    /\ UNCHANGED <<stores, opening, resuming, req, stream, existing, todo,
                   cur, plan, resumed, emitted, crashes, history>>

\* The task is done and deleted from the task store.
Complete(p) ==
    /\ pc[p] = "complete"
    /\ tasks' = tasks \ {req[p]}
    /\ Answer(p, 202)
    /\ UNCHANGED <<blocks, encoded, indexed, latest, data, events, opening,
                   resuming, req, stream, existing, todo, cur, plan, resumed,
                   emitted, crashes, history>>

\* The invocation returns to its caller.
Reply(p) ==
    /\ pc[p] = "reply"
    /\ Release(p)
    /\ UNCHANGED <<stores, opening, resuming, emitted, crashes, history>>

----------------------------------------------------------------------------
\* Dwn.open and crashes.

NoneRunning == \A p \in Procs : pc[p] = "idle"

\* resumeTasksAndWaitForCompletion grabs the timed-out tasks, whichever they
\* are, until there are none.
Grab ==
    /\ opening /\ resuming = {} /\ NoneRunning
    /\ \E T \in SUBSET tasks :
        /\ resuming' = T
        /\ opening' = (T # {})
    /\ UNCHANGED <<stores, pc, locals, emitted, crashes, history>>

\* The grabbed tasks run side by side.  The code waits for all of them before
\* it retries the ones that failed; here a failed task may also be retried
\* while another one is still running.
Resume(p) ==
    /\ pc[p] = "idle"
    /\ \E m \in resuming :
        /\ resuming' = resuming \ {m}
        /\ req' = [req EXCEPT ![p] = m]
    /\ resumed' = [resumed EXCEPT ![p] = TRUE]
    /\ Goto(p, "performScan")
    /\ UNCHANGED <<stores, opening, stream, existing, todo, cur, plan, reply,
                   emitted, crashes, history>>

\* The process stops wherever it is and is opened again.
Crash ==
    /\ crashes < MaxCrashes
    /\ crashes' = crashes + 1
    /\ opening' = TRUE /\ resuming' = {}
    /\ pc' = [p \in Procs |-> "idle"]
    /\ req' = [p \in Procs |-> AnyMessage]
    /\ stream' = [p \in Procs |-> "none"]
    /\ existing' = [p \in Procs |-> {}]
    /\ todo' = [p \in Procs |-> {}]
    /\ cur' = [p \in Procs |-> AnyMessage]
    /\ plan' = [p \in Procs |-> <<>>]
    /\ resumed' = [p \in Procs |-> FALSE]
    /\ reply' = [p \in Procs |-> 0]
    /\ UNCHANGED <<stores, emitted, history>>

----------------------------------------------------------------------------
Write(p) == CheckParent(p) \/ WriteFetch(p) \/ DataPut(p) \/ Unwind(p)
            \/ DataGet(p)

Delete(p) == DeleteFetch(p) \/ Register(p) \/ PerformFetch(p) \/ Complete(p)

Store(p) == Scan(p) \/ PutBlock(p) \/ PutIndex(p) \/ AppendEvent(p)

Purge(p) == PurgeDescend(p) \/ PurgeGroup(p) \/ PurgeData(p)
            \/ PurgeEvents(p) \/ PurgeBlock(p) \/ PurgeIndex(p) \/ PurgeEnd(p)

Clean(p) == CleanData(p) \/ CleanBlock(p) \/ CleanIndex(p) \/ RestoreBlock(p)
            \/ RestoreIndex(p) \/ CleanEvents(p) \/ CleanEnd(p)

\* What the event loop does next for an invocation in progress.
Run(p) == Write(p) \/ Delete(p) \/ Store(p) \/ Purge(p) \/ Clean(p)
          \/ Reply(p) \/ Refuse(p)

Next ==
    \/ \E p \in Procs : Receive(p) \/ Run(p) \/ Resume(p)
    \/ Grab
    \/ Crash

Spec == Init /\ [][Next]_vars

\* The event loop goes on with every pending await and open() with its tasks;
\* nothing makes requests arrive.
Fairness ==
    /\ \A p \in Procs : WF_vars(Run(p)) /\ WF_vars(Resume(p))
    /\ WF_vars(Grab)

FairSpec == Spec /\ Fairness
=============================================================================
