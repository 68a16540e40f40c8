---------------------------- MODULE RecordsSafety ----------------------------
(***************************************************************************)
(* The safety of the message store, for any number of handlers running     *)
(* side by side, any set of messages and any number of crashes: the types, *)
(* then StoreInv, from which NewestSurvives and ImmutableKept follow.      *)
(*                                                                         *)
(* A step of one handler can hurt the others only through the message      *)
(* store, and it touches the store in two ways: it adds a message, or it   *)
(* removes one that is overtaken or purged.  Neither takes away what the   *)
(* others rely on (lemmas Adds, Removes and Others), which leaves for each *)
(* action the invariant of the handler that takes it.                      *)
(***************************************************************************)
EXTENDS RecordsProps, FiniteSetTheorems, TLAPS

----------------------------------------------------------------------------
\* The order of messages.

\* IsOlder is the converse of IsNewer, and IsNewer orders the messages
\* strictly and totally: the loops of getNewestMessage and getOldestMessage
\* have one possible result.  (message.ts:150-221)
LEMMA NewerOrder ==
    /\ \A x, y \in Message : IsOlder(x, y) <=> IsNewer(y, x)
    /\ \A x \in Message : ~IsNewer(x, x)
    /\ \A x, y, z \in Message : IsNewer(x, y) /\ IsNewer(y, z) => IsNewer(x, z)
    /\ \A x, y \in Message : x = y \/ IsNewer(x, y) \/ IsNewer(y, x)
<1>1. \A x \in Message : x.ts \in Nat /\ x.cid \in Nat
  BY MessageAssumption DEF MessageType
<1>2. \A x, y \in Message : x.cid = y.cid => x = y
  BY MessageAssumption
<1> QED  BY <1>1, <1>2 DEF IsNewer, IsOlder

\* The initial write of a record is the only message of it that is initial.
LEMMA InitialWriteUnique ==
    \A m \in Message : m.initial => InitialWrite(m.rec) = m /\ IsWrite(m)
BY MessageAssumption DEF InitialWrite, IsWrite

\* There is a message, for an invocation that handles none to hold.
LEMMA AnyMessageType == AnyMessage \in Message
BY RecordsDwnAssumption DEF AnyMessage

----------------------------------------------------------------------------
\* Type correctness.

\* The variables have their types at the start.
LEMMA TypeInit == Init => TypeOK
<1> SUFFICES ASSUME Init PROVE TypeOK
  OBVIOUS
<1>1. plan \in [Procs -> Seq(PlanItem)]
  BY DEF Init
<1> QED  BY <1>1, AnyMessageType DEF Init, TypeOK, Labels, Codes

\* Moving an invocation on, or answering its request.
LEMMA TypeGoto ==
    ASSUME TypeOK, NEW p \in Procs, NEW l \in Labels, Goto(p, l)
    PROVE  pc' \in [Procs -> Labels]
BY DEF TypeOK, Goto

\* Answering a request keeps the types of the label and of the reply.
LEMMA TypeAnswer ==
    ASSUME TypeOK, NEW p \in Procs, NEW code \in Codes, Answer(p, code)
    PROVE  pc' \in [Procs -> Labels] /\ reply' \in [Procs -> Codes]
<1>1. "reply" \in Labels  BY DEF Labels
<1> QED  BY <1>1, TypeGoto DEF TypeOK, Answer

\* Labels and codes that the actions name.
LEMMA LabelCode ==
    /\ {"idle", "integrity", "scan", "fetch", "dataPut", "unwind", "dataGet"}
            \subseteq Labels
    /\ {"register", "performScan", "performFetch", "putBlock", "putIndex",
        "append", "complete", "reply"} \subseteq Labels
    /\ {"purge", "purgeEvents", "purgeBlock", "purgeIndex"} \subseteq Labels
    /\ {"clean", "cleanBlock", "cleanIndex", "restoreBlock", "restoreIndex",
        "cleanEvents"} \subseteq Labels
    /\ {0, 202, 204, 400, 401, 404, 409, 500} \subseteq Codes
BY DEF Labels, Codes

\* Releasing an invocation keeps the types of its variables.
LEMMA TypeRelease ==
    ASSUME TypeOK, NEW p \in Procs, Release(p)
    PROVE  /\ pc' \in [Procs -> Labels]
           /\ req' \in [Procs -> Message]
           /\ stream' \in [Procs -> {"none", "good", "bad"}]
           /\ existing' \in [Procs -> SUBSET Message]
           /\ todo' \in [Procs -> SUBSET Message]
           /\ cur' \in [Procs -> Message]
           /\ plan' \in [Procs -> Seq(PlanItem)]
           /\ resumed' \in [Procs -> BOOLEAN]
           /\ reply' \in [Procs -> Codes]
BY AnyMessageType DEF TypeOK, Release, Goto, Labels, Codes

\* So do the steps in which an invocation takes up a message or a task, or
\* reads the index of the message store.
LEMMA TypeReceive ==
    ASSUME TypeOK, NEW p \in Procs, Receive(p) \/ Resume(p) \/ Scan(p)
    PROVE  TypeOK'
<1>1. CASE Receive(p)
  BY <1>1, RecordsDwnAssumption
  DEF TypeOK, Receive, Goto, Labels, stores, history
<1>2. CASE Resume(p)
  BY <1>2 DEF TypeOK, Resume, Goto, Labels, stores, history
<1>3. CASE Scan(p)
  <2>1. pc' \in [Procs -> Labels]
    BY <1>3, TypeGoto, LabelCode DEF Scan
  <2>2. existing' \in [Procs -> SUBSET Message]
    BY <1>3 DEF TypeOK, Scan, OfRecord
  <2> QED  BY <1>3, <2>1, <2>2 DEF TypeOK, Scan, stores, history
<1> QED  BY <1>1, <1>2, <1>3

\* So do the checks of a write, a refusal and the return of the handler.
LEMMA TypeWrite ==
    ASSUME TypeOK, NEW p \in Procs, Write(p) \/ Refuse(p) \/ Reply(p)
    PROVE  TypeOK'
<1>1. CASE CheckParent(p)
  <2>1. pc' \in [Procs -> Labels] /\ reply' \in [Procs -> Codes]
    BY <1>1, TypeGoto, TypeAnswer, LabelCode DEF CheckParent, TypeOK
  <2> QED  BY <1>1, <2>1 DEF TypeOK, CheckParent, stores, history
<1>2. CASE WriteFetch(p)
  <2> DEFINE S == Fetched(p)
  <2>1. ASSUME TakeData(p, S)
        PROVE  pc' \in [Procs -> Labels] /\ reply' \in [Procs -> Codes]
    <3> HIDE DEF S
    <3> QED  BY <2>1, TypeGoto, TypeAnswer, LabelCode DEF TakeData, TypeOK
  <2>2. Answer(p, 400) \/ Answer(p, 409) \/ TakeData(p, S)
    BY <1>2 DEF WriteFetch
  <2>3. pc' \in [Procs -> Labels] /\ reply' \in [Procs -> Codes]
    BY <2>1, <2>2, TypeAnswer, LabelCode
  <2>4. existing' \in [Procs -> SUBSET Message]
    BY <1>2 DEF TypeOK, WriteFetch, Fetched
  <2> QED  BY <1>2, <2>3, <2>4 DEF TypeOK, WriteFetch, stores, history
<1>3. CASE DataPut(p)
  <2>1. <<req[p].rec, req[p].data>> \in Record \X (DataCid \cup {NoData})
    BY MessageAssumption DEF TypeOK, MessageType
  <2>2. pc' \in [Procs -> Labels]
    BY <1>3, TypeGoto, LabelCode DEF DataPut
  <2>3. data' \subseteq Record \X (DataCid \cup {NoData})
    BY <1>3, <2>1 DEF TypeOK, DataPut
  <2> QED  BY <1>3, <2>2, <2>3 DEF TypeOK, DataPut, locals, history
<1>4. CASE Unwind(p)
  BY <1>4 DEF TypeOK, Unwind, Goto, Answer, Labels, Codes, history
<1>5. CASE DataGet(p)
  <2>1. pc' \in [Procs -> Labels] /\ reply' \in [Procs -> Codes]
    BY <1>5, TypeGoto, TypeAnswer, LabelCode DEF DataGet, TypeOK
  <2> QED  BY <1>5, <2>1 DEF TypeOK, DataGet, stores, history
<1>6. CASE Refuse(p)
  <2>1. pc' \in [Procs -> Labels] /\ reply' \in [Procs -> Codes]
    BY <1>6, TypeAnswer, LabelCode DEF Refuse
  <2> QED  BY <1>6, <2>1 DEF TypeOK, Refuse, stores, history
<1>7. CASE Reply(p)
  BY <1>7, TypeRelease DEF TypeOK, Reply, stores, history
<1> QED  BY <1>1, <1>2, <1>3, <1>4, <1>5, <1>6, <1>7 DEF Write

\* So do the checks of a delete and the steps of its task.
LEMMA TypeDelete ==
    ASSUME TypeOK, NEW p \in Procs, Delete(p)
    PROVE  TypeOK'
<1>1. CASE DeleteFetch(p)
  <2>1. pc' \in [Procs -> Labels] /\ reply' \in [Procs -> Codes]
    BY <1>1, TypeGoto, TypeAnswer, LabelCode DEF DeleteFetch, TypeOK
  <2>2. existing' \in [Procs -> SUBSET Message]
    BY <1>1 DEF TypeOK, DeleteFetch
  <2> QED  BY <1>1, <2>1, <2>2 DEF TypeOK, DeleteFetch, stores, history
<1>2. CASE Register(p)
  BY <1>2 DEF TypeOK, Register, Goto, Labels, locals, history
<1>3. CASE PerformFetch(p)
  <2>1. /\ pc' \in [Procs -> Labels] /\ reply' \in [Procs -> Codes]
        /\ resuming' \subseteq Message
    BY <1>3, TypeGoto, TypeAnswer, LabelCode
    DEF TypeOK, PerformFetch, TaskFails
  <2>2. existing' \in [Procs -> SUBSET Message]
    BY <1>3 DEF TypeOK, PerformFetch, Fetched
  <2> QED  BY <1>3, <2>1, <2>2 DEF TypeOK, PerformFetch, stores, history
<1>4. CASE Complete(p)
  BY <1>4 DEF TypeOK, Complete, Goto, Answer, Labels, Codes, history
<1> QED  BY <1>1, <1>2, <1>3, <1>4 DEF Delete

\* So does storing a message: its block, its index entry and its event.
LEMMA TypeStore ==
    ASSUME TypeOK, NEW p \in Procs,
           PutBlock(p) \/ PutIndex(p) \/ AppendEvent(p)
    PROVE  TypeOK'
<1>1. CASE PutBlock(p)
  <2>1. pc' \in [Procs -> Labels]
    BY <1>1, TypeGoto, LabelCode DEF PutBlock
  <2>2. blocks' \subseteq Message /\ encoded' \subseteq Message
    BY <1>1 DEF TypeOK, PutBlock
  <2> QED  BY <1>1, <2>1, <2>2 DEF TypeOK, PutBlock, locals, history
<1>2. CASE PutIndex(p)
  <2>1. pc' \in [Procs -> Labels]
    BY <1>2, TypeGoto, LabelCode DEF PutIndex
  <2>2. indexed' \subseteq Message /\ latest' \subseteq Message
        /\ accepted' \subseteq Message
    BY <1>2 DEF TypeOK, PutIndex
  <2> QED  BY <1>2, <2>1, <2>2 DEF TypeOK, PutIndex, locals
<1>3. CASE AppendEvent(p)
  <2> DEFINE item == [op |-> "descend", rec |-> req[p].rec, msgs |-> {}]
  <2>1. pc' \in [Procs -> Labels]
    BY <1>3, TypeGoto, LabelCode DEF AppendEvent
  <2>2. item \in PlanItem
    BY MessageAssumption DEF TypeOK, MessageType, PlanItem
  <2>3. <<item>> \in Seq(PlanItem)
    <3> HIDE DEF item
    <3> QED  BY <2>2
  <2>4. plan' = plan \/ plan' = [plan EXCEPT ![p] = <<item>>]
    BY <1>3 DEF AppendEvent
  <2>5. plan' \in [Procs -> Seq(PlanItem)]
    <3> HIDE DEF item
    <3> QED  BY <2>3, <2>4 DEF TypeOK
  <2>6. todo' \in [Procs -> SUBSET Message]
    <3>1. Older(existing[p], req[p]) \in SUBSET Message
      BY DEF TypeOK, Older
    <3>2. todo' = todo
          \/ todo' = [todo EXCEPT ![p] = Older(existing[p], req[p])]
      BY <1>3 DEF AppendEvent
    <3> QED  BY <3>1, <3>2 DEF TypeOK
  <2>7. events' \subseteq Message /\ emitted' \subseteq Message
    BY <1>3 DEF TypeOK, AppendEvent, Emits
  <2> QED  BY <1>3, <2>1, <2>5, <2>6, <2>7
           DEF TypeOK, AppendEvent, history
<1> QED  BY <1>1, <1>2, <1>3

\* So does the purge of the descendants: the plan stays a sequence of calls.
LEMMA TypePurge ==
    ASSUME TypeOK, NEW p \in Procs, Purge(p)
    PROVE  TypeOK'
<1>1. CASE PurgeDescend(p)
  <2> DEFINE r == Head(plan[p]).rec
             S == Children(r)
             item == [op |-> "group", rec |-> r, msgs |-> S]
  <2>1. plan[p] \in Seq(PlanItem) /\ plan[p] # <<>>
    BY <1>1 DEF PurgeDescend, TypeOK
  <2>2. Head(plan[p]) \in PlanItem /\ Tail(plan[p]) \in Seq(PlanItem)
    BY <2>1
  <2>3. r \in Record
    BY <2>2 DEF PlanItem
  <2>4. S \in SUBSET Message
    BY DEF TypeOK, Children
  <2>5. item \in PlanItem
    <3> HIDE DEF r, S
    <3> QED  BY <2>3, <2>4 DEF PlanItem
  <2>6. plan' = [plan EXCEPT ![p] = <<item>> \o Tail(plan[p])]
    BY <1>1 DEF PurgeDescend
  <2>7. <<item>> \o Tail(plan[p]) \in Seq(PlanItem)
    <3> HIDE DEF item
    <3> QED  BY <2>2, <2>5
  <2>8. plan' \in [Procs -> Seq(PlanItem)]
    <3> HIDE DEF item
    <3> QED  BY <2>6, <2>7 DEF TypeOK
  <2> QED  BY <1>1, <2>8 DEF TypeOK, PurgeDescend, stores, history
<1>2. CASE PurgeGroup(p)
  <2> DEFINE S == Head(plan[p]).msgs \cap blocks
             kids == {m.rec : m \in S}
             N == 1 .. Cardinality(kids)
  <2>1. plan[p] \in Seq(PlanItem) /\ plan[p] # <<>>
    BY <1>2 DEF PurgeGroup, TypeOK
  <2>2. Tail(plan[p]) \in Seq(PlanItem)
    BY <2>1
  <2>3. S \subseteq Message /\ kids \subseteq Record
    BY MessageAssumption DEF TypeOK, MessageType
  <2>4. Cardinality(kids) \in Nat
    <3>1. IsFiniteSet(kids)
      BY <2>3, RecordsDwnAssumption, FS_Subset
    <3> QED  BY <3>1, FS_CardinalityType
  <2>5. PICK order \in [N -> kids] :
          plan' = [plan EXCEPT ![p] =
              [i \in N |-> [op |-> "descend", rec |-> order[i],
                            msgs |-> {}]]
              \o [i \in N |-> [op |-> "purge", rec |-> order[i],
                               msgs |-> OfRecord(S, order[i])]]
              \o Tail(plan[p])]
    BY <1>2 DEF PurgeGroup
  <2> DEFINE D == [i \in N |-> [op |-> "descend", rec |-> order[i],
                                msgs |-> {}]]
             P == [i \in N |-> [op |-> "purge", rec |-> order[i],
                                msgs |-> OfRecord(S, order[i])]]
  <2>6. \A i \in N : order[i] \in Record
    BY <2>3
  <2>7. \A i \in N : OfRecord(S, order[i]) \in SUBSET Message
    BY <2>3 DEF OfRecord
  <2>8. \A i \in N : D[i] \in PlanItem
    BY <2>6 DEF PlanItem
  <2>9. \A i \in N : P[i] \in PlanItem
    <3> HIDE DEF S, N
    <3> QED  BY <2>6, <2>7 DEF PlanItem
  <2>10. D \in Seq(PlanItem) /\ P \in Seq(PlanItem)
    <3>1. D \in [N -> PlanItem] /\ P \in [N -> PlanItem]
      <4> HIDE DEF S, N
      <4> QED  BY <2>8, <2>9
    <3> HIDE DEF D, P, kids
    <3> QED  BY <3>1, <2>4
  <2>11. D \o P \o Tail(plan[p]) \in Seq(PlanItem)
    <3> HIDE DEF D, P
    <3> QED  BY <2>10, <2>2
  <2>12. plan' = [plan EXCEPT ![p] = D \o P \o Tail(plan[p])]
    BY <2>5
  <2>13. plan' \in [Procs -> Seq(PlanItem)]
    <3> HIDE DEF D, P
    <3> QED  BY <2>11, <2>12 DEF TypeOK
  <2> QED  BY <1>2, <2>13 DEF TypeOK, PurgeGroup, stores, history
<1>3. CASE PurgeData(p)
  <2> DEFINE item == Head(plan[p])
  <2>1. plan[p] \in Seq(PlanItem) /\ plan[p] # <<>>
    BY <1>3 DEF PurgeData, TypeOK
  <2>2. item \in PlanItem /\ Tail(plan[p]) \in Seq(PlanItem)
    BY <2>1
  <2>3. item.msgs \in SUBSET Message
    BY <2>2 DEF PlanItem
  <2>4. /\ pc' \in [Procs -> Labels] /\ reply' \in [Procs -> Codes]
        /\ resuming' \subseteq Message
    BY <1>3, TypeGoto, TypeAnswer, LabelCode DEF TypeOK, PurgeData, TaskFails
  <2>5. plan' = plan \/ plan' = [plan EXCEPT ![p] = Tail(plan[p])]
    BY <1>3 DEF PurgeData
  <2>6. plan' \in [Procs -> Seq(PlanItem)]
    BY <2>2, <2>5 DEF TypeOK
  <2>7. todo' = todo \/ todo' = [todo EXCEPT ![p] = item.msgs]
    BY <1>3 DEF PurgeData
  <2>8. todo' \in [Procs -> SUBSET Message]
    BY <2>3, <2>7 DEF TypeOK
  <2>9. purged' = purged \/ purged' = purged \cup {m.rec : m \in item.msgs}
    BY <1>3 DEF PurgeData
  <2>10. purged' \subseteq Record
    BY <2>3, <2>9, MessageAssumption DEF TypeOK, MessageType
  <2>11. data' \subseteq data
    BY <1>3 DEF PurgeData
  <2> QED  BY <1>3, <2>4, <2>6, <2>8, <2>10, <2>11 DEF TypeOK, PurgeData
<1>4. CASE PurgeEvents(p)
  BY <1>4 DEF TypeOK, PurgeEvents, Goto, Labels, locals, history
<1>5. CASE PurgeBlock(p)
  BY <1>5 DEF TypeOK, PurgeBlock, Goto, Labels, history
<1>6. CASE PurgeIndex(p)
  BY <1>6 DEF TypeOK, PurgeIndex, Goto, Labels, locals, history
<1>7. CASE PurgeEnd(p)
  BY <1>7 DEF TypeOK, PurgeEnd, Goto, Labels, Older, stores, history
<1> QED  BY <1>1, <1>2, <1>3, <1>4, <1>5, <1>6, <1>7 DEF Purge

\* So does the clean-up of older messages.
LEMMA TypeClean ==
    ASSUME TypeOK, NEW p \in Procs, Clean(p)
    PROVE  TypeOK'
<1>1. CASE CleanData(p)
  <2>1. pc' \in [Procs -> Labels]
    BY <1>1, TypeGoto, LabelCode DEF CleanData
  <2>2. cur' \in [Procs -> Message] /\ todo' \in [Procs -> SUBSET Message]
    BY <1>1 DEF TypeOK, CleanData
  <2>3. data' \subseteq data
    BY <1>1 DEF CleanData
  <2> QED  BY <1>1, <2>1, <2>2, <2>3 DEF TypeOK, CleanData, history
<1>2. CASE CleanBlock(p)
  BY <1>2 DEF TypeOK, CleanBlock, Goto, Labels, locals, history
<1>3. CASE CleanIndex(p)
  BY <1>3 DEF TypeOK, CleanIndex, Goto, Labels, locals, history
<1>4. CASE RestoreBlock(p)
  BY <1>4 DEF TypeOK, RestoreBlock, Goto, Labels, locals, history
<1>5. CASE RestoreIndex(p)
  BY <1>5 DEF TypeOK, RestoreIndex, Goto, Labels, locals, history
<1>6. CASE CleanEvents(p)
  BY <1>6 DEF TypeOK, CleanEvents, Goto, Labels, locals, history
<1>7. CASE CleanEnd(p)
  <2>1. pc' \in [Procs -> Labels] /\ reply' \in [Procs -> Codes]
    BY <1>7, TypeGoto, TypeAnswer, LabelCode DEF CleanEnd, TypeOK
  <2> QED  BY <1>7, <2>1 DEF TypeOK, CleanEnd, stores, history
<1> QED  BY <1>1, <1>2, <1>3, <1>4, <1>5, <1>6, <1>7 DEF Clean

\* So do open() taking up tasks and a crash.
LEMMA TypeOpen ==
    ASSUME TypeOK, Grab \/ Crash
    PROVE  TypeOK'
<1>1. CASE Grab
  BY <1>1 DEF TypeOK, Grab, stores, locals, history
<1>2. CASE Crash
  <2>1. crashes' \in Nat
    BY <1>2 DEF TypeOK, Crash
  <2>2. plan' \in [Procs -> Seq(PlanItem)]
    BY <1>2 DEF Crash
  <2> QED  BY <1>2, <2>1, <2>2, AnyMessageType
           DEF TypeOK, Crash, Labels, Codes, stores, history
<1> QED  BY <1>1, <1>2

\* Every step keeps the types.
LEMMA TypeStep == TypeOK /\ [Next]_vars => TypeOK'
<1> SUFFICES ASSUME TypeOK, [Next]_vars PROVE TypeOK'
  OBVIOUS
<1>1. CASE UNCHANGED vars
  BY <1>1 DEF TypeOK, vars, stores, locals, history
<1>2. ASSUME NEW p \in Procs, Run(p) PROVE TypeOK'
  <2>1. CASE Store(p)
    BY <2>1, TypeStore, TypeReceive DEF Store
  <2> QED  BY <1>2, <2>1, TypeWrite, TypeDelete, TypePurge, TypeClean DEF Run
<1> QED  BY <1>1, <1>2, TypeReceive, TypeOpen DEF Next

\* The variables keep their types.
THEOREM TypeCorrect == Spec => []TypeOK
BY TypeInit, TypeStep, PTL DEF Spec

----------------------------------------------------------------------------
\* The safety of the message store.

\* Message m is in its place between the two halves of its put.
InPlace(m) == m \in blocks \/ Overtaken(m)

\* What a step must keep for the handlers that do not take it.
Keeps ==
    /\ accepted \subseteq accepted' /\ purged \subseteq purged'
    /\ \A m \in Message : Covered(m) => Covered(m)'
    /\ \A m \in Message : Overtaken(m) => Overtaken(m)'
    /\ \A m \in Message : InPlace(m) => InPlace(m)'

\* The local variables of handler q, as far as the invariant reads them.
Waits(q) ==
    /\ pc'[q] = pc[q] /\ req'[q] = req[q] /\ existing'[q] = existing[q]
    /\ todo'[q] = todo[q] /\ cur'[q] = cur[q]

\* A step that removes nothing from the message store keeps what the other
\* handlers rely on.
LEMMA Adds ==
    ASSUME TypeOK, blocks \subseteq blocks', indexed \subseteq indexed',
           accepted \subseteq accepted', purged \subseteq purged'
    PROVE  Keeps
BY DEF Keeps, Covered, Overtaken, InPlace, Stored

\* So does one that removes the message x, when x is purged or some accepted
\* message of its record is newer: the clean-up cannot remove the last state.
LEMMA Removes ==
    ASSUME StoreInv, NEW x \in Message,
           x.rec \in purged \/ Overtaken(x),
           blocks \ {x} \subseteq blocks', indexed \ {x} \subseteq indexed',
           accepted \subseteq accepted', purged \subseteq purged'
    PROVE  Keeps
<1>1. accepted \subseteq Message
  BY DEF StoreInv, TypeOK
<1>2. CASE x.rec \in purged
  BY <1>1, <1>2 DEF Keeps, Covered, Overtaken, InPlace, Stored
<1>3. CASE x.rec \notin purged
  <2>1. PICK k \in Stored \cap accepted : k.rec = x.rec /\ IsNewer(k, x)
    BY <1>3 DEF Overtaken
  <2>2. k \in Message /\ k # x
    BY <1>1, <2>1, NewerOrder
  <2>3. k \in Stored' \cap accepted'
    BY <2>1, <2>2 DEF Stored
  <2>4. ASSUME NEW m \in Message, Covered(m) PROVE Covered(m)'
    <3>1. CASE m.rec \in purged
      BY <3>1 DEF Covered
    <3>2. CASE m.rec \notin purged
      <4>1. PICK n \in Stored \cap accepted :
              n.rec = m.rec /\ (n = m \/ IsNewer(n, m))
        BY <2>4, <3>2 DEF Covered
      <4>2. CASE n = x
        <5>1. k.rec = m.rec /\ IsNewer(k, m)
          BY <1>1, <2>1, <2>2, <4>1, <4>2, NewerOrder
        <5> QED  BY <2>3, <5>1 DEF Covered
      <4>3. CASE n # x
        BY <4>1, <4>3 DEF Covered, Stored
      <4> QED  BY <4>2, <4>3
    <3> QED  BY <3>1, <3>2
  <2>5. ASSUME NEW m \in Message, Overtaken(m) PROVE Overtaken(m)'
    <3>1. CASE m.rec \in purged
      BY <3>1 DEF Overtaken
    <3>2. CASE m.rec \notin purged
      <4>1. PICK n \in Stored \cap accepted : n.rec = m.rec /\ IsNewer(n, m)
        BY <2>5, <3>2 DEF Overtaken
      <4>2. CASE n = x
        <5>1. k.rec = m.rec /\ IsNewer(k, m)
          BY <1>1, <2>1, <2>2, <4>1, <4>2, NewerOrder
        <5> QED  BY <2>3, <5>1 DEF Overtaken
      <4>3. CASE n # x
        BY <4>1, <4>3 DEF Overtaken, Stored
      <4> QED  BY <4>2, <4>3
    <3> QED  BY <3>1, <3>2
  <2>6. Overtaken(x)'
    BY <2>1, <2>3 DEF Overtaken
  <2>7. ASSUME NEW m \in Message, InPlace(m) PROVE InPlace(m)'
    <3>1. CASE Overtaken(m)
      BY <2>5, <3>1 DEF InPlace
    <3>2. CASE m \in blocks /\ m # x
      BY <3>2 DEF InPlace
    <3>3. CASE m = x
      BY <2>6, <3>3 DEF InPlace, Overtaken
    <3> QED  BY <2>7, <3>1, <3>2, <3>3 DEF InPlace
  <2> QED  BY <2>4, <2>5, <2>7 DEF Keeps
<1> QED  BY <1>2, <1>3

\* A handler that does not take the step keeps its invariant.
LEMMA Others ==
    ASSUME StoreInv, TypeOK', Keeps, NEW q \in Procs, Waits(q)
    PROVE  HandlerInv(q)'
<1>1. HandlerInv(q) /\ req[q] \in Message
  BY DEF StoreInv, TypeOK
<1>2. (pc[q] \in Storing => Grounded(req[q]))'
  BY <1>1 DEF HandlerInv, Grounded, Waits, Keeps
<1>3. (pc[q] = "putIndex" => req[q] \in blocks \/ Overtaken(req[q]))'
  <2>1. pc[q] = "putIndex" => InPlace(req[q])
    BY <1>1 DEF HandlerInv, InPlace
  <2>2. \A m \in Message : InPlace(m) => InPlace(m)'
    BY DEF Keeps
  <2> QED  BY <1>1, <2>1, <2>2 DEF InPlace, Overtaken, Waits
<1>4. (existing[q] \subseteq OfRecord(accepted, req[q].rec))'
  BY <1>1 DEF HandlerInv, Waits, Keeps, OfRecord
<1> QED  BY <1>1, <1>2, <1>3, <1>4 DEF HandlerInv, Waits, Keeps, Older

\* Together: a step that accepts no message preserves StoreInv if it keeps
\* what the others rely on and the invariant of the handler that takes it.
LEMMA Frame ==
    ASSUME StoreInv, TypeOK', Keeps, NEW p \in Procs,
           \A q \in Procs \ {p} : Waits(q), HandlerInv(p)',
           \A m \in tasks' \cup resuming' : IsDelete(m),
           indexed' \subseteq accepted, accepted' = accepted
    PROVE  StoreInv'
<1>1. \A q \in Procs : HandlerInv(q)'
  BY Others
<1>2. \A m \in accepted : Covered(m)'
  BY DEF StoreInv, TypeOK, Keeps
<1>3. \A m \in accepted : Grounded(m)'
  BY DEF StoreInv, Grounded
<1> QED  BY <1>1, <1>2, <1>3 DEF StoreInv

\* A step that leaves the message store alone.
LEMMA Quiet ==
    ASSUME StoreInv, TypeOK', NEW p \in Procs,
           UNCHANGED <<blocks, indexed, accepted>>, purged \subseteq purged',
           \A q \in Procs \ {p} : Waits(q), HandlerInv(p)',
           \A m \in tasks' \cup resuming' : IsDelete(m)
    PROVE  StoreInv'
<1>1. Keeps
  BY Adds DEF StoreInv
<1> QED  BY <1>1, Frame DEF StoreInv

\* Where a handler has nothing in hand its invariant says little.
LEMMA AtEase ==
    ASSUME StoreInv, TypeOK', NEW p \in Procs,
           pc'[p] \in {"integrity", "scan", "fetch", "unwind", "complete",
                       "reply"},
           existing'[p] \subseteq OfRecord(accepted', req'[p].rec)
    PROVE  HandlerInv(p)'
BY DEF HandlerInv, Storing, Performing, AfterPut, Purging, Cleaning,
       CleaningOne

----------------------------------------------------------------------------
\* The actions.

\* A message comes in, or a task of an earlier process is taken up.
LEMMA SafeReceive ==
    ASSUME StoreInv, TypeOK', NEW p \in Procs,
           Receive(p) \/ Resume(p) \/ Reply(p)
    PROVE  StoreInv'
<1>0. TypeOK /\ HandlerInv(p)
  BY DEF StoreInv
<1>1. CASE Receive(p)
  <2>1. pc'[p] \in {"integrity", "scan"}
    BY <1>0, <1>1 DEF TypeOK, Receive, Goto
  <2>2. existing'[p] = {}
    BY <1>0, <1>1 DEF HandlerInv, Receive
  <2>3. HandlerInv(p)'
    BY <2>1, <2>2, AtEase
  <2>4. \A q \in Procs \ {p} : Waits(q)
    BY <1>0, <1>1 DEF TypeOK, Receive, Goto, Waits
  <2> QED  BY <1>1, <2>3, <2>4, Quiet DEF Receive, stores, history, StoreInv
<1>2. CASE Resume(p)
  <2>1. pc'[p] = "performScan" /\ existing'[p] = {} /\ IsDelete(req'[p])
    BY <1>0, <1>2 DEF TypeOK, Resume, Goto, HandlerInv, StoreInv
  <2>2. HandlerInv(p)'
    BY <2>1 DEF HandlerInv, Storing, Performing, AfterPut, Purging, Cleaning,
                CleaningOne
  <2>3. \A q \in Procs \ {p} : Waits(q)
    BY <1>0, <1>2 DEF TypeOK, Resume, Goto, Waits
  <2>4. \A m \in tasks' \cup resuming' : IsDelete(m)
    BY <1>2 DEF Resume, stores, StoreInv
  <2> QED  BY <1>2, <2>2, <2>3, <2>4, Quiet DEF Resume, stores, history
<1>3. CASE Reply(p)
  <2>1. pc'[p] = "idle" /\ existing'[p] = {}
    BY <1>0, <1>3 DEF TypeOK, Reply, Release, Goto
  <2>2. HandlerInv(p)'
    BY <2>1 DEF HandlerInv, Storing, Performing, AfterPut, Purging, Cleaning,
                CleaningOne
  <2>3. \A q \in Procs \ {p} : Waits(q)
    BY <1>0, <1>3 DEF TypeOK, Reply, Release, Goto, Waits
  <2> QED  BY <1>3, <2>2, <2>3, Quiet DEF Reply, stores, history, StoreInv
<1> QED  BY <1>1, <1>2, <1>3

\* The checks of a write, up to the point where it may be stored: it agrees
\* with an initial write that has been accepted.
LEMMA SafeWrite ==
    ASSUME StoreInv, TypeOK', NEW p \in Procs, Write(p) \/ Refuse(p)
    PROVE  StoreInv'
<1>0. TypeOK /\ HandlerInv(p) /\ req[p] \in Message
  BY DEF StoreInv, TypeOK
<1>1. CASE CheckParent(p) \/ Refuse(p) \/ Unwind(p)
  <2>1. pc'[p] \in {"scan", "reply"} /\ existing' = existing /\ req' = req
    BY <1>0, <1>1 DEF TypeOK, CheckParent, Refuse, Unwind, Goto, Answer
  <2>2. accepted' = accepted /\ purged' = purged
        /\ UNCHANGED <<blocks, indexed, tasks, resuming>>
    BY <1>1 DEF CheckParent, Refuse, Unwind, stores, history
  <2>3. HandlerInv(p)'
    BY <1>0, <2>1, <2>2, AtEase DEF HandlerInv
  <2>4. \A q \in Procs \ {p} : Waits(q)
    BY <1>0, <1>1
    DEF TypeOK, CheckParent, Refuse, Unwind, Goto, Answer, Waits
  <2> QED  BY <2>2, <2>3, <2>4, Quiet DEF StoreInv
<1>2. CASE WriteFetch(p)
  <2> DEFINE S == Fetched(p)
  <2>1. S \subseteq OfRecord(accepted, req[p].rec)
    BY <1>0 DEF Fetched, HandlerInv
  <2>2. existing'[p] = S /\ \A q \in Procs \ {p} : existing'[q] = existing[q]
    BY <1>0, <1>2 DEF TypeOK, WriteFetch
  <2>3. \/ pc'[p] = "reply"
        \/ /\ pc'[p] \in {"putBlock", "dataPut", "dataGet"}
           /\ KeepsImmutable(req[p], S)
    <3>1. Answer(p, 400) \/ Answer(p, 409)
          \/ (TakeData(p, S) /\ KeepsImmutable(req[p], S))
      BY <1>2 DEF WriteFetch
    <3>2. ASSUME TakeData(p, S)
          PROVE  pc'[p] \in {"putBlock", "dataPut", "dataGet", "reply"}
      <4> HIDE DEF S
      <4> QED  BY <1>0, <3>2 DEF TypeOK, TakeData, Goto, Answer
    <3> HIDE DEF S
    <3> QED  BY <1>0, <3>1, <3>2 DEF TypeOK, Answer, Goto
  <2>4. ASSUME KeepsImmutable(req[p], S) PROVE Grounded(req[p])
    <3>1. CASE req[p].initial
      BY <1>0, <3>1, InitialWriteUnique DEF Grounded
    <3>2. CASE ~req[p].initial
      <4>1. PICK w \in S : w.initial /\ w.parent = req[p].parent
        BY <2>4, <3>2 DEF KeepsImmutable
      <4>2. w \in accepted /\ w.rec = req[p].rec /\ w \in Message
        BY <1>0, <2>1, <4>1 DEF OfRecord, TypeOK
      <4> QED  BY <4>1, <4>2, InitialWriteUnique DEF Grounded
    <3> QED  BY <3>1, <3>2
  <2>5. req' = req /\ accepted' = accepted
    BY <1>2 DEF WriteFetch, history
  <2>6. HandlerInv(p)'
    <3>1. CASE pc'[p] = "reply"
      BY <2>1, <2>2, <2>5, <3>1, AtEase
    <3>2. CASE pc'[p] \in {"putBlock", "dataPut", "dataGet"}
      <4>1. Grounded(req[p])'
        BY <2>3, <2>4, <2>5, <3>2 DEF Grounded
      <4>2. (existing[p] \subseteq OfRecord(accepted, req[p].rec))'
        BY <2>1, <2>2, <2>5 DEF OfRecord
      <4> QED  BY <3>2, <4>1, <4>2
               DEF HandlerInv, Performing, AfterPut, Purging, Cleaning,
                   CleaningOne
    <3> QED  BY <2>3, <3>1, <3>2
  <2>7. \A q \in Procs \ {p} : Waits(q)
    <3>1. \A q \in Procs \ {p} : pc'[q] = pc[q]
      <4>1. Answer(p, 400) \/ Answer(p, 409) \/ TakeData(p, S)
        BY <1>2 DEF WriteFetch
      <4> HIDE DEF S
      <4> QED  BY <1>0, <4>1 DEF TypeOK, TakeData, Answer, Goto
    <3> QED  BY <1>2, <2>2, <3>1 DEF Waits, WriteFetch
  <2> QED  BY <1>2, <2>6, <2>7, Quiet
           DEF WriteFetch, stores, history, StoreInv
<1>3. CASE DataPut(p) \/ DataGet(p)
  <2>1. /\ pc[p] \in {"dataPut", "dataGet"}
        /\ pc'[p] \in {"putBlock", "unwind", "reply"}
        /\ existing' = existing /\ req' = req
    BY <1>0, <1>3 DEF TypeOK, DataPut, DataGet, Goto, Answer, locals
  <2>2. accepted' = accepted /\ purged' = purged
        /\ UNCHANGED <<blocks, indexed, tasks, resuming>>
    BY <1>3 DEF DataPut, DataGet, stores, history
  <2>3. Grounded(req[p])'
    BY <1>0, <2>1, <2>2 DEF HandlerInv, Storing, Grounded
  <2>4. HandlerInv(p)'
    BY <1>0, <2>1, <2>2, <2>3
    DEF HandlerInv, Performing, AfterPut, Purging, Cleaning, CleaningOne,
        OfRecord
  <2>5. \A q \in Procs \ {p} : Waits(q)
    BY <1>0, <1>3 DEF TypeOK, DataPut, DataGet, Goto, Answer, Waits, locals
  <2> QED  BY <2>2, <2>4, <2>5, Quiet DEF StoreInv
<1> QED  BY <1>1, <1>2, <1>3 DEF Write

\* The checks of a delete, and its task: performRecordsDelete stores the
\* delete only over an initial write it found.
LEMMA SafeDelete ==
    ASSUME StoreInv, TypeOK', NEW p \in Procs, Delete(p) \/ Scan(p)
    PROVE  StoreInv'
<1>0. TypeOK /\ HandlerInv(p) /\ req[p] \in Message
  BY DEF StoreInv, TypeOK
<1>1. CASE Scan(p)
  <2>1. \/ pc'[p] = "fetch"
        \/ pc[p] = "performScan" /\ pc'[p] = "performFetch"
    BY <1>0, <1>1 DEF TypeOK, Scan, Goto
  <2>2. existing'[p] \subseteq OfRecord(accepted, req[p].rec)
    BY <1>0, <1>1 DEF TypeOK, Scan, OfRecord, StoreInv
  <2>3. req' = req /\ accepted' = accepted
    BY <1>1 DEF Scan, history
  <2>4. HandlerInv(p)'
    <3>1. CASE pc'[p] = "fetch"
      BY <2>2, <2>3, <3>1, AtEase
    <3>2. CASE pc[p] = "performScan" /\ pc'[p] = "performFetch"
      BY <1>0, <2>2, <2>3, <3>2
      DEF HandlerInv, Storing, Performing, AfterPut, Purging, Cleaning,
          CleaningOne, OfRecord
    <3> QED  BY <2>1, <3>1, <3>2
  <2>5. \A q \in Procs \ {p} : Waits(q)
    BY <1>0, <1>1 DEF TypeOK, Scan, Goto, Waits
  <2> QED  BY <1>1, <2>4, <2>5, Quiet DEF Scan, stores, history, StoreInv
<1>2. CASE DeleteFetch(p) \/ Complete(p)
  <2>1. pc'[p] \in {"reply", "register"} /\ (pc'[p] = "register" => IsDelete(req[p]))
    BY <1>0, <1>2 DEF TypeOK, DeleteFetch, Complete, Goto, Answer
  <2>2. existing'[p] \subseteq existing[p] /\ req' = req /\ accepted' = accepted
    BY <1>0, <1>2 DEF TypeOK, DeleteFetch, Complete, history
  <2>3. HandlerInv(p)'
    BY <1>0, <2>1, <2>2
    DEF HandlerInv, Storing, Performing, AfterPut, Purging, Cleaning,
        CleaningOne, OfRecord
  <2>4. \A q \in Procs \ {p} : Waits(q)
    BY <1>0, <1>2 DEF TypeOK, DeleteFetch, Complete, Goto, Answer, Waits
  <2>5. \A m \in tasks' \cup resuming' : IsDelete(m)
    BY <1>2 DEF DeleteFetch, Complete, stores, StoreInv
  <2> QED  BY <1>2, <2>3, <2>4, <2>5, Quiet
           DEF DeleteFetch, Complete, stores, history
<1>3. CASE Register(p)
  <2>1. /\ pc[p] = "register" /\ pc'[p] = "performScan"
        /\ existing' = existing /\ req' = req /\ accepted' = accepted
    BY <1>0, <1>3 DEF TypeOK, Register, Goto, locals, history
  <2>2. HandlerInv(p)'
    BY <1>0, <2>1
    DEF HandlerInv, Storing, Performing, AfterPut, Purging, Cleaning,
        CleaningOne, OfRecord
  <2>3. \A q \in Procs \ {p} : Waits(q)
    BY <1>0, <1>3 DEF TypeOK, Register, Goto, Waits, locals
  <2>4. \A m \in tasks' \cup resuming' : IsDelete(m)
    BY <1>0, <1>3, <2>1 DEF Register, StoreInv, HandlerInv, Performing
  <2> QED  BY <1>3, <2>2, <2>3, <2>4, Quiet DEF Register, history
<1>4. CASE PerformFetch(p)
  <2> DEFINE S == Fetched(p)
  <2>1. pc[p] = "performFetch" /\ existing'[p] = S
        /\ S \subseteq OfRecord(accepted, req[p].rec)
    BY <1>0, <1>4 DEF TypeOK, PerformFetch, Fetched, HandlerInv
  <2>2. IsDelete(req[p]) /\ ~IsWrite(req[p])
    BY <1>0, <2>1 DEF HandlerInv, Performing, IsDelete, IsWrite
  <2>3. pc'[p] \in {"complete", "reply", "putBlock"}
        /\ (pc'[p] = "putBlock" => \E w \in S : w.initial)
    BY <1>0, <1>4 DEF TypeOK, PerformFetch, TaskFails, Goto, Answer
  <2>4. (\E w \in S : w.initial) => Grounded(req[p])
    BY <1>0, <2>1, <2>2, InitialWriteUnique DEF Grounded, OfRecord, TypeOK
  <2>5. req' = req /\ accepted' = accepted /\ tasks' = tasks
    BY <1>4 DEF PerformFetch, stores, history
  <2>6. HandlerInv(p)'
    <3>1. Grounded(req[p]) => Grounded(req[p])'
      BY <2>5 DEF Grounded
    <3> HIDE DEF S
    <3> QED  BY <2>1, <2>3, <2>4, <2>5, <3>1
             DEF HandlerInv, Storing, Performing, AfterPut, Purging, Cleaning,
                 CleaningOne, OfRecord
  <2>7. \A q \in Procs \ {p} : Waits(q)
    BY <1>0, <1>4 DEF TypeOK, PerformFetch, TaskFails, Goto, Answer, Waits
  <2>8. \A m \in tasks' \cup resuming' : IsDelete(m)
    BY <1>4, <2>2, <2>5 DEF PerformFetch, TaskFails, StoreInv
  <2> QED  BY <1>4, <2>6, <2>7, <2>8, Quiet DEF PerformFetch, stores, history
<1> QED  BY <1>1, <1>2, <1>3, <1>4 DEF Delete

\* Storing a message: the block first, then the index entry that makes the
\* message count.  A clean-up may take the block away in between, but only
\* for a newer message.
LEMMA SafeStore ==
    ASSUME StoreInv, TypeOK', NEW p \in Procs,
           PutBlock(p) \/ PutIndex(p) \/ AppendEvent(p)
    PROVE  StoreInv'
<1>0. TypeOK /\ HandlerInv(p) /\ req[p] \in Message
  BY DEF StoreInv, TypeOK
<1>1. CASE PutBlock(p)
  <2>1. /\ pc[p] = "putBlock" /\ pc'[p] = "putIndex"
        /\ existing' = existing /\ req' = req /\ accepted' = accepted
        /\ blocks' = blocks \cup {req[p]} /\ indexed' = indexed
        /\ purged' = purged
    BY <1>0, <1>1 DEF TypeOK, PutBlock, Goto, locals, history
  <2>2. Keeps
    BY <1>0, <2>1, Adds
  <2>3. Grounded(req[p])'
    BY <1>0, <2>1 DEF HandlerInv, Storing, Grounded
  <2>4. HandlerInv(p)'
    BY <1>0, <2>1, <2>3
    DEF HandlerInv, Performing, AfterPut, Purging, Cleaning, CleaningOne,
        OfRecord
  <2>5. \A q \in Procs \ {p} : Waits(q)
    BY <1>0, <1>1 DEF TypeOK, PutBlock, Goto, Waits, locals
  <2> QED  BY <1>1, <2>1, <2>2, <2>4, <2>5, Frame DEF PutBlock, StoreInv
<1>2. CASE PutIndex(p)
  <2>1. /\ pc[p] = "putIndex" /\ pc'[p] = "append"
        /\ existing' = existing /\ req' = req
        /\ accepted' = accepted \cup {req[p]}
        /\ blocks' = blocks /\ indexed' = indexed \cup {req[p]}
        /\ purged' = purged /\ tasks' = tasks /\ resuming' = resuming
    BY <1>0, <1>2 DEF TypeOK, PutIndex, Goto, locals
  <2>2. Keeps
    BY <1>0, <2>1, Adds
  <2>3. Covered(req[p])'
    <3>1. CASE req[p] \in blocks
      BY <2>1, <3>1 DEF Covered, Stored
    <3>2. CASE Overtaken(req[p])
      BY <2>1, <3>2 DEF Covered, Overtaken, Stored
    <3> QED  BY <1>0, <2>1, <3>1, <3>2 DEF HandlerInv
  <2>4. Grounded(req[p])
    BY <1>0, <2>1 DEF HandlerInv, Storing
  <2>5. \A m \in Message : Grounded(m) => Grounded(m)'
    BY <2>1 DEF Grounded
  <2>6. \A m \in accepted' : Covered(m)' /\ Grounded(m)'
    <3>1. \A m \in accepted : Covered(m)'
      BY <1>0, <2>2 DEF Keeps, StoreInv, TypeOK
    <3>2. \A m \in accepted : Grounded(m)'
      BY <1>0, <2>5 DEF StoreInv, TypeOK
    <3>3. ASSUME NEW m \in accepted', m = req[p] PROVE Covered(m)' /\ Grounded(m)'
      BY <1>0, <2>1, <2>3, <2>4, <2>5, <3>3 DEF Covered
    <3> QED  BY <2>1, <3>1, <3>2, <3>3
  <2>7. HandlerInv(p)'
    BY <1>0, <2>1
    DEF HandlerInv, Storing, Performing, AfterPut, Purging, Cleaning,
        CleaningOne, OfRecord
  <2>8. \A q \in Procs \ {p} : Waits(q)
    BY <1>0, <1>2 DEF TypeOK, PutIndex, Goto, Waits, locals
  <2>9. \A q \in Procs : HandlerInv(q)'
    BY <2>2, <2>7, <2>8, Others
  <2> QED  BY <2>1, <2>6, <2>9 DEF StoreInv
<1>3. CASE AppendEvent(p)
  <2>1. /\ pc[p] = "append" /\ pc'[p] \in {"purge", "clean"}
        /\ pc'[p] = "purge" => IsDelete(req[p])
        /\ pc'[p] = "clean" => todo'[p] = Older(existing[p], req[p])
        /\ existing' = existing /\ req' = req /\ accepted' = accepted
    BY <1>0, <1>3 DEF TypeOK, AppendEvent, Goto, history
  <2>2. HandlerInv(p)'
    BY <1>0, <2>1
    DEF HandlerInv, Storing, Performing, AfterPut, Purging, Cleaning,
        CleaningOne, OfRecord, Older
  <2>3. \A q \in Procs \ {p} : Waits(q)
    BY <1>0, <1>3 DEF TypeOK, AppendEvent, Goto, Waits
  <2> QED  BY <1>3, <2>2, <2>3, Quiet DEF AppendEvent, history, StoreInv
<1> QED  BY <1>1, <1>2, <1>3

\* The purge removes messages of records it has marked as purged.
LEMMA SafePurge ==
    ASSUME StoreInv, TypeOK', NEW p \in Procs, Purge(p)
    PROVE  StoreInv'
<1>0. TypeOK /\ HandlerInv(p) /\ req[p] \in Message
  BY DEF StoreInv, TypeOK
<1>1. CASE PurgeDescend(p) \/ PurgeGroup(p)
  <2>1. UNCHANGED <<blocks, indexed, accepted, purged, tasks, resuming, pc,
                    req, existing, todo, cur>>
    BY <1>1 DEF PurgeDescend, PurgeGroup, stores, history
  <2>2. pc[p] = "purge"
    BY <1>1 DEF PurgeDescend, PurgeGroup
  <2>3. HandlerInv(p)'
    BY <1>0, <2>1, <2>2
    DEF HandlerInv, Storing, Performing, AfterPut, Purging, Cleaning,
        CleaningOne, OfRecord
  <2>4. \A q \in Procs \ {p} : Waits(q)
    BY <2>1 DEF Waits
  <2> QED  BY <2>1, <2>3, <2>4, Quiet DEF StoreInv
<1>2. CASE PurgeData(p)
  <2>1. /\ pc[p] = "purge" /\ pc'[p] \in {"reply", "purgeEvents"}
        /\ UNCHANGED <<req, existing, accepted, blocks, indexed, tasks>>
        /\ purged \subseteq purged'
    BY <1>0, <1>2 DEF TypeOK, PurgeData, TaskFails, Goto, Answer
  <2>2. IsDelete(req[p])
    BY <1>0, <2>1 DEF HandlerInv, Performing
  <2>3. pc'[p] = "purgeEvents" => \A m \in todo'[p] : m.rec \in purged'
    BY <1>0, <1>2 DEF TypeOK, PurgeData, TaskFails, Goto, Answer
  <2>4. req[p] \in accepted
    BY <1>0, <2>1 DEF HandlerInv, AfterPut
  <2>5. HandlerInv(p)'
    BY <1>0, <2>1, <2>2, <2>3, <2>4
    DEF HandlerInv, Storing, Performing, AfterPut, Purging, Cleaning,
        CleaningOne, OfRecord
  <2>6. \A q \in Procs \ {p} : Waits(q)
    BY <1>0, <1>2 DEF TypeOK, PurgeData, TaskFails, Goto, Answer, Waits
  <2>7. \A m \in tasks' \cup resuming' : IsDelete(m)
    BY <1>2, <2>1, <2>2 DEF PurgeData, TaskFails, StoreInv
  <2> QED  BY <2>1, <2>5, <2>6, <2>7, Quiet
<1>3. CASE PurgeEvents(p)
  <2>1. /\ pc[p] = "purgeEvents" /\ pc'[p] = "purgeBlock"
        /\ UNCHANGED <<blocks, indexed, accepted, purged, tasks, resuming,
                       req, existing, todo, cur>>
    BY <1>0, <1>3 DEF TypeOK, PurgeEvents, Goto, locals, history
  <2>2. HandlerInv(p)'
    BY <1>0, <2>1
    DEF HandlerInv, Storing, Performing, AfterPut, Purging, Cleaning,
        CleaningOne, OfRecord
  <2>3. \A q \in Procs \ {p} : Waits(q)
    BY <1>0, <1>3 DEF TypeOK, PurgeEvents, Goto, locals, Waits
  <2> QED  BY <2>1, <2>2, <2>3, Quiet DEF StoreInv
<1>4. CASE PurgeBlock(p)
  <2>1. pc[p] = "purgeBlock" /\ pc'[p] = "purgeIndex"
        /\ UNCHANGED <<indexed, accepted, purged, tasks, resuming, req,
                       existing>>
    BY <1>0, <1>4 DEF TypeOK, PurgeBlock, Goto, history
  <2>2. PICK m \in todo[p] : /\ cur'[p] = m /\ todo'[p] = todo[p] \ {m}
                             /\ blocks' = blocks \ {m}
    BY <1>0, <1>4 DEF TypeOK, PurgeBlock
  <2>3. m \in Message /\ m.rec \in purged
    BY <1>0, <2>1, <2>2 DEF TypeOK, HandlerInv, Purging
  <2>4. Keeps
    BY <1>0, <2>1, <2>2, <2>3, Removes
  <2>5. HandlerInv(p)'
    BY <1>0, <2>1, <2>2, <2>3
    DEF HandlerInv, Storing, Performing, AfterPut, Purging, Cleaning,
        CleaningOne, OfRecord
  <2>6. \A q \in Procs \ {p} : Waits(q)
    BY <1>0, <1>4 DEF TypeOK, PurgeBlock, Goto, Waits
  <2> QED  BY <2>1, <2>4, <2>5, <2>6, Frame DEF StoreInv
<1>5. CASE PurgeIndex(p)
  <2>1. /\ pc[p] = "purgeIndex" /\ pc'[p] \in {"purge", "purgeBlock"}
        /\ UNCHANGED <<blocks, accepted, purged, tasks, resuming, req,
                       existing, todo, cur>>
        /\ indexed' = indexed \ {cur[p]}
    BY <1>0, <1>5 DEF TypeOK, PurgeIndex, Goto, locals, history
  <2>2. cur[p] \in Message /\ cur[p].rec \in purged
    BY <1>0, <2>1 DEF TypeOK, HandlerInv
  <2>3. Keeps
    BY <1>0, <2>1, <2>2, Removes
  <2>4. HandlerInv(p)'
    BY <1>0, <2>1
    DEF HandlerInv, Storing, Performing, AfterPut, Purging, Cleaning,
        CleaningOne, OfRecord
  <2>5. \A q \in Procs \ {p} : Waits(q)
    BY <1>0, <1>5 DEF TypeOK, PurgeIndex, Goto, locals, Waits
  <2> QED  BY <2>1, <2>3, <2>4, <2>5, Frame DEF StoreInv
<1>6. CASE PurgeEnd(p)
  <2>1. /\ pc[p] = "purge" /\ pc'[p] = "clean"
        /\ todo'[p] = Older(existing[p], req[p])
        /\ UNCHANGED <<stores, accepted, purged, resuming, req, existing, cur>>
    BY <1>0, <1>6 DEF TypeOK, PurgeEnd, Goto, history
  <2>2. HandlerInv(p)'
    BY <1>0, <2>1
    DEF HandlerInv, Storing, Performing, AfterPut, Purging, Cleaning,
        CleaningOne, OfRecord, Older
  <2>3. \A q \in Procs \ {p} : Waits(q)
    BY <1>0, <1>6 DEF TypeOK, PurgeEnd, Goto, Waits
  <2> QED  BY <1>6, <2>2, <2>3, Quiet DEF PurgeEnd, stores, history, StoreInv
<1> QED  BY <1>1, <1>2, <1>3, <1>4, <1>5, <1>6 DEF Purge

\* The clean-up removes only messages of the record that are older than the
\* accepted message it works for.
LEMMA SafeClean ==
    ASSUME StoreInv, TypeOK', NEW p \in Procs, Clean(p)
    PROVE  StoreInv'
<1>0. TypeOK /\ HandlerInv(p) /\ req[p] \in Message
  BY DEF StoreInv, TypeOK
<1>1. ASSUME pc[p] \in CleaningOne
      PROVE  /\ cur[p] \in Message /\ cur[p] \in accepted
             /\ cur[p].rec \in purged \/ Overtaken(cur[p])
  <2>1. /\ req[p] \in accepted /\ cur[p] \in accepted
        /\ cur[p].rec = req[p].rec /\ IsOlder(cur[p], req[p])
    BY <1>0, <1>1 DEF HandlerInv, AfterPut, Cleaning, OfRecord, Older
  <2>2. cur[p] \in Message /\ IsNewer(req[p], cur[p])
    BY <1>0, <2>1, NewerOrder DEF TypeOK
  <2>3. Covered(req[p])
    BY <2>1 DEF StoreInv
  <2>4. CASE req[p].rec \in purged
    BY <2>1, <2>2, <2>4
  <2>5. CASE req[p].rec \notin purged
    <3>1. PICK n \in Stored \cap accepted :
            n.rec = req[p].rec /\ (n = req[p] \/ IsNewer(n, req[p]))
      BY <2>3, <2>5 DEF Covered
    <3>2. n \in Message
      BY <1>0 DEF TypeOK
    <3>3. IsNewer(n, cur[p])
      BY <1>0, <2>2, <3>1, <3>2, NewerOrder
    <3> QED  BY <2>1, <2>2, <3>1, <3>3 DEF Overtaken
  <2> QED  BY <2>4, <2>5
<1>2. CASE CleanData(p)
  <2>1. /\ pc[p] = "clean" /\ pc'[p] = "cleanBlock"
        /\ UNCHANGED <<blocks, indexed, accepted, purged, tasks, resuming,
                       req, existing>>
    BY <1>0, <1>2 DEF TypeOK, CleanData, Goto, history
  <2>2. cur'[p] \in todo[p] /\ todo'[p] \subseteq todo[p]
    BY <1>0, <1>2 DEF TypeOK, CleanData
  <2>3. HandlerInv(p)'
    BY <1>0, <2>1, <2>2
    DEF HandlerInv, Storing, Performing, AfterPut, Purging, Cleaning,
        CleaningOne, OfRecord, Older
  <2>4. \A q \in Procs \ {p} : Waits(q)
    BY <1>0, <1>2 DEF TypeOK, CleanData, Goto, Waits
  <2> QED  BY <2>1, <2>3, <2>4, Quiet DEF StoreInv
<1>3. CASE CleanBlock(p) \/ CleanIndex(p) \/ RestoreBlock(p)
           \/ RestoreIndex(p) \/ CleanEvents(p)
  <2>1. /\ pc[p] \in CleaningOne /\ pc'[p] \in Cleaning
        /\ UNCHANGED <<accepted, purged, tasks, resuming, req, existing, todo,
                       cur>>
    BY <1>0, <1>3
    DEF TypeOK, CleanBlock, CleanIndex, RestoreBlock, RestoreIndex,
        CleanEvents, Goto, locals, history, CleaningOne, Cleaning
  <2>2. /\ blocks \ {cur[p]} \subseteq blocks'
        /\ indexed \ {cur[p]} \subseteq indexed'
        /\ indexed' \subseteq indexed \cup {cur[p]}
    BY <1>3
    DEF CleanBlock, CleanIndex, RestoreBlock, RestoreIndex, CleanEvents
  <2>3. Keeps
    BY <1>1, <2>1, <2>2, Removes
  <2>4. HandlerInv(p)'
    <3>1. pc[p] \in AfterPut /\ pc[p] \in Cleaning
      BY <2>1 DEF AfterPut, Cleaning
    <3> QED  BY <1>0, <2>1, <3>1
             DEF HandlerInv, Storing, Performing, AfterPut, Purging, Cleaning,
                 CleaningOne, OfRecord, Older
  <2>5. \A q \in Procs \ {p} : Waits(q)
    BY <1>0, <1>3
    DEF TypeOK, CleanBlock, CleanIndex, RestoreBlock, RestoreIndex,
        CleanEvents, Goto, locals, Waits
  <2>6. indexed' \subseteq accepted
    BY <1>1, <2>1, <2>2 DEF StoreInv
  <2> QED  BY <2>1, <2>3, <2>4, <2>5, <2>6, Frame DEF StoreInv
<1>4. CASE CleanEnd(p)
  <2>1. /\ pc'[p] \in {"reply", "complete"}
        /\ UNCHANGED <<blocks, indexed, accepted, purged, tasks, resuming,
                       req, existing>>
    BY <1>0, <1>4 DEF TypeOK, CleanEnd, Goto, Answer, stores, history
  <2>2. HandlerInv(p)'
    BY <1>0, <2>1, AtEase DEF HandlerInv
  <2>3. \A q \in Procs \ {p} : Waits(q)
    BY <1>0, <1>4 DEF TypeOK, CleanEnd, Goto, Answer, Waits
  <2> QED  BY <2>1, <2>2, <2>3, Quiet DEF StoreInv
<1> QED  BY <1>2, <1>3, <1>4 DEF Clean

\* open() takes tasks out of the task store; a crash forgets the handlers.
LEMMA SafeOpen ==
    ASSUME StoreInv, TypeOK', Grab \/ Crash
    PROVE  StoreInv'
<1>0. TypeOK
  BY DEF StoreInv
<1>1. Keeps
  BY <1>0, Adds DEF Grab, Crash, stores, history
<1>2. \A q \in Procs : HandlerInv(q)'
  <2>1. CASE Grab
    BY <1>1, <2>1, Others DEF Grab, locals, Waits
  <2>2. CASE Crash
    BY <2>2
    DEF Crash, HandlerInv, Storing, Performing, AfterPut, Purging, Cleaning,
        CleaningOne
  <2> QED  BY <2>1, <2>2
<1>3. UNCHANGED <<accepted, purged, indexed, tasks>> /\ resuming' \subseteq tasks
  BY DEF Grab, Crash, stores, history
<1>4. \A m \in accepted : Covered(m)'
  BY <1>0, <1>1 DEF Keeps, StoreInv, TypeOK
<1>5. \A m \in accepted : Grounded(m)'
  BY <1>3 DEF StoreInv, Grounded
<1> QED  BY <1>2, <1>3, <1>4, <1>5 DEF StoreInv

----------------------------------------------------------------------------
\* The theorems.

\* StoreInv holds at the start and is preserved by every step.
LEMMA SafeInit == Init => StoreInv
<1> SUFFICES ASSUME Init PROVE StoreInv
  OBVIOUS
<1>1. \A p \in Procs : HandlerInv(p)
  BY DEF Init, HandlerInv, Storing, Performing, AfterPut, Purging, Cleaning,
         CleaningOne
<1> QED  BY <1>1, TypeInit DEF Init, StoreInv

\* Every step, whoever takes it, preserves StoreInv.
LEMMA SafeStep == StoreInv /\ [Next]_vars => StoreInv'
<1> SUFFICES ASSUME StoreInv, [Next]_vars PROVE StoreInv'
  OBVIOUS
<1>1. TypeOK'
  BY TypeStep DEF StoreInv
<1>2. CASE UNCHANGED vars
  <2>1. UNCHANGED <<blocks, indexed, accepted, purged, tasks, resuming, pc,
                    req, existing, todo, cur>>
    BY <1>2 DEF vars, stores, locals, history
  <2>2. \A p \in Procs : HandlerInv(p)'
    <3>1. Keeps
      BY <2>1, Adds DEF StoreInv
    <3> QED  BY <1>1, <2>1, <3>1, Others DEF Waits
  <2>3. \A m \in accepted : Covered(m)' /\ Grounded(m)'
    BY <2>1 DEF StoreInv, Covered, Grounded, Stored
  <2> QED  BY <1>1, <2>1, <2>2, <2>3 DEF StoreInv
<1>3. ASSUME NEW p \in Procs, Run(p) PROVE StoreInv'
  BY <1>1, <1>3, SafeReceive, SafeWrite, SafeDelete, SafeStore, SafePurge,
     SafeClean DEF Run, Store
<1> QED  BY <1>1, <1>2, <1>3, SafeReceive, SafeOpen DEF Next

\* The stores stay consistent whatever handlers run side by side and wherever
\* the process stops.
THEOREM StoreSafe == Spec => []StoreInv
BY SafeInit, SafeStep, PTL DEF Spec

\* No clean-up, purge excepted, ever costs a record its newest state: neither
\* the handlers' stale copies of the record nor a crash between the deletion
\* of the initial write and its return.  (records-write.ts:172,
\* storage-controller.ts:79, 196-239)
THEOREM NewestSurvivesAlways == Spec => []NewestSurvives
<1>1. StoreInv => NewestSurvives
  BY DEF StoreInv, Covered, NewestSurvives
<1> QED  BY <1>1, StoreSafe, PTL

\* The immutable properties never change once the initial write is accepted,
\* even if two writes of the record race.  (records-write.ts:72-79)
THEOREM ImmutableKeptAlways == Spec => []ImmutableKept
<1>1. StoreInv => ImmutableKept
  BY InitialWriteUnique DEF StoreInv, TypeOK, Grounded, ImmutableKept
<1> QED  BY <1>1, StoreSafe, PTL
=============================================================================
