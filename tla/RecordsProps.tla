---------------------------- MODULE RecordsProps ----------------------------
(***************************************************************************)
(* The properties of RecordsDwn.  Some hold whatever handlers run side by  *)
(* side and wherever the process stops, some only as long as one handler   *)
(* runs at a time, some only if the process does not stop: the runs say    *)
(* which.                                                                  *)
(***************************************************************************)
EXTENDS RecordsDwn

\* Types of all variables.
TypeOK ==
    /\ blocks \subseteq Message /\ encoded \subseteq Message
    /\ indexed \subseteq Message /\ latest \subseteq Message
    /\ data \subseteq Record \X (DataCid \cup {NoData})
    /\ events \subseteq Message /\ tasks \subseteq Message
    /\ opening \in BOOLEAN /\ resuming \subseteq Message
    /\ pc \in [Procs -> Labels]
    /\ req \in [Procs -> Message]
    /\ stream \in [Procs -> {"none", "good", "bad"}]
    /\ existing \in [Procs -> SUBSET Message]
    /\ todo \in [Procs -> SUBSET Message]
    /\ cur \in [Procs -> Message]
    /\ plan \in [Procs -> Seq(PlanItem)]
    /\ resumed \in [Procs -> BOOLEAN]
    /\ reply \in [Procs -> Codes]
    /\ emitted \subseteq Message
    /\ crashes \in Nat
    /\ accepted \subseteq Message
    /\ purged \subseteq Record

----------------------------------------------------------------------------
\* Whatever runs side by side, and wherever the process stops.

\* A message the store took in is never lost to anything but a newer message
\* of the same record: the handlers' clean-ups, working on copies of the
\* record that may be out of date, never leave a record with less than its
\* newest state.  (records-write.ts:172, storage-controller.ts:79)
NewestSurvives ==
    \A m \in accepted :
        \/ m.rec \in purged
        \/ \E n \in Stored : n.rec = m.rec /\ (n = m \/ IsNewer(n, m))

\* All writes taken in for a record carry the immutable properties of its
\* initial write, which was taken in before them.  (records-write.ts:72-79)
ImmutableKept ==
    \A m \in accepted :
        /\ InitialWrite(m.rec) \in accepted
        /\ IsWrite(m) => m.parent = InitialWrite(m.rec).parent

\* The strengthening of these two that every step preserves.  A handler that
\* deletes works for a message that is already accepted and deletes only what
\* is older; a message between its block and its index entry is either whole
\* or overtaken.
Storing == {"dataPut", "dataGet", "putBlock", "putIndex"}
Purging == {"purgeEvents", "purgeBlock", "purgeIndex"}
CleaningOne == {"cleanBlock", "cleanIndex", "restoreBlock", "restoreIndex",
                "cleanEvents"}
Cleaning == {"clean"} \cup CleaningOne
AfterPut == {"append", "purge"} \cup Purging \cup Cleaning
Performing == {"register", "performScan", "performFetch", "purge"} \cup Purging

\* A message as new as m is stored whole, or the record has been purged.
Covered(m) ==
    \/ m.rec \in purged
    \/ \E n \in Stored \cap accepted :
            n.rec = m.rec /\ (n = m \/ IsNewer(n, m))

Overtaken(m) ==
    \/ m.rec \in purged
    \/ \E n \in Stored \cap accepted : n.rec = m.rec /\ IsNewer(n, m)

\* The initial write of the message's record was accepted and agrees with it.
Grounded(m) ==
    /\ m.initial \/ InitialWrite(m.rec) \in accepted
    /\ IsWrite(m) => m.parent = InitialWrite(m.rec).parent

HandlerInv(p) ==
    /\ pc[p] = "idle" => existing[p] = {}
    /\ existing[p] \subseteq OfRecord(accepted, req[p].rec)
    /\ pc[p] \in Performing => IsDelete(req[p])
    /\ pc[p] \in Storing => Grounded(req[p])
    /\ pc[p] = "putIndex" => req[p] \in blocks \/ Overtaken(req[p])
    /\ pc[p] \in AfterPut => req[p] \in accepted
    /\ pc[p] \in Purging => \A m \in todo[p] : m.rec \in purged
    /\ pc[p] = "purgeIndex" => cur[p].rec \in purged
    /\ pc[p] \in Cleaning => todo[p] \subseteq Older(existing[p], req[p])
    /\ pc[p] \in CleaningOne => cur[p] \in Older(existing[p], req[p])

StoreInv ==
    /\ TypeOK
    /\ \A m \in tasks \cup resuming : IsDelete(m)
    /\ indexed \subseteq accepted
    /\ \A p \in Procs : HandlerInv(p)
    /\ \A m \in accepted : Covered(m) /\ Grounded(m)

----------------------------------------------------------------------------
\* One handler at a time.

Settled == NoneRunning /\ ~opening /\ resuming = {}

\* At rest a record consists of at most its initial write and its newest
\* message, and only the newest may be the latest base state.
\* (storage-controller.ts:206)
RecordsTidy ==
    Settled => \A r \in Record :
        LET S == OfRecord(Stored, r) IN
        S # {} =>
          /\ InitialWrite(r) \in S
          /\ S \subseteq {InitialWrite(r), Newest(S)}
          /\ S \cap latest \subseteq {Newest(S)}
          /\ ~Newest(S).initial => Newest(S) \in latest

\* At rest the event log lists exactly the stored messages.
EventsMatch == Settled => events = Stored

\* At rest the data store holds exactly the large data of the records whose
\* latest state is a write: nothing missing, nothing left over.
DataMatch ==
    Settled =>
        data = {<<w.rec, w.data>> : w \in
                    {m \in latest \cap Stored : IsWrite(m) /\ IsLarge(m)}}

\* At rest every stored message with a parent finds the parent's initial write,
\* so that building a record chain cannot fail.  (protocol-authorization.ts:323)
ChainComplete ==
    Settled => \A m \in Stored :
        ParentOf(m) # NoRecord => InitialWrite(ParentOf(m)) \in Stored

\* Everything a query can return at rest was emitted to the subscribers.
LatestEmitted == Settled => latest \cap Stored \subseteq emitted

\* Subscribers see the messages of a record in the order of their age.
EmittedInOrder ==
    [][\A m \in emitted' \ emitted, n \in emitted :
            m.rec = n.rec => IsNewer(m, n)]_vars

\* Once the task of a prune is gone from the task store, at rest, nothing is
\* left below the pruned record.  (storage-controller.ts:74-77,
\* resumable-task-manager.ts:39)
PruneComplete ==
    Settled => \A d \in Stored :
        IsDelete(d) /\ d.prune /\ d \notin tasks =>
            \A m \in Stored : ParentOf(m) # d.rec

\* Every request is answered: the loops over copies of the record and the
\* recursion over its descendants end.
Answered == \A p \in Procs : pc[p] # "idle" ~> pc[p] = "idle"

----------------------------------------------------------------------------
\* One handler at a time, with stops of the process.

\* Once a record is deleted its newest message stays a delete.
DeleteFinal ==
    [][\A r \in Record \ purged' :
        LET S == OfRecord(Stored, r)
            T == OfRecord(Stored', r)
        IN  S # {} /\ IsDelete(Newest(S)) => T # {} /\ IsDelete(Newest(T))]_vars

\* The newest state of a record has its data, whatever clean-up was cut short.
NewestHasData ==
    \A r \in Record \ purged :
        LET S == OfRecord(Stored, r) IN
        S # {} /\ IsWrite(Newest(S)) /\ IsLarge(Newest(S))
               /\ Newest(S) \in latest
            => <<r, Newest(S).data>> \in data

\* When a write is acknowledged the leftovers of earlier handlers that were
\* cut short are gone too.  (storage-controller.ts:206-207)
CleanOnReply ==
    \A p \in Procs :
        pc[p] = "reply" /\ reply[p] \in {202, 204} /\ IsWrite(req[p]) =>
            \A m \in OfRecord(Stored, req[p].rec) :
                m # req[p] => m.initial /\ m \notin latest /\ m \notin encoded

----------------------------------------------------------------------------
\* The abstract view of the stores.

\* What a record is: the set of its newest stored message.
NewestState(r) ==
    LET S == OfRecord(Stored, r)
    IN  IF S = {} \/ r \in purged THEN {} ELSE {Newest(S)}

History == INSTANCE RecordHistory WITH
    newest <- [r \in Record |-> NewestState(r)],
    gone <- purged

\* One handler at a time, without stops, implements RecordHistory.
ImplementsHistory == History!Spec
=============================================================================
