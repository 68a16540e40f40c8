--------------------------- MODULE RecordsReaders ---------------------------
(***************************************************************************)
(* RecordsRead, RecordsQuery and MessagesRead beside the write path.  A    *)
(* reader takes no lock either: it reads the index, then the blocks of the *)
(* messages found one by one, then the data or the initial write, while    *)
(* handlers go on storing and cleaning up in between.                      *)
(***************************************************************************)
EXTENDS RecordsProps

CONSTANTS
    Readers,      \* read requests that may be in progress at once
    MaxReads      \* bound on the requests made

ASSUME ReadersAssumption == MaxReads \in Nat

VARIABLES
    rpc,          \* where each read request waits
    asked,        \* the record it reads from, or NoRecord for a query of all
    toGet,        \* messages found in the index whose block is not yet read
    got,          \* messages read
    gotEncoded,   \* those whose copy carries encodedData
    toAttach,     \* messages read whose initial write is not yet attached
    foundInitial, \* the query for the initial write, between index and block
    outcome,      \* how the request ended
    reads,        \* requests made
    \* history, never read by the actions
    acked,        \* messages acknowledged to their senders
    shown,        \* messages returned by RecordsRead
    floor,        \* those two sets when the request was made
    shownData     \* messages whose data the request gave out

request == <<asked, toGet, got, gotEncoded, toAttach, foundInitial, outcome>>
readerVars == <<rpc, request, reads, acked, shown, floor, shownData>>
allVars == <<vars, readerVars>>

NothingKnown == [acked |-> {}, shown |-> {}]

RInit ==
    /\ Init
    /\ rpc = [q \in Readers |-> "idle"]
    /\ asked = [q \in Readers |-> NoRecord]
    /\ toGet = [q \in Readers |-> {}]
    /\ got = [q \in Readers |-> {}]
    /\ gotEncoded = [q \in Readers |-> {}]
    /\ toAttach = [q \in Readers |-> {}]
    /\ foundInitial = [q \in Readers |-> {}]
    /\ outcome = [q \in Readers |-> "none"]
    /\ floor = [q \in Readers |-> NothingKnown]
    /\ shownData = [q \in Readers |-> {}]
    /\ reads = 0 /\ acked = {} /\ shown = {}

----------------------------------------------------------------------------
RGoto(q, label) == rpc' = [rpc EXCEPT ![q] = label]

End(q, how) ==
    /\ RGoto(q, "done")
    /\ outcome' = [outcome EXCEPT ![q] = how]

\* The filter of RecordsRead: the latest base state of a record.
LatestOf(r) == OfRecord(latest, r)

\* The filter of RecordsQuery: all records whose latest base state is a write.
LatestWrites == {m \in latest : IsWrite(m)}

\* The data of a write is in the copy that was read or else in the data store.
HasData(q, m) == m \in gotEncoded[q] \/ <<m.rec, m.data>> \in data

\* Those of some messages whose block can be read, with the data in it.
Encoded(S) == S \cap blocks \cap encoded

\* The filter for the initial write of a record that has moved on.
SupersededWrites(r) == {m \in OfRecord(indexed \ latest, r) : IsWrite(m)}

\* A request arrives.
Ask(q, r) ==
    /\ ~opening /\ rpc[q] = "idle" /\ reads < MaxReads
    /\ reads' = reads + 1
    /\ asked' = [asked EXCEPT ![q] = r]
    /\ toAttach' = [toAttach EXCEPT ![q] = {}]
    /\ foundInitial' = [foundInitial EXCEPT ![q] = {}]
    /\ outcome' = [outcome EXCEPT ![q] = "none"]
    /\ floor' = [floor EXCEPT ![q] = [acked |-> acked, shown |-> shown]]
    /\ shownData' = [shownData EXCEPT ![q] = {}]

\* The first step of RecordsRead and RecordsQuery is the scan of the index.
AskRecords(q) ==
    /\ \E r \in Record \cup {NoRecord} :
        /\ Ask(q, r)
        /\ toGet' = [toGet EXCEPT ![q] =
                        IF r = NoRecord THEN LatestWrites ELSE LatestOf(r)]
    /\ got' = [got EXCEPT ![q] = {}]
    /\ gotEncoded' = [gotEncoded EXCEPT ![q] = {}]
    /\ RGoto(q, "get")

\* MessagesRead gets the block of one message by its CID; the index is not
\* looked at.
AskMessage(q) ==
    /\ \E m \in Message :
        /\ Ask(q, m.rec)
        /\ got' = [got EXCEPT ![q] = {m} \cap blocks]
        /\ gotEncoded' = [gotEncoded EXCEPT ![q] = Encoded({m})]
    /\ toGet' = [toGet EXCEPT ![q] = {}]
    /\ RGoto(q, "message")

\* MessagesReadHandler, once the message is there: the data of a write is added
\* where it can be found.
ReadMessage(q) ==
    /\ rpc[q] = "message"
    /\ \/ got[q] = {} /\ End(q, "notFound") /\ UNCHANGED shownData
       \/ got[q] # {} /\ End(q, "refused") /\ UNCHANGED shownData
       \/ /\ got[q] # {} /\ End(q, "message")
          /\ shownData' = [shownData EXCEPT ![q] =
                {w \in got[q] : IsWrite(w) /\ HasData(q, w)}]
    /\ UNCHANGED <<asked, toGet, got, gotEncoded, toAttach, foundInitial, floor,
                   reads>>

\* MessageStore.query gets the blocks one after the other, for RecordsRead in the
\* order of age, for RecordsQuery in the order asked for; a message that is gone
\* by then is left out.
Get(q) ==
    /\ rpc[q] = "get" /\ toGet[q] # {}
    /\ \E m \in toGet[q] :
        /\ asked[q] # NoRecord => \A n \in toGet[q] : ~IsOlder(n, m)
        /\ toGet' = [toGet EXCEPT ![q] = @ \ {m}]
        /\ got' = [got EXCEPT ![q] = @ \cup ({m} \cap blocks)]
        /\ gotEncoded' = [gotEncoded EXCEPT ![q] = @ \cup Encoded({m})]
    /\ UNCHANGED <<rpc, asked, toAttach, foundInitial, outcome, floor,
                   shownData, reads>>

\* One of several messages found is returned: the check for more is dropped.
CheckReadBad(q) ==
    /\ rpc[q] = "get" /\ toGet[q] = {} /\ asked[q] # NoRecord
    /\ \/ got[q] = {} /\ End(q, "notFound") /\ UNCHANGED got
       \/ \E m \in got[q] :
            /\ RGoto(q, IF IsDelete(m) THEN "initial" ELSE "data")
            /\ got' = [got EXCEPT ![q] = {m}]
            /\ UNCHANGED outcome
    /\ UNCHANGED <<asked, toGet, gotEncoded, toAttach, foundInitial, floor,
                   shownData, reads>>

\* RecordsReadHandler, once the query has returned: nothing, too much, a delete
\* (whose initial write is fetched) or a write (whose data is).
CheckRead(q) ==
    /\ rpc[q] = "get" /\ toGet[q] = {} /\ asked[q] # NoRecord
    /\ \/ got[q] = {} /\ End(q, "notFound")
       \/ (\E m, n \in got[q] : m # n) /\ End(q, "multiple")
       \/ \E m \in got[q] :
            /\ got[q] = {m}
            /\ RGoto(q, IF IsDelete(m) THEN "initial" ELSE "data")
            /\ UNCHANGED outcome
    /\ UNCHANGED <<asked, toGet, got, gotEncoded, toAttach, foundInitial, floor,
                   shownData, reads>>

\* The caller is not entitled to what was found: a write, or the initial write
\* of a deleted record.
RefuseRead(q) ==
    /\ \/ rpc[q] = "data"
       \/ /\ rpc[q] = "initialGet" /\ foundInitial[q] \cap blocks # {}
          /\ asked[q] # NoRecord /\ (\E m \in got[q] : IsDelete(m))
    /\ End(q, "refused")
    /\ UNCHANGED <<asked, toGet, got, gotEncoded, toAttach, foundInitial, floor,
                   shownData, reads>>

\* A write other than the initial one comes with its initial write.
ReadData(q) ==
    /\ rpc[q] = "data"
    /\ \E m \in got[q] :
        IF HasData(q, m)
        THEN /\ shownData' = [shownData EXCEPT ![q] = {m}]
             /\ IF m.initial THEN End(q, "found") /\ UNCHANGED toAttach
                ELSE /\ RGoto(q, "initial")
                     /\ toAttach' = [toAttach EXCEPT ![q] = {m}]
                     /\ UNCHANGED outcome
        ELSE End(q, "notFound") /\ UNCHANGED <<toAttach, shownData>>
    /\ UNCHANGED <<asked, toGet, got, gotEncoded, foundInitial, floor, reads>>

\* RecordsQueryHandler, once the query has returned: what it got is returned
\* with the data in it, when the initial writes are there too.
CheckQuery(q) ==
    /\ rpc[q] = "get" /\ toGet[q] = {} /\ asked[q] = NoRecord
    /\ LET later == {m \in got[q] : ~m.initial}
       IN  /\ toAttach' = [toAttach EXCEPT ![q] = later]
           /\ shownData' = [shownData EXCEPT ![q] = gotEncoded[q]]
           /\ IF later = {} THEN End(q, "found")
              ELSE RGoto(q, "initial") /\ UNCHANGED outcome
    /\ UNCHANGED <<asked, toGet, got, gotEncoded, foundInitial, floor, reads>>

\* The index is scanned for the initial write of a message to be returned.  For
\* a delete it is looked up by its entry ID, whatever its state.
ScanInitial(q) ==
    /\ rpc[q] = "initial"
    /\ \/ \E m \in toAttach[q] :
            /\ foundInitial' = [foundInitial EXCEPT ![q] =
                                    SupersededWrites(m.rec)]
            /\ toAttach' = [toAttach EXCEPT ![q] = @ \ {m}]
       \/ /\ toAttach[q] = {}
          /\ foundInitial' = [foundInitial EXCEPT ![q] =
                {m \in OfRecord(indexed, asked[q]) : m.initial}]
          /\ UNCHANGED toAttach
    /\ RGoto(q, "initialGet")
    /\ UNCHANGED <<asked, toGet, got, gotEncoded, outcome, floor, shownData,
                   reads>>

\* The initial write goes with the delete of its record as it is in its block;
\* with a later write it goes without data.  If it is missing, RecordsRead
\* answers 400 for a deleted record, and otherwise both handlers read a property
\* of undefined and throw.
GetInitial(q) ==
    /\ rpc[q] = "initialGet"
    /\ LET deleted == asked[q] # NoRecord /\ \E m \in got[q] : IsDelete(m)
       IN  \/ /\ foundInitial[q] \cap blocks # {} /\ deleted
              /\ End(q, "deleted")
              /\ shownData' = [shownData EXCEPT ![q] = Encoded(foundInitial[q])]
           \/ /\ foundInitial[q] \cap blocks # {} /\ ~deleted
              /\ IF toAttach[q] # {}
                 THEN RGoto(q, "initial") /\ UNCHANGED outcome
                 ELSE End(q, "found")
              /\ UNCHANGED shownData
           \/ /\ foundInitial[q] \cap blocks = {}
              /\ End(q, IF deleted THEN "noInitial" ELSE "throws")
              /\ UNCHANGED shownData
    /\ UNCHANGED <<asked, toGet, got, gotEncoded, toAttach, foundInitial, floor,
                   reads>>

\* The reply reaches the caller.
Return(q) ==
    /\ rpc[q] = "done"
    /\ RGoto(q, "idle")
    /\ UNCHANGED <<request, floor, shownData, reads>>

Reader(q) ==
    \/ AskRecords(q) \/ Get(q) \/ CheckRead(q) \/ RefuseRead(q)
    \/ ReadData(q) \/ CheckQuery(q) \/ ScanInitial(q) \/ GetInitial(q)
    \/ AskMessage(q) \/ ReadMessage(q) \/ Return(q)

\* What has been acknowledged by a reply, or returned by a read.
Acknowledged ==
    {req[p] : p \in {w \in Procs :
                        pc[w] = "reply" /\ reply[w] = 202 /\ ~resumed[w]}}

Shown ==
    UNION {IF asked[q] # NoRecord /\ outcome[q] \in {"found", "deleted"}
           THEN got[q] ELSE {} : q \in {u \in Readers : rpc[u] = "done"}}

\* A stop of the process ends the requests too.
Stop ==
    /\ Crash
    /\ rpc' = [q \in Readers |-> "idle"]
    /\ asked' = [q \in Readers |-> NoRecord]
    /\ toGet' = [q \in Readers |-> {}]
    /\ got' = [q \in Readers |-> {}]
    /\ gotEncoded' = [q \in Readers |-> {}]
    /\ toAttach' = [q \in Readers |-> {}]
    /\ foundInitial' = [q \in Readers |-> {}]
    /\ outcome' = [q \in Readers |-> "none"]
    /\ floor' = [q \in Readers |-> NothingKnown]
    /\ shownData' = [q \in Readers |-> {}]
    /\ UNCHANGED reads

RNext ==
    /\ \/ Next /\ crashes' = crashes
            /\ UNCHANGED <<rpc, request, floor, shownData, reads>>
       \/ Stop
       \/ (\E q \in Readers : Reader(q)) /\ UNCHANGED vars
    /\ acked' = acked \cup Acknowledged'
    /\ shown' = shown \cup Shown'

RSpec == RInit /\ [][RNext]_allVars

----------------------------------------------------------------------------
\* RecordsRead never goes back in time: it returns nothing older than a message
\* of the record that was acknowledged, or returned by another read, before the
\* request was made.  (records-read.ts:48)
ReadIsFresh ==
    \A q \in Readers :
        rpc[q] = "done" /\ outcome[q] \in {"found", "deleted"}
            /\ asked[q] # NoRecord =>
                \A m \in got[q], n \in floor[q].acked \cup floor[q].shown :
                    m.rec = n.rec => ~IsNewer(n, m)

\* No request, not even for an old message by its CID, gives out the data of a
\* message of a record whose deletion was acknowledged before.  (A message that
\* a stop left without index entries is not one the store took in: its block
\* stays.)  (storage-controller.ts:192-240, messages-read.ts:57)
DeletedStaysHidden ==
    \A q \in Readers :
        \A d \in floor[q].acked, w \in shownData[q] \cap accepted :
            IsDelete(d) => w.rec # d.rec

\* "The initial write of the record if the returned RecordsWrite message itself
\* is not the initial write": it can always be attached.
\* (types/records-types.ts:98, records-query.ts:63)
InitialAttached ==
    \A q \in Readers : outcome[q] # "throws"
=============================================================================
