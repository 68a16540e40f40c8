---------------------------- MODULE DwnMessages ----------------------------
(***************************************************************************)
(* The RecordsWrite and RecordsDelete messages of one tenant, as far as    *)
(* the handlers tell them apart, and the order the DWN puts on them.       *)
(*                                                                         *)
(* A message is identified by its CID, a hash of its content (without the  *)
(* optional encodedData), so the model uses the message itself as the key  *)
(* wherever the code uses the CID.  A record is identified by the entry ID *)
(* of its initial write, a hash too: each record has one initial write.    *)
(***************************************************************************)
EXTENDS Integers

CONSTANTS
    Record,     \* record IDs
    NoRecord,   \* the absent parentId
    DataCid,    \* CIDs of record data
    NoData,     \* dataCid of a message that has none (RecordsDelete)
    Large,      \* the data too big to be encoded in the message itself
    Message     \* the messages that may ever be sent to the DWN

\* What a message says of itself; cid stands for the rank of the message CID
\* in lexicographical order.
MessageType ==
    [cid     : Nat,
     ts      : Nat,                         \* descriptor.messageTimestamp
     rec     : Record,
     method  : {"Write", "Delete"},
     initial : BOOLEAN,                     \* entry ID = recordId
     parent  : Record \cup {NoRecord},      \* descriptor.parentId
     data    : DataCid \cup {NoData},       \* descriptor.dataCid
     prune   : BOOLEAN]

ASSUME MessageAssumption ==
    /\ NoRecord \notin Record
    /\ NoData \notin DataCid
    /\ Large \subseteq DataCid
    /\ Message \subseteq MessageType
    /\ \A m, n \in Message : m.cid = n.cid => m = n
    /\ \A m, n \in Message : m.initial /\ n.initial /\ m.rec = n.rec => m = n
    /\ \A m \in Message : m.initial => m.method = "Write"
    /\ \A r \in Record : \E m \in Message : m.initial /\ m.rec = r
    /\ \A m \in Message : m.method = "Delete" => m.data = NoData

IsWrite(m) == m.method = "Write"

IsDelete(m) == m.method = "Delete"

IsLarge(m) == m.data \in Large

\* compareMessageTimestamp: the timestamp decides, the CID breaks a tie.
IsNewer(a, b) == a.ts > b.ts \/ (a.ts = b.ts /\ a.cid > b.cid)

IsOlder(a, b) == a.ts < b.ts \/ (a.ts = b.ts /\ a.cid < b.cid)

\* The message getNewestMessage returns of a nonempty set.
Newest(S) == CHOOSE m \in S : \A n \in S : ~IsNewer(n, m)

OfRecord(S, r) == {m \in S : m.rec = r}

\* The initial write of a record, wherever it is stored: the record ID is its
\* hash, so it determines the immutable properties of the record.
InitialWrite(r) == CHOOSE m \in Message : m.initial /\ m.rec = r

\* The parentId a message is indexed under: its own, or for a RecordsDelete
\* the one it takes over from the initial write.
ParentOf(m) == IF IsWrite(m) THEN m.parent ELSE InitialWrite(m.rec).parent

\* canPerformDeleteAgainstRecord: nothing to delete, or already deleted,
\* unless a prune upgrades a delete that was not one.
CanPerformDelete(m, S) ==
    /\ S # {}
    /\ IsDelete(Newest(S)) => m.prune /\ ~Newest(S).prune
=============================================================================
