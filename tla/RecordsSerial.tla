---------------------------- MODULE RecordsSerial ----------------------------
(***************************************************************************)
(* What holds of RecordsDwn with one handler at a time and data streams    *)
(* that are what their messages say, until the process stops, for any      *)
(* records and messages: at rest the stores agree with each other, what is *)
(* pruned is gone, and the whole implements RecordHistory.                 *)
(*                                                                         *)
(* Between two messages all records are at rest (AtRest).  While a message *)
(* is stored, its own record is in a state that the label of the handler   *)
(* determines (InHand), and during a prune one more record is half purged  *)
(* (Vanishing); all others are at rest.  Above this the records form a     *)
(* forest, and the plan of a prune covers all that is left below it        *)
(* (PlanInv).                                                              *)
(***************************************************************************)
EXTENDS RecordsSafety, SequenceTheorems

Serial(p) == Procs = {p} /\ "bad" \notin Streams

\* The parent of a record.
Par(r) == InitialWrite(r).parent

Exists(r) == \E x \in indexed : x.rec = r

----------------------------------------------------------------------------
\* One record in the stores.

\* Whose data the data store is to hold.
Owes(r, c) ==
    \E w \in latest : w.rec = r /\ IsWrite(w) /\ IsLarge(w) /\ w.data = c

\* All stores have the same messages of the record: its initial write and its newest
\* message, and only the newest has data or is the latest state.
AtRest(r) ==
    /\ \A x \in Message : x.rec = r =>
        /\ x \in blocks <=> x \in indexed
        /\ x \in events <=> x \in indexed
        /\ x \in latest => x \in indexed /\ x \in emitted
    /\ \A x \in indexed : x.rec = r =>
        /\ InitialWrite(r) \in indexed
        /\ ~x.initial => x \in latest
        /\ \A y \in indexed : y.rec = r /\ IsNewer(y, x) => x.initial /\ x \notin latest
    /\ r \notin purged => \A e \in emitted : e.rec = r =>
        \E n \in indexed : n.rec = r /\ (n = e \/ IsNewer(n, e))
    /\ \A c \in DataCid \cup {NoData} : <<r, c>> \in data <=> Owes(r, c)

\* Where the handler stores, purges and cleans up.
Purge0 == {"purge"} \cup Purging
Putting == {"putBlock", "putIndex"}
Busy == Putting \cup {"append"} \cup Purge0 \cup Cleaning

\* Which messages of its record are where, as its label tells.
HasBlock(p, x) ==
    \/ x = req[p] /\ pc[p] # "putBlock"
    \/ x \in existing[p] /\ pc[p] \notin Cleaning
    \/ /\ pc[p] \in Cleaning
       /\ \/ x \in todo[p]
          \/ x = cur[p] /\ pc[p] = "cleanBlock"
          \/ /\ x \in existing[p] /\ x.initial
             /\ x = cur[p] => pc[p] \notin {"cleanIndex", "restoreBlock"}

HasIndex(p, x) ==
    \/ x = req[p] /\ pc[p] \notin Putting
    \/ x \in existing[p] /\ pc[p] \notin Cleaning
    \/ /\ pc[p] \in Cleaning
       /\ \/ x \in todo[p]
          \/ x = cur[p] /\ pc[p] \in {"cleanBlock", "cleanIndex"}
          \/ /\ x \in existing[p] /\ x.initial
             /\ x = cur[p] => pc[p] \notin {"restoreBlock", "restoreIndex"}

HasEvent(p, x) ==
    \/ x = req[p] /\ pc[p] \notin Putting \cup {"append"}
    \/ x \in existing[p] /\ pc[p] \notin Cleaning
    \/ /\ pc[p] \in Cleaning
       /\ \/ x \in todo[p]
          \/ x = cur[p] /\ pc[p] \in CleaningOne
          \/ x \in existing[p] /\ x.initial

MayBeLatest(p, x) ==
    \/ x = req[p]
    \/ x \in existing[p] /\ pc[p] \notin Cleaning
    \/ pc[p] \in Cleaning /\ x \in todo[p]
    \/ x = cur[p] /\ pc[p] \in {"cleanBlock", "cleanIndex"}

\* The write in hand has data in the data store.
BringsData(p) == IsWrite(req[p]) /\ IsLarge(req[p]) /\ BecomesLatest(p)

ParentAlive(m) ==
    m.parent # NoRecord =>
        \E w \in latest : w \in indexed /\ IsWrite(w) /\ w.rec = m.parent

\* What was found before the message in hand is older, and may be followed by it.
Follows(p) ==
    /\ \A x \in existing[p] : x.rec = req[p].rec /\ IsNewer(req[p], x)
    /\ existing[p] # {} => InitialWrite(req[p].rec) \in existing[p]
    /\ existing[p] = {} => req[p].initial
    /\ \A x, y \in existing[p] : IsNewer(y, x) => x.initial
    /\ IsWrite(req[p]) => \A x \in existing[p] : IsWrite(x)
    /\ IsDelete(req[p]) => \A x \in existing[p] : IsDelete(x) => req[p].prune /\ ~x.prune

\* The record of the message in hand.
InHand(p) ==
    LET r == req[p].rec
        left == IF pc[p] \in Cleaning THEN todo[p] ELSE existing[p]
    IN  /\ r \notin purged
        /\ Follows(p)
        /\ pc[p] \in Putting /\ IsWrite(req[p]) => ParentAlive(req[p])
        /\ \A x \in Message : x.rec = r =>
            /\ x \in blocks <=> HasBlock(p, x)
            /\ x \in indexed <=> HasIndex(p, x)
            /\ x \in events <=> HasEvent(p, x)
            /\ x \in latest => MayBeLatest(p, x)
        /\ req[p] \in latest <=> BecomesLatest(p) /\ pc[p] \notin Putting
        /\ \A e \in emitted : e.rec = r => e = req[p] \/ IsNewer(req[p], e)
        /\ req[p] \in emitted <=> BecomesLatest(p) /\ pc[p] \notin Putting \cup {"append"}
        /\ BringsData(p) => <<r, req[p].data>> \in data
        /\ \A c \in DataCid \cup {NoData} : <<r, c>> \in data =>
            \/ BringsData(p) /\ c = req[p].data
            \/ \E x \in left : IsWrite(x) /\ IsLarge(x) /\ x.data = c
        /\ pc[p] \in Cleaning => todo[p] \subseteq existing[p]
        /\ pc[p] \in CleaningOne => cur[p] \in existing[p] \ todo[p]
        /\ pc[p] \in {"restoreBlock", "restoreIndex"} => cur[p].initial

\* The record that is being purged.
Vanishing(p, k) ==
    /\ k # req[p].rec /\ k \in purged
    /\ \A x \in todo[p] : x.rec = k
    /\ pc[p] = "purgeIndex" => cur[p].rec = k /\ cur[p] \notin todo[p]
    /\ \A x \in Message : x.rec = k =>
        /\ x \in blocks <=> x \in todo[p]
        /\ x \in indexed <=> x \in todo[p] \/ (x = cur[p] /\ pc[p] = "purgeIndex")
        /\ x \in events <=> x \in todo[p] /\ pc[p] = "purgeEvents"
        /\ x \in latest => x \in indexed
    /\ \A c \in DataCid \cup {NoData} : <<k, c>> \notin data

----------------------------------------------------------------------------
\* The records as a forest.

\* The calls of a prune that are still to be made.
Calls(p) == DOMAIN plan[p]
Is(p, i, op, r) == plan[p][i].op = op /\ plan[p][i].rec = r
Purges(p, i) == plan[p][i].op = "purge"

\* The call i purges a record, or will: descend into it or purge its children.
Enters(p, i, r) == ~Purges(p, i) /\ plan[p][i].rec = r

\* A record has its parent; what is purged is gone, and so is its parent, or that is
\* deleted; and nothing is below what was pruned.
Forest(p) ==
    /\ \A x \in indexed : Par(x.rec) # NoRecord => Exists(Par(x.rec))
    /\ \A T \in SUBSET Record :
        T # {} /\ (\A r \in T : Exists(r)) => \E r \in T : Par(r) \notin T
    /\ \A r \in purged :
        /\ Par(r) \in Record
        /\ Exists(r) => pc[p] \in Purging /\ Vanishing(p, r)
        /\ \/ Par(r) \in purged
           \/ \E d \in indexed : d.rec = Par(r) /\ IsDelete(d)
           \/ /\ pc[p] \in Purge0
              /\ \E i \in Calls(p) : Is(p, i, "purge", Par(r))
    /\ \A d \in indexed :
        IsDelete(d) /\ d.prune /\ ~(d = req[p] /\ pc[p] \in Purge0 \cup {"append"}) =>
            \A x \in indexed : Par(x.rec) # d.rec

\* A call that purges a record has all its messages; the record above it is the
\* pruned one, or is purged later.
PurgeCall(p, i) ==
    LET c == plan[p][i]
    IN  /\ c.rec # req[p].rec /\ c.rec \notin purged /\ Exists(c.rec)
        /\ c.msgs = OfRecord(indexed, c.rec)
        /\ \/ Par(c.rec) = req[p].rec
           \/ \E j \in Calls(p) : j > i /\ Is(p, j, "purge", Par(c.rec))

\* A call that enters a record is for the pruned one, or for one that is purged later
\* and whose children are not called for yet.
EnterCall(p, i) ==
    LET c == plan[p][i]
    IN  /\ \/ c.rec = req[p].rec
           \/ \E j \in Calls(p) : j > i /\ Is(p, j, "purge", c.rec)
        /\ \A j \in Calls(p) : Purges(p, j) => Par(plan[p][j].rec) # c.rec
        /\ c.op = "group" => i = 1 /\ pc[p] = "purge" /\ c.msgs = Children(c.rec)

\* The children of the record are purged, or will be before the call at j.
Covers(p, r, j) ==
    \A x \in indexed : Par(x.rec) = r =>
        \/ \E i \in Calls(p) : i < j /\ (Is(p, i, "purge", x.rec) \/ Enters(p, i, r))
        \/ x.rec \in purged

PlanInv(p) ==
    /\ IsDelete(req[p]) /\ req[p].prune
    /\ \A i \in Calls(p) : IF Purges(p, i) THEN PurgeCall(p, i) ELSE EnterCall(p, i)
    /\ \A i, j \in Calls(p) : i # j /\ plan[p][i].rec = plan[p][j].rec =>
        (Purges(p, i) <=> ~Purges(p, j))
    /\ Covers(p, req[p].rec, Len(plan[p]) + 1)
    /\ \A j \in Calls(p) : Purges(p, j) => Covers(p, plan[p][j].rec, j)
    /\ \A x \in indexed : Par(x.rec) \notin purged

----------------------------------------------------------------------------
\* The invariant.

\* What the handler knows before it stores its message.
Knows(p) ==
    LET m == req[p]
        found == existing[p] = OfRecord(indexed, m.rec)
    IN  /\ pc[p] \in {"scan", "fetch", "dataPut", "dataGet"} /\ IsWrite(m) => ParentAlive(m)
        /\ pc[p] \in {"fetch", "performFetch", "dataPut", "dataGet"} => found
        /\ pc[p] \in {"register", "performScan", "performFetch"} =>
            IsDelete(m) /\ \A x \in OfRecord(indexed, m.rec) : IsNewer(m, x)
        /\ pc[p] \in {"dataPut", "dataGet"} =>
            /\ IsWrite(m) /\ IsLarge(m) /\ BecomesLatest(p)
            /\ Follows(p) /\ m.rec \notin purged

SerialInv(p) ==
    /\ StoreInv
    /\ resuming = {} /\ resumed[p] = FALSE
    /\ opening => tasks = {} /\ pc[p] = "idle"
    /\ pc[p] # "unwind" /\ stream[p] # "bad"
    /\ Knows(p)
    /\ Forest(p)
    /\ pc[p] \in Busy => InHand(p)
    /\ pc[p] \notin Purging =>
        \A r \in Record : (pc[p] \in Busy => r # req[p].rec) => AtRest(r)
    /\ pc[p] \in Purging =>
        \E k \in Record :
            /\ Vanishing(p, k)
            /\ \A r \in Record \ {k, req[p].rec} : AtRest(r)
    /\ pc[p] \in Purge0 => PlanInv(p)

----------------------------------------------------------------------------
\* Facts about messages and stores.

\* Each record has its initial write.
LEMMA InitialOf ==
    ASSUME NEW r \in Record
    PROVE  /\ InitialWrite(r) \in Message /\ InitialWrite(r).rec = r
           /\ InitialWrite(r).initial /\ IsWrite(InitialWrite(r))
<1>1. \E m \in Message : m.initial /\ m.rec = r
  BY MessageAssumption
<1>2. InitialWrite(r) \in Message /\ InitialWrite(r).initial /\ InitialWrite(r).rec = r
  BY <1>1 DEF InitialWrite
<1> QED  BY <1>2, MessageAssumption DEF IsWrite

\* What is indexed is of the record's parent, and a message is a write or a delete.
LEMMA Kinds ==
    /\ \A m \in Message : m.rec \in Record /\ m.ts \in Nat /\ m.cid \in Nat
                            /\ m.initial \in BOOLEAN /\ m.prune \in BOOLEAN
                            /\ m.data \in DataCid \cup {NoData}
                            /\ m.parent \in Record \cup {NoRecord}
    /\ \A m \in Message : IsDelete(m) <=> ~IsWrite(m)
    /\ \A m \in Message : m.initial => IsWrite(m) /\ m = InitialWrite(m.rec)
    /\ \A m \in Message : IsDelete(m) => m.data = NoData /\ ~m.initial /\ ~IsLarge(m)
<1>1. \A m \in Message : m \in MessageType
  BY MessageAssumption
<1>2. \A m \in Message : m.initial => IsWrite(m) /\ m = InitialWrite(m.rec)
  BY InitialWriteUnique
<1> QED  BY <1>1, <1>2, MessageAssumption DEF MessageType, IsDelete, IsWrite, IsLarge

LEMMA ParentIs ==
    ASSUME StoreInv, NEW x \in indexed
    PROVE  /\ x \in Message /\ x \in accepted /\ ParentOf(x) = Par(x.rec)
           /\ IsWrite(x) => x.parent = Par(x.rec)
BY DEF StoreInv, TypeOK, Grounded, ParentOf, Par

\* The stores as they are on one record.
Untouched(r) ==
    /\ \A x \in Message : x.rec = r =>
        /\ x \in blocks' <=> x \in blocks
        /\ x \in indexed' <=> x \in indexed
        /\ x \in events' <=> x \in events
        /\ x \in latest' <=> x \in latest
        /\ x \in emitted' <=> x \in emitted
    /\ \A c \in DataCid \cup {NoData} : <<r, c>> \in data' <=> <<r, c>> \in data
    /\ r \in purged => r \in purged'

LEMMA RestKept ==
    ASSUME TypeOK, TypeOK', NEW r \in Record, Untouched(r), AtRest(r)
    PROVE  AtRest(r)'
<1>1. /\ indexed \subseteq Message /\ indexed' \subseteq Message
      /\ latest \subseteq Message /\ latest' \subseteq Message
      /\ emitted \subseteq Message /\ emitted' \subseteq Message
  BY DEF TypeOK
<1>2. InitialWrite(r) \in Message /\ InitialWrite(r).rec = r
  BY InitialOf
<1>3. (\A x \in Message : x.rec = r =>
        /\ x \in blocks <=> x \in indexed
        /\ x \in events <=> x \in indexed
        /\ x \in latest => x \in indexed /\ x \in emitted)'
  BY DEF AtRest, Untouched
<1>4. (\A x \in indexed : x.rec = r =>
        /\ InitialWrite(r) \in indexed
        /\ ~x.initial => x \in latest
        /\ \A y \in indexed : y.rec = r /\ IsNewer(y, x) => x.initial /\ x \notin latest)'
  BY <1>1, <1>2 DEF AtRest, Untouched
<1>5. (r \notin purged => \A e \in emitted : e.rec = r =>
        \E n \in indexed : n.rec = r /\ (n = e \/ IsNewer(n, e)))'
  BY <1>1 DEF AtRest, Untouched
<1>6. \A c \in DataCid \cup {NoData} : Owes(r, c)' <=> Owes(r, c)
  BY <1>1 DEF Owes, Untouched
<1>7. (\A c \in DataCid \cup {NoData} : <<r, c>> \in data <=> Owes(r, c))'
  BY <1>6 DEF AtRest, Untouched
<1> QED  BY <1>3, <1>4, <1>5, <1>7 DEF AtRest

\* At rest a record with a write in the latest state has no delete.
LEMMA AliveNoDelete ==
    ASSUME TypeOK, NEW r \in Record, AtRest(r),
           NEW w \in latest, w \in indexed, IsWrite(w), w.rec = r,
           NEW d \in indexed, d.rec = r
    PROVE  IsWrite(d)
<1>1. w \in Message /\ d \in Message
  BY DEF TypeOK
<1>2. w = d \/ IsNewer(w, d) \/ IsNewer(d, w)
  BY <1>1, NewerOrder
<1>3. IsNewer(d, w) => FALSE
  BY DEF AtRest
<1>4. IsNewer(w, d) => d.initial
  BY DEF AtRest
<1> QED  BY <1>1, <1>2, <1>3, <1>4, Kinds

\* The forest does not change as long as no record comes or goes.
LEMMA ForestKept ==
    ASSUME NEW p, Forest(p), UNCHANGED purged,
           \A r : Exists(r)' <=> Exists(r),
           \A d \in indexed : IsDelete(d) =>
                \E e \in indexed' : e.rec = d.rec /\ IsDelete(e),
           \A d \in indexed' : IsDelete(d) /\ d.prune => d \in indexed,
           pc[p] \notin Purge0, pc'[p] \notin Purge0,
           pc[p] # "append" \/ ~(IsDelete(req[p]) /\ req[p].prune)
    PROVE  Forest(p)'
<1>0. /\ pc[p] \notin Purge0 /\ pc[p] \notin Purging
      /\ pc'[p] \notin Purge0 /\ pc'[p] \notin Purging
  BY DEF Purge0
<1>1. (\A x \in indexed : Par(x.rec) # NoRecord => Exists(Par(x.rec)))'
  <2> SUFFICES ASSUME NEW x \in indexed', Par(x.rec) # NoRecord
               PROVE  Exists(Par(x.rec))'
    OBVIOUS
  <2>1. Exists(x.rec)
    BY DEF Exists
  <2>2. PICK y \in indexed : y.rec = x.rec
    BY <2>1 DEF Exists
  <2> QED  BY <2>2 DEF Forest
<1>2. (\A T \in SUBSET Record :
        T # {} /\ (\A r \in T : Exists(r)) => \E r \in T : Par(r) \notin T)'
  BY DEF Forest
<1>3. (\A r \in purged :
        /\ Par(r) \in Record
        /\ Exists(r) => pc[p] \in Purging /\ Vanishing(p, r)
        /\ \/ Par(r) \in purged
           \/ \E d \in indexed : d.rec = Par(r) /\ IsDelete(d)
           \/ /\ pc[p] \in Purge0
              /\ \E i \in Calls(p) : Is(p, i, "purge", Par(r)))'
  <2> SUFFICES ASSUME NEW r \in purged
               PROVE  /\ Par(r) \in Record
                      /\ ~Exists(r)
                      /\ \/ Par(r) \in purged
                         \/ \E d \in indexed' : d.rec = Par(r) /\ IsDelete(d)
    BY <1>0
  <2>1. /\ Par(r) \in Record
        /\ ~Exists(r)
        /\ \/ Par(r) \in purged
           \/ \E d \in indexed : d.rec = Par(r) /\ IsDelete(d)
    BY <1>0 DEF Forest
  <2> QED  BY <2>1
<1>4. (\A d \in indexed :
        IsDelete(d) /\ d.prune /\ ~(d = req[p] /\ pc[p] \in Purge0 \cup {"append"}) =>
            \A x \in indexed : Par(x.rec) # d.rec)'
  <2> SUFFICES ASSUME NEW d \in indexed', IsDelete(d), d.prune, NEW x \in indexed'
               PROVE  Par(x.rec) # d.rec
    OBVIOUS
  <2>1. Exists(x.rec)
    BY DEF Exists
  <2>2. PICK y \in indexed : y.rec = x.rec
    BY <2>1 DEF Exists
  <2>3. d \in indexed /\ ~(d = req[p] /\ pc[p] \in Purge0 \cup {"append"})
    BY <1>0
  <2> QED  BY <2>2, <2>3 DEF Forest
<1> QED  BY <1>1, <1>2, <1>3, <1>4 DEF Forest

----------------------------------------------------------------------------
\* Steps between two messages.

message == <<blocks, indexed, latest, events, emitted, data, purged>>

\* All records are at rest while the handler does not store.
LEMMA AllAtRest ==
    ASSUME NEW p, SerialInv(p), pc[p] \notin Busy
    PROVE  \A r \in Record : AtRest(r)
BY DEF SerialInv, Busy, Purge0

\* A step that leaves the stores of messages alone keeps what it does not talk of.
LEMMA QuietSerial ==
    ASSUME NEW p, Serial(p), SerialInv(p), StoreInv',
           UNCHANGED message, pc[p] \notin Busy, pc'[p] \notin Busy,
           resuming' = {}, resumed'[p] = FALSE,
           opening' => tasks' = {} /\ pc'[p] = "idle",
           pc'[p] # "unwind", stream'[p] # "bad", Knows(p)'
    PROVE  SerialInv(p)'
<1>1. Purging \subseteq Busy /\ Purge0 \subseteq Busy /\ "append" \in Busy
  BY DEF Busy, Purge0
<1>2. \A r \in Record : AtRest(r)
  BY AllAtRest
<1>3. \A r \in Record : AtRest(r)'
  BY <1>2 DEF message, AtRest, Owes
<1>4. Forest(p)'
  <2>1. \A r : Exists(r)' <=> Exists(r)
    BY DEF Exists, message
  <2> QED  BY <1>1, <2>1, ForestKept DEF SerialInv, message
<1> QED  BY <1>1, <1>3, <1>4 DEF SerialInv

\* Where the handler waits while it stores nothing.
Calm == {"idle", "integrity", "scan", "fetch", "dataPut", "dataGet", "register",
         "performScan", "performFetch", "complete", "reply"}

LEMMA CalmIsNotBusy ==
    \A l \in Calm : l \notin Busy /\ l # "unwind" /\ l \notin Purging /\ l \notin Purge0
BY DEF Calm, Busy, Putting, Purge0, Purging, Cleaning, CleaningOne

\* The handler is one of the process, and its variables have their types.
LEMMA Handler ==
    ASSUME NEW p, Serial(p), StoreInv
    PROVE  /\ p \in Procs /\ TypeOK /\ HandlerInv(p)
           /\ req[p] \in Message /\ req[p].rec \in Record
           /\ existing[p] \subseteq Message /\ todo[p] \subseteq Message
           /\ cur[p] \in Message
<1>1. p \in Procs /\ TypeOK /\ HandlerInv(p)
  BY DEF Serial, StoreInv
<1> QED  BY <1>1, Kinds DEF TypeOK

\* The start.
LEMMA SerialInit ==
    ASSUME NEW p, Serial(p), Init
    PROVE  SerialInv(p)
<1>1. StoreInv
  BY SafeInit
<1>2. p \in Procs /\ pc[p] = "idle" /\ plan[p] = <<>>
  BY DEF Serial, Init
<1>3. Knows(p)
  BY <1>2 DEF Knows
<1>4. Forest(p)
  BY DEF Init, Forest, Exists
<1>5. \A r \in Record : AtRest(r)
  BY DEF Init, AtRest, Owes
<1>6. pc[p] \notin Busy /\ pc[p] \notin Purging /\ pc[p] \notin Purge0
  BY <1>2 DEF Busy, Putting, Purge0, Purging, Cleaning, CleaningOne
<1> QED  BY <1>1, <1>2, <1>3, <1>4, <1>5, <1>6 DEF SerialInv, Init

\* The newest of the messages of a record at rest.
LEMMA NewestOf ==
    ASSUME TypeOK, NEW r \in Record, AtRest(r), OfRecord(indexed, r) # {}
    PROVE  LET S == OfRecord(indexed, r)
           IN  Newest(S) \in S /\ \A n \in S : n = Newest(S) \/ IsNewer(Newest(S), n)
<1> DEFINE S == OfRecord(indexed, r)
<1>1. S \subseteq Message /\ S \subseteq indexed /\ \A x \in S : x.rec = r
  BY DEF TypeOK, OfRecord
<1>2. \E m \in S : \A n \in S : ~IsNewer(n, m)
  <2>1. CASE \E m \in S : ~m.initial
    <3>1. PICK m \in S : ~m.initial
      BY <2>1
    <3> QED  BY <1>1, <3>1 DEF AtRest
  <2>2. CASE \A m \in S : m.initial
    <3>1. \A m, n \in S : m = n
      BY <1>1, <2>2, Kinds
    <3> QED  BY <1>1, <3>1, NewerOrder
  <2> QED  BY <2>1, <2>2
<1>3. Newest(S) \in S /\ \A n \in S : ~IsNewer(n, Newest(S))
  BY <1>2 DEF Newest
<1> HIDE DEF S
<1>4. \A n \in S : n = Newest(S) \/ IsNewer(Newest(S), n)
  BY <1>1, <1>3, NewerOrder
<1> QED  BY <1>3, <1>4 DEF S

\* What the second half of a query finds is what the first half found.
LEMMA Found ==
    ASSUME NEW p, Serial(p), SerialInv(p), pc[p] \in {"fetch", "performFetch"}
    PROVE  Fetched(p) = OfRecord(indexed, req[p].rec)
<1>1. TypeOK /\ req[p].rec \in Record
  BY Handler DEF SerialInv
<1>2. pc[p] \notin Busy
  BY CalmIsNotBusy DEF Calm
<1>3. AtRest(req[p].rec)
  BY <1>1, <1>2, AllAtRest
<1>4. existing[p] = OfRecord(indexed, req[p].rec)
  BY DEF SerialInv, Knows
<1> QED  BY <1>1, <1>3, <1>4 DEF Fetched, OfRecord, AtRest, TypeOK

\* A request comes in, or a reply goes out.
LEMMA SerialReceive ==
    ASSUME NEW p, Serial(p), SerialInv(p), StoreInv', Receive(p) \/ Reply(p)
    PROVE  SerialInv(p)'
<1>0. p \in Procs /\ TypeOK
  BY Handler DEF SerialInv
<1>1. CASE Receive(p)
  <2>1. PICK m \in Message, s \in Streams \cup {"none"} :
          /\ req' = [req EXCEPT ![p] = m]
          /\ stream' = [stream EXCEPT ![p] = s]
          /\ Goto(p, IF IsWrite(m) /\ m.parent # NoRecord THEN "integrity" ELSE "scan")
    BY <1>1 DEF Receive
  <2>2. req'[p] = m /\ stream'[p] = s /\ s # "bad"
    BY <1>0, <2>1 DEF TypeOK, Serial
  <2>3. /\ pc[p] = "idle" /\ pc'[p] \in {"integrity", "scan"}
        /\ pc'[p] = "scan" /\ IsWrite(m) => m.parent = NoRecord
    BY <1>0, <1>1, <2>1 DEF Receive, Goto, TypeOK
  <2>4. Knows(p)'
    BY <2>2, <2>3 DEF Knows, ParentAlive
  <2>5. pc[p] \in Calm /\ pc'[p] \in Calm
    BY <2>3 DEF Calm
  <2>6. UNCHANGED message /\ resuming' = resuming /\ resumed' = resumed /\ ~opening'
    BY <1>1 DEF Receive, message, stores, history
  <2> QED  BY <2>2, <2>4, <2>5, <2>6, CalmIsNotBusy, QuietSerial DEF SerialInv
<1>2. CASE Reply(p)
  <2>1. /\ pc[p] = "reply" /\ pc'[p] = "idle" /\ stream'[p] = "none"
        /\ resumed'[p] = FALSE
    BY <1>0, <1>2 DEF Reply, Release, Goto, TypeOK
  <2>2. Knows(p)'
    BY <2>1 DEF Knows
  <2>3. pc[p] \in Calm /\ pc'[p] \in Calm
    BY <2>1 DEF Calm
  <2>4. UNCHANGED message /\ UNCHANGED <<resuming, opening, tasks>>
    BY <1>2 DEF Reply, message, stores, history
  <2> QED  BY <2>1, <2>2, <2>3, <2>4, CalmIsNotBusy, QuietSerial DEF SerialInv
<1> QED  BY <1>1, <1>2

\* The checks that end in an answer or in the next check.
LEMMA SerialCheck ==
    ASSUME NEW p, Serial(p), SerialInv(p), StoreInv',
           CheckParent(p) \/ Refuse(p) \/ Scan(p)
    PROVE  SerialInv(p)'
<1>0. p \in Procs /\ TypeOK
  BY Handler DEF SerialInv
<1>1. /\ UNCHANGED message
      /\ UNCHANGED <<resuming, resumed, opening, tasks, stream, req>>
  BY DEF CheckParent, Refuse, Scan, message, stores, history
<1>2. pc[p] \in Calm \ {"idle"} /\ pc'[p] \in Calm
  BY <1>0 DEF CheckParent, Refuse, Scan, Answer, Goto, TypeOK, Calm
<1>3. Knows(p)'
  <2>1. CASE CheckParent(p)
    <3>1. \/ pc'[p] = "scan" /\ ParentAlive(req[p])
          \/ pc'[p] = "reply"
      BY <1>0, <2>1 DEF CheckParent, Answer, Goto, TypeOK, ParentAlive, Stored
    <3> QED  BY <1>1, <3>1 DEF Knows, ParentAlive, message
  <2>2. CASE Refuse(p)
    BY <1>0, <2>2 DEF Refuse, Answer, Goto, TypeOK, Knows
  <2>3. CASE Scan(p)
    <3>1. existing'[p] = OfRecord(indexed, req[p].rec)
      BY <1>0, <2>3 DEF Scan, TypeOK
    <3>2. \/ pc[p] = "scan" /\ pc'[p] = "fetch"
          \/ pc[p] = "performScan" /\ pc'[p] = "performFetch"
      BY <1>0, <2>3 DEF Scan, Goto, TypeOK
    <3> QED  BY <1>1, <3>1, <3>2 DEF SerialInv, Knows, ParentAlive, message, OfRecord
  <2> QED  BY <2>1, <2>2, <2>3
<1>4. opening' => tasks' = {} /\ pc'[p] = "idle"
  BY <1>1, <1>2 DEF SerialInv
<1> QED  BY <1>1, <1>2, <1>3, <1>4, CalmIsNotBusy, QuietSerial DEF SerialInv

\* The checks of a delete and the ends of its task.
LEMMA SerialTask ==
    ASSUME NEW p, Serial(p), SerialInv(p), StoreInv',
           DeleteFetch(p) \/ Register(p) \/ Complete(p)
    PROVE  SerialInv(p)'
<1>0. p \in Procs /\ TypeOK /\ HandlerInv(p)
  BY Handler DEF SerialInv
<1>1. UNCHANGED message /\ UNCHANGED <<resuming, resumed, opening, stream, req>>
  BY DEF DeleteFetch, Register, Complete, message, stores, history, locals
<1>2. pc[p] \in Calm \ {"idle"} /\ pc'[p] \in Calm
  BY <1>0 DEF DeleteFetch, Register, Complete, Answer, Goto, TypeOK, Calm
<1>3. Knows(p)'
  <2>1. CASE DeleteFetch(p)
    <3> DEFINE S == OfRecord(indexed, req[p].rec)
    <3>1. Fetched(p) = S
      BY <2>1, Found DEF DeleteFetch
    <3>2. \/ pc'[p] = "reply"
          \/ pc'[p] = "register" /\ CanPerformDelete(req[p], S) /\ ~Outdated(req[p], S)
      BY <1>0, <2>1, <3>1 DEF DeleteFetch, Answer, Goto, TypeOK
    <3>3. ASSUME ~Outdated(req[p], S)
          PROVE  \A x \in S : IsNewer(req[p], x)
      <4>1. SUFFICES ASSUME S # {} PROVE \A x \in S : IsNewer(req[p], x)
        OBVIOUS
      <4>2. req[p] \in Message /\ req[p].rec \in Record /\ S \subseteq Message
        BY Handler DEF SerialInv, OfRecord, TypeOK
      <4>3. AtRest(req[p].rec)
        BY <1>2, <4>2, AllAtRest, CalmIsNotBusy
      <4>4. Newest(S) \in S /\ \A n \in S : n = Newest(S) \/ IsNewer(Newest(S), n)
        BY <1>0, <4>1, <4>2, <4>3, NewestOf
      <4>5. IsNewer(req[p], Newest(S))
        BY <3>3, <4>1 DEF Outdated
      <4> HIDE DEF S
      <4> QED  BY <4>2, <4>4, <4>5, NewerOrder
    <3>4. S' = S
      BY <1>1 DEF OfRecord, message
    <3>5. IsDelete(req[p])
      BY <2>1 DEF DeleteFetch
    <3> QED  BY <1>1, <3>2, <3>3, <3>4, <3>5 DEF Knows
  <2>2. CASE Register(p)
    <3>1. pc[p] = "register" /\ pc'[p] = "performScan"
      BY <1>0, <2>2 DEF Register, Goto, TypeOK
    <3> QED  BY <1>1, <3>1 DEF SerialInv, Knows, message, OfRecord
  <2>3. CASE Complete(p)
    BY <1>0, <2>3 DEF Complete, Answer, Goto, TypeOK, Knows
  <2> QED  BY <2>1, <2>2, <2>3
<1>4. opening' => tasks' = {} /\ pc'[p] = "idle"
  BY <1>1, <1>2 DEF SerialInv
<1> QED  BY <1>1, <1>2, <1>3, <1>4, CalmIsNotBusy, QuietSerial DEF SerialInv

----------------------------------------------------------------------------
\* The steps after which the handler stores its message.

\* What was purged stays away: a write that finds its parent alive is not for a
\* purged record.
LEMMA AliveNotPurged ==
    ASSUME NEW p, Serial(p), SerialInv(p), pc[p] \notin Busy,
           NEW m \in Message, m.initial, ParentAlive(m)
    PROVE  m.rec \notin purged
<1> SUFFICES ASSUME m.rec \in purged PROVE FALSE
  OBVIOUS
<1>1. TypeOK /\ m.rec \in Record /\ m = InitialWrite(m.rec) /\ Forest(p)
  BY Handler, Kinds DEF SerialInv
<1>2. m.parent = Par(m.rec) /\ m.parent \in Record /\ m.parent # NoRecord
  BY <1>1, MessageAssumption DEF Par, Forest
<1>3. PICK w \in latest : w \in indexed /\ IsWrite(w) /\ w.rec = m.parent
  BY <1>2 DEF ParentAlive
<1>4. AtRest(m.parent)
  BY <1>2, AllAtRest
<1>5. \A d \in indexed : d.rec = m.parent => IsWrite(d)
  BY <1>1, <1>2, <1>3, <1>4, AliveNoDelete
<1>6. m.parent \notin purged
  BY <1>1, <1>3 DEF Forest, Exists, Busy, Purge0
<1>7. \E d \in indexed : d.rec = m.parent /\ IsDelete(d)
  BY <1>1, <1>2, <1>6 DEF Forest, Busy
<1>8. indexed \subseteq Message
  BY <1>1 DEF TypeOK
<1> QED  BY <1>5, <1>7, <1>8, Kinds

\* A write that passes the checks is newer than a record it may follow.
LEMMA WriteFollows ==
    ASSUME NEW p, Serial(p), SerialInv(p), pc[p] = "fetch", IsWrite(req[p]),
           existing'[p] = OfRecord(indexed, req[p].rec), req' = req,
           KeepsImmutable(req[p], OfRecord(indexed, req[p].rec)),
           ~Outdated(req[p], OfRecord(indexed, req[p].rec)),
           ~IsDeleted(OfRecord(indexed, req[p].rec))
    PROVE  Follows(p)' /\ req[p].rec \notin purged
<1> DEFINE S == OfRecord(indexed, req[p].rec)
<1>0. /\ TypeOK /\ req[p] \in Message /\ req[p].rec \in Record
      /\ S \subseteq Message /\ S \subseteq indexed
      /\ \A x \in S : x.rec = req[p].rec
  BY Handler DEF SerialInv, OfRecord, TypeOK
<1>1. AtRest(req[p].rec) /\ pc[p] \notin Busy
  BY <1>0, AllAtRest, CalmIsNotBusy DEF Calm
<1>2. S # {} => /\ Newest(S) \in S
                /\ \A n \in S : n = Newest(S) \/ IsNewer(Newest(S), n)
  BY <1>0, <1>1, NewestOf
<1>3. S # {} => IsNewer(req[p], Newest(S)) /\ ~IsDelete(Newest(S))
  BY DEF Outdated, IsDeleted
<1>4. S # {} => InitialWrite(req[p].rec) \in S
  BY <1>0, <1>1, InitialOf DEF AtRest, OfRecord
<1>5. S = {} => req[p].initial
  BY DEF KeepsImmutable
<1>6. \A x, y \in S : IsNewer(y, x) => x.initial
  BY <1>0, <1>1 DEF AtRest
<1>7. req[p].rec \notin purged
  <2>1. CASE S = {}
    <3>1. ParentAlive(req[p])
      BY DEF SerialInv, Knows
    <3> QED  BY <1>0, <1>1, <1>5, <2>1, <3>1, AliveNotPurged
  <2>2. CASE S # {}
    BY <1>0, <1>1, <2>2 DEF SerialInv, Forest, Exists, Busy, Purge0
  <2> QED  BY <2>1, <2>2
<1> HIDE DEF S
<1>8. \A x \in S : IsNewer(req[p], x)
  BY <1>0, <1>2, <1>3, NewerOrder
<1>9. \A x \in S : IsWrite(x)
  BY <1>0, <1>2, <1>3, <1>6, Kinds
<1>10. existing'[p] = S
  BY DEF S
<1>11. ~IsDelete(req[p])
  BY <1>0, Kinds
<1> QED  BY <1>0, <1>4, <1>5, <1>6, <1>7, <1>8, <1>9, <1>10, <1>11 DEF Follows

\* So is a delete.
LEMMA DeleteFollows ==
    ASSUME NEW p, Serial(p), SerialInv(p), pc[p] = "performFetch",
           existing'[p] = OfRecord(indexed, req[p].rec), req' = req,
           CanPerformDelete(req[p], OfRecord(indexed, req[p].rec))
    PROVE  Follows(p)' /\ req[p].rec \notin purged /\ IsDelete(req[p])
<1> DEFINE S == OfRecord(indexed, req[p].rec)
<1>0. /\ TypeOK /\ req[p] \in Message /\ req[p].rec \in Record
      /\ S \subseteq Message /\ S \subseteq indexed
      /\ \A x \in S : x.rec = req[p].rec
  BY Handler DEF SerialInv, OfRecord, TypeOK
<1>1. AtRest(req[p].rec) /\ pc[p] \notin Busy
  BY <1>0, AllAtRest, CalmIsNotBusy DEF Calm
<1>2. S # {} /\ (IsDelete(Newest(S)) => req[p].prune /\ ~Newest(S).prune)
  BY DEF CanPerformDelete
<1>3. Newest(S) \in S /\ \A n \in S : n = Newest(S) \/ IsNewer(Newest(S), n)
  BY <1>0, <1>1, <1>2, NewestOf
<1>4. InitialWrite(req[p].rec) \in S
  BY <1>0, <1>1, <1>2, InitialOf DEF AtRest, OfRecord
<1>5. \A x, y \in S : IsNewer(y, x) => x.initial
  BY <1>0, <1>1 DEF AtRest
<1>6. req[p].rec \notin purged
  BY <1>0, <1>1, <1>2 DEF SerialInv, Forest, Exists, Busy, Purge0
<1>7. IsDelete(req[p]) /\ \A x \in S : IsNewer(req[p], x)
  BY DEF SerialInv, Knows
<1> HIDE DEF S
<1>8. \A x \in S : IsDelete(x) => req[p].prune /\ ~x.prune
  <2> SUFFICES ASSUME NEW x \in S, IsDelete(x) PROVE req[p].prune /\ ~x.prune
    OBVIOUS
  <2>1. x = Newest(S)
    BY <1>0, <1>3, <1>5, Kinds
  <2> QED  BY <1>2, <2>1
<1>9. existing'[p] = S
  BY DEF S
<1>10. ~IsWrite(req[p])
  BY <1>0, <1>7, Kinds
<1> QED  BY <1>0, <1>2, <1>4, <1>5, <1>6, <1>7, <1>8, <1>9, <1>10 DEF Follows

\* The record in hand as the handler finds it.
LEMMA EnterPut ==
    ASSUME NEW p, Serial(p), SerialInv(p), StoreInv', pc[p] \in Calm,
           UNCHANGED <<blocks, indexed, latest, events, emitted, purged>>,
           UNCHANGED <<resuming, resumed, opening, stream, req>>, ~opening,
           pc'[p] = "putBlock",
           existing'[p] = OfRecord(indexed, req[p].rec), Follows(p)',
           req[p].rec \notin purged,
           IsWrite(req[p]) => ParentAlive(req[p]),
           data' = data \/ (BringsData(p) /\ data' = data \cup {<<req[p].rec, req[p].data>>}),
           BringsData(p) => <<req[p].rec, req[p].data>> \in data'
    PROVE  SerialInv(p)'
<1> DEFINE r == req[p].rec
           S == OfRecord(indexed, r)
<1>0. TypeOK /\ TypeOK' /\ req[p] \in Message /\ r \in Record /\ p \in Procs
  BY Handler DEF SerialInv, StoreInv
<1>1. \A q \in Record : AtRest(q)
  BY AllAtRest, CalmIsNotBusy
<1>2. BringsData(p)' <=> BringsData(p)
  BY DEF BringsData, BecomesLatest
<1>3. /\ pc'[p] \in Putting /\ pc'[p] \in Busy /\ pc'[p] \notin Cleaning
      /\ pc'[p] \notin CleaningOne /\ pc'[p] \notin Purge0 /\ pc'[p] \notin Purging
      /\ pc[p] \notin Purging /\ pc[p] \notin Purge0 /\ pc[p] \notin Busy
  BY CalmIsNotBusy
  DEF Busy, Putting, Purge0, Purging, Cleaning, CleaningOne
<1>4. /\ \A x \in S : x \in Message /\ x \in indexed /\ x.rec = r /\ IsNewer(req[p], x)
      /\ \A x \in indexed : x.rec = r => x \in S
  <2>1. \A x \in S : IsNewer(req[p], x)
    BY DEF Follows
  <2> QED  BY <1>0, <2>1 DEF OfRecord, TypeOK
<1>5. (\A x \in Message : x.rec = req[p].rec =>
            /\ x \in blocks <=> HasBlock(p, x)
            /\ x \in indexed <=> HasIndex(p, x)
            /\ x \in events <=> HasEvent(p, x)
            /\ x \in latest => MayBeLatest(p, x))'
  <2> SUFFICES ASSUME NEW x \in Message, x.rec = r
               PROVE  (/\ x \in blocks <=> HasBlock(p, x)
                       /\ x \in indexed <=> HasIndex(p, x)
                       /\ x \in events <=> HasEvent(p, x)
                       /\ x \in latest => MayBeLatest(p, x))'
    OBVIOUS
  <2>1. /\ x \in blocks <=> x \in S
        /\ x \in events <=> x \in S
        /\ x \in indexed <=> x \in S
        /\ x \in latest => x \in S
    BY <1>0, <1>1, <1>4 DEF AtRest
  <2> QED  BY <1>3, <2>1 DEF HasBlock, HasIndex, HasEvent, MayBeLatest
<1>6. \A e \in emitted : e.rec = r => IsNewer(req[p], e)
  <2> SUFFICES ASSUME NEW e \in emitted, e.rec = r PROVE IsNewer(req[p], e)
    OBVIOUS
  <2>1. PICK n \in indexed : n.rec = r /\ (n = e \/ IsNewer(n, e))
    BY <1>0, <1>1 DEF AtRest
  <2>2. n \in Message /\ e \in Message /\ IsNewer(req[p], n)
    BY <1>0, <1>4, <2>1 DEF TypeOK
  <2> QED  BY <1>0, <2>1, <2>2, NewerOrder
<1>7. req[p] \notin emitted /\ req[p] \notin latest
  <2>1. ~IsNewer(req[p], req[p])
    BY <1>0, NewerOrder
  <2>2. req[p] \in latest => req[p] \in indexed
    BY <1>0, <1>1 DEF AtRest
  <2> QED  BY <1>4, <1>6, <2>1, <2>2
<1>8. \A c \in DataCid \cup {NoData} : <<r, c>> \in data' =>
        \/ BringsData(p) /\ c = req[p].data
        \/ \E x \in S : IsWrite(x) /\ IsLarge(x) /\ x.data = c
  <2> SUFFICES ASSUME NEW c \in DataCid \cup {NoData}, <<r, c>> \in data
               PROVE  \E x \in S : IsWrite(x) /\ IsLarge(x) /\ x.data = c
    OBVIOUS
  <2>1. Owes(r, c)
    BY <1>0, <1>1 DEF AtRest
  <2>2. PICK w \in latest : w.rec = r /\ IsWrite(w) /\ IsLarge(w) /\ w.data = c
    BY <2>1 DEF Owes
  <2>3. w \in S
    BY <1>0, <1>1, <1>4, <2>2 DEF AtRest, TypeOK
  <2> QED  BY <2>2, <2>3
<1>9. InHand(p)'
  <2>1. (pc[p] \in Putting /\ IsWrite(req[p]) => ParentAlive(req[p]))'
    BY DEF ParentAlive
  <2>2. pc'[p] \notin {"restoreBlock", "restoreIndex"}
    OBVIOUS
  <2> HIDE DEF S
  <2>3. existing'[p] = S
    BY DEF S
  <2> QED  BY <1>2, <1>3, <1>5, <1>6, <1>7, <1>8, <2>1, <2>2, <2>3 DEF InHand
<1>10. \A q \in Record : q # r => AtRest(q)'
  <2> SUFFICES ASSUME NEW q \in Record, q # r PROVE AtRest(q)'
    OBVIOUS
  <2>1. Untouched(q)
    BY DEF Untouched
  <2> QED  BY <1>0, <1>1, <2>1, RestKept
<1>11. Forest(p)'
  <2>1. \A q : Exists(q)' <=> Exists(q)
    BY DEF Exists
  <2> QED  BY <1>3, <2>1, CalmIsNotBusy, ForestKept DEF SerialInv, Busy
<1>12. Knows(p)' /\ pc'[p] # "unwind"
  BY DEF Knows
<1> QED  BY <1>3, <1>9, <1>10, <1>11, <1>12 DEF SerialInv

\* The checks of a write end in an answer, in a look at its data, or in the put.
LEMMA SerialWrite ==
    ASSUME NEW p, Serial(p), SerialInv(p), StoreInv', WriteFetch(p)
    PROVE  SerialInv(p)'
<1> DEFINE m == req[p]
           S == OfRecord(indexed, req[p].rec)
<1>0. p \in Procs /\ TypeOK /\ req[p] \in Message
  BY Handler DEF SerialInv
<1>1. Fetched(p) = S /\ pc[p] = "fetch" /\ IsWrite(req[p])
  BY Found DEF WriteFetch
<1>2. /\ UNCHANGED message
      /\ UNCHANGED <<resuming, resumed, opening, tasks, stream, req>>
  BY DEF WriteFetch, message, stores, history
<1>3. ~opening /\ pc[p] \in Calm
  BY <1>1 DEF SerialInv, Calm
<1>4. existing'[p] = S
  BY <1>0, <1>1 DEF WriteFetch, TypeOK
<1>5. \/ pc'[p] = "reply"
      \/ /\ TakeData(p, S)
         /\ KeepsImmutable(m, S) /\ ~Outdated(m, S) /\ ~IsDeleted(S)
  <2>1. \/ Answer(p, 400) \/ Answer(p, 409)
        \/ /\ TakeData(p, S)
           /\ KeepsImmutable(m, S) /\ ~Outdated(m, S) /\ ~IsDeleted(S)
    BY <1>1 DEF WriteFetch
  <2> HIDE DEF S
  <2> QED  BY <1>0, <2>1 DEF Answer, Goto, TypeOK
<1>6. ASSUME TakeData(p, S)
      PROVE  \/ pc'[p] = "reply"
             \/ pc'[p] \in {"dataGet", "dataPut"} /\ IsLarge(m) /\ BecomesLatest(p)
             \/ pc'[p] = "putBlock" /\ ~BringsData(p)
  <2> HIDE DEF S
  <2>1. stream[p] \in {"none", "good", "bad"}
    BY <1>0 DEF TypeOK
  <2> QED  BY <1>0, <1>6, <2>1
           DEF TakeData, Answer, Goto, TypeOK, BecomesLatest, BringsData
<1>7. CASE pc'[p] = "reply"
  <2>1. Knows(p)' /\ pc'[p] \in Calm
    BY <1>7 DEF Knows, Calm
  <2> QED  BY <1>2, <1>3, <2>1, CalmIsNotBusy, QuietSerial DEF SerialInv
<1>8. ASSUME TakeData(p, S), KeepsImmutable(m, S), ~Outdated(m, S), ~IsDeleted(S),
             pc'[p] # "reply"
      PROVE  SerialInv(p)'
  <2>1. Follows(p)' /\ req[p].rec \notin purged
    BY <1>1, <1>2, <1>4, <1>8, WriteFollows
  <2>2. ParentAlive(req[p])
    BY <1>1 DEF SerialInv, Knows
  <2>3. CASE pc'[p] \in {"dataGet", "dataPut"}
    <3>1. IsLarge(m) /\ BecomesLatest(p)
      BY <1>6, <1>8, <2>3
    <3>2. S' = S
      BY <1>2 DEF OfRecord, message
    <3>3. Knows(p)'
      BY <1>1, <1>2, <1>4, <2>1, <2>2, <2>3, <3>1, <3>2
      DEF Knows, BecomesLatest, ParentAlive, message
    <3>4. pc'[p] \in Calm
      BY <2>3 DEF Calm
    <3> QED  BY <1>2, <1>3, <3>3, <3>4, CalmIsNotBusy, QuietSerial DEF SerialInv
  <2>4. CASE pc'[p] = "putBlock"
    <3>1. ~BringsData(p)
      BY <1>6, <1>8, <2>4
    <3> QED  BY <1>2, <1>3, <1>4, <2>1, <2>2, <2>4, <3>1, EnterPut DEF message
  <2> QED  BY <1>6, <1>8, <2>3, <2>4
<1> QED  BY <1>5, <1>7, <1>8

\* The data is stored, or found, before the message.
LEMMA SerialData ==
    ASSUME NEW p, Serial(p), SerialInv(p), StoreInv', DataPut(p) \/ DataGet(p)
    PROVE  SerialInv(p)'
<1>0. p \in Procs /\ TypeOK
  BY Handler DEF SerialInv
<1>1. UNCHANGED <<blocks, indexed, latest, events, emitted, purged, tasks, resuming,
                  resumed, opening, stream, req, existing>>
  BY DEF DataPut, DataGet, stores, locals, history
<1>2. pc[p] \in {"dataPut", "dataGet"} /\ pc[p] \in Calm /\ ~opening
  BY DEF DataPut, DataGet, Calm, SerialInv
<1>3. /\ existing[p] = OfRecord(indexed, req[p].rec)
      /\ IsWrite(req[p]) /\ BringsData(p) /\ ParentAlive(req[p])
      /\ Follows(p) /\ req[p].rec \notin purged
  BY <1>2 DEF SerialInv, Knows, BringsData
<1>4. Follows(p)'
  BY <1>1, <1>3 DEF Follows
<1>5. CASE pc'[p] = "putBlock"
  <2>1. \/ data' = data /\ <<req[p].rec, req[p].data>> \in data
        \/ data' = data \cup {<<req[p].rec, req[p].data>>}
    BY <1>0, <1>5 DEF DataPut, DataGet, stores, Goto, Answer, TypeOK
  <2> QED  BY <1>1, <1>2, <1>3, <1>4, <1>5, <2>1, EnterPut
<1>6. CASE pc'[p] # "putBlock"
  <2>1. DataGet(p) /\ pc'[p] = "reply"
    BY <1>0, <1>6 DEF DataPut, DataGet, SerialInv, Goto, Answer, TypeOK
  <2>2. data' = data
    BY <2>1 DEF DataGet, stores
  <2>3. Knows(p)' /\ pc'[p] \in Calm
    BY <2>1 DEF Knows, Calm
  <2> QED  BY <1>1, <1>2, <2>2, <2>3, CalmIsNotBusy, QuietSerial DEF SerialInv, message
<1> QED  BY <1>5, <1>6

\* The task of a delete finds the record as the handler did; its initial write is
\* there, so that it does not fail.
LEMMA SerialPerform ==
    ASSUME NEW p, Serial(p), SerialInv(p), StoreInv', PerformFetch(p)
    PROVE  SerialInv(p)'
<1> DEFINE S == OfRecord(indexed, req[p].rec)
<1>0. p \in Procs /\ TypeOK /\ req[p] \in Message /\ req[p].rec \in Record
  BY Handler DEF SerialInv
<1>1. Fetched(p) = S /\ pc[p] = "performFetch"
  BY Found DEF PerformFetch
<1>2. UNCHANGED message /\ UNCHANGED <<resumed, opening, tasks, stream, req>>
  BY DEF PerformFetch, message, stores, history
<1>3. ~opening /\ pc[p] \in Calm
  BY <1>1 DEF SerialInv, Calm
<1>4. existing'[p] = S
  BY <1>0, <1>1 DEF PerformFetch, TypeOK
<1>5. S # {} => \E w \in S : w.initial
  <2>1. AtRest(req[p].rec)
    BY <1>0, <1>3, AllAtRest, CalmIsNotBusy
  <2> QED  BY <1>0, <2>1, InitialOf DEF AtRest, OfRecord
<1>6. /\ resuming' = resuming
      /\ \/ pc'[p] = "complete"
         \/ pc'[p] = "putBlock" /\ CanPerformDelete(req[p], S)
  <2>1. CanPerformDelete(req[p], S) => S # {}
    BY DEF CanPerformDelete
  <2> HIDE DEF S
  <2> QED  BY <1>0, <1>1, <1>5, <2>1 DEF PerformFetch, Goto, TypeOK
<1>7. CASE pc'[p] = "complete"
  <2>1. Knows(p)' /\ pc'[p] \in Calm
    BY <1>7 DEF Knows, Calm
  <2> QED  BY <1>2, <1>3, <1>6, <2>1, CalmIsNotBusy, QuietSerial DEF SerialInv
<1>8. CASE pc'[p] = "putBlock" /\ CanPerformDelete(req[p], S)
  <2>1. Follows(p)' /\ req[p].rec \notin purged /\ IsDelete(req[p])
    BY <1>1, <1>2, <1>4, <1>8, DeleteFollows
  <2>2. ~IsWrite(req[p]) /\ ~BringsData(p)
    BY <1>0, <2>1, Kinds DEF BringsData
  <2> QED  BY <1>2, <1>3, <1>4, <1>6, <1>8, <2>1, <2>2, EnterPut DEF message
<1> QED  BY <1>6, <1>7, <1>8

----------------------------------------------------------------------------
\* Storing the message.

\* Labels at which the handler has a message in hand and no record is half purged.
Holding == Busy \ Purging

LEMMA HoldingIs ==
    /\ Holding = {"putBlock", "putIndex", "append", "purge", "clean", "cleanBlock",
                  "cleanIndex", "restoreBlock", "restoreIndex", "cleanEvents"}
    /\ \A l \in Holding : l \notin Purging /\ (l \in Purge0 <=> l = "purge")
    /\ \A l \in Purging : l \in Purge0 /\ l \in Busy /\ l \notin Calm
    /\ \A l \in Busy : l # "unwind" /\ l \notin Calm
BY DEF Holding, Busy, Putting, Purge0, Purging, Cleaning, CleaningOne, Calm

\* A step between two such labels that touches only the record in hand.
LEMMA HoldingStep ==
    ASSUME NEW p, Serial(p), SerialInv(p), StoreInv',
           pc[p] \in Holding, pc'[p] \in Holding,
           UNCHANGED <<resuming, resumed, opening, stream, req>>,
           \A q \in Record : q # req[p].rec => Untouched(q),
           Forest(p)', InHand(p)', pc'[p] = "purge" => PlanInv(p)'
    PROVE  SerialInv(p)'
<1>0. TypeOK /\ TypeOK'
  BY DEF SerialInv, StoreInv
<1>1. \A q \in Record : q # req[p].rec => AtRest(q)
  BY DEF SerialInv, Holding
<1>2. \A q \in Record : q # req[p].rec => AtRest(q)'
  BY <1>0, <1>1, RestKept
<1>3. Knows(p)' /\ pc'[p] # "unwind" /\ ~opening
  BY HoldingIs DEF Knows, SerialInv
<1> QED  BY <1>2, <1>3, HoldingIs DEF SerialInv, Holding

\* The block of the message.
LEMMA SerialPutBlock ==
    ASSUME NEW p, Serial(p), SerialInv(p), StoreInv', PutBlock(p)
    PROVE  SerialInv(p)'
<1>0. /\ p \in Procs /\ TypeOK /\ req[p] \in Message
      /\ pc[p] = "putBlock" /\ pc'[p] = "putIndex" /\ blocks' = blocks \cup {req[p]}
      /\ UNCHANGED <<indexed, latest, data, events, emitted, purged, resuming, resumed,
                     opening, stream, req, existing, todo, cur>>
  BY Handler DEF SerialInv, PutBlock, Goto, TypeOK, locals, history
<1>1. pc[p] \in Holding /\ pc'[p] \in Holding
  BY <1>0, HoldingIs
<1>2. Forest(p)'
  BY <1>0, <1>1, HoldingIs, ForestKept DEF SerialInv, Exists
<1>3. \A q \in Record : q # req[p].rec => Untouched(q)
  BY <1>0 DEF Untouched
<1>4. InHand(p)'
  <2>0. /\ pc[p] \notin Cleaning /\ pc'[p] \notin Cleaning
        /\ pc'[p] \notin CleaningOne /\ pc'[p] \in Putting /\ pc[p] \in Putting
    BY <1>0 DEF Cleaning, CleaningOne, Putting
  <2>1. InHand(p)
    BY <1>1 DEF SerialInv, Holding
  <2>2. (\A x \in Message : x.rec = req[p].rec =>
            /\ x \in blocks <=> HasBlock(p, x)
            /\ x \in indexed <=> HasIndex(p, x)
            /\ x \in events <=> HasEvent(p, x)
            /\ x \in latest => MayBeLatest(p, x))'
    BY <1>0, <2>0, <2>1 DEF InHand, HasBlock, HasIndex, HasEvent, MayBeLatest
  <2> QED  BY <1>0, <2>0, <2>1, <2>2
           DEF InHand, Follows, ParentAlive, BringsData, BecomesLatest
<1> QED  BY <1>0, <1>1, <1>2, <1>3, <1>4, HoldingStep

\* The index entry of the message.  A new record comes under its parent, which is
\* alive.
LEMMA SerialPutIndex ==
    ASSUME NEW p, Serial(p), SerialInv(p), StoreInv', PutIndex(p)
    PROVE  SerialInv(p)'
<1> DEFINE m == req[p]
           k == req[p].rec
<1>0. /\ p \in Procs /\ TypeOK /\ m \in Message /\ k \in Record
      /\ pc[p] = "putIndex" /\ pc'[p] = "append" /\ indexed' = indexed \cup {m}
      /\ latest' = IF BecomesLatest(p) THEN latest \cup {m} ELSE latest \ {m}
      /\ UNCHANGED <<blocks, data, events, emitted, purged, resuming, resumed,
                     opening, stream, req, existing, todo, cur>>
  BY Handler DEF SerialInv, PutIndex, Goto, TypeOK, locals
<1>1. /\ pc[p] \in Holding /\ pc'[p] \in Holding
      /\ pc[p] \notin Cleaning /\ pc'[p] \notin Cleaning /\ pc'[p] \notin CleaningOne
      /\ pc'[p] \notin Putting /\ pc[p] \in Putting
      /\ pc[p] \notin Purge0 /\ pc'[p] \notin Purge0
      /\ pc[p] \notin Purging /\ pc'[p] \notin Purging
  BY <1>0, HoldingIs DEF Cleaning, CleaningOne, Putting
<1>2. InHand(p) /\ Forest(p) /\ \A q \in Record : q # k => AtRest(q)
  BY <1>1 DEF SerialInv, Holding
<1>3. \A q \in Record : q # k => Untouched(q)
  BY <1>0 DEF Untouched
<1>4. \A x \in indexed : x \in Message /\ (x.rec = k <=> x \in existing[p])
  <2>1. \A x \in existing[p] : x \in Message /\ x.rec = k /\ IsNewer(m, x)
    BY <1>0, <1>2 DEF InHand, Follows, TypeOK
  <2> QED  BY <1>0, <1>1, <1>2, <2>1 DEF InHand, HasIndex, TypeOK
<1>5. \A q : Exists(q)' <=> Exists(q) \/ q = k
  BY <1>0 DEF Exists
<1>6. ASSUME ~Exists(k)
      PROVE  /\ m = InitialWrite(k) /\ m.parent = Par(k) /\ IsWrite(m)
             /\ Par(k) # NoRecord =>
                    /\ Exists(Par(k))
                    /\ \A d \in indexed : d.rec = Par(k) => IsWrite(d)
  <2>1. existing[p] = {}
    <3>1. \A x \in existing[p] : x \in Message /\ x.rec = k
      BY <1>0, <1>2 DEF InHand, Follows, TypeOK
    <3> QED  BY <1>1, <1>2, <1>6, <3>1 DEF InHand, HasIndex, Exists
  <2>2. m.initial
    BY <1>2, <2>1 DEF InHand, Follows
  <2>3. m = InitialWrite(k) /\ m.parent = Par(k) /\ IsWrite(m)
    BY <1>0, <2>2, Kinds DEF Par
  <2>4. ParentAlive(m)
    BY <1>1, <1>2, <2>3 DEF InHand
  <2>5. ASSUME Par(k) # NoRecord
        PROVE  /\ Exists(Par(k))
               /\ \A d \in indexed : d.rec = Par(k) => IsWrite(d)
    <3>1. PICK w \in latest : w \in indexed /\ IsWrite(w) /\ w.rec = Par(k)
      BY <2>3, <2>4, <2>5 DEF ParentAlive
    <3>2. Exists(Par(k)) /\ Par(k) # k
      BY <1>6, <3>1 DEF Exists
    <3>3. Par(k) \in Record
      BY <1>0, <2>3, <2>5, Kinds
    <3>4. AtRest(Par(k))
      BY <1>2, <3>2, <3>3
    <3> QED  BY <1>0, <3>1, <3>2, <3>3, <3>4, AliveNoDelete
  <2> QED  BY <2>3, <2>5
<1>7. Forest(p)'
  <2>1. (\A x \in indexed : Par(x.rec) # NoRecord => Exists(Par(x.rec)))'
    <3> SUFFICES ASSUME NEW x \in indexed', Par(x.rec) # NoRecord
                 PROVE  Exists(Par(x.rec))
      BY <1>5
    <3>1. CASE Exists(x.rec)
      <4>1. PICK y \in indexed : y.rec = x.rec
        BY <3>1 DEF Exists
      <4> QED  BY <1>2, <4>1 DEF Forest
    <3>2. CASE ~Exists(x.rec)
      <4>1. x.rec = k
        BY <1>0, <3>2 DEF Exists
      <4> QED  BY <1>6, <3>2, <4>1
    <3> QED  BY <3>1, <3>2
  <2>2. (\A T \in SUBSET Record :
        T # {} /\ (\A r \in T : Exists(r)) => \E r \in T : Par(r) \notin T)'
    <3> SUFFICES ASSUME NEW T \in SUBSET Record, T # {},
                        \A r \in T : Exists(r) \/ r = k, \A r \in T : Par(r) \in T
                 PROVE  FALSE
      BY <1>5
    <3> DEFINE U == T \ {k}
    <3>1. \A U1 \in SUBSET Record :
             U1 # {} /\ (\A r \in U1 : Exists(r)) => \E r \in U1 : Par(r) \notin U1
      BY <1>2 DEF Forest
    <3>2. k \in T /\ ~Exists(k)
      BY <3>1
    <3>3. \A r \in U : Par(r) \in U
      <4> SUFFICES ASSUME NEW r \in U PROVE Par(r) # k
        OBVIOUS
      <4>1. PICK y \in indexed : y.rec = r
        BY DEF Exists
      <4>2. Par(r) # NoRecord
        BY MessageAssumption
      <4>3. Exists(Par(r))
        BY <1>2, <4>1, <4>2 DEF Forest
      <4> QED  BY <3>2, <4>3
    <3>4. U = {}
      <4>1. U \in SUBSET Record /\ \A r \in U : Exists(r)
        OBVIOUS
      <4> QED  BY <3>1, <3>3, <4>1
    <3>5. Par(k) = k
      BY <3>2, <3>4
    <3>6. Par(k) # NoRecord
      BY <1>0, <3>5, MessageAssumption
    <3> QED  BY <1>6, <3>2, <3>5, <3>6
  <2>3. (\A r \in purged :
        /\ Par(r) \in Record
        /\ Exists(r) => pc[p] \in Purging /\ Vanishing(p, r)
        /\ \/ Par(r) \in purged
           \/ \E d \in indexed : d.rec = Par(r) /\ IsDelete(d)
           \/ /\ pc[p] \in Purge0
              /\ \E i \in Calls(p) : Is(p, i, "purge", Par(r)))'
    <3> SUFFICES ASSUME NEW r \in purged
                 PROVE  /\ Par(r) \in Record
                        /\ ~Exists(r) /\ r # k
                        /\ \/ Par(r) \in purged
                           \/ \E d \in indexed : d.rec = Par(r) /\ IsDelete(d)
      BY <1>0, <1>5
    <3>1. r # k
      BY <1>2 DEF InHand
    <3> QED  BY <1>1, <1>2, <3>1 DEF Forest
  <2>4. (\A d \in indexed :
        IsDelete(d) /\ d.prune /\ ~(d = req[p] /\ pc[p] \in Purge0 \cup {"append"}) =>
            \A x \in indexed : Par(x.rec) # d.rec)'
    <3> SUFFICES ASSUME NEW d \in indexed', IsDelete(d), d.prune, d # m,
                        NEW x \in indexed'
                 PROVE  Par(x.rec) # d.rec
      BY <1>0
    <3>1. d \in indexed /\ d \in Message /\ d.rec \in Record
      BY <1>0, Kinds DEF TypeOK
    <3>2. \A y \in indexed : Par(y.rec) # d.rec
      BY <1>1, <1>2, <3>1 DEF Forest
    <3>3. CASE Exists(x.rec)
      BY <3>2, <3>3 DEF Exists
    <3>4. CASE ~Exists(x.rec)
      <4>1. x.rec = k
        BY <1>0, <3>4 DEF Exists
      <4>2. d.rec # NoRecord
        BY <3>1, MessageAssumption
      <4> QED  BY <1>6, <3>1, <3>4, <4>1, <4>2, Kinds
    <3> QED  BY <3>3, <3>4
  <2> QED  BY <2>1, <2>2, <2>3, <2>4 DEF Forest
<1>8. InHand(p)'
  <2>1. (\A x \in Message : x.rec = req[p].rec =>
            /\ x \in blocks <=> HasBlock(p, x)
            /\ x \in indexed <=> HasIndex(p, x)
            /\ x \in events <=> HasEvent(p, x)
            /\ x \in latest => MayBeLatest(p, x))'
    <3> SUFFICES ASSUME NEW x \in Message, x.rec = k
                 PROVE  (/\ x \in blocks <=> HasBlock(p, x)
                         /\ x \in indexed <=> HasIndex(p, x)
                         /\ x \in events <=> HasEvent(p, x)
                         /\ x \in latest => MayBeLatest(p, x))'
      BY <1>0
    <3>1. (x \in blocks <=> HasBlock(p, x))'
      BY <1>0, <1>1, <1>2 DEF InHand, HasBlock
    <3>2. (x \in indexed <=> HasIndex(p, x))'
      BY <1>0, <1>1, <1>2 DEF InHand, HasIndex
    <3>3. (x \in events <=> HasEvent(p, x))'
      BY <1>0, <1>1, <1>2 DEF InHand, HasEvent
    <3>4. (x \in latest => MayBeLatest(p, x))'
      BY <1>0, <1>1, <1>2 DEF InHand, MayBeLatest
    <3> QED  BY <3>1, <3>2, <3>3, <3>4
  <2>2. (req[p] \in latest <=> BecomesLatest(p) /\ pc[p] \notin Putting)'
    BY <1>0, <1>1 DEF BecomesLatest
  <2>3. /\ k \notin purged /\ Follows(p)
        /\ \A e \in emitted : e.rec = k => e = m \/ IsNewer(m, e)
        /\ m \notin emitted
        /\ BringsData(p) => <<k, m.data>> \in data
        /\ \A c \in DataCid \cup {NoData} : <<k, c>> \in data =>
            \/ BringsData(p) /\ c = m.data
            \/ \E x \in existing[p] : IsWrite(x) /\ IsLarge(x) /\ x.data = c
    BY <1>1, <1>2 DEF InHand
  <2>4. Follows(p)' /\ (BringsData(p)' <=> BringsData(p))
    BY <1>0, <2>3 DEF Follows, BringsData, BecomesLatest
  <2> QED  BY <1>0, <1>1, <2>1, <2>2, <2>3, <2>4 DEF InHand
<1> QED  BY <1>0, <1>1, <1>3, <1>7, <1>8, HoldingStep

\* All that was found is older than the message in hand.
LEMMA AllOlder ==
    ASSUME NEW p, Serial(p), SerialInv(p), InHand(p)
    PROVE  Older(existing[p], req[p]) = existing[p]
<1>1. req[p] \in Message /\ existing[p] \subseteq Message
  BY Handler DEF SerialInv
<1>2. \A x \in existing[p] : IsNewer(req[p], x)
  BY DEF InHand, Follows
<1> QED  BY <1>1, <1>2, NewerOrder DEF Older

\* From now on the message in hand is stored, and what was found is to be cleaned up.
LEMMA EnterClean ==
    ASSUME NEW p, Serial(p), SerialInv(p), StoreInv', InHand(p),
           pc[p] \in {"append", "purge"}, pc'[p] = "clean",
           UNCHANGED <<blocks, indexed, latest, data, purged, stream, req, existing>>,
           \/ pc[p] = "append" /\ events' = events \cup {req[p]}
                /\ emitted' = emitted \cup Emits(p)
           \/ pc[p] = "purge" /\ UNCHANGED <<events, emitted>>,
           todo'[p] = Older(existing[p], req[p])
    PROVE  InHand(p)'
<1>0. req[p] \in Message /\ existing[p] \subseteq Message
  BY Handler DEF SerialInv
<1>1. todo'[p] = existing[p]
  BY AllOlder
<1>2. /\ pc[p] \notin Cleaning /\ pc'[p] \in Cleaning /\ pc'[p] \notin CleaningOne
      /\ pc'[p] \notin Putting /\ pc[p] \notin Putting
      /\ pc'[p] \notin {"cleanBlock", "cleanIndex", "restoreBlock", "restoreIndex", "append"}
  BY DEF Cleaning, CleaningOne, Putting
<1>3. (\A x \in Message : x.rec = req[p].rec =>
            /\ x \in blocks <=> HasBlock(p, x)
            /\ x \in indexed <=> HasIndex(p, x)
            /\ x \in events <=> HasEvent(p, x)
            /\ x \in latest => MayBeLatest(p, x))'
  <2> SUFFICES ASSUME NEW x \in Message, x.rec = req[p].rec
               PROVE  (/\ x \in blocks <=> HasBlock(p, x)
                       /\ x \in indexed <=> HasIndex(p, x)
                       /\ x \in events <=> HasEvent(p, x)
                       /\ x \in latest => MayBeLatest(p, x))'
    OBVIOUS
  <2>1. (x \in blocks <=> HasBlock(p, x))'
    BY <1>1, <1>2 DEF InHand, HasBlock
  <2>2. (x \in indexed <=> HasIndex(p, x))'
    BY <1>1, <1>2 DEF InHand, HasIndex
  <2>3. (x \in events <=> HasEvent(p, x))'
    <3>1. x \in events' <=> x \in events \/ x = req[p]
      BY <1>2 DEF InHand, HasEvent
    <3> QED  BY <1>1, <1>2, <3>1 DEF InHand, HasEvent
  <2>4. (x \in latest => MayBeLatest(p, x))'
    BY <1>1, <1>2 DEF InHand, MayBeLatest
  <2> QED  BY <2>1, <2>2, <2>3, <2>4
<1>4. /\ BecomesLatest(p)' <=> BecomesLatest(p)
      /\ BringsData(p)' <=> BringsData(p)
  BY DEF BringsData, BecomesLatest
<1>5. /\ \A e \in emitted' : e.rec = req[p].rec => e = req[p] \/ IsNewer(req[p], e)
      /\ req[p] \in emitted' <=> BecomesLatest(p)
  BY <1>2 DEF InHand, Emits
<1>6. Follows(p)' /\ req[p].rec \notin purged'
  BY DEF InHand, Follows
<1>7. \A c \in DataCid \cup {NoData} : <<req[p].rec, c>> \in data =>
            \/ BringsData(p) /\ c = req[p].data
            \/ \E x \in existing[p] : IsWrite(x) /\ IsLarge(x) /\ x.data = c
  BY <1>2 DEF InHand
<1>8. /\ req[p] \in latest <=> BecomesLatest(p)
      /\ BringsData(p) => <<req[p].rec, req[p].data>> \in data
  BY <1>2 DEF InHand
<1> QED  BY <1>1, <1>2, <1>3, <1>4, <1>5, <1>6, <1>7, <1>8 DEF InHand

\* The event of the message; the prune of a record starts at the record.
LEMMA SerialAppend ==
    ASSUME NEW p, Serial(p), SerialInv(p), StoreInv', AppendEvent(p)
    PROVE  SerialInv(p)'
<1> DEFINE root == req[p].rec
<1>0. /\ p \in Procs /\ TypeOK /\ req[p] \in Message /\ root \in Record
      /\ pc[p] = "append" /\ events' = events \cup {req[p]}
      /\ emitted' = emitted \cup Emits(p)
      /\ UNCHANGED <<blocks, indexed, latest, data, purged, resuming, resumed,
                     opening, stream, req, existing, cur>>
  BY Handler DEF SerialInv, AppendEvent, history
<1>1. pc[p] \in Holding
  BY <1>0, HoldingIs
<1>2. InHand(p) /\ Forest(p)
  BY <1>1 DEF SerialInv, Holding
<1>3. \A q \in Record : q # root => Untouched(q)
  BY <1>0 DEF Untouched, Emits
<1>4. CASE ~(IsDelete(req[p]) /\ req[p].prune)
  <2>1. todo'[p] = Older(existing[p], req[p]) /\ pc'[p] = "clean"
    BY <1>0, <1>4 DEF AppendEvent, Goto, TypeOK
  <2>2. pc'[p] \in Holding
    BY <2>1, HoldingIs
  <2>3. InHand(p)'
    BY <1>0, <1>2, <2>1, EnterClean
  <2>4. Forest(p)'
    BY <1>0, <1>1, <1>2, <1>4, <2>1, <2>2, HoldingIs, ForestKept DEF Exists
  <2> QED  BY <1>0, <1>1, <1>3, <2>1, <2>2, <2>3, <2>4, HoldingStep
<1>5. CASE IsDelete(req[p]) /\ req[p].prune
  <2> DEFINE item == [op |-> "descend", rec |-> root, msgs |-> {}]
  <2>1. plan'[p] = <<item>> /\ pc'[p] = "purge" /\ todo' = todo
    BY <1>0, <1>5 DEF AppendEvent, Goto, TypeOK
  <2>2. /\ pc'[p] \in Holding /\ pc'[p] \in Purge0 /\ pc[p] \notin Purge0
        /\ pc[p] \notin Purging /\ pc'[p] \notin Purging
        /\ pc[p] \notin Cleaning /\ pc'[p] \notin Cleaning
        /\ pc'[p] \notin CleaningOne /\ pc[p] \notin Putting /\ pc'[p] \notin Putting
    BY <1>0, <2>1, HoldingIs DEF Cleaning, CleaningOne, Putting
  <2>3. Calls(p)' = {1} /\ plan'[p][1] = item /\ Len(plan'[p]) = 1
    <3> HIDE DEF item
    <3> QED  BY <2>1 DEF Calls
  <2>4. InHand(p)'
    <3>1. (\A x \in Message : x.rec = req[p].rec =>
            /\ x \in blocks <=> HasBlock(p, x)
            /\ x \in indexed <=> HasIndex(p, x)
            /\ x \in events <=> HasEvent(p, x)
            /\ x \in latest => MayBeLatest(p, x))'
      <4> SUFFICES ASSUME NEW x \in Message, x.rec = req[p].rec
                   PROVE  (/\ x \in blocks <=> HasBlock(p, x)
                           /\ x \in indexed <=> HasIndex(p, x)
                           /\ x \in events <=> HasEvent(p, x)
                           /\ x \in latest => MayBeLatest(p, x))'
        BY <1>0
      <4>1. (x \in blocks <=> HasBlock(p, x))'
        BY <1>0, <1>2, <2>1, <2>2 DEF InHand, HasBlock
      <4>2. (x \in indexed <=> HasIndex(p, x))'
        BY <1>0, <1>2, <2>1, <2>2 DEF InHand, HasIndex
      <4>3. (x \in events <=> HasEvent(p, x))'
        BY <1>0, <1>2, <2>1, <2>2 DEF InHand, HasEvent
      <4>4. (x \in latest => MayBeLatest(p, x))'
        BY <1>0, <1>2, <2>1, <2>2 DEF InHand, MayBeLatest
      <4> QED  BY <4>1, <4>2, <4>3, <4>4
    <3>2. /\ BecomesLatest(p)' <=> BecomesLatest(p)
          /\ BringsData(p)' <=> BringsData(p)
      BY <1>0 DEF BringsData, BecomesLatest
    <3>3. /\ \A e \in emitted' : e.rec = root => e = req[p] \/ IsNewer(req[p], e)
          /\ req[p] \in emitted' <=> BecomesLatest(p)
      BY <1>0, <1>2, <2>2 DEF InHand, Emits
    <3>4. Follows(p)'
      BY <1>0, <1>2 DEF InHand, Follows
    <3> QED  BY <1>0, <1>2, <2>1, <2>2, <3>1, <3>2, <3>3, <3>4 DEF InHand
  <2>5. Forest(p)'
    <3>1. (\A x \in indexed : Par(x.rec) # NoRecord => Exists(Par(x.rec)))'
      BY <1>0, <1>2 DEF Forest, Exists
    <3>2. (\A T \in SUBSET Record :
        T # {} /\ (\A q \in T : Exists(q)) => \E q \in T : Par(q) \notin T)'
      BY <1>0, <1>2 DEF Forest, Exists
    <3>3. (\A q \in purged :
        /\ Par(q) \in Record
        /\ Exists(q) => pc[p] \in Purging /\ Vanishing(p, q)
        /\ \/ Par(q) \in purged
           \/ \E d \in indexed : d.rec = Par(q) /\ IsDelete(d)
           \/ /\ pc[p] \in Purge0
              /\ \E i \in Calls(p) : Is(p, i, "purge", Par(q)))'
      BY <1>0, <1>2, <2>2 DEF Forest, Exists
    <3>4. (\A d \in indexed :
        IsDelete(d) /\ d.prune /\ ~(d = req[p] /\ pc[p] \in Purge0 \cup {"append"}) =>
            \A x \in indexed : Par(x.rec) # d.rec)'
      BY <1>0, <1>2, <2>2 DEF Forest
    <3> QED  BY <3>1, <3>2, <3>3, <3>4 DEF Forest
  <2>6. PlanInv(p)'
    <3>1. plan'[p][1].op = "descend" /\ plan'[p][1].rec = root
      BY <2>3
    <3>2. \A i \in Calls(p)' : i = 1 /\ ~Purges(p, i)'
      BY <2>3, <3>1 DEF Purges
    <3>3. \A x \in indexed : Par(x.rec) \notin purged
      <4> SUFFICES ASSUME NEW x \in indexed, Par(x.rec) \in purged PROVE FALSE
        OBVIOUS
      <4>1. Par(x.rec) # NoRecord
        BY <1>0, MessageAssumption DEF TypeOK
      <4>2. Exists(Par(x.rec))
        BY <1>2, <4>1 DEF Forest
      <4> QED  BY <1>2, <2>2, <4>2 DEF Forest
    <3>4. EnterCall(p, 1)'
      BY <1>0, <2>3, <3>1, <3>2 DEF EnterCall
    <3>5. Covers(p, root, Len(plan[p]) + 1)'
      BY <1>0, <2>3, <3>1, <3>2 DEF Covers, Enters
    <3> HIDE DEF item
    <3> QED  BY <1>0, <1>5, <3>2, <3>3, <3>4, <3>5 DEF PlanInv
  <2> QED  BY <1>0, <1>1, <1>3, <2>2, <2>4, <2>5, <2>6, HoldingStep
<1> QED  BY <1>4, <1>5

----------------------------------------------------------------------------
\* Cleaning up.

\* While it cleans up the handler goes on with the message it has stored, and with
\* the one it is at.
LEMMA CleaningIs ==
    ASSUME NEW p, Serial(p), SerialInv(p), pc[p] \in Cleaning
    PROVE  /\ pc[p] \in Holding /\ pc[p] \notin Purge0 /\ pc[p] \notin Putting
           /\ pc[p] # "append"
           /\ InHand(p) /\ Forest(p)
           /\ \A x \in existing[p] : /\ x \in Message /\ x.rec = req[p].rec
                                     /\ IsNewer(req[p], x) /\ x # req[p]
           /\ req[p] \in indexed /\ todo[p] \subseteq existing[p]
           /\ pc[p] # "clean" => cur[p] \in existing[p] \ todo[p]
<1>0. existing[p] \subseteq Message /\ req[p] \in Message
  BY Handler DEF SerialInv
<1>1. /\ pc[p] \in Holding /\ pc[p] \notin Purge0 /\ pc[p] \notin Putting
      /\ pc[p] # "append"
  BY HoldingIs DEF Cleaning, CleaningOne, Putting
<1>2. InHand(p) /\ Forest(p)
  BY <1>1 DEF SerialInv, Holding
<1>3. \A x \in existing[p] : /\ x \in Message /\ x.rec = req[p].rec
                             /\ IsNewer(req[p], x) /\ x # req[p]
  BY <1>0, <1>2, NewerOrder DEF InHand, Follows
<1>4. req[p] \in indexed
  BY <1>0, <1>1, <1>2 DEF InHand, HasIndex
<1>5. todo[p] \subseteq existing[p] /\ (pc[p] # "clean" => cur[p] \in existing[p] \ todo[p])
  BY <1>2 DEF InHand, Cleaning
<1> QED  BY <1>1, <1>2, <1>3, <1>4, <1>5

\* The record keeps its message in hand, so that the forest stays; the rest is where
\* the messages of the record are.
LEMMA CleanStep ==
    ASSUME NEW p, Serial(p), SerialInv(p), StoreInv',
           pc[p] \in Cleaning, pc'[p] \in Cleaning,
           UNCHANGED <<emitted, purged, resuming, resumed, opening, stream, req, existing>>,
           \A x \in Message : x.rec # req[p].rec =>
                /\ x \in blocks' <=> x \in blocks
                /\ x \in indexed' <=> x \in indexed
                /\ x \in events' <=> x \in events
                /\ x \in latest' <=> x \in latest,
           \A q \in Record, c \in DataCid \cup {NoData} : q # req[p].rec =>
                (<<q, c>> \in data' <=> <<q, c>> \in data),
           req[p] \in indexed', req[p] \in latest' <=> req[p] \in latest,
           (\A x \in Message : x.rec = req[p].rec =>
                /\ x \in blocks <=> HasBlock(p, x)
                /\ x \in indexed <=> HasIndex(p, x)
                /\ x \in events <=> HasEvent(p, x)
                /\ x \in latest => MayBeLatest(p, x))',
           BringsData(p) => <<req[p].rec, req[p].data>> \in data',
           \A c \in DataCid \cup {NoData} : <<req[p].rec, c>> \in data' =>
                \/ BringsData(p) /\ c = req[p].data
                \/ \E x \in todo'[p] : IsWrite(x) /\ IsLarge(x) /\ x.data = c,
           todo'[p] \subseteq existing[p],
           pc'[p] # "clean" => cur'[p] \in existing[p] \ todo'[p],
           pc'[p] \in {"restoreBlock", "restoreIndex"} => cur'[p].initial
    PROVE  SerialInv(p)'
<1>0. TypeOK /\ TypeOK' /\ req[p] \in Message /\ existing[p] \subseteq Message
  BY Handler DEF SerialInv, StoreInv
<1>1. /\ pc[p] \in Holding /\ pc[p] \notin Purge0 /\ pc[p] \notin Putting
      /\ pc[p] # "append"
      /\ InHand(p) /\ Forest(p) /\ req[p] \in indexed
      /\ \A x \in existing[p] : /\ x \in Message /\ x.rec = req[p].rec
                                /\ IsNewer(req[p], x) /\ x # req[p]
  BY CleaningIs
<1>2. /\ pc'[p] \in Holding /\ pc'[p] # "purge" /\ pc'[p] \notin Putting
      /\ pc'[p] # "append" /\ pc[p] # "purge"
      /\ pc'[p] \in CleaningOne => pc'[p] # "clean"
  BY HoldingIs DEF Cleaning, CleaningOne, Putting
<1>3. \A q \in Record : q # req[p].rec => Untouched(q)
  BY DEF Untouched
<1>4. \A x \in indexed \cup indexed' :
        x \in Message /\ (x.rec = req[p].rec => x = req[p] \/ x \in existing[p])
  <2>1. indexed \subseteq Message /\ indexed' \subseteq Message
    BY <1>0 DEF TypeOK
  <2>2. \A x \in indexed : x.rec = req[p].rec => x = req[p] \/ x \in existing[p]
    BY <1>0, <1>1, <2>1, CleaningIs DEF InHand, HasIndex
  <2>3. \A x \in indexed' : x.rec = req[p].rec => x = req[p] \/ x \in existing[p]
    BY <1>0, <1>1, <2>1 DEF HasIndex
  <2> QED  BY <2>1, <2>2, <2>3
<1>5. \A q : Exists(q)' <=> Exists(q)
  BY <1>1, <1>4 DEF Exists
<1>6. \A d \in indexed : IsDelete(d) => \E e \in indexed' : e.rec = d.rec /\ IsDelete(e)
  <2> SUFFICES ASSUME NEW d \in indexed, IsDelete(d)
               PROVE  \E e \in indexed' : e.rec = d.rec /\ IsDelete(e)
    OBVIOUS
  <2>1. CASE d.rec # req[p].rec
    BY <1>4, <2>1
  <2>2. CASE d = req[p]
    BY <2>2
  <2>3. CASE d \in existing[p]
    <3>1. ~IsWrite(d) /\ d.rec = req[p].rec
      BY <1>0, <1>1, <2>3, Kinds
    <3>2. ~IsWrite(req[p])
      BY <1>1, <2>3, <3>1 DEF InHand, Follows
    <3> QED  BY <1>0, <3>1, <3>2, Kinds
  <2> QED  BY <1>4, <2>1, <2>2, <2>3
<1>7. \A d \in indexed' : IsDelete(d) /\ d.prune => d \in indexed
  <2> SUFFICES ASSUME NEW d \in indexed', IsDelete(d), d.prune PROVE d \in indexed
    OBVIOUS
  <2>1. CASE d \in existing[p]
    <3>1. ~IsWrite(d)
      BY <1>0, <2>1, Kinds
    <3>2. ~IsWrite(req[p])
      BY <1>1, <2>1, <3>1 DEF InHand, Follows
    <3>3. IsDelete(req[p])
      BY <1>0, <3>2, Kinds
    <3> QED  BY <1>1, <2>1, <3>3 DEF InHand, Follows
  <2> QED  BY <1>1, <1>4, <2>1
<1>8. Forest(p)'
  BY <1>1, <1>2, <1>5, <1>6, <1>7, HoldingIs, ForestKept
<1>9. InHand(p)'
  <2>1. /\ BecomesLatest(p)' <=> BecomesLatest(p)
        /\ BringsData(p)' <=> BringsData(p)
    BY DEF BringsData, BecomesLatest
  <2>2. Follows(p)'
    BY <1>1 DEF InHand, Follows
  <2>3. /\ req[p].rec \notin purged
        /\ \A e \in emitted : e.rec = req[p].rec => e = req[p] \/ IsNewer(req[p], e)
        /\ req[p] \in emitted <=> BecomesLatest(p)
        /\ req[p] \in latest <=> BecomesLatest(p)
    BY <1>1 DEF InHand
  <2> QED  BY <1>2, <2>1, <2>2, <2>3 DEF InHand
<1> QED  BY <1>1, <1>2, <1>3, <1>8, <1>9, HoldingStep

\* The data of an older message goes, unless the message in hand has the same.
LEMMA SerialCleanData ==
    ASSUME NEW p, Serial(p), SerialInv(p), StoreInv', CleanData(p)
    PROVE  SerialInv(p)'
<1>0. /\ p \in Procs /\ TypeOK /\ req[p] \in Message
      /\ pc[p] = "clean" /\ pc'[p] = "cleanBlock"
      /\ UNCHANGED <<blocks, indexed, latest, events, emitted, purged, resuming, resumed,
                     opening, stream, req, existing>>
  BY Handler DEF SerialInv, CleanData, Goto, TypeOK, history
<1>1. PICK m \in todo[p] :
        /\ cur'[p] = m /\ todo'[p] = todo[p] \ {m}
        /\ data' = IF IsWrite(m) /\ IsLarge(m) /\ m.data # req[p].data
                   THEN data \ {<<m.rec, m.data>>} ELSE data
  BY <1>0 DEF CleanData, TypeOK
<1>2. pc[p] \in Cleaning /\ pc'[p] \in Cleaning
  BY <1>0 DEF Cleaning, CleaningOne
<1>3. /\ pc[p] \notin Putting /\ pc'[p] \notin Putting /\ InHand(p)
      /\ \A x \in existing[p] : /\ x \in Message /\ x.rec = req[p].rec
                                /\ IsNewer(req[p], x) /\ x # req[p]
      /\ todo[p] \subseteq existing[p] /\ req[p] \in indexed
  BY <1>0, <1>2, CleaningIs DEF Putting
<1>4. (\A x \in Message : x.rec = req[p].rec =>
            /\ x \in blocks <=> HasBlock(p, x)
            /\ x \in indexed <=> HasIndex(p, x)
            /\ x \in events <=> HasEvent(p, x)
            /\ x \in latest => MayBeLatest(p, x))'
  <2> SUFFICES ASSUME NEW x \in Message, x.rec = req[p].rec
               PROVE  (/\ x \in blocks <=> HasBlock(p, x)
                       /\ x \in indexed <=> HasIndex(p, x)
                       /\ x \in events <=> HasEvent(p, x)
                       /\ x \in latest => MayBeLatest(p, x))'
    BY <1>0
  <2>1. (x \in blocks <=> HasBlock(p, x))'
    BY <1>0, <1>1, <1>2, <1>3 DEF InHand, HasBlock
  <2>2. (x \in indexed <=> HasIndex(p, x))'
    BY <1>0, <1>1, <1>2, <1>3 DEF InHand, HasIndex
  <2>3. (x \in events <=> HasEvent(p, x))'
    <3>1. pc[p] \notin CleaningOne /\ pc'[p] \in CleaningOne
      BY <1>0 DEF CleaningOne
    <3> QED  BY <1>0, <1>1, <1>2, <1>3, <3>1 DEF InHand, HasEvent
  <2>4. (x \in latest => MayBeLatest(p, x))'
    BY <1>0, <1>1, <1>2, <1>3 DEF InHand, MayBeLatest
  <2> QED  BY <2>1, <2>2, <2>3, <2>4
<1>5. IsWrite(m) /\ IsLarge(m) /\ m.data = req[p].data => BringsData(p)
  <2> SUFFICES ASSUME IsWrite(m), IsLarge(m), m.data = req[p].data PROVE BringsData(p)
    OBVIOUS
  <2>1. IsLarge(req[p]) /\ req[p].data # NoData
    BY MessageAssumption DEF IsLarge
  <2>2. IsWrite(req[p])
    BY <1>0, <2>1, Kinds
  <2>3. BecomesLatest(p)
    <3>1. ~req[p].initial
      <4> SUFFICES ASSUME req[p].initial PROVE FALSE
        OBVIOUS
      <4>1. req[p] = InitialWrite(req[p].rec)
        BY <1>0, Kinds
      <4>2. InitialWrite(req[p].rec) \in existing[p]
        BY <1>1, <1>3 DEF InHand, Follows
      <4> QED  BY <1>3, <4>1, <4>2
    <3> QED  BY <3>1 DEF BecomesLatest
  <2> QED  BY <2>1, <2>2, <2>3 DEF BringsData
<1>6. BringsData(p) => <<req[p].rec, req[p].data>> \in data'
  BY <1>1, <1>3 DEF InHand
<1>7. \A c \in DataCid \cup {NoData} : <<req[p].rec, c>> \in data' =>
        \/ BringsData(p) /\ c = req[p].data
        \/ \E x \in todo'[p] : IsWrite(x) /\ IsLarge(x) /\ x.data = c
  <2> SUFFICES ASSUME NEW c \in DataCid \cup {NoData}, <<req[p].rec, c>> \in data',
                      ~(BringsData(p) /\ c = req[p].data)
               PROVE  \E x \in todo'[p] : IsWrite(x) /\ IsLarge(x) /\ x.data = c
    OBVIOUS
  <2>1. <<req[p].rec, c>> \in data
    BY <1>1
  <2>2. PICK x \in todo[p] : IsWrite(x) /\ IsLarge(x) /\ x.data = c
    BY <1>2, <1>3, <2>1 DEF InHand
  <2>3. x # m
    BY <1>1, <1>3, <1>5, <2>2
  <2> QED  BY <1>1, <2>2, <2>3
<1>8. \A q \in Record, c \in DataCid \cup {NoData} : q # req[p].rec =>
        (<<q, c>> \in data' <=> <<q, c>> \in data)
  BY <1>1, <1>3
<1> QED  BY <1>0, <1>1, <1>2, <1>3, <1>4, <1>6, <1>7, <1>8, CleanStep

\* A step that deletes the message at hand, or brings it back, leaves the rest of
\* the stores and the variables of the handler.
LEMMA CleanOneStep ==
    ASSUME NEW p, Serial(p), SerialInv(p), StoreInv',
           pc[p] \in CleaningOne, pc'[p] \in Cleaning,
           UNCHANGED <<data, emitted, purged, resuming, resumed, opening, stream, req,
                       existing, todo, cur>>,
           \A x \in Message : x # cur[p] =>
                /\ x \in blocks' <=> x \in blocks
                /\ x \in indexed' <=> x \in indexed
                /\ x \in latest' <=> x \in latest,
           \A x \in Message : x.rec # req[p].rec => (x \in events' <=> x \in events),
           (\A x \in Message : x.rec = req[p].rec =>
                /\ x \in blocks <=> HasBlock(p, x)
                /\ x \in indexed <=> HasIndex(p, x)
                /\ x \in events <=> HasEvent(p, x)
                /\ x \in latest => MayBeLatest(p, x))',
           pc'[p] \in {"restoreBlock", "restoreIndex"} => cur[p].initial
    PROVE  SerialInv(p)'
<1>1. pc[p] \in Cleaning /\ pc[p] # "clean"
  BY DEF Cleaning, CleaningOne
<1>2. /\ InHand(p) /\ req[p] \in indexed /\ req[p] \in Message
      /\ \A x \in existing[p] : /\ x \in Message /\ x.rec = req[p].rec
                                /\ x # req[p]
      /\ cur[p] \in existing[p] \ todo[p] /\ todo[p] \subseteq existing[p]
  BY <1>1, CleaningIs, Handler DEF SerialInv
<1>3. /\ cur[p].rec = req[p].rec /\ cur[p] # req[p]
      /\ req[p] \in indexed' /\ (req[p] \in latest' <=> req[p] \in latest)
  BY <1>2
<1>4. \A x \in Message : x.rec # req[p].rec =>
        /\ x \in blocks' <=> x \in blocks
        /\ x \in indexed' <=> x \in indexed
        /\ x \in events' <=> x \in events
        /\ x \in latest' <=> x \in latest
  BY <1>3
<1>5. /\ BringsData(p) => <<req[p].rec, req[p].data>> \in data
      /\ \A c \in DataCid \cup {NoData} : <<req[p].rec, c>> \in data =>
            \/ BringsData(p) /\ c = req[p].data
            \/ \E x \in todo[p] : IsWrite(x) /\ IsLarge(x) /\ x.data = c
  BY <1>1, <1>2 DEF InHand
<1> QED  BY <1>1, <1>2, <1>3, <1>4, <1>5, CleanStep

\* The message is deleted: its block, then its index entries.
LEMMA SerialCleanMessage ==
    ASSUME NEW p, Serial(p), SerialInv(p), StoreInv', CleanBlock(p) \/ CleanIndex(p)
    PROVE  SerialInv(p)'
<1>0. /\ p \in Procs /\ TypeOK /\ pc[p] \in {"cleanBlock", "cleanIndex"}
      /\ pc[p] \in CleaningOne /\ pc[p] \in Cleaning /\ pc[p] # "clean"
      /\ UNCHANGED <<data, events, emitted, purged, resuming, resumed, opening, stream, req,
                     existing, todo, cur>>
  BY Handler DEF SerialInv, CleanBlock, CleanIndex, locals, history, CleaningOne, Cleaning
<1>1. /\ InHand(p) /\ pc[p] \notin Putting /\ req[p] \in Message
      /\ cur[p] \in existing[p] \ todo[p] /\ todo[p] \subseteq existing[p]
      /\ \A x \in existing[p] : x \in Message /\ x # req[p] /\ IsNewer(req[p], x)
  BY <1>0, CleaningIs, Handler DEF SerialInv
<1>2. CASE CleanBlock(p)
  <2>1. /\ pc[p] = "cleanBlock" /\ pc'[p] = "cleanIndex" /\ blocks' = blocks \ {cur[p]}
        /\ UNCHANGED <<indexed, latest>>
    BY <1>0, <1>2 DEF CleanBlock, Goto, TypeOK
  <2>2. /\ pc'[p] \in Cleaning /\ pc'[p] \in CleaningOne /\ pc'[p] \notin Putting
        /\ pc'[p] # "append"
    BY <2>1 DEF Cleaning, CleaningOne, Putting
  <2>3. (\A x \in Message : x.rec = req[p].rec =>
            /\ x \in blocks <=> HasBlock(p, x)
            /\ x \in indexed <=> HasIndex(p, x)
            /\ x \in events <=> HasEvent(p, x)
            /\ x \in latest => MayBeLatest(p, x))'
    <3> SUFFICES ASSUME NEW x \in Message, x.rec = req[p].rec
                 PROVE  (/\ x \in blocks <=> HasBlock(p, x)
                         /\ x \in indexed <=> HasIndex(p, x)
                         /\ x \in events <=> HasEvent(p, x)
                         /\ x \in latest => MayBeLatest(p, x))'
      BY <1>0
    <3>1. (x \in blocks <=> HasBlock(p, x))'
      BY <1>0, <1>1, <2>1, <2>2 DEF InHand, HasBlock
    <3>2. (x \in indexed <=> HasIndex(p, x))'
      BY <1>0, <1>1, <2>1, <2>2 DEF InHand, HasIndex
    <3>3. (x \in events <=> HasEvent(p, x))'
      BY <1>0, <1>1, <2>1, <2>2 DEF InHand, HasEvent
    <3>4. (x \in latest => MayBeLatest(p, x))'
      BY <1>0, <1>1, <2>1, <2>2 DEF InHand, MayBeLatest
    <3> QED  BY <3>1, <3>2, <3>3, <3>4
  <2> QED  BY <1>0, <2>1, <2>2, <2>3, CleanOneStep
<1>3. CASE CleanIndex(p)
  <2>1. /\ pc[p] = "cleanIndex" /\ indexed' = indexed \ {cur[p]}
        /\ pc'[p] = IF cur[p].initial THEN "restoreBlock" ELSE "cleanEvents"
        /\ latest' = latest \ {cur[p]} /\ blocks' = blocks
    BY <1>0, <1>3 DEF CleanIndex, Goto, TypeOK
  <2>2. /\ pc'[p] \in Cleaning /\ pc'[p] \in CleaningOne /\ pc'[p] \notin Putting
        /\ pc'[p] # "append"
    BY <2>1 DEF Cleaning, CleaningOne, Putting
  <2>3. (\A x \in Message : x.rec = req[p].rec =>
            /\ x \in blocks <=> HasBlock(p, x)
            /\ x \in indexed <=> HasIndex(p, x)
            /\ x \in events <=> HasEvent(p, x)
            /\ x \in latest => MayBeLatest(p, x))'
    <3> SUFFICES ASSUME NEW x \in Message, x.rec = req[p].rec
                 PROVE  (/\ x \in blocks <=> HasBlock(p, x)
                         /\ x \in indexed <=> HasIndex(p, x)
                         /\ x \in events <=> HasEvent(p, x)
                         /\ x \in latest => MayBeLatest(p, x))'
      BY <1>0
    <3>1. (x \in blocks <=> HasBlock(p, x))'
      BY <1>0, <1>1, <2>1, <2>2 DEF InHand, HasBlock
    <3>2. (x \in indexed <=> HasIndex(p, x))'
      BY <1>0, <1>1, <2>1, <2>2 DEF InHand, HasIndex
    <3>3. (x \in events <=> HasEvent(p, x))'
      BY <1>0, <1>1, <2>1, <2>2 DEF InHand, HasEvent
    <3>4. (x \in latest => MayBeLatest(p, x))'
      BY <1>0, <1>1, <2>1, <2>2 DEF InHand, MayBeLatest
    <3> QED  BY <3>1, <3>2, <3>3, <3>4
  <2> QED  BY <1>0, <2>1, <2>2, <2>3, CleanOneStep
<1> QED  BY <1>2, <1>3

\* The initial write comes back: its block, then its index entries.
LEMMA SerialRestore ==
    ASSUME NEW p, Serial(p), SerialInv(p), StoreInv', RestoreBlock(p) \/ RestoreIndex(p)
    PROVE  SerialInv(p)'
<1>0. /\ p \in Procs /\ TypeOK /\ pc[p] \in {"restoreBlock", "restoreIndex"}
      /\ pc[p] \in CleaningOne /\ pc[p] \in Cleaning /\ pc[p] # "clean"
      /\ UNCHANGED <<data, events, emitted, purged, resuming, resumed, opening, stream, req,
                     existing, todo, cur>>
  BY Handler DEF SerialInv, RestoreBlock, RestoreIndex, locals, history, CleaningOne, Cleaning
<1>1. /\ InHand(p) /\ pc[p] \notin Putting /\ req[p] \in Message
      /\ cur[p] \in existing[p] \ todo[p] /\ todo[p] \subseteq existing[p]
      /\ \A x \in existing[p] : x \in Message /\ x # req[p] /\ IsNewer(req[p], x)
  BY <1>0, CleaningIs, Handler DEF SerialInv
<1>2. cur[p].initial
  BY <1>0, <1>1 DEF InHand
<1>3. CASE RestoreBlock(p)
  <2>1. /\ pc[p] = "restoreBlock" /\ pc'[p] = "restoreIndex"
        /\ blocks' = blocks \cup {cur[p]} /\ UNCHANGED <<indexed, latest>>
    BY <1>0, <1>3 DEF RestoreBlock, Goto, TypeOK
  <2>2. /\ pc'[p] \in Cleaning /\ pc'[p] \in CleaningOne /\ pc'[p] \notin Putting
        /\ pc'[p] # "append"
    BY <2>1 DEF Cleaning, CleaningOne, Putting
  <2>3. (\A x \in Message : x.rec = req[p].rec =>
            /\ x \in blocks <=> HasBlock(p, x)
            /\ x \in indexed <=> HasIndex(p, x)
            /\ x \in events <=> HasEvent(p, x)
            /\ x \in latest => MayBeLatest(p, x))'
    <3> SUFFICES ASSUME NEW x \in Message, x.rec = req[p].rec
                 PROVE  (/\ x \in blocks <=> HasBlock(p, x)
                         /\ x \in indexed <=> HasIndex(p, x)
                         /\ x \in events <=> HasEvent(p, x)
                         /\ x \in latest => MayBeLatest(p, x))'
      BY <1>0
    <3>1. (x \in blocks <=> HasBlock(p, x))'
      BY <1>0, <1>1, <1>2, <2>1, <2>2 DEF InHand, HasBlock
    <3>2. (x \in indexed <=> HasIndex(p, x))'
      BY <1>0, <1>1, <2>1, <2>2 DEF InHand, HasIndex
    <3>3. (x \in events <=> HasEvent(p, x))'
      BY <1>0, <1>1, <2>1, <2>2 DEF InHand, HasEvent
    <3>4. (x \in latest => MayBeLatest(p, x))'
      BY <1>0, <1>1, <2>1, <2>2 DEF InHand, MayBeLatest
    <3> QED  BY <3>1, <3>2, <3>3, <3>4
  <2> QED  BY <1>0, <1>2, <2>1, <2>2, <2>3, CleanOneStep
<1>4. CASE RestoreIndex(p)
  <2>1. /\ pc[p] = "restoreIndex" /\ pc'[p] = "cleanEvents"
        /\ indexed' = indexed \cup {cur[p]} /\ latest' = latest \ {cur[p]}
        /\ blocks' = blocks
    BY <1>0, <1>4 DEF RestoreIndex, Goto, TypeOK
  <2>2. /\ pc'[p] \in Cleaning /\ pc'[p] \in CleaningOne /\ pc'[p] \notin Putting
        /\ pc'[p] # "append"
    BY <2>1 DEF Cleaning, CleaningOne, Putting
  <2>3. (\A x \in Message : x.rec = req[p].rec =>
            /\ x \in blocks <=> HasBlock(p, x)
            /\ x \in indexed <=> HasIndex(p, x)
            /\ x \in events <=> HasEvent(p, x)
            /\ x \in latest => MayBeLatest(p, x))'
    <3> SUFFICES ASSUME NEW x \in Message, x.rec = req[p].rec
                 PROVE  (/\ x \in blocks <=> HasBlock(p, x)
                         /\ x \in indexed <=> HasIndex(p, x)
                         /\ x \in events <=> HasEvent(p, x)
                         /\ x \in latest => MayBeLatest(p, x))'
      BY <1>0
    <3>1. (x \in blocks <=> HasBlock(p, x))'
      BY <1>0, <1>1, <1>2, <2>1, <2>2 DEF InHand, HasBlock
    <3>2. (x \in indexed <=> HasIndex(p, x))'
      BY <1>0, <1>1, <1>2, <2>1, <2>2 DEF InHand, HasIndex
    <3>3. (x \in events <=> HasEvent(p, x))'
      BY <1>0, <1>1, <2>1, <2>2 DEF InHand, HasEvent
    <3>4. (x \in latest => MayBeLatest(p, x))'
      BY <1>0, <1>1, <2>1, <2>2 DEF InHand, MayBeLatest
    <3> QED  BY <3>1, <3>2, <3>3, <3>4
  <2> QED  BY <1>0, <2>1, <2>2, <2>3, CleanOneStep
<1> QED  BY <1>3, <1>4

\* The events of the messages deleted so far.
LEMMA SerialCleanEvents ==
    ASSUME NEW p, Serial(p), SerialInv(p), StoreInv', CleanEvents(p)
    PROVE  SerialInv(p)'
<1>0. /\ p \in Procs /\ TypeOK /\ pc[p] = "cleanEvents" /\ pc'[p] = "clean"
      /\ pc[p] \in CleaningOne /\ pc[p] \in Cleaning /\ pc[p] # "clean"
      /\ pc'[p] \notin CleaningOne /\ pc'[p] \in Cleaning /\ pc'[p] \notin Putting
      /\ events' = events \ {m \in Older(existing[p], req[p]) : ~m.initial /\ m \notin todo[p]}
      /\ UNCHANGED <<blocks, indexed, latest, data, emitted, purged, resuming, resumed,
                     opening, stream, req, existing, todo, cur>>
  BY Handler
  DEF SerialInv, CleanEvents, Goto, TypeOK, locals, history, CleaningOne, Cleaning, Putting
<1>1. /\ InHand(p) /\ pc[p] \notin Putting /\ req[p] \in Message
      /\ cur[p] \in existing[p] \ todo[p] /\ todo[p] \subseteq existing[p]
      /\ \A x \in existing[p] : x \in Message /\ x # req[p] /\ x.rec = req[p].rec
  BY <1>0, CleaningIs, Handler DEF SerialInv
<1>2. Older(existing[p], req[p]) = existing[p]
  BY <1>1, AllOlder
<1>3. (\A x \in Message : x.rec = req[p].rec =>
            /\ x \in blocks <=> HasBlock(p, x)
            /\ x \in indexed <=> HasIndex(p, x)
            /\ x \in events <=> HasEvent(p, x)
            /\ x \in latest => MayBeLatest(p, x))'
  <2> SUFFICES ASSUME NEW x \in Message, x.rec = req[p].rec
               PROVE  (/\ x \in blocks <=> HasBlock(p, x)
                       /\ x \in indexed <=> HasIndex(p, x)
                       /\ x \in events <=> HasEvent(p, x)
                       /\ x \in latest => MayBeLatest(p, x))'
    BY <1>0
  <2>1. (x \in blocks <=> HasBlock(p, x))'
    BY <1>0, <1>1 DEF InHand, HasBlock
  <2>2. (x \in indexed <=> HasIndex(p, x))'
    BY <1>0, <1>1 DEF InHand, HasIndex
  <2>3. (x \in events <=> HasEvent(p, x))'
    BY <1>0, <1>1, <1>2 DEF InHand, HasEvent
  <2>4. (x \in latest => MayBeLatest(p, x))'
    BY <1>0, <1>1 DEF InHand, MayBeLatest
  <2> QED  BY <2>1, <2>2, <2>3, <2>4
<1>4. \A x \in Message : x.rec # req[p].rec => (x \in events' <=> x \in events)
  BY <1>0, <1>1, <1>2
<1> QED  BY <1>0, <1>3, <1>4, CleanOneStep

\* In the end the record is at rest again.
LEMMA SerialCleanEnd ==
    ASSUME NEW p, Serial(p), SerialInv(p), StoreInv', CleanEnd(p)
    PROVE  SerialInv(p)'
<1> DEFINE r == req[p].rec
           m == req[p]
<1>0. /\ p \in Procs /\ TypeOK /\ TypeOK' /\ m \in Message /\ r \in Record
      /\ pc[p] = "clean" /\ pc'[p] \in {"reply", "complete"} /\ todo[p] = {}
      /\ UNCHANGED <<blocks, indexed, latest, data, events, emitted, purged, resuming,
                     resumed, opening, stream, req>>
  BY Handler DEF SerialInv, StoreInv, CleanEnd, Answer, Goto, TypeOK, stores, history
<1>1. /\ pc[p] \in Cleaning /\ pc[p] \notin CleaningOne /\ pc'[p] \in Calm
  BY <1>0 DEF Cleaning, CleaningOne, Calm
<1>2. /\ pc[p] \in Holding /\ pc[p] \notin Purge0 /\ pc[p] \notin Putting
      /\ InHand(p) /\ Forest(p)
      /\ \A x \in existing[p] : /\ x \in Message /\ x.rec = r
                                /\ IsNewer(m, x) /\ x # m
  BY <1>1, CleaningIs
<1>3. \A x \in Message : x.rec = r =>
        /\ x \in blocks <=> x = m \/ (x \in existing[p] /\ x.initial)
        /\ x \in indexed <=> x = m \/ (x \in existing[p] /\ x.initial)
        /\ x \in events <=> x = m \/ (x \in existing[p] /\ x.initial)
        /\ x \in latest => x = m
  <2> SUFFICES ASSUME NEW x \in Message, x.rec = r
               PROVE  /\ x \in blocks <=> x = m \/ (x \in existing[p] /\ x.initial)
                      /\ x \in indexed <=> x = m \/ (x \in existing[p] /\ x.initial)
                      /\ x \in events <=> x = m \/ (x \in existing[p] /\ x.initial)
                      /\ x \in latest => x = m
    OBVIOUS
  <2>1. x \in blocks <=> x = m \/ (x \in existing[p] /\ x.initial)
    BY <1>0, <1>1, <1>2 DEF InHand, HasBlock
  <2>2. x \in indexed <=> x = m \/ (x \in existing[p] /\ x.initial)
    BY <1>0, <1>1, <1>2 DEF InHand, HasIndex
  <2>3. x \in events <=> x = m \/ (x \in existing[p] /\ x.initial)
    BY <1>0, <1>1, <1>2 DEF InHand, HasEvent
  <2>4. x \in latest => x = m
    BY <1>0, <1>1, <1>2 DEF InHand, MayBeLatest
  <2> QED  BY <2>1, <2>2, <2>3, <2>4
<1>4. /\ m \in latest <=> BecomesLatest(p)
      /\ m \in emitted <=> BecomesLatest(p)
      /\ m \in indexed /\ InitialWrite(r) \in indexed
  <2>1. m \in latest <=> BecomesLatest(p)
    BY <1>2 DEF InHand
  <2>2. m \in emitted <=> BecomesLatest(p)
    BY <1>0, <1>2 DEF InHand
  <2>3. InitialWrite(r) = m \/ InitialWrite(r) \in existing[p]
    BY <1>0, <1>2, Kinds DEF InHand, Follows
  <2>4. InitialWrite(r) \in Message /\ InitialWrite(r).rec = r /\ InitialWrite(r).initial
    BY <1>0, InitialOf
  <2> QED  BY <1>0, <1>3, <2>1, <2>2, <2>3, <2>4
<1>5. AtRest(r)
  <2>1. \A x \in Message : x.rec = r =>
        /\ x \in blocks <=> x \in indexed
        /\ x \in events <=> x \in indexed
        /\ x \in latest => x \in indexed /\ x \in emitted
    BY <1>3, <1>4
  <2>2. \A x \in indexed : x.rec = r =>
        /\ InitialWrite(r) \in indexed
        /\ ~x.initial => x \in latest
        /\ \A y \in indexed : y.rec = r /\ IsNewer(y, x) => x.initial /\ x \notin latest
    <3> SUFFICES ASSUME NEW x \in indexed, x.rec = r
                 PROVE  /\ ~x.initial => x \in latest
                        /\ \A y \in indexed : y.rec = r /\ IsNewer(y, x) =>
                                x.initial /\ x \notin latest
      BY <1>4
    <3>1. x \in Message /\ indexed \subseteq Message
      BY <1>0 DEF TypeOK
    <3>2. ~x.initial => x \in latest
      BY <1>3, <1>4, <3>1 DEF BecomesLatest
    <3>3. ASSUME NEW y \in indexed, y.rec = r, IsNewer(y, x)
          PROVE  x # m
      <4>1. y = m \/ y \in existing[p]
        BY <1>3, <3>1, <3>3
      <4>2. y = m \/ IsNewer(m, y)
        BY <1>2, <4>1
      <4> QED  BY <1>0, <3>1, <3>3, <4>2, NewerOrder
    <3> QED  BY <1>3, <3>1, <3>2, <3>3
  <2>3. \A e \in emitted : e.rec = r =>
          \E n \in indexed : n.rec = r /\ (n = e \/ IsNewer(n, e))
    BY <1>2, <1>4 DEF InHand
  <2>4. \A c \in DataCid \cup {NoData} : <<r, c>> \in data <=> Owes(r, c)
    <3> SUFFICES ASSUME NEW c \in DataCid \cup {NoData}
                 PROVE  <<r, c>> \in data <=> Owes(r, c)
      OBVIOUS
    <3>1. <<r, c>> \in data <=> BringsData(p) /\ c = m.data
      BY <1>0, <1>1, <1>2 DEF InHand
    <3>2. latest \subseteq Message
      BY <1>0 DEF TypeOK
    <3>3. Owes(r, c) <=> BringsData(p) /\ c = m.data
      BY <1>0, <1>3, <1>4, <3>2 DEF Owes, BringsData
    <3> QED  BY <3>1, <3>3
  <2> QED  BY <2>1, <2>2, <2>3, <2>4 DEF AtRest
<1>6. \A q \in Record : AtRest(q)'
  <2> SUFFICES ASSUME NEW q \in Record PROVE AtRest(q)'
    OBVIOUS
  <2>1. AtRest(q)
    BY <1>2, <1>5 DEF SerialInv, Holding
  <2>2. Untouched(q)
    BY <1>0 DEF Untouched
  <2> QED  BY <1>0, <2>1, <2>2, RestKept
<1>7. Forest(p)'
  <2>1. \A q : Exists(q)' <=> Exists(q)
    BY <1>0 DEF Exists
  <2> QED  BY <1>0, <1>1, <1>2, <2>1, CalmIsNotBusy, ForestKept
<1>8. Knows(p)' /\ ~opening
  BY <1>0 DEF Knows, SerialInv
<1> QED  BY <1>0, <1>1, <1>6, <1>7, <1>8, CalmIsNotBusy DEF SerialInv

----------------------------------------------------------------------------
\* Pruning.

\* During a prune the pruned record is in hand.
LEMMA PruningIs ==
    ASSUME NEW p, Serial(p), SerialInv(p), pc[p] \in Purge0
    PROVE  /\ p \in Procs /\ TypeOK /\ req[p] \in Message /\ req[p].rec \in Record
           /\ pc[p] \in Busy /\ pc[p] \notin Putting /\ pc[p] \notin Cleaning
           /\ pc[p] # "append" /\ ~opening
           /\ InHand(p) /\ Forest(p) /\ PlanInv(p)
           /\ req[p] \in indexed /\ IsDelete(req[p]) /\ plan[p] \in Seq(PlanItem)
           /\ Calls(p) = 1 .. Len(plan[p]) /\ Len(plan[p]) \in Nat
           /\ \A i \in Calls(p) : plan[p][i] \in PlanItem /\ plan[p][i].rec \in Record
<1>0. p \in Procs /\ TypeOK /\ req[p] \in Message /\ req[p].rec \in Record
  BY Handler DEF SerialInv
<1>1. /\ pc[p] \in Busy /\ pc[p] \notin Putting /\ pc[p] \notin Cleaning
      /\ pc[p] # "append" /\ pc[p] # "idle"
  BY DEF Purge0, Purging, Busy, Putting, Cleaning, CleaningOne
<1>2. InHand(p) /\ Forest(p) /\ PlanInv(p) /\ ~opening
  BY <1>1 DEF SerialInv
<1>3. req[p] \in indexed /\ IsDelete(req[p])
  BY <1>0, <1>1, <1>2 DEF InHand, HasIndex, PlanInv
<1>4. plan[p] \in Seq(PlanItem)
  BY <1>0 DEF TypeOK
<1>5. Calls(p) = 1 .. Len(plan[p]) /\ Len(plan[p]) \in Nat
  BY <1>4 DEF Calls
<1>6. \A i \in Calls(p) : plan[p][i] \in PlanItem
  BY <1>4, <1>5
<1>7. \A i \in Calls(p) : plan[p][i].rec \in Record
  BY <1>6 DEF PlanItem
<1> QED  BY <1>0, <1>1, <1>2, <1>3, <1>4, <1>5, <1>6, <1>7

\* Between two of its calls the message store is whole, and nothing of the records
\* purged so far is left.
LEMMA BetweenCalls ==
    ASSUME NEW p, Serial(p), SerialInv(p), pc[p] = "purge"
    PROVE  /\ pc[p] \in Purge0 /\ pc[p] \in Holding /\ pc[p] \notin Purging
           /\ \A x \in Message : x \in blocks <=> x \in indexed
           /\ \A r \in Record : r # req[p].rec => AtRest(r)
           /\ \A r \in purged : ~Exists(r)
<1>1. pc[p] \in Purge0 /\ pc[p] \in Holding /\ pc[p] \notin Purging
  BY HoldingIs
<1>2. \A r \in Record : r # req[p].rec => AtRest(r)
  BY <1>1 DEF SerialInv
<1>3. \A x \in Message : x \in blocks <=> x \in indexed
  <2> SUFFICES ASSUME NEW x \in Message PROVE x \in blocks <=> x \in indexed
    OBVIOUS
  <2>1. CASE x.rec = req[p].rec
    BY <1>1, <2>1, PruningIs DEF InHand, HasBlock, HasIndex
  <2>2. CASE x.rec # req[p].rec
    BY <1>2, <2>2, Kinds DEF AtRest
  <2> QED  BY <2>1, <2>2
<1>4. \A r \in purged : ~Exists(r)
  BY <1>1 DEF SerialInv, Forest
<1> QED  BY <1>1, <1>2, <1>3, <1>4

\* The pruned record is not below itself: the records that are purged and the pruned
\* one would have no top.
LEMMA RootIsOnTop ==
    ASSUME NEW p, Serial(p), SerialInv(p), pc[p] \in Purge0
    PROVE  /\ Par(req[p].rec) # req[p].rec
           /\ \A i \in Calls(p) : Purges(p, i) => Par(req[p].rec) # plan[p][i].rec
<1> DEFINE root == req[p].rec
           P == {i \in Calls(p) : Purges(p, i)}
           T == {root} \cup {plan[p][i].rec : i \in P}
<1>1. T \in SUBSET Record /\ T # {}
  BY PruningIs
<1>2. \A r \in T : Exists(r)
  <2>1. Exists(root)
    BY PruningIs DEF Exists
  <2>2. \A i \in P : Exists(plan[p][i].rec)
    BY PruningIs DEF PlanInv, PurgeCall
  <2> QED  BY <2>1, <2>2
<1>3. PICK r \in T : Par(r) \notin T
  <2> HIDE DEF T
  <2> QED  BY <1>1, <1>2, PruningIs DEF Forest
<1>4. \A i \in P : Par(plan[p][i].rec) \in T
  <2> SUFFICES ASSUME NEW i \in P PROVE Par(plan[p][i].rec) \in T
    OBVIOUS
  <2>1. PurgeCall(p, i)
    BY PruningIs DEF PlanInv
  <2>2. CASE Par(plan[p][i].rec) = root
    BY <2>2
  <2>3. CASE \E j \in Calls(p) : j > i /\ Is(p, j, "purge", Par(plan[p][i].rec))
    <3>1. PICK j \in Calls(p) : Is(p, j, "purge", Par(plan[p][i].rec))
      BY <2>3
    <3>2. j \in P /\ plan[p][j].rec = Par(plan[p][i].rec)
      BY <3>1 DEF Is, Purges
    <3> QED  BY <3>2
  <2> QED  BY <2>1, <2>2, <2>3 DEF PurgeCall
<1>5. r = root
  BY <1>3, <1>4
<1> QED  BY <1>3, <1>5

\* No record is its own parent.
LEMMA NotOwnParent ==
    ASSUME NEW p, Forest(p), NEW r \in Record, Exists(r)
    PROVE  Par(r) # r
<1>1. {r} \in SUBSET Record /\ \A q \in {r} : Exists(q)
  OBVIOUS
<1>2. \E q \in {r} : Par(q) \notin {r}
  BY <1>1 DEF Forest
<1> QED  BY <1>2

\* A step that only changes the plan.
LEMMA PlanStep ==
    ASSUME NEW p, Serial(p), SerialInv(p), StoreInv', pc[p] = "purge",
           UNCHANGED message,
           UNCHANGED <<pc, req, stream, existing, todo, cur, resuming, resumed, opening>>,
           \A r : (\E i \in Calls(p) : Is(p, i, "purge", r)) =>
                  (\E i \in Calls(p)' : Is(p, i, "purge", r)'),
           PlanInv(p)'
    PROVE  SerialInv(p)'
<1>1. /\ pc[p] \in Purge0 /\ pc[p] \in Holding /\ pc[p] \notin Purging
      /\ InHand(p) /\ Forest(p)
  BY BetweenCalls, PruningIs
<1>2. InHand(p)'
  BY <1>1 DEF InHand, message, Follows, ParentAlive, BringsData, BecomesLatest,
              HasBlock, HasIndex, HasEvent, MayBeLatest
<1>3. \A q \in Record : q # req[p].rec => Untouched(q)
  BY DEF Untouched, message
<1>4. Forest(p)'
  <2>1. (\A x \in indexed : Par(x.rec) # NoRecord => Exists(Par(x.rec)))'
    BY <1>1 DEF Forest, Exists, message
  <2>2. (\A T \in SUBSET Record :
        T # {} /\ (\A r \in T : Exists(r)) => \E r \in T : Par(r) \notin T)'
    BY <1>1 DEF Forest, Exists, message
  <2>3. (\A r \in purged :
        /\ Par(r) \in Record
        /\ Exists(r) => pc[p] \in Purging /\ Vanishing(p, r)
        /\ \/ Par(r) \in purged
           \/ \E d \in indexed : d.rec = Par(r) /\ IsDelete(d)
           \/ /\ pc[p] \in Purge0
              /\ \E i \in Calls(p) : Is(p, i, "purge", Par(r)))'
    <3> SUFFICES ASSUME NEW r \in purged
                 PROVE  /\ Par(r) \in Record
                        /\ ~Exists(r)
                        /\ \/ Par(r) \in purged
                           \/ \E d \in indexed : d.rec = Par(r) /\ IsDelete(d)
                           \/ \E i \in Calls(p)' : Is(p, i, "purge", Par(r))'
      BY <1>1 DEF Exists, message
    <3> QED  BY <1>1, BetweenCalls DEF Forest
  <2>4. (\A d \in indexed :
        IsDelete(d) /\ d.prune /\ ~(d = req[p] /\ pc[p] \in Purge0 \cup {"append"}) =>
            \A x \in indexed : Par(x.rec) # d.rec)'
    BY <1>1 DEF Forest, message
  <2> QED  BY <2>1, <2>2, <2>3, <2>4 DEF Forest
<1> QED  BY <1>1, <1>2, <1>3, <1>4, HoldingStep

\* The message in hand stays as it is as long as nothing happens to its record.
LEMMA PruneHolds ==
    ASSUME NEW p, Serial(p), SerialInv(p), pc[p] \in Purge0, pc'[p] \in Purge0,
           UNCHANGED <<req, stream, existing>>, TypeOK',
           Untouched(req[p].rec), req[p].rec \notin purged'
    PROVE  InHand(p)'
<1>1. /\ TypeOK /\ InHand(p) /\ req[p] \in Message
      /\ pc[p] \notin Putting /\ pc[p] \notin Cleaning /\ pc[p] # "append"
  BY PruningIs
<1>2. /\ pc'[p] \notin Putting /\ pc'[p] \notin Cleaning /\ pc'[p] # "append"
      /\ pc'[p] \notin CleaningOne /\ pc'[p] \notin {"restoreBlock", "restoreIndex"}
      /\ pc[p] # "putBlock" /\ pc'[p] # "putBlock"
  BY DEF Purge0, Purging, Putting, Cleaning, CleaningOne
<1>3. Follows(p)' /\ emitted' \subseteq Message
  BY <1>1 DEF InHand, Follows, TypeOK
<1>4. /\ BecomesLatest(p)' <=> BecomesLatest(p)
      /\ BringsData(p)' <=> BringsData(p)
  BY DEF BringsData, BecomesLatest
<1>5. (\A x \in Message : x.rec = req[p].rec =>
            /\ x \in blocks <=> HasBlock(p, x)
            /\ x \in indexed <=> HasIndex(p, x)
            /\ x \in events <=> HasEvent(p, x)
            /\ x \in latest => MayBeLatest(p, x))'
  <2> SUFFICES ASSUME NEW x \in Message, x.rec = req[p].rec
               PROVE  (/\ x \in blocks <=> HasBlock(p, x)
                       /\ x \in indexed <=> HasIndex(p, x)
                       /\ x \in events <=> HasEvent(p, x)
                       /\ x \in latest => MayBeLatest(p, x))'
    OBVIOUS
  <2>0. /\ x \in blocks' <=> x \in blocks
        /\ x \in indexed' <=> x \in indexed
        /\ x \in events' <=> x \in events
        /\ x \in latest' <=> x \in latest
    BY DEF Untouched
  <2>1. (x \in blocks <=> HasBlock(p, x))'
    BY <1>1, <1>2, <2>0 DEF InHand, HasBlock
  <2>2. (x \in indexed <=> HasIndex(p, x))'
    BY <1>1, <1>2, <2>0 DEF InHand, HasIndex
  <2>3. (x \in events <=> HasEvent(p, x))'
    BY <1>1, <1>2, <2>0 DEF InHand, HasEvent
  <2>4. (x \in latest => MayBeLatest(p, x))'
    BY <1>1, <1>2, <2>0 DEF InHand, MayBeLatest, Cleaning, CleaningOne
  <2> QED  BY <2>1, <2>2, <2>3, <2>4
<1>6. /\ req[p] \in latest' <=> BecomesLatest(p)
      /\ \A e \in emitted' : e.rec = req[p].rec => e = req[p] \/ IsNewer(req[p], e)
      /\ req[p] \in emitted' <=> BecomesLatest(p)
  BY <1>1, <1>3 DEF InHand, Untouched
<1>7. BringsData(p) => <<req[p].rec, req[p].data>> \in data'
  BY <1>1, Kinds DEF InHand, Untouched
<1>8. \A c \in DataCid \cup {NoData} : <<req[p].rec, c>> \in data' =>
            \/ BringsData(p) /\ c = req[p].data
            \/ \E x \in existing[p] : IsWrite(x) /\ IsLarge(x) /\ x.data = c
  BY <1>1 DEF InHand, Untouched
<1> QED  BY <1>2, <1>3, <1>4, <1>5, <1>6, <1>7, <1>8 DEF InHand

\* Looking for the children of a record.
LEMMA SerialDescend ==
    ASSUME NEW p, Serial(p), SerialInv(p), StoreInv', PurgeDescend(p)
    PROVE  SerialInv(p)'
<1> DEFINE r == plan[p][1].rec
           item == [op |-> "group", rec |-> r, msgs |-> Children(r)]
<1>0. /\ pc[p] = "purge" /\ pc[p] \in Purge0
      /\ UNCHANGED message
      /\ UNCHANGED <<pc, req, stream, existing, todo, cur, resuming, resumed, opening>>
  BY HoldingIs DEF PurgeDescend, stores, history, message
<1>1. /\ p \in Procs /\ TypeOK /\ PlanInv(p) /\ plan[p] \in Seq(PlanItem)
      /\ Calls(p) = 1 .. Len(plan[p]) /\ Len(plan[p]) \in Nat
  BY <1>0, PruningIs
<1>2. plan[p] # <<>> /\ plan[p][1].op = "descend" /\ 1 \in Calls(p)
  BY <1>1 DEF PurgeDescend
<1>3. plan'[p] = <<item>> \o Tail(plan[p])
  BY <1>1, <1>2 DEF PurgeDescend, TypeOK
<1>4. /\ Calls(p)' = Calls(p) /\ Len(plan'[p]) = Len(plan[p])
      /\ plan'[p][1] = item
      /\ \A i \in Calls(p) : i # 1 => plan'[p][i] = plan[p][i]
  <2> HIDE DEF item
  <2> QED  BY <1>1, <1>2, <1>3, SMTT(20) DEF Calls
<1>5. \A i \in Calls(p) : /\ plan'[p][i].rec = plan[p][i].rec
                          /\ Purges(p, i)' <=> Purges(p, i)
                          /\ Purges(p, i) => plan'[p][i] = plan[p][i]
  <2>1. plan'[p][1].rec = r /\ plan'[p][1].op = "group"
    BY <1>4
  <2> HIDE DEF item
  <2> QED  BY <1>2, <1>4, <2>1 DEF Purges
<1>6. \A i \in Calls(p) : \A q : Is(p, i, "purge", q)' <=> Is(p, i, "purge", q)
  BY <1>4, <1>5 DEF Is, Purges
<1>7. \A i \in Calls(p) : \A q : Enters(p, i, q)' <=> Enters(p, i, q)
  BY <1>5 DEF Enters
<1>8. PlanInv(p)'
  <2>1. (IsDelete(req[p]) /\ req[p].prune)'
    BY <1>0, <1>1 DEF PlanInv
  <2>2. ASSUME NEW i \in Calls(p), Purges(p, i) PROVE PurgeCall(p, i)'
    <3>1. PurgeCall(p, i)
      BY <1>1, <2>2 DEF PlanInv
    <3>2. plan'[p][i] = plan[p][i]
      BY <1>5, <2>2
    <3> QED  BY <1>0, <1>4, <1>6, <3>1, <3>2 DEF PurgeCall, Exists, OfRecord, message
  <2>3. ASSUME NEW i \in Calls(p), ~Purges(p, i) PROVE EnterCall(p, i)'
    <3>1. EnterCall(p, i)
      BY <1>1, <2>3 DEF PlanInv
    <3>2. (\/ plan[p][i].rec = req[p].rec
           \/ \E j \in Calls(p) : j > i /\ Is(p, j, "purge", plan[p][i].rec))'
      BY <1>0, <1>4, <1>5, <1>6, <3>1 DEF EnterCall
    <3>3. (\A j \in Calls(p) : Purges(p, j) => Par(plan[p][j].rec) # plan[p][i].rec)'
      BY <1>4, <1>5, <3>1 DEF EnterCall
    <3>4. (plan[p][i].op = "group" =>
            i = 1 /\ pc[p] = "purge" /\ plan[p][i].msgs = Children(plan[p][i].rec))'
      <4>1. CASE i = 1
        <5>1. plan'[p][i].rec = r /\ plan'[p][i].msgs = Children(r)
          BY <1>4, <4>1
        <5>2. \A q : Children(q)' = Children(q)
          BY <1>0 DEF Children, message
        <5>3. plan'[p][i].msgs = Children(plan'[p][i].rec)
          BY <5>1
        <5> QED  BY <1>0, <4>1, <5>2, <5>3
      <4>2. CASE i # 1
        BY <1>4, <3>1, <4>2 DEF EnterCall
      <4> QED  BY <4>1, <4>2
    <3> QED  BY <3>2, <3>3, <3>4 DEF EnterCall
  <2>4. (\A i, j \in Calls(p) : i # j /\ plan[p][i].rec = plan[p][j].rec =>
            (Purges(p, i) <=> ~Purges(p, j)))'
    BY <1>1, <1>4, <1>5 DEF PlanInv
  <2>5. Covers(p, req[p].rec, Len(plan[p]) + 1)'
    <3>1. Covers(p, req[p].rec, Len(plan[p]) + 1)
      BY <1>1 DEF PlanInv
    <3>2. Covers(p, req[p].rec, Len(plan[p]) + 1)'
            <=> Covers(p, req[p].rec, Len(plan[p]) + 1)
      BY <1>0, <1>4, <1>6, <1>7 DEF Covers, message
    <3> QED  BY <3>1, <3>2
  <2>6. (\A j \in Calls(p) : Purges(p, j) => Covers(p, plan[p][j].rec, j))'
    <3> SUFFICES ASSUME NEW j \in Calls(p), Purges(p, j)
                 PROVE  Covers(p, plan[p][j].rec, j)'
      BY <1>4, <1>5
    <3>1. Covers(p, plan[p][j].rec, j)
      BY <1>1 DEF PlanInv
    <3> QED  BY <1>0, <1>4, <1>5, <1>6, <1>7, <3>1 DEF Covers, message
  <2>7. (\A x \in indexed : Par(x.rec) \notin purged)'
    BY <1>0, <1>1 DEF PlanInv, message
  <2>8. (\A i \in Calls(p) : IF Purges(p, i) THEN PurgeCall(p, i) ELSE EnterCall(p, i))'
    BY <1>4, <1>5, <2>2, <2>3
  <2> QED  BY <2>1, <2>4, <2>5, <2>6, <2>7, <2>8 DEF PlanInv
<1> QED  BY <1>0, <1>4, <1>6, <1>8, PlanStep

\* The plan without its first call.
LEMMA TailOfPlan ==
    ASSUME NEW p, plan[p] \in Seq(PlanItem), plan[p] # <<>>, plan'[p] = Tail(plan[p])
    PROVE  /\ Len(plan[p]) \in Nat /\ 1 \in Calls(p) /\ Calls(p) = 1 .. Len(plan[p])
           /\ Len(plan'[p]) + 1 = Len(plan[p]) /\ Calls(p)' = 1 .. (Len(plan[p]) - 1)
           /\ \A i \in Calls(p)' : i + 1 \in Calls(p) /\ plan'[p][i] = plan[p][i + 1]
           /\ \A i \in Calls(p) : i # 1 => i - 1 \in Calls(p)' /\ plan'[p][i - 1] = plan[p][i]
           /\ \A i \in Calls(p)' : \A q : Is(p, i, "purge", q)' <=> Is(p, i + 1, "purge", q)
           /\ \A i \in Calls(p)' : \A q : Enters(p, i, q)' <=> Enters(p, i + 1, q)
           /\ \A i \in Calls(p)' : Purges(p, i)' <=> Purges(p, i + 1)
<1>1. /\ Len(plan[p]) \in Nat /\ 1 \in Calls(p) /\ Calls(p) = 1 .. Len(plan[p])
      /\ Len(plan'[p]) + 1 = Len(plan[p]) /\ Calls(p)' = 1 .. (Len(plan[p]) - 1)
  BY DEF Calls
<1>2. \A i \in Calls(p)' : i + 1 \in Calls(p) /\ plan'[p][i] = plan[p][i + 1]
  BY <1>1
<1>3. \A i \in Calls(p) : i # 1 => i - 1 \in Calls(p)' /\ plan'[p][i - 1] = plan[p][i]
  <2> SUFFICES ASSUME NEW i \in Calls(p), i # 1
               PROVE  i - 1 \in Calls(p)' /\ plan'[p][i - 1] = plan[p][i]
    OBVIOUS
  <2>1. i - 1 \in Calls(p)' /\ (i - 1) + 1 = i
    BY <1>1
  <2> QED  BY <1>2, <2>1
<1> QED  BY <1>1, <1>2, <1>3 DEF Is, Enters, Purges

\* The messages of a record that is purged, and what they have in the data store: the
\* data of the latest write is all there is.
LEMMA PurgedData ==
    ASSUME TypeOK, NEW k \in Record, AtRest(k), Exists(k)
    PROVE  LET writes == {m \in OfRecord(indexed, k) : IsWrite(m)}
           IN  /\ writes # {}
               /\ \A c \in DataCid \cup {NoData} :
                    <<k, c>> \in data => c = Newest(writes).data
<1> DEFINE writes == {m \in OfRecord(indexed, k) : IsWrite(m)}
<1>1. InitialWrite(k) \in writes
  BY InitialOf DEF AtRest, Exists, OfRecord
<1>2. \A x \in writes : x \in indexed /\ x \in Message /\ x.rec = k /\ IsWrite(x)
  BY DEF OfRecord, TypeOK
<1>3. ASSUME NEW c \in DataCid \cup {NoData}, <<k, c>> \in data
      PROVE  c = Newest(writes).data
  <2>1. Owes(k, c)
    BY <1>3 DEF AtRest
  <2>2. PICK w \in latest : w.rec = k /\ IsWrite(w) /\ w.data = c
    BY <2>1 DEF Owes
  <2>3. w \in Message /\ w \in indexed
    BY <2>2 DEF TypeOK, AtRest
  <2>4. w \in writes
    BY <2>2, <2>3 DEF OfRecord
  <2>5. \A n \in writes : ~IsNewer(n, w)
    BY <1>2, <2>2, <2>3 DEF AtRest
  <2> HIDE DEF writes
  <2>6. Newest(writes) \in writes /\ \A n \in writes : ~IsNewer(n, Newest(writes))
    BY <2>4, <2>5 DEF Newest
  <2>7. Newest(writes) = w
    BY <1>2, <2>3, <2>4, <2>5, <2>6, NewerOrder
  <2> QED  BY <2>2, <2>7
<1> QED  BY <1>1, <1>3

\* The next record starts to go: its data first.  Its children are gone already.
LEMMA SerialPurgeData ==
    ASSUME NEW p, Serial(p), SerialInv(p), StoreInv', PurgeData(p)
    PROVE  SerialInv(p)'
<1> DEFINE c1 == plan[p][1]
<1>0. /\ pc[p] = "purge" /\ pc[p] \in Purge0 /\ pc[p] \in Holding /\ pc[p] \notin Purging
      /\ plan[p] # <<>> /\ Head(plan[p]).op = "purge"
  BY HoldingIs DEF PurgeData
<1>r. PICK root \in Record : root = req[p].rec
  BY <1>0, PruningIs
<1>1. /\ p \in Procs /\ TypeOK /\ TypeOK' /\ req[p] \in Message /\ root = req[p].rec
      /\ InHand(p) /\ Forest(p) /\ PlanInv(p)
      /\ req[p] \in indexed /\ IsDelete(req[p]) /\ plan[p] \in Seq(PlanItem)
      /\ pc[p] \notin Putting /\ pc[p] \notin Cleaning /\ ~opening
      /\ \A r \in Record : r # root => AtRest(r)
      /\ \A r \in purged : ~Exists(r)
      /\ \A i \in Calls(p) : plan[p][i].rec \in Record
  BY <1>0, <1>r, PruningIs, BetweenCalls DEF StoreInv
<1>2. Head(plan[p]) = c1 /\ 1 \in Calls(p)
  BY <1>0, <1>1 DEF Calls
<1>k. PICK k \in Record : k = plan[p][1].rec
  BY <1>1, <1>2
<1> DEFINE writes == {m \in OfRecord(indexed, k) : IsWrite(m)}
<1>3. /\ Purges(p, 1) /\ PurgeCall(p, 1)
      /\ k = c1.rec /\ k # root /\ k \notin purged /\ Exists(k)
      /\ c1.msgs = OfRecord(indexed, k)
  <2>1. Purges(p, 1)
    BY <1>0, <1>2 DEF Purges
  <2>2. PurgeCall(p, 1)
    BY <1>1, <1>2, <2>1 DEF PlanInv
  <2> QED  BY <1>1, <1>2, <1>k, <2>1, <2>2 DEF PurgeCall
<1>4. AtRest(k)
  BY <1>1, <1>3
<1>5. /\ writes # {}
      /\ \A c \in DataCid \cup {NoData} : <<k, c>> \in data => c = Newest(writes).data
  BY <1>1, <1>3, <1>4, PurgedData
<1>6. {m.rec : m \in OfRecord(indexed, k)} = {k}
  <2>1. \E m \in OfRecord(indexed, k) : m.rec = k
    BY <1>3 DEF Exists, OfRecord
  <2>2. \A m \in OfRecord(indexed, k) : m.rec = k
    BY DEF OfRecord
  <2> QED  BY <2>1, <2>2
<1>7. /\ data' = data \ {<<k, Newest(writes).data>>}
      /\ todo'[p] = OfRecord(indexed, k)
      /\ plan'[p] = Tail(plan[p])
      /\ purged' = purged \cup {k}
      /\ pc'[p] = "purgeEvents"
      /\ UNCHANGED <<blocks, indexed, latest, events, emitted, req, stream, existing, cur,
                     resuming, resumed, opening>>
  <2>1. {m \in c1.msgs : IsWrite(m)} = writes
    BY <1>3
  <2> HIDE DEF writes, c1
  <2>2. /\ data' = data \ {<<c1.rec, Newest(writes).data>>}
        /\ todo' = [todo EXCEPT ![p] = c1.msgs]
        /\ plan' = [plan EXCEPT ![p] = Tail(@)]
        /\ purged' = purged \cup {m.rec : m \in c1.msgs}
        /\ pc' = [pc EXCEPT ![p] = "purgeEvents"]
        /\ UNCHANGED <<blocks, indexed, latest, events, emitted, req, stream, existing, cur,
                       resuming, resumed, opening>>
    BY <1>2, <1>5, <2>1 DEF PurgeData, Goto
  <2>3. c1.rec = k
    BY <1>3
  <2> QED  BY <1>1, <1>3, <1>6, <2>2, <2>3 DEF TypeOK
<1>8. /\ pc'[p] \in Purge0 /\ pc'[p] \in Purging /\ pc'[p] \notin Putting
      /\ pc'[p] \notin Cleaning /\ pc'[p] \notin CleaningOne /\ pc'[p] \in Busy
      /\ pc'[p] \notin Calm
  BY <1>7, HoldingIs DEF Purge0, Purging, Putting, Cleaning, CleaningOne
<1> HIDE DEF writes
<1>9. InHand(p)'
  <2>1. Untouched(req[p].rec)
    BY <1>1, <1>3, <1>7 DEF Untouched
  <2>2. req[p].rec \notin purged'
    BY <1>1, <1>3, <1>7 DEF InHand
  <2> QED  BY <1>0, <1>1, <1>7, <1>8, <2>1, <2>2, PruneHolds
<1>10. Vanishing(p, k)'
  <2>1. k # root /\ k \in purged' /\ \A x \in todo'[p] : x.rec = k
    BY <1>3, <1>7 DEF OfRecord
  <2>2. \A x \in Message : x.rec = k =>
            /\ x \in blocks <=> x \in todo'[p]
            /\ x \in indexed <=> x \in todo'[p]
            /\ x \in events <=> x \in todo'[p]
            /\ x \in latest => x \in indexed
    BY <1>4, <1>7 DEF AtRest, OfRecord
  <2>3. \A c \in DataCid \cup {NoData} : <<k, c>> \notin data'
    BY <1>5, <1>7
  <2> QED  BY <1>1, <1>7, <2>1, <2>2, <2>3 DEF Vanishing
<1>11. \A r \in Record : r # k /\ r # root => AtRest(r)'
  <2> SUFFICES ASSUME NEW r \in Record, r # k, r # root PROVE AtRest(r)'
    OBVIOUS
  <2>1. Untouched(r)
    BY <1>7 DEF Untouched
  <2> QED  BY <1>1, <2>1, RestKept
<1>12. /\ Len(plan[p]) \in Nat /\ Calls(p) = 1 .. Len(plan[p])
       /\ Len(plan'[p]) + 1 = Len(plan[p]) /\ Calls(p)' = 1 .. (Len(plan[p]) - 1)
       /\ \A i \in Calls(p)' : i + 1 \in Calls(p) /\ plan'[p][i] = plan[p][i + 1]
       /\ \A i \in Calls(p) : i # 1 => i - 1 \in Calls(p)' /\ plan'[p][i - 1] = plan[p][i]
       /\ \A i \in Calls(p)' : \A q : Is(p, i, "purge", q)' <=> Is(p, i + 1, "purge", q)
       /\ \A i \in Calls(p)' : \A q : Enters(p, i, q)' <=> Enters(p, i + 1, q)
       /\ \A i \in Calls(p)' : Purges(p, i)' <=> Purges(p, i + 1)
  BY <1>0, <1>1, <1>7, TailOfPlan
<1>13. \A i \in Calls(p) : \A q : i # 1 =>
        /\ Is(p, i, "purge", q) <=> Is(p, i - 1, "purge", q)'
        /\ Enters(p, i, q) <=> Enters(p, i - 1, q)'
  BY <1>12 DEF Is, Enters, Purges
<1>14. \A q : Is(p, 1, "purge", q) => q = k
  BY <1>k DEF Is
<1>15. \A x \in indexed : Par(x.rec) # k
  <2> SUFFICES ASSUME NEW x \in indexed, Par(x.rec) = k PROVE FALSE
    OBVIOUS
  <2>1. Covers(p, k, 1)
    BY <1>1, <1>2, <1>3 DEF PlanInv
  <2>2. x.rec \in purged
    BY <1>12, <2>1 DEF Covers
  <2> QED  BY <1>1, <2>2 DEF Exists
<1>16. Forest(p)'
  <2>1. (\A x \in indexed : Par(x.rec) # NoRecord => Exists(Par(x.rec)))'
    BY <1>1, <1>7 DEF Forest, Exists
  <2>2. (\A T \in SUBSET Record :
        T # {} /\ (\A r \in T : Exists(r)) => \E r \in T : Par(r) \notin T)'
    BY <1>1, <1>7 DEF Forest, Exists
  <2>3. (\A r \in purged :
        /\ Par(r) \in Record
        /\ Exists(r) => pc[p] \in Purging /\ Vanishing(p, r)
        /\ \/ Par(r) \in purged
           \/ \E d \in indexed : d.rec = Par(r) /\ IsDelete(d)
           \/ /\ pc[p] \in Purge0
              /\ \E i \in Calls(p) : Is(p, i, "purge", Par(r)))'
    <3> SUFFICES ASSUME NEW r \in purged \cup {k}
                 PROVE  /\ Par(r) \in Record
                        /\ Exists(r) => r = k
                        /\ \/ Par(r) \in purged'
                           \/ \E d \in indexed : d.rec = Par(r) /\ IsDelete(d)
                           \/ \E i \in Calls(p)' : Is(p, i, "purge", Par(r))'
      BY <1>7, <1>8, <1>10 DEF Exists
    <3>1. CASE r \in purged
      <4>1. /\ Par(r) \in Record /\ ~Exists(r)
            /\ \/ Par(r) \in purged
               \/ \E d \in indexed : d.rec = Par(r) /\ IsDelete(d)
               \/ \E i \in Calls(p) : Is(p, i, "purge", Par(r))
        BY <1>1, <3>1 DEF Forest
      <4>2. ASSUME NEW i \in Calls(p), Is(p, i, "purge", Par(r))
            PROVE  \/ Par(r) \in purged'
                   \/ \E j \in Calls(p)' : Is(p, j, "purge", Par(r))'
        BY <1>7, <1>12, <1>13, <1>14, <4>2
      <4> QED  BY <1>7, <4>1, <4>2
    <3>2. CASE r = k
      <4>1. CASE Par(k) = root
        BY <1>1, <3>2, <4>1
      <4>2. CASE \E j \in Calls(p) : j > 1 /\ Is(p, j, "purge", Par(k))
        <5>1. PICK j \in Calls(p) : j > 1 /\ Is(p, j, "purge", Par(k))
          BY <4>2
        <5>2. Is(p, j - 1, "purge", Par(k))' /\ j - 1 \in Calls(p)'
          BY <1>12, <1>13, <5>1
        <5>3. Par(k) \in Record
          BY <1>1, <5>1 DEF Is
        <5> QED  BY <3>2, <5>2, <5>3
      <4> QED  BY <1>1, <1>3, <4>1, <4>2 DEF PurgeCall
    <3> QED  BY <3>1, <3>2
  <2>4. (\A d \in indexed :
        IsDelete(d) /\ d.prune /\ ~(d = req[p] /\ pc[p] \in Purge0 \cup {"append"}) =>
            \A x \in indexed : Par(x.rec) # d.rec)'
    BY <1>0, <1>1, <1>7, <1>8 DEF Forest
  <2> QED  BY <2>1, <2>2, <2>3, <2>4 DEF Forest
<1>17. PlanInv(p)'
  <2>1. (IsDelete(req[p]) /\ req[p].prune)'
    BY <1>1, <1>7 DEF PlanInv
  <2>2. ASSUME NEW i \in Calls(p)', Purges(p, i + 1) PROVE PurgeCall(p, i)'
    <3>1. i + 1 \in Calls(p) /\ i + 1 # 1 /\ plan'[p][i] = plan[p][i + 1] /\ i \in Nat
      BY <1>12
    <3>q. PICK q \in Record : q = plan[p][i + 1].rec
      BY <1>1, <3>1
    <3>2. PurgeCall(p, i + 1)
      BY <1>1, <2>2, <3>1 DEF PlanInv
    <3>3. q # k
      BY <1>1, <1>2, <1>3, <2>2, <3>1, <3>q DEF PlanInv
    <3>4. /\ q # root /\ q \notin purged' /\ Exists(q)'
          /\ plan'[p][i].msgs = OfRecord(indexed', q)
      BY <1>1, <1>7, <3>1, <3>2, <3>3, <3>q DEF PurgeCall, Exists, OfRecord
    <3>5. \/ Par(q) = root
          \/ \E j \in Calls(p)' : j > i /\ Is(p, j, "purge", Par(q))'
      <4>1. \/ Par(q) = root
            \/ \E j \in Calls(p) : j > i + 1 /\ Is(p, j, "purge", Par(q))
        BY <1>1, <3>2, <3>q DEF PurgeCall
      <4>2. ASSUME NEW j \in Calls(p), j > i + 1, Is(p, j, "purge", Par(q))
            PROVE  \E l \in Calls(p)' : l > i /\ Is(p, l, "purge", Par(q))'
        <5>1. j # 1 /\ j - 1 > i
          BY <1>12, <3>1, <4>2
        <5> QED  BY <1>12, <1>13, <4>2, <5>1
      <4> QED  BY <4>1, <4>2
    <3> QED  BY <1>1, <1>7, <3>1, <3>4, <3>5, <3>q DEF PurgeCall
  <2>3. ASSUME NEW i \in Calls(p)', ~Purges(p, i + 1) PROVE EnterCall(p, i)'
    <3>1. i + 1 \in Calls(p) /\ i + 1 # 1 /\ plan'[p][i] = plan[p][i + 1] /\ i \in Nat
      BY <1>12
    <3>q. PICK q \in Record : q = plan[p][i + 1].rec
      BY <1>1, <3>1
    <3>2. EnterCall(p, i + 1)
      BY <1>1, <2>3, <3>1 DEF PlanInv
    <3>3. plan[p][i + 1].op # "group"
      BY <3>1, <3>2 DEF EnterCall
    <3>4. \/ q = root
          \/ \E j \in Calls(p)' : j > i /\ Is(p, j, "purge", q)'
      <4>1. \/ q = root
            \/ \E j \in Calls(p) : j > i + 1 /\ Is(p, j, "purge", q)
        BY <1>1, <3>2, <3>q DEF EnterCall
      <4>2. ASSUME NEW j \in Calls(p), j > i + 1, Is(p, j, "purge", q)
            PROVE  \E l \in Calls(p)' : l > i /\ Is(p, l, "purge", q)'
        <5>1. j # 1 /\ j - 1 > i
          BY <1>12, <3>1, <4>2
        <5> QED  BY <1>12, <1>13, <4>2, <5>1
      <4> QED  BY <4>1, <4>2
    <3>5. ASSUME NEW j \in Calls(p)', Purges(p, j)' PROVE Par(plan'[p][j].rec) # q
      <4>1. j + 1 \in Calls(p) /\ plan'[p][j] = plan[p][j + 1] /\ Purges(p, j + 1)
        BY <1>12, <3>5
      <4>2. \A l \in Calls(p) : Purges(p, l) => Par(plan[p][l].rec) # q
        BY <3>2, <3>q DEF EnterCall
      <4> QED  BY <4>1, <4>2
    <3> QED  BY <1>1, <1>7, <3>1, <3>3, <3>4, <3>5, <3>q DEF EnterCall
  <2>4. (\A i, j \in Calls(p) : i # j /\ plan[p][i].rec = plan[p][j].rec =>
            (Purges(p, i) <=> ~Purges(p, j)))'
    <3> SUFFICES ASSUME NEW i \in Calls(p)', NEW j \in Calls(p)', i # j,
                        plan'[p][i].rec = plan'[p][j].rec
                 PROVE  Purges(p, i)' <=> ~Purges(p, j)'
      OBVIOUS
    <3>1. /\ i + 1 \in Calls(p) /\ j + 1 \in Calls(p) /\ i + 1 # j + 1
          /\ plan[p][i + 1].rec = plan[p][j + 1].rec
      <4>1. i \in Int /\ j \in Int
        BY <1>12
      <4>2. plan'[p][i] = plan[p][i + 1] /\ plan'[p][j] = plan[p][j + 1]
        BY <1>12
      <4> QED  BY <1>12, <4>1, <4>2
    <3>2. Purges(p, i + 1) <=> ~Purges(p, j + 1)
      BY <1>1, <1>12, <3>1 DEF PlanInv
    <3> QED  BY <1>12, <3>2
  <2>5. ASSUME NEW q, NEW j \in Nat, j > 1, Covers(p, q, j)
        PROVE  \A x \in indexed' : Par(x.rec) = q =>
                  \/ \E i \in Calls(p)' : i < j - 1 /\ (Is(p, i, "purge", x.rec)'
                                                          \/ Enters(p, i, q)')
                  \/ x.rec \in purged'
    <3> SUFFICES ASSUME NEW x \in indexed', Par(x.rec) = q, x.rec \notin purged'
                 PROVE  \E i \in Calls(p)' : i < j - 1 /\ (Is(p, i, "purge", x.rec)'
                                                          \/ Enters(p, i, q)')
      OBVIOUS
    <3>1. x.rec # k /\ x.rec \notin purged /\ x \in indexed
      BY <1>7
    <3>2. PICK i \in Calls(p) : i < j /\ (Is(p, i, "purge", x.rec) \/ Enters(p, i, q))
      BY <2>5, <3>1 DEF Covers
    <3>3. i # 1
      BY <1>3, <1>14, <1>2, <3>1, <3>2 DEF Enters
    <3>4. i - 1 \in Calls(p)' /\ i - 1 < j - 1
      BY <1>12, <3>2, <3>3
    <3>5. Is(p, i - 1, "purge", x.rec)' \/ Enters(p, i - 1, q)'
      BY <1>13, <3>2, <3>3
    <3> QED  BY <3>4, <3>5
  <2>6. Covers(p, req[p].rec, Len(plan[p]) + 1)'
    <3>1. Covers(p, root, Len(plan[p]) + 1)
      BY <1>1 DEF PlanInv
    <3>2. Len(plan[p]) + 1 \in Nat /\ Len(plan[p]) + 1 > 1
          /\ Len(plan'[p]) + 1 = (Len(plan[p]) + 1) - 1
      BY <1>2, <1>12
    <3> QED  BY <1>1, <1>7, <2>5, <3>1, <3>2 DEF Covers
  <2>7. (\A j \in Calls(p) : Purges(p, j) => Covers(p, plan[p][j].rec, j))'
    <3> SUFFICES ASSUME NEW j \in Calls(p)', Purges(p, j + 1)
                 PROVE  Covers(p, plan[p][j].rec, j)'
      BY <1>12
    <3>1. j + 1 \in Calls(p) /\ plan'[p][j] = plan[p][j + 1]
      BY <1>12
    <3>2. Covers(p, plan[p][j + 1].rec, j + 1)
      BY <1>1, <3>1 DEF PlanInv
    <3>3. j + 1 \in Nat /\ j + 1 > 1 /\ j = (j + 1) - 1
      BY <1>12
    <3> QED  BY <2>5, <3>1, <3>2, <3>3 DEF Covers
  <2>8. (\A x \in indexed : Par(x.rec) \notin purged)'
    BY <1>1, <1>7, <1>15 DEF PlanInv
  <2>9. (\A i \in Calls(p) : IF Purges(p, i) THEN PurgeCall(p, i) ELSE EnterCall(p, i))'
    BY <1>12, <2>2, <2>3
  <2> QED  BY <2>1, <2>4, <2>6, <2>7, <2>8, <2>9 DEF PlanInv
<1>18. Knows(p)' /\ pc'[p] # "unwind"
  BY <1>7 DEF Knows
<1>19. /\ resuming' = {} /\ resumed'[p] = FALSE /\ stream'[p] # "bad" /\ ~opening'
  BY <1>1, <1>7 DEF SerialInv
<1>20. \E q \in Record : Vanishing(p, q)' /\ \A r \in Record \ {q, root} : AtRest(r)'
  BY <1>3, <1>10, <1>11
<1> QED  BY <1>1, <1>7, <1>8, <1>9, <1>16, <1>17, <1>18, <1>19, <1>20 DEF SerialInv

\* t is s with D and P, of n elements each, in the place of its first element.
Splices(t, n, D, P, s) ==
    /\ Len(t) = n + n + Len(s) - 1 /\ DOMAIN t = 1 .. Len(t)
    /\ \A i \in 1 .. n : /\ i \in DOMAIN t /\ t[i] = D[i]
                         /\ n + i \in DOMAIN t /\ t[n + i] = P[i]
    /\ \A i \in 2 .. Len(s) : /\ n + n + i - 1 \in DOMAIN t
                              /\ t[n + n + i - 1] = s[i]
    /\ \A j \in DOMAIN t : \/ j \in 1 .. n
                           \/ \E i \in 1 .. n : j = n + i
                           \/ \E i \in 2 .. Len(s) : j = n + n + i - 1

LEMMA Spliced ==
    ASSUME NEW X, NEW D \in Seq(X), NEW P \in Seq(X), NEW s \in Seq(X), s # <<>>,
           NEW n \in Nat, Len(D) = n, Len(P) = n, NEW t, t = D \o P \o Tail(s)
    PROVE  Splices(t, n, D, P, s)
<1> DEFINE u == D \o P
           T == Tail(s)
<1>1. Len(s) \in Nat /\ Len(s) >= 1 /\ T \in Seq(X) /\ Len(T) = Len(s) - 1
  OBVIOUS
<1>2. \A i \in 2 .. Len(s) : i - 1 \in 1 .. Len(T) /\ T[i - 1] = s[i]
  <2> SUFFICES ASSUME NEW i \in 2 .. Len(s)
               PROVE  i - 1 \in 1 .. Len(T) /\ T[i - 1] = s[i]
    OBVIOUS
  <2>1. i - 1 \in 1 .. (Len(s) - 1) /\ (i - 1) + 1 = i
    BY <1>1
  <2> QED  BY <1>1, <2>1
<1>3. /\ u \in Seq(X) /\ Len(u) = n + n
      /\ \A i \in 1 .. n + n : u[i] = IF i <= n THEN D[i] ELSE P[i - n]
  <2>1. /\ u \in Seq(X) /\ Len(u) = Len(D) + Len(P)
        /\ \A i \in 1 .. Len(D) + Len(P) : u[i] =
                IF i <= Len(D) THEN D[i] ELSE P[i - Len(D)]
    BY ConcatProperties, Zenon
  <2> HIDE DEF u
  <2> QED  BY <2>1
<1>t. t = u \o T
  OBVIOUS
<1> HIDE DEF u, T
<1>4. /\ Len(t) = n + n + Len(s) - 1 /\ DOMAIN t = 1 .. Len(t)
      /\ \A i \in 1 .. Len(t) : t[i] = IF i <= n + n THEN u[i] ELSE T[i - (n + n)]
  <2>1. /\ t \in Seq(X) /\ Len(t) = Len(u) + Len(T)
        /\ \A i \in 1 .. Len(u) + Len(T) : t[i] =
                IF i <= Len(u) THEN u[i] ELSE T[i - Len(u)]
    <3>0. u \in Seq(X) /\ T \in Seq(X)
      BY <1>1, <1>3
    <3>1. /\ u \o T \in Seq(X) /\ Len(u \o T) = Len(u) + Len(T)
          /\ \A i \in 1 .. Len(u) + Len(T) : (u \o T)[i] =
                IF i <= Len(u) THEN u[i] ELSE T[i - Len(u)]
      BY <3>0, ConcatProperties, Zenon
    <3> QED  BY <1>t, <3>1, Zenon
  <2>2. Len(t) = n + n + Len(s) - 1 /\ DOMAIN t = 1 .. Len(t)
    BY <1>1, <1>3, <2>1
  <2> QED  BY <1>3, <2>1, <2>2
<1>5. ASSUME NEW i \in 1 .. n
      PROVE  i \in DOMAIN t /\ t[i] = D[i] /\ n + i \in DOMAIN t /\ t[n + i] = P[i]
  <2>1. i \in 1 .. n + n /\ n + i \in 1 .. n + n /\ ~(n + i <= n) /\ (n + i) - n = i
    OBVIOUS
  <2>2. u[i] = D[i] /\ u[n + i] = P[i]
    BY <1>3, <2>1
  <2>3. i \in 1 .. Len(t) /\ n + i \in 1 .. Len(t)
    BY <1>1, <1>4, <2>1
  <2> QED  BY <1>4, <2>1, <2>2, <2>3
<1>6. ASSUME NEW i \in 2 .. Len(s)
      PROVE  n + n + i - 1 \in DOMAIN t /\ t[n + n + i - 1] = s[i]
  <2>1. /\ n + n + i - 1 \in 1 .. Len(t) /\ ~(n + n + i - 1 <= n + n)
        /\ (n + n + i - 1) - (n + n) = i - 1
    <3>1. /\ Len(s) \in Int /\ Len(t) = n + n + Len(s) - 1
          /\ i \in Int /\ 2 <= i /\ i <= Len(s)
      BY <1>1, <1>4
    <3> QED  BY <3>1
  <2> QED  BY <1>2, <1>4, <2>1
<1>7. ASSUME NEW j \in DOMAIN t
      PROVE  \/ j \in 1 .. n
             \/ \E i \in 1 .. n : j = n + i
             \/ \E i \in 2 .. Len(s) : j = n + n + i - 1
  <2>0. j \in Int /\ j >= 1 /\ j <= n + n + Len(s) - 1
    BY <1>1, <1>4
  <2>1. CASE j <= n
    BY <2>0, <2>1
  <2>2. CASE j > n /\ j <= n + n
    <3>1. j - n \in 1 .. n /\ j = n + (j - n)
      BY <2>0, <2>2
    <3> QED  BY <3>1
  <2>3. CASE j > n + n
    <3>1. j - n - n + 1 \in 2 .. Len(s) /\ j = n + n + (j - n - n + 1) - 1
      BY <1>1, <2>0, <2>3
    <3> QED  BY <3>1
  <2> QED  BY <2>0, <2>1, <2>2, <2>3
<1> QED  BY <1>4, <1>5, <1>6, <1>7 DEF Splices

\* A plan that goes through n children instead of making its first call.
GroupOf(p, n, order) ==
    /\ Calls(p)' = 1 .. Len(plan'[p]) /\ Len(plan'[p]) = n + n + Len(plan[p]) - 1
    /\ \A i \in 1 .. n : i \in Calls(p)' /\ n + i \in Calls(p)'
    /\ \A i \in 1 .. n : ~Purges(p, i)' /\ plan'[p][i].op # "group"
                            /\ plan'[p][i].rec = order[i]
    /\ \A i \in 1 .. n : Purges(p, n + i)' /\ plan'[p][n + i].rec = order[i]
                            /\ plan'[p][n + i].msgs = OfRecord(indexed, order[i])
    /\ \A i \in 2 .. Len(plan[p]) :
        n + n + i - 1 \in Calls(p)' /\ plan'[p][n + n + i - 1] = plan[p][i]
    /\ \A j \in Calls(p)' : \/ j \in 1 .. n
                            \/ \E i \in 1 .. n : j = n + i
                            \/ \E i \in 2 .. Len(plan[p]) : j = n + n + i - 1

\* The children of the first call are all in the plan, each once.
LEMMA GroupCalls ==
    ASSUME NEW p, Serial(p), SerialInv(p), PurgeGroup(p)
    PROVE  \E n \in Nat : \E order \in [1 .. n -> Record] :
            /\ \A i, j \in 1 .. n : order[i] = order[j] => i = j
            /\ \A q : Exists(q) /\ Par(q) = plan[p][1].rec <=> \E i \in 1 .. n : order[i] = q
            /\ GroupOf(p, n, order)
<1> DEFINE S == Head(plan[p]).msgs \cap blocks
           kids == {m.rec : m \in S}
<1>1. /\ pc[p] = "purge" /\ pc[p] \in Purge0
      /\ plan[p] # <<>> /\ Head(plan[p]).op = "group"
  BY HoldingIs DEF PurgeGroup
<1>2. /\ p \in Procs /\ TypeOK /\ StoreInv /\ PlanInv(p) /\ plan[p] \in Seq(PlanItem)
      /\ \A x \in Message : x \in blocks <=> x \in indexed
  BY <1>1, PruningIs, BetweenCalls DEF SerialInv
<1>3. Head(plan[p]) = plan[p][1] /\ 1 \in Calls(p)
  BY <1>1, <1>2 DEF Calls
<1>r. PICK r \in Record : r = plan[p][1].rec
  BY <1>1, <1>3, PruningIs
<1>4. S = Children(r)
  <2>1. ~Purges(p, 1) /\ EnterCall(p, 1)
    BY <1>1, <1>2, <1>3 DEF PlanInv, Purges
  <2>2. plan[p][1].msgs = Children(r)
    BY <1>1, <1>3, <1>r, <2>1 DEF EnterCall
  <2> QED  BY <1>2, <1>3, <2>2 DEF Children, TypeOK
<1>5. \A x : x \in S <=> x \in indexed /\ Par(x.rec) = r
  BY <1>2, <1>4, ParentIs DEF Children
<1>6. kids \subseteq Record /\ \A q : Exists(q) /\ Par(q) = r <=> q \in kids
  BY <1>2, <1>5, Kinds DEF Exists, TypeOK
<1>7. IsFiniteSet(kids) /\ Cardinality(kids) \in Nat
  BY <1>6, RecordsDwnAssumption, FS_Subset, FS_CardinalityType
<1>n. PICK n \in Nat : n = Cardinality(kids)
  BY <1>7
<1>8. PICK order \in [1 .. n -> kids] :
        /\ \A i, j \in 1 .. n : order[i] = order[j] => i = j
        /\ plan' = [plan EXCEPT ![p] =
              [i \in 1 .. n |-> [op |-> "descend", rec |-> order[i], msgs |-> {}]]
              \o [i \in 1 .. n |-> [op |-> "purge", rec |-> order[i],
                                    msgs |-> OfRecord(S, order[i])]]
              \o Tail(plan[p])]
  BY <1>n DEF PurgeGroup
<1> DEFINE D == [i \in 1 .. n |-> [op |-> "descend", rec |-> order[i], msgs |-> {}]]
           P == [i \in 1 .. n |-> [op |-> "purge", rec |-> order[i],
                                   msgs |-> OfRecord(S, order[i])]]
<1> HIDE DEF kids
<1>9. \A q \in kids : \E i \in 1 .. n : order[i] = q
  <2>1. order \in Injection(1 .. n, kids)
    BY <1>8 DEF Injection, IsInjective
  <2>2. IsFiniteSet(1 .. n) /\ Cardinality(1 .. n) = n
    <3>1. 1 \in Int /\ n \in Int
      BY <1>7
    <3> QED  BY <1>7, <3>1, FS_Interval
  <2>3. Cardinality(1 .. n) = Cardinality(kids)
    BY <1>n, <2>2
  <2>4. order \in Surjection(1 .. n, kids)
    BY <1>7, <2>1, <2>3, FS_Injection
  <2> QED  BY <2>4 DEF Surjection
<1>10. \A q \in kids : OfRecord(S, q) = OfRecord(indexed, q)
  BY <1>5, <1>6 DEF OfRecord
<1> HIDE DEF S
<1>11. \A i \in 1 .. n : order[i] \in Record
  BY <1>6, <1>8
<1>12. /\ \A i \in 1 .. n : /\ D[i].op = "descend" /\ D[i].rec = order[i]
                            /\ P[i].op = "purge" /\ P[i].rec = order[i]
                            /\ P[i].msgs = OfRecord(indexed, order[i])
       /\ \A i \in 1 .. n : D[i] \in PlanItem /\ P[i] \in PlanItem
  <2>1. \A i \in 1 .. n : OfRecord(S, order[i]) = OfRecord(indexed, order[i])
    BY <1>8, <1>10
  <2>2. \A i \in 1 .. n : OfRecord(S, order[i]) \in SUBSET Message
    BY <1>2, <2>1 DEF OfRecord, TypeOK
  <2>3. \A i \in 1 .. n : D[i] \in PlanItem
    BY <1>11 DEF PlanItem
  <2>4. \A i \in 1 .. n : P[i] \in PlanItem
    BY <1>11, <2>2 DEF PlanItem
  <2> QED  BY <2>1, <2>3, <2>4
<1>13. /\ D \in Seq(PlanItem) /\ Len(D) = n
       /\ P \in Seq(PlanItem) /\ Len(P) = n
  <2>1. D \in [1 .. n -> PlanItem] /\ P \in [1 .. n -> PlanItem]
    BY <1>12
  <2> HIDE DEF D, P
  <2> QED  BY <1>7, <2>1
<1>14. plan'[p] = D \o P \o Tail(plan[p])
  <2>1. plan' = [plan EXCEPT ![p] = D \o P \o Tail(plan[p])]
    BY <1>8
  <2> HIDE DEF D, P
  <2> QED  BY <1>2, <2>1 DEF TypeOK
<1>15. GroupOf(p, n, order)
  <2> HIDE DEF D, P
  <2>1. /\ Len(plan'[p]) = n + n + Len(plan[p]) - 1
        /\ DOMAIN plan'[p] = 1 .. Len(plan'[p])
        /\ \A i \in 1 .. n : /\ i \in DOMAIN plan'[p] /\ plan'[p][i] = D[i]
                             /\ n + i \in DOMAIN plan'[p] /\ plan'[p][n + i] = P[i]
        /\ \A i \in 2 .. Len(plan[p]) : /\ n + n + i - 1 \in DOMAIN plan'[p]
                                        /\ plan'[p][n + n + i - 1] = plan[p][i]
        /\ \A j \in DOMAIN plan'[p] :
                \/ j \in 1 .. n
                \/ \E i \in 1 .. n : j = n + i
                \/ \E i \in 2 .. Len(plan[p]) : j = n + n + i - 1
    <3>1. plan[p] \in Seq(PlanItem) /\ plan[p] # <<>>
      BY <1>1, <1>2
    <3>2. Splices(plan'[p], n, D, P, plan[p])
      BY <3>1, <1>13, <1>14, Spliced
    <3> QED  BY <3>2 DEF Splices
  <2>2. Calls(p)' = DOMAIN plan'[p]
    BY DEF Calls
  <2>3. \A i \in 1 .. n : ~Purges(p, i)' /\ plan'[p][i].op # "group"
                            /\ plan'[p][i].rec = order[i]
    BY <1>12, <2>1 DEF Purges
  <2>4. \A i \in 1 .. n : Purges(p, n + i)' /\ plan'[p][n + i].rec = order[i]
                            /\ plan'[p][n + i].msgs = OfRecord(indexed, order[i])
    <3> SUFFICES ASSUME NEW i \in 1 .. n
                 PROVE  /\ Purges(p, n + i)' /\ plan'[p][n + i].rec = order[i]
                        /\ plan'[p][n + i].msgs = OfRecord(indexed, order[i])
      OBVIOUS
    <3>1. plan'[p][n + i] = P[i]
      BY <2>1
    <3>2. P[i].op = "purge" /\ P[i].rec = order[i] /\ P[i].msgs = OfRecord(indexed, order[i])
      BY <1>12
    <3> QED  BY <3>1, <3>2 DEF Purges
  <2>5. \A i \in 1 .. n : i \in Calls(p)' /\ n + i \in Calls(p)'
    BY <2>1, <2>2
  <2>6. \A i \in 2 .. Len(plan[p]) :
            n + n + i - 1 \in Calls(p)' /\ plan'[p][n + n + i - 1] = plan[p][i]
    BY <2>1, <2>2
  <2>7. \A j \in Calls(p)' : \/ j \in 1 .. n
                             \/ \E i \in 1 .. n : j = n + i
                             \/ \E i \in 2 .. Len(plan[p]) : j = n + n + i - 1
    BY <2>1, <2>2, Zenon
  <2>8. Calls(p)' = 1 .. Len(plan'[p]) /\ Len(plan'[p]) = n + n + Len(plan[p]) - 1
    BY <2>1, <2>2
  <2> QED  BY <2>3, <2>4, <2>5, <2>6, <2>7, <2>8 DEF GroupOf
<1>16. order \in [1 .. n -> Record]
  BY <1>6, <1>8
<1>17. \A q : Exists(q) /\ Par(q) = plan[p][1].rec <=> \E i \in 1 .. n : order[i] = q
  BY <1>6, <1>8, <1>9, <1>r
<1> QED  BY <1>7, <1>8, <1>15, <1>16, <1>17

\* What is below the record that the first call is for: not the pruned record, not a
\* record of another call, and nothing that was purged.
LEMMA GroupIsNew ==
    ASSUME NEW p, Serial(p), SerialInv(p), PurgeGroup(p), NEW q, Exists(q),
           Par(q) = plan[p][1].rec
    PROVE  /\ q # Par(q) /\ q # req[p].rec /\ q \notin purged
           /\ \A i \in Calls(p) : plan[p][i].rec # q
<1>1. /\ pc[p] = "purge" /\ pc[p] \in Purge0
      /\ plan[p] # <<>> /\ Head(plan[p]).op = "group"
  BY HoldingIs DEF PurgeGroup
<1>2. /\ TypeOK /\ PlanInv(p) /\ Forest(p) /\ plan[p] \in Seq(PlanItem)
      /\ Calls(p) = 1 .. Len(plan[p]) /\ Len(plan[p]) \in Nat
      /\ \A r \in purged : ~Exists(r)
  BY <1>1, PruningIs, BetweenCalls
<1>3. 1 \in Calls(p) /\ ~Purges(p, 1) /\ EnterCall(p, 1)
  <2>1. 1 \in Calls(p) /\ Head(plan[p]) = plan[p][1]
    BY <1>1, <1>2
  <2> QED  BY <1>1, <1>2, <2>1 DEF PlanInv, Purges
<1>4. q \in Record
  BY <1>2, Kinds DEF Exists, TypeOK
<1>5. q # Par(q)
  BY <1>2, <1>4, NotOwnParent
<1>6. q # req[p].rec
  <2>1. /\ Par(req[p].rec) # req[p].rec
        /\ \A i \in Calls(p) : Purges(p, i) => Par(req[p].rec) # plan[p][i].rec
    BY <1>1, RootIsOnTop
  <2>2. \/ plan[p][1].rec = req[p].rec
        \/ \E j \in Calls(p) : Is(p, j, "purge", plan[p][1].rec)
    BY <1>3 DEF EnterCall
  <2> QED  BY <2>1, <2>2 DEF Is, Purges
<1>7. \A j \in Calls(p) : ~Is(p, j, "purge", q)
  BY <1>3 DEF EnterCall, Is, Purges
<1>8. ASSUME NEW i \in Calls(p), plan[p][i].rec = q
      PROVE  FALSE
  <2>1. CASE Purges(p, i)
    BY <1>7, <1>8, <2>1 DEF Is, Purges
  <2>2. CASE ~Purges(p, i)
    <3>1. EnterCall(p, i)
      BY <1>2, <2>2 DEF PlanInv
    <3> QED  BY <1>6, <1>7, <1>8, <3>1 DEF EnterCall
  <2> QED  BY <2>1, <2>2
<1> QED  BY <1>2, <1>5, <1>6, <1>8

\* The children of a record take their place in the plan.
LEMMA SerialGroup ==
    ASSUME NEW p, Serial(p), SerialInv(p), StoreInv', PurgeGroup(p)
    PROVE  SerialInv(p)'
<1>0. /\ pc[p] = "purge" /\ pc[p] \in Purge0 /\ plan[p] # <<>> /\ Head(plan[p]).op = "group"
      /\ UNCHANGED message
      /\ UNCHANGED <<pc, req, stream, existing, todo, cur, resuming, resumed, opening>>
  BY HoldingIs DEF PurgeGroup, stores, history, message
<1>a. PICK root \in Record : root = req[p].rec
  BY <1>0, PruningIs
<1>1. /\ p \in Procs /\ TypeOK /\ PlanInv(p) /\ plan[p] \in Seq(PlanItem) /\ root = req[p].rec
      /\ Calls(p) = 1 .. Len(plan[p]) /\ Len(plan[p]) \in Nat
      /\ UNCHANGED <<indexed, purged, req, pc>>
  BY <1>0, <1>a, PruningIs DEF message
<1>2. 1 \in Calls(p) /\ ~Purges(p, 1) /\ EnterCall(p, 1) /\ plan[p][1].op = "group"
  <2>1. 1 \in Calls(p) /\ Head(plan[p]) = plan[p][1]
    BY <1>0, <1>1
  <2> QED  BY <1>0, <1>1, <2>1 DEF PlanInv, Purges
<1>b. PICK r \in Record : r = plan[p][1].rec
  BY <1>0, <1>2, PruningIs
<1>c. PICK n \in Nat : \E order \in [1 .. n -> Record] :
            /\ \A i, j \in 1 .. n : order[i] = order[j] => i = j
            /\ \A q : Exists(q) /\ Par(q) = plan[p][1].rec <=> \E i \in 1 .. n : order[i] = q
            /\ GroupOf(p, n, order)
  BY GroupCalls
<1>d. PICK order \in [1 .. n -> Record] :
            /\ \A i, j \in 1 .. n : order[i] = order[j] => i = j
            /\ \A q : Exists(q) /\ Par(q) = r <=> \E i \in 1 .. n : order[i] = q
            /\ GroupOf(p, n, order)
  BY <1>b, <1>c
\* Where the calls are now.
<1>3. /\ Calls(p)' = 1 .. Len(plan'[p]) /\ Len(plan'[p]) = n + n + Len(plan[p]) - 1
      /\ \A i \in 1 .. n : /\ i \in Calls(p)' /\ n + i \in Calls(p)' /\ i < n + i
                           /\ ~Purges(p, i)' /\ plan'[p][i].op # "group"
                           /\ plan'[p][i].rec = order[i]
                           /\ Purges(p, n + i)' /\ plan'[p][n + i].rec = order[i]
                           /\ plan'[p][n + i].msgs = OfRecord(indexed, order[i])
  <2>1. \A i \in 1 .. n : i < n + i
    BY <1>c
  <2> QED  BY <1>d, <2>1 DEF GroupOf
<1> DEFINE new(i) == n + n + i - 1
<1>4. ASSUME NEW i \in Calls(p), i # 1
      PROVE  /\ new(i) \in Calls(p)' /\ plan'[p][new(i)] = plan[p][i]
             /\ new(i) \in Nat /\ i \in Nat
             /\ \A j \in 1 .. n : n + j < new(i)
             /\ \A j \in Calls(p) : i < j => new(i) < new(j)
             /\ \A j \in Calls(p) : new(j) = new(i) => j = i
             /\ new(i) < Len(plan'[p]) + 1
  <2>1. i \in 2 .. Len(plan[p])
    BY <1>1, <1>4
  <2>2. new(i) \in Calls(p)' /\ plan'[p][new(i)] = plan[p][i]
    BY <1>d, <2>1 DEF GroupOf
  <2> QED  BY <1>1, <1>3, <2>1, <2>2
<1>5. ASSUME NEW j \in Calls(p)'
      PROVE  \/ j \in 1 .. n
             \/ \E i \in 1 .. n : j = n + i
             \/ \E i \in Calls(p) : i # 1 /\ j = new(i)
  <2>1. \A i \in 2 .. Len(plan[p]) : i \in Calls(p) /\ i # 1
    BY <1>1
  <2>2. \/ j \in 1 .. n
        \/ \E i \in 1 .. n : j = n + i
        \/ \E i \in 2 .. Len(plan[p]) : j = new(i)
    BY <1>d DEF GroupOf
  <2> QED  BY <2>1, <2>2
<1> HIDE DEF new
<1>6. ASSUME NEW i \in Calls(p), i # 1
      PROVE  /\ Purges(p, new(i))' <=> Purges(p, i)
             /\ \A q : Is(p, new(i), "purge", q)' <=> Is(p, i, "purge", q)
             /\ \A q : Enters(p, new(i), q)' <=> Enters(p, i, q)
  <2>1. PICK j \in Nat : j = new(i)
    BY <1>4, <1>6
  <2>2. plan'[p][j] = plan[p][i]
    BY <1>4, <1>6, <2>1
  <2>3. /\ Purges(p, j)' <=> Purges(p, i)
        /\ \A q : Is(p, j, "purge", q)' <=> Is(p, i, "purge", q)
        /\ \A q : Enters(p, j, q)' <=> Enters(p, i, q)
    BY <2>2 DEF Purges, Is, Enters
  <2> QED  BY <2>1, <2>3 DEF new
<1>7. \A q : ~Is(p, 1, "purge", q)
  BY <1>2 DEF Is, Purges
<1>8. \A i \in 1 .. n : /\ Exists(order[i]) /\ Par(order[i]) = r
                        /\ order[i] # r /\ order[i] # root /\ order[i] \notin purged
                        /\ \A j \in Calls(p) : plan[p][j].rec # order[i]
  <2> TAKE i \in 1 .. n
  <2>1. Exists(order[i]) /\ Par(order[i]) = r
    BY <1>d
  <2>2. PICK k : k = order[i]
    OBVIOUS
  <2>3. Exists(k) /\ Par(k) = plan[p][1].rec
    BY <1>b, <2>1, <2>2
  <2>4. /\ k # Par(k) /\ k # req[p].rec /\ k \notin purged
        /\ \A j \in Calls(p) : plan[p][j].rec # k
    BY <2>3, GroupIsNew
  <2> QED  BY <1>1, <2>1, <2>2, <2>4
<1>9. \A q : (\E i \in Calls(p) : Is(p, i, "purge", q)) =>
            (\E i \in Calls(p)' : Is(p, i, "purge", q)')
  BY <1>4, <1>6, <1>7
\* The records of the calls at the end.
<1>10. ASSUME NEW i \in Calls(p), i # 1, ~Purges(p, i)
       PROVE  plan[p][i].rec # r /\ plan[p][i].op # "group" /\ EnterCall(p, i)
  <2>1. EnterCall(p, i)
    BY <1>1, <1>10 DEF PlanInv
  <2>2. plan[p][i].rec # plan[p][1].rec
    BY <1>1, <1>2, <1>10 DEF PlanInv
  <2> QED  BY <1>b, <1>10, <2>1, <2>2 DEF EnterCall
<1>11. ASSUME NEW i \in Calls(p), Purges(p, i)
       PROVE  i # 1 /\ Par(plan[p][i].rec) # r /\ PurgeCall(p, i)
  BY <1>1, <1>2, <1>b, <1>11 DEF PlanInv, EnterCall
\* A purge that comes after a call still does.
<1>12. ASSUME NEW i \in Calls(p), NEW q, \E j \in Calls(p) : j > i /\ Is(p, j, "purge", q)
       PROVE  /\ i # 1 => \E j \in Calls(p)' : j > new(i) /\ Is(p, j, "purge", q)'
              /\ i = 1 => \A k \in 1 .. n :
                    \E j \in Calls(p)' : j > n + k /\ Is(p, j, "purge", q)'
  <2>1. PICK j \in Calls(p) : j > i /\ Is(p, j, "purge", q)
    BY <1>12
  <2>2. j # 1
    BY <1>1, <2>1
  <2>3. new(j) \in Calls(p)' /\ Is(p, new(j), "purge", q)' /\ new(j) \in Int
    BY <1>4, <1>6, <2>1, <2>2
  <2>4. i # 1 => new(i) < new(j) /\ new(i) \in Int
    BY <1>1, <1>4, <2>1
  <2>5. i = 1 => \A k \in 1 .. n : n + k < new(j)
    BY <1>4, <2>2
  <2>6. i # 1 => new(j) > new(i)
    BY <2>3, <2>4
  <2>7. i = 1 => \A k \in 1 .. n : new(j) > n + k
    BY <2>3, <2>5
  <2> QED  BY <2>3, <2>6, <2>7
\* What is below a record that was covered is covered.
<1>13. ASSUME NEW q, NEW x \in indexed, Par(x.rec) = q, NEW i \in Calls(p),
              Is(p, i, "purge", x.rec) \/ Enters(p, i, q)
       PROVE  \/ i # 1 /\ (Is(p, new(i), "purge", x.rec)' \/ Enters(p, new(i), q)')
              \/ i = 1 /\ \E k \in 1 .. n : Is(p, n + k, "purge", x.rec)'
  <2>1. CASE i # 1
    BY <1>6, <1>13, <2>1
  <2>2. CASE i = 1
    <3>1. q = r
      BY <1>7, <1>b, <1>13, <2>2 DEF Enters
    <3>2. Exists(x.rec)
      BY DEF Exists
    <3>3. PICK k \in 1 .. n : order[k] = x.rec
      BY <1>d, <1>13, <3>1, <3>2
    <3>4. Is(p, n + k, "purge", x.rec)'
      BY <1>3, <3>3 DEF Is, Purges
    <3> QED  BY <2>2, <3>4
  <2> QED  BY <2>1, <2>2
\* What the new plan purges: children, and what the old plan did.
<1>14. ASSUME NEW j \in Calls(p)', Purges(p, j)'
       PROVE  \/ \E k \in 1 .. n : j = n + k /\ plan'[p][j].rec = order[k]
              \/ \E i \in Calls(p) : /\ i # 1 /\ j = new(i) /\ Purges(p, i)
                                     /\ plan'[p][j].rec = plan[p][i].rec
  <2>1. CASE j \in 1 .. n
    BY <1>3, <1>14, <2>1
  <2>2. CASE \E k \in 1 .. n : j = n + k
    BY <1>3, <2>2
  <2>3. CASE \E i \in Calls(p) : i # 1 /\ j = new(i)
    <3>1. PICK i \in Calls(p) : i # 1 /\ j = new(i)
      BY <2>3
    <3>2. Purges(p, i) /\ plan'[p][j].rec = plan[p][i].rec
      BY <1>4, <1>6, <1>14, <3>1
    <3> QED  BY <3>1, <3>2
  <2> QED  BY <1>5, <2>1, <2>2, <2>3
<1>15. ASSUME NEW k \in 1 .. n
       PROVE  EnterCall(p, k)'
  <2>1. PICK q \in Record : q = order[k]
    BY <1>d
  <2>2. n + k \in Calls(p)' /\ n + k > k /\ Is(p, n + k, "purge", q)'
    <3>1. k < n + k /\ k \in Int
      BY <1>3
    <3>2. n + k \in Calls(p)' /\ Is(p, n + k, "purge", q)'
      BY <1>3, <2>1 DEF Is, Purges
    <3> QED  BY <3>1, <3>2
  <2>3. ASSUME NEW j \in Calls(p)', Purges(p, j)'
        PROVE  Par(plan'[p][j].rec) # q
    <3>1. CASE \E l \in 1 .. n : plan'[p][j].rec = order[l]
      BY <1>8, <2>1, <3>1
    <3>2. CASE \E i \in Calls(p) : Purges(p, i) /\ plan'[p][j].rec = plan[p][i].rec
      <4>1. PICK i \in Calls(p) : Purges(p, i) /\ plan'[p][j].rec = plan[p][i].rec
        BY <3>2
      <4>2. \/ Par(plan[p][i].rec) = root
            \/ \E l \in Calls(p) : plan[p][l].rec = Par(plan[p][i].rec)
        BY <1>1, <1>11, <4>1 DEF PurgeCall, Is
      <4> QED  BY <1>8, <2>1, <4>1, <4>2
    <3> QED  BY <1>14, <2>3, <3>1, <3>2
  <2>4. plan'[p][k].rec = q /\ plan'[p][k].op # "group"
    BY <1>3, <2>1
  <2> QED  BY <1>1, <2>2, <2>3, <2>4 DEF EnterCall
<1>16. ASSUME NEW k \in 1 .. n
       PROVE  PurgeCall(p, n + k)'
  <2>1. PICK q \in Record : q = order[k]
    BY <1>d
  <2>2. /\ plan'[p][n + k].rec = q /\ q # root /\ q \notin purged /\ Exists(q)
        /\ Par(q) = r /\ plan'[p][n + k].msgs = OfRecord(indexed, q)
    BY <1>3, <1>8, <2>1
  <2>3. \/ r = root
        \/ \E j \in Calls(p)' : j > n + k /\ Is(p, j, "purge", r)'
    <3>1. \/ r = root
          \/ \E j \in Calls(p) : j > 1 /\ Is(p, j, "purge", r)
      BY <1>1, <1>2, <1>b DEF EnterCall
    <3> QED  BY <1>2, <1>12, <3>1
  <2>4. Exists(q)' /\ q \notin purged' /\ OfRecord(indexed, q)' = OfRecord(indexed, q)
    BY <1>1, <2>2 DEF Exists, OfRecord
  <2> QED  BY <1>1, <2>2, <2>3, <2>4 DEF PurgeCall
<1>17. ASSUME NEW i \in Calls(p), i # 1, ~Purges(p, i)
       PROVE  EnterCall(p, new(i))'
  <2>1. PICK j \in Nat : j = new(i)
    BY <1>4, <1>17
  <2>2. PICK q \in Record : q = plan[p][i].rec
    BY <1>0, PruningIs
  <2>3. plan'[p][j].rec = q /\ plan'[p][j].op # "group"
    BY <1>4, <1>10, <1>17, <2>1, <2>2
  <2>4. \/ q = root
        \/ \E l \in Calls(p)' : l > j /\ Is(p, l, "purge", q)'
    <3>1. \/ q = root
          \/ \E l \in Calls(p) : l > i /\ Is(p, l, "purge", q)
      BY <1>1, <1>10, <1>17, <2>2 DEF EnterCall
    <3> QED  BY <1>12, <1>17, <2>1, <3>1
  <2>5. ASSUME NEW l \in Calls(p)', Purges(p, l)'
        PROVE  Par(plan'[p][l].rec) # q
    <3>1. CASE \E k \in 1 .. n : plan'[p][l].rec = order[k]
      BY <1>8, <1>10, <1>17, <2>2, <3>1
    <3>2. CASE \E m \in Calls(p) : Purges(p, m) /\ plan'[p][l].rec = plan[p][m].rec
      BY <1>10, <1>17, <2>2, <3>2 DEF EnterCall
    <3> QED  BY <1>14, <2>5, <3>1, <3>2
  <2>6. EnterCall(p, j)'
    BY <1>1, <2>3, <2>4, <2>5 DEF EnterCall
  <2> QED  BY <2>1, <2>6 DEF new
<1>18. ASSUME NEW i \in Calls(p), Purges(p, i)
       PROVE  PurgeCall(p, new(i))'
  <2>0. i # 1
    BY <1>11, <1>18
  <2>1. PICK j \in Nat : j = new(i)
    BY <1>4, <2>0
  <2>2. PICK q \in Record : q = plan[p][i].rec
    BY <1>0, PruningIs
  <2>3. /\ plan'[p][j].rec = q /\ q # root /\ q \notin purged /\ Exists(q)
        /\ plan'[p][j].msgs = OfRecord(indexed, q)
    BY <1>1, <1>4, <1>11, <1>18, <2>0, <2>1, <2>2 DEF PurgeCall
  <2>4. \/ Par(q) = root
        \/ \E l \in Calls(p)' : l > j /\ Is(p, l, "purge", Par(q))'
    <3>1. PICK q1 : q1 = Par(q)
      OBVIOUS
    <3>2. \/ q1 = root
          \/ \E l \in Calls(p) : l > i /\ Is(p, l, "purge", q1)
      BY <1>1, <1>11, <1>18, <2>2, <3>1 DEF PurgeCall
    <3>3. \/ q1 = root
          \/ \E l \in Calls(p)' : l > j /\ Is(p, l, "purge", q1)'
      BY <1>12, <2>0, <2>1, <3>2
    <3> QED  BY <3>1, <3>3
  <2>5. Exists(q)' /\ q \notin purged' /\ OfRecord(indexed, q)' = OfRecord(indexed, q)
    BY <1>1, <2>3 DEF Exists, OfRecord
  <2>6. PurgeCall(p, j)'
    BY <1>1, <2>3, <2>4, <2>5 DEF PurgeCall
  <2> QED  BY <2>1, <2>6 DEF new
<1>19. (\A j \in Calls(p) : IF Purges(p, j) THEN PurgeCall(p, j) ELSE EnterCall(p, j))'
  <2> SUFFICES ASSUME NEW j \in Calls(p)'
               PROVE  IF Purges(p, j)' THEN PurgeCall(p, j)' ELSE EnterCall(p, j)'
    OBVIOUS
  <2>1. CASE j \in 1 .. n
    BY <1>3, <1>15, <2>1
  <2>2. CASE \E k \in 1 .. n : j = n + k
    <3>1. PICK k \in 1 .. n : j = n + k
      BY <2>2
    <3>2. PurgeCall(p, j)'
      BY <1>16, <3>1
    <3>3. Purges(p, j)'
      BY <1>3, <3>1
    <3> QED  BY <3>2, <3>3
  <2>3. CASE \E i \in Calls(p) : i # 1 /\ j = new(i)
    <3>1. PICK i \in Calls(p) : i # 1 /\ j = new(i)
      BY <2>3
    <3>2. Purges(p, j)' <=> Purges(p, i)
      BY <1>6, <3>1 DEF new
    <3>3. Purges(p, i) => PurgeCall(p, j)'
      BY <1>18, <3>1 DEF new
    <3>4. ~Purges(p, i) => EnterCall(p, j)'
      BY <1>17, <3>1 DEF new
    <3> QED  BY <3>2, <3>3, <3>4
  <2> QED  BY <1>5, <2>1, <2>2, <2>3
\* Where a call comes from, and for which record it is.
<1> DEFINE old(j, i) == /\ i # 1 /\ j = new(i) /\ plan'[p][j] = plan[p][i]
                        /\ Purges(p, j)' <=> Purges(p, i)
           child(j, k) == /\ plan'[p][j].rec = order[k]
                          /\ \/ j = k /\ ~Purges(p, j)'
                             \/ j = n + k /\ Purges(p, j)'
<1>20. ASSUME NEW j \in Calls(p)'
       PROVE  (\E k \in 1 .. n : child(j, k)) \/ (\E i \in Calls(p) : old(j, i))
  <2>1. CASE j \in 1 .. n
    <3>1. plan'[p][j].rec = order[j] /\ ~Purges(p, j)'
      BY <1>3, <2>1
    <3>2. child(j, j)
      BY <3>1
    <3> HIDE DEF child
    <3> QED  BY <2>1, <3>2
  <2>2. CASE \E k \in 1 .. n : j = n + k
    <3>1. PICK k \in 1 .. n : j = n + k
      BY <2>2
    <3>2. plan'[p][j].rec = order[k] /\ Purges(p, j)'
      BY <1>3, <3>1
    <3> QED  BY <3>1, <3>2
  <2>3. CASE \E i \in Calls(p) : i # 1 /\ j = new(i)
    <3>1. PICK i \in Calls(p) : i # 1 /\ j = new(i)
      BY <2>3
    <3>2. plan'[p][j] = plan[p][i]
      BY <1>4, <3>1
    <3>3. Purges(p, j)' <=> Purges(p, i)
      BY <1>6, <3>1 DEF new
    <3> QED  BY <3>1, <3>2, <3>3
  <2> QED  BY <1>5, <2>1, <2>2, <2>3
<1>21. (\A i, j \in Calls(p) : i # j /\ plan[p][i].rec = plan[p][j].rec =>
            (Purges(p, i) <=> ~Purges(p, j)))'
  <2> SUFFICES ASSUME NEW i \in Calls(p)', NEW j \in Calls(p)', i # j,
                      plan'[p][i].rec = plan'[p][j].rec
               PROVE  Purges(p, i)' <=> ~Purges(p, j)'
    OBVIOUS
  <2>1. ASSUME NEW k \in 1 .. n, child(i, k), NEW l \in 1 .. n, child(j, l)
        PROVE  Purges(p, i)' <=> ~Purges(p, j)'
    <3>1. k = l
      BY <1>d, <2>1
    <3> QED  BY <2>1, <3>1
  <2>2. ASSUME NEW k \in 1 .. n, NEW l \in Calls(p),
               (child(i, k) /\ old(j, l)) \/ (child(j, k) /\ old(i, l))
        PROVE  FALSE
    BY <1>8, <2>2
  <2>3. ASSUME NEW k \in Calls(p), old(i, k), NEW l \in Calls(p), old(j, l)
        PROVE  Purges(p, i)' <=> ~Purges(p, j)'
    <3>1. k # l /\ plan[p][k].rec = plan[p][l].rec
      BY <2>3
    <3>2. Purges(p, k) <=> ~Purges(p, l)
      BY <1>1, <3>1 DEF PlanInv
    <3> QED  BY <2>3, <3>2
  <2>4. (\E k \in 1 .. n : child(i, k)) \/ (\E k \in Calls(p) : old(i, k))
    BY <1>20
  <2>5. (\E k \in 1 .. n : child(j, k)) \/ (\E k \in Calls(p) : old(j, k))
    BY <1>20
  <2> HIDE DEF child, old
  <2>6. CASE \E k \in 1 .. n : child(i, k)
    <3>1. PICK k \in 1 .. n : child(i, k)
      BY <2>6
    <3>2. CASE \E l \in 1 .. n : child(j, l)
      BY <2>1, <3>1, <3>2
    <3>3. CASE \E l \in Calls(p) : old(j, l)
      BY <2>2, <3>1, <3>3
    <3> QED  BY <2>5, <3>2, <3>3
  <2>7. CASE \E k \in Calls(p) : old(i, k)
    <3>1. PICK k \in Calls(p) : old(i, k)
      BY <2>7
    <3>2. CASE \E l \in 1 .. n : child(j, l)
      BY <2>2, <3>1, <3>2
    <3>3. CASE \E l \in Calls(p) : old(j, l)
      BY <2>3, <3>1, <3>3
    <3> QED  BY <2>5, <3>2, <3>3
  <2> QED  BY <2>4, <2>6, <2>7
<1>22. Covers(p, req[p].rec, Len(plan[p]) + 1)'
  <2>1. Covers(p, root, Len(plan[p]) + 1)
    BY <1>1 DEF PlanInv
  <2>2. ASSUME NEW x \in indexed, Par(x.rec) = root, x.rec \notin purged
        PROVE  \E l \in Calls(p)' : /\ l < Len(plan'[p]) + 1
                                    /\ \/ Is(p, l, "purge", x.rec)'
                                       \/ Enters(p, l, root)'
    <3>1. PICK i \in Calls(p) : Is(p, i, "purge", x.rec) \/ Enters(p, i, root)
      BY <2>1, <2>2 DEF Covers
    <3>2. CASE i # 1 /\ (Is(p, new(i), "purge", x.rec)' \/ Enters(p, new(i), root)')
      BY <1>4, <3>2
    <3>3. CASE i = 1 /\ \E k \in 1 .. n : Is(p, n + k, "purge", x.rec)'
      <4>1. PICK k \in 1 .. n : Is(p, n + k, "purge", x.rec)'
        BY <3>3
      <4>2. n + k \in Calls(p)' /\ n + k < Len(plan'[p]) + 1
        BY <1>3
      <4> QED  BY <4>1, <4>2
    <3> QED  BY <1>13, <2>2, <3>1, <3>2, <3>3
  <2> QED  BY <1>1, <2>2 DEF Covers
<1>23. ASSUME NEW j \in Calls(p)', NEW k \in 1 .. n, plan'[p][j].rec = order[k], j = n + k
       PROVE  Covers(p, plan[p][j].rec, j)'
  <2>1. PICK q \in Record : q = order[k]
    BY <1>d
  <2>2. k \in Calls(p)' /\ k < j /\ Enters(p, k, q)'
    BY <1>3, <1>23, <2>1 DEF Enters
  <2>3. plan'[p][j].rec = q
    BY <1>23, <2>1
  <2> QED  BY <2>2, <2>3 DEF Covers
<1>24. ASSUME NEW j \in Calls(p)', NEW i \in Calls(p), Purges(p, i), i # 1, j = new(i),
              plan'[p][j] = plan[p][i]
       PROVE  Covers(p, plan[p][j].rec, j)'
  <2>1. PICK q \in Record : q = plan[p][i].rec
    BY <1>0, PruningIs
  <2>2. plan'[p][j].rec = q
    BY <1>24, <2>1
  <2>3. Covers(p, q, i)
    BY <1>1, <1>24, <2>1 DEF PlanInv
  <2>4. ASSUME NEW x \in indexed, Par(x.rec) = q, x.rec \notin purged
        PROVE  \E l \in Calls(p)' : l < j /\ (Is(p, l, "purge", x.rec)' \/ Enters(p, l, q)')
    <3>1. PICK h \in Calls(p) : h < i /\ (Is(p, h, "purge", x.rec) \/ Enters(p, h, q))
      BY <2>3, <2>4 DEF Covers
    <3>2. CASE h # 1 /\ (Is(p, new(h), "purge", x.rec)' \/ Enters(p, new(h), q)')
      BY <1>4, <1>24, <3>1, <3>2
    <3>3. CASE h = 1 /\ \E k \in 1 .. n : Is(p, n + k, "purge", x.rec)'
      BY <1>3, <1>4, <1>24, <3>3
    <3> QED  BY <1>13, <2>4, <3>1, <3>2, <3>3
  <2> QED  BY <1>1, <2>2, <2>4 DEF Covers
<1>25. (\A j \in Calls(p) : Purges(p, j) => Covers(p, plan[p][j].rec, j))'
  <2> SUFFICES ASSUME NEW j \in Calls(p)', Purges(p, j)'
               PROVE  Covers(p, plan[p][j].rec, j)'
    OBVIOUS
  <2>1. CASE \E k \in 1 .. n : child(j, k)
    BY <1>23, <2>1
  <2>2. CASE \E i \in Calls(p) : old(j, i)
    BY <1>24, <2>2
  <2> QED  BY <1>20, <2>1, <2>2
<1>26. PlanInv(p)'
  <2>1. (IsDelete(req[p]) /\ req[p].prune)' /\ (\A x \in indexed : Par(x.rec) \notin purged)'
    BY <1>1 DEF PlanInv
  <2> QED  BY <1>19, <1>21, <1>22, <1>25, <2>1 DEF PlanInv
<1> QED  BY <1>0, <1>9, <1>26, PlanStep

\* The record that is half purged, and all others.
LEMMA VanishingIs ==
    ASSUME NEW p, Serial(p), SerialInv(p), pc[p] \in Purging,
           NEW k \in Record, Vanishing(p, k)
    PROVE  /\ k \in purged /\ k # req[p].rec
           /\ \A r \in Record \ {k, req[p].rec} : AtRest(r)
           /\ \A r \in purged : Exists(r) => r = k
           /\ \A i \in Calls(p) : plan[p][i].op # "group"
<1>0. pc[p] \in Purge0 /\ pc[p] # "purge"
  BY HoldingIs DEF Purging
<1>1. TypeOK /\ Forest(p) /\ PlanInv(p)
  BY <1>0, PruningIs
<1>2. ASSUME NEW r \in Record, Vanishing(p, r), Exists(r)
      PROVE  \A q \in Record : Vanishing(p, q) => q = r
  <2>1. PICK x \in indexed : x.rec = r
    BY <1>2 DEF Exists
  <2>2. x \in todo[p] \/ (pc[p] = "purgeIndex" /\ cur[p].rec = r)
    BY <1>1, <1>2, <2>1 DEF Vanishing, TypeOK
  <2> QED  BY <1>2, <2>1, <2>2 DEF Vanishing
<1>3. \A r \in purged : Exists(r) => r = k
  <2> SUFFICES ASSUME NEW r \in purged, Exists(r) PROVE r = k
    OBVIOUS
  <2>1. r \in Record /\ Vanishing(p, r)
    BY <1>1 DEF Forest, TypeOK
  <2> QED  BY <1>2, <2>1
<1>4. \A r \in Record \ {k, req[p].rec} : AtRest(r)
  <2>1. PICK q \in Record : /\ Vanishing(p, q)
                            /\ \A r \in Record \ {q, req[p].rec} : AtRest(r)
    BY DEF SerialInv
  <2>2. CASE q = k
    BY <2>1, <2>2
  <2>3. CASE q # k
    <3>1. ~Exists(q) /\ ~Exists(k)
      BY <1>2, <2>1, <2>3
    <3>2. AtRest(q)
      <4>1. \A x \in Message : x.rec = q =>
                x \notin indexed /\ x \notin todo[p] /\ x \notin latest
                /\ x \notin blocks /\ x \notin events
        BY <2>1, <3>1 DEF Vanishing, Exists
      <4>2. q \in purged /\ \A c \in DataCid \cup {NoData} : <<q, c>> \notin data
        BY <2>1 DEF Vanishing
      <4>3. \A c \in DataCid \cup {NoData} : ~Owes(q, c)
        BY <1>1, <4>1 DEF Owes, TypeOK
      <4> QED  BY <1>1, <4>1, <4>2, <4>3 DEF AtRest, TypeOK
    <3> QED  BY <2>1, <3>2
  <2> QED  BY <2>2, <2>3
<1>5. \A i \in Calls(p) : plan[p][i].op # "group"
  <2> SUFFICES ASSUME NEW i \in Calls(p), plan[p][i].op = "group" PROVE FALSE
    OBVIOUS
  <2>1. EnterCall(p, i)
    BY <1>1 DEF PlanInv, Purges
  <2> QED  BY <1>0, <2>1 DEF EnterCall
<1> QED  BY <1>3, <1>4, <1>5 DEF Vanishing

\* A step of the purge of a record.
LEMMA PurgeStep ==
    ASSUME NEW p, Serial(p), SerialInv(p), StoreInv',
           pc[p] \in Purging, pc'[p] \in Purge0, NEW k \in Record, Vanishing(p, k),
           UNCHANGED <<data, emitted, purged, req, stream, existing, plan, resuming, resumed,
                       opening>>,
           \A x \in Message : x.rec # k =>
                /\ x \in blocks' <=> x \in blocks
                /\ x \in indexed' <=> x \in indexed
                /\ x \in events' <=> x \in events
                /\ x \in latest' <=> x \in latest,
           indexed' \subseteq indexed,
           pc'[p] \in Purging => Vanishing(p, k)',
           pc'[p] = "purge" => AtRest(k)' /\ ~Exists(k)'
    PROVE  SerialInv(p)'
<1>0. /\ pc[p] \in Purge0 /\ pc[p] # "purge" /\ (pc'[p] # "purge" => pc'[p] \in Purging)
      /\ (pc'[p] = "purge" => pc'[p] \notin Purging)
      /\ pc'[p] \in Busy /\ pc'[p] # "unwind" /\ pc'[p] \notin Calm
  BY HoldingIs DEF Purging, Purge0, Busy, Calm
<1>r. PICK root \in Record : root = req[p].rec
  BY <1>0, PruningIs
<1>1. /\ p \in Procs /\ TypeOK /\ TypeOK' /\ InHand(p) /\ Forest(p) /\ PlanInv(p) /\ ~opening
      /\ root = req[p].rec /\ indexed \subseteq Message /\ UNCHANGED <<purged, plan, req>>
      /\ \A i \in Calls(p) : plan[p][i].rec \in Record
  BY <1>0, <1>r, PruningIs DEF TypeOK, StoreInv
<1>2. /\ k \in purged /\ k # root
      /\ \A r \in Record \ {k, root} : AtRest(r)
      /\ \A r \in purged : Exists(r) => r = k
      /\ \A i \in Calls(p) : plan[p][i].op # "group"
  BY <1>1, VanishingIs
<1>3. \A r \in Record \ {k} : Untouched(r)
  BY DEF Untouched
<1>4. InHand(p)'
  <2>1. Untouched(req[p].rec)
    BY <1>1, <1>2, <1>3
  <2>2. req[p].rec \notin purged'
    BY <1>1 DEF InHand
  <2>3. pc'[p] \in Purge0
    OBVIOUS
  <2> QED  BY <1>0, <1>1, <2>1, <2>2, <2>3, PruneHolds
<1>5. \A r \in Record \ {k, root} : AtRest(r)'
  BY <1>1, <1>2, <1>3, RestKept
<1>6. \A q : q # k => (Exists(q)' <=> Exists(q))
  BY <1>1 DEF Exists
<1>7. \A q : Exists(q)' => Exists(q)
  BY DEF Exists
<1>8. \A x \in indexed' : x \in indexed /\ Par(x.rec) # k
  BY <1>1, <1>2 DEF PlanInv
<1>9. /\ Calls(p)' = Calls(p)
      /\ \A i \in Calls(p) : /\ plan'[p][i] = plan[p][i]
                             /\ Purges(p, i)' <=> Purges(p, i)
                             /\ \A q : Is(p, i, "purge", q)' <=> Is(p, i, "purge", q)
                             /\ \A q : Enters(p, i, q)' <=> Enters(p, i, q)
  BY <1>1 DEF Calls, Purges, Is, Enters
<1>10. Forest(p)'
  <2>1. (\A x \in indexed : Par(x.rec) # NoRecord => Exists(Par(x.rec)))'
    <3> SUFFICES ASSUME NEW x \in indexed', Par(x.rec) # NoRecord
                 PROVE  Exists(Par(x.rec))'
      OBVIOUS
    <3>1. PICK q : q = Par(x.rec)
      OBVIOUS
    <3>2. q # k /\ Exists(q)
      BY <1>1, <1>8, <3>1 DEF Forest
    <3>3. Exists(q)'
      BY <1>6, <3>2
    <3> QED  BY <3>1, <3>3 DEF Exists
  <2>2. (\A T \in SUBSET Record :
        T # {} /\ (\A r \in T : Exists(r)) => \E r \in T : Par(r) \notin T)'
    BY <1>1, <1>7 DEF Forest
  <2>3. (\A r \in purged :
        /\ Par(r) \in Record
        /\ Exists(r) => pc[p] \in Purging /\ Vanishing(p, r)
        /\ \/ Par(r) \in purged
           \/ \E d \in indexed : d.rec = Par(r) /\ IsDelete(d)
           \/ /\ pc[p] \in Purge0
              /\ \E i \in Calls(p) : Is(p, i, "purge", Par(r)))'
    <3> SUFFICES ASSUME NEW r \in purged
                 PROVE  /\ Par(r) \in Record
                        /\ Exists(r)' => r = k /\ pc'[p] # "purge"
                        /\ \/ Par(r) \in purged
                           \/ \E d \in indexed' : d.rec = Par(r) /\ IsDelete(d)
                           \/ \E i \in Calls(p)' : Is(p, i, "purge", Par(r))'
      BY <1>0, <1>1
    <3>1. /\ Par(r) \in Record
          /\ \/ Par(r) \in purged
             \/ \E d \in indexed : d.rec = Par(r) /\ IsDelete(d)
             \/ \E i \in Calls(p) : Is(p, i, "purge", Par(r))
      BY <1>1 DEF Forest
    <3>2. Exists(r)' => r = k /\ pc'[p] # "purge"
      BY <1>2, <1>7
    <3>3. ASSUME NEW d \in indexed, d.rec = Par(r), IsDelete(d)
          PROVE  \/ Par(r) \in purged
                 \/ \E e \in indexed' : e.rec = Par(r) /\ IsDelete(e)
      BY <1>1, <1>2, <3>3
    <3>4. ASSUME NEW i \in Calls(p), Is(p, i, "purge", Par(r))
          PROVE  i \in Calls(p)' /\ Is(p, i, "purge", Par(r))'
      BY <1>9, <3>4
    <3> QED  BY <3>1, <3>2, <3>3, <3>4
  <2>4. (\A d \in indexed :
        IsDelete(d) /\ d.prune /\ ~(d = req[p] /\ pc[p] \in Purge0 \cup {"append"}) =>
            \A x \in indexed : Par(x.rec) # d.rec)'
    BY <1>0, <1>1, <1>8 DEF Forest
  <2> QED  BY <2>1, <2>2, <2>3, <2>4 DEF Forest
<1>11. PlanInv(p)'
  <2>1. (IsDelete(req[p]) /\ req[p].prune)' /\ (\A x \in indexed : Par(x.rec) \notin purged)'
    BY <1>1, <1>8 DEF PlanInv
  <2>2. ASSUME NEW i \in Calls(p), Purges(p, i) PROVE PurgeCall(p, i)'
    <3>1. PICK q \in Record : q = plan[p][i].rec
      BY <1>1
    <3>2. PurgeCall(p, i)
      BY <1>1, <2>2 DEF PlanInv
    <3>3. q # root /\ q \notin purged /\ Exists(q) /\ plan[p][i].msgs = OfRecord(indexed, q)
      BY <1>1, <3>1, <3>2 DEF PurgeCall
    <3>4. Exists(q)' /\ OfRecord(indexed, q)' = OfRecord(indexed, q)
      BY <1>1, <1>2, <1>6, <3>3 DEF OfRecord
    <3>5. (\/ Par(q) = root
           \/ \E j \in Calls(p) : j > i /\ Is(p, j, "purge", Par(q)))'
      BY <1>1, <1>9, <3>1, <3>2 DEF PurgeCall
    <3> QED  BY <1>1, <1>9, <3>1, <3>3, <3>4, <3>5 DEF PurgeCall
  <2>3. ASSUME NEW i \in Calls(p), ~Purges(p, i) PROVE EnterCall(p, i)'
    <3>1. EnterCall(p, i)
      BY <1>1, <2>3 DEF PlanInv
    <3> QED  BY <1>1, <1>2, <1>9, <3>1 DEF EnterCall
  <2>4. (\A i, j \in Calls(p) : i # j /\ plan[p][i].rec = plan[p][j].rec =>
            (Purges(p, i) <=> ~Purges(p, j)))'
    BY <1>1, <1>9 DEF PlanInv
  <2>5. \A q, j : Covers(p, q, j) => Covers(p, q, j)'
    BY <1>1, <1>8, <1>9 DEF Covers
  <2>6. Covers(p, req[p].rec, Len(plan[p]) + 1)'
    BY <1>1, <2>5 DEF PlanInv
  <2>7. (\A j \in Calls(p) : Purges(p, j) => Covers(p, plan[p][j].rec, j))'
    BY <1>1, <1>9, <2>5 DEF PlanInv
  <2>8. (\A i \in Calls(p) : IF Purges(p, i) THEN PurgeCall(p, i) ELSE EnterCall(p, i))'
    BY <1>9, <2>2, <2>3
  <2> QED  BY <2>1, <2>4, <2>6, <2>7, <2>8 DEF PlanInv
<1>12. Knows(p)'
  BY <1>0 DEF Knows, Calm
<1>13. pc'[p] \in Purging =>
        \E q \in Record : Vanishing(p, q)' /\ \A r \in Record \ {q, root} : AtRest(r)'
  BY <1>5
<1>14. pc'[p] \notin Purging => \A r \in Record : r # root => AtRest(r)'
  BY <1>0, <1>5
<1>15. /\ resuming' = {} /\ resumed'[p] = FALSE /\ stream'[p] # "bad" /\ ~opening'
  BY <1>1 DEF SerialInv
<1> QED  BY <1>0, <1>1, <1>4, <1>10, <1>11, <1>12, <1>13, <1>14, <1>15 DEF SerialInv

\* The events of the record go.
LEMMA SerialPurgeEvents ==
    ASSUME NEW p, Serial(p), SerialInv(p), StoreInv', PurgeEvents(p)
    PROVE  SerialInv(p)'
<1>0. /\ pc[p] = "purgeEvents" /\ pc[p] \in Purging /\ TypeOK /\ p \in Procs
      /\ pc'[p] = "purgeBlock" /\ events' = events \ todo[p]
      /\ UNCHANGED <<blocks, indexed, latest, data, emitted, purged, req, stream, existing,
                     todo, cur, plan, resuming, resumed, opening>>
  BY Handler DEF PurgeEvents, Goto, TypeOK, SerialInv, locals, history, Purging
<1>1. PICK k \in Record : Vanishing(p, k)
  BY <1>0 DEF SerialInv
<1>2. pc'[p] \in Purging /\ pc'[p] # "purge" /\ pc'[p] \in Purge0
  BY <1>0 DEF Purging, Purge0
<1>3. \A x \in todo[p] : x.rec = k
  BY <1>1 DEF Vanishing
<1>4. Vanishing(p, k)'
  BY <1>0, <1>1 DEF Vanishing
<1> QED  BY <1>0, <1>1, <1>2, <1>3, <1>4, PurgeStep

\* One of its messages goes: its block ...
LEMMA SerialPurgeBlock ==
    ASSUME NEW p, Serial(p), SerialInv(p), StoreInv', PurgeBlock(p)
    PROVE  SerialInv(p)'
<1>0. PICK m \in todo[p] :
        /\ pc[p] = "purgeBlock" /\ pc[p] \in Purging /\ TypeOK /\ p \in Procs
        /\ pc'[p] = "purgeIndex" /\ blocks' = blocks \ {m}
        /\ cur'[p] = m /\ todo'[p] = todo[p] \ {m}
        /\ UNCHANGED <<indexed, latest, data, events, emitted, purged, req, stream, existing,
                       plan, resuming, resumed, opening>>
  BY Handler DEF PurgeBlock, Goto, TypeOK, SerialInv, history, Purging
<1>1. PICK k \in Record : Vanishing(p, k)
  BY <1>0 DEF SerialInv
<1>2. pc'[p] \in Purging /\ pc'[p] # "purge" /\ pc'[p] \in Purge0
  BY <1>0 DEF Purging, Purge0
<1>3. m.rec = k /\ m \in todo[p]
  BY <1>0, <1>1 DEF Vanishing
<1>4. Vanishing(p, k)'
  <2>1. /\ k # req'[p].rec /\ k \in purged' /\ cur'[p].rec = k /\ cur'[p] \notin todo'[p]
        /\ \A x \in todo'[p] : x.rec = k
        /\ \A c \in DataCid \cup {NoData} : <<k, c>> \notin data'
    BY <1>0, <1>1, <1>3 DEF Vanishing
  <2>2. \A x \in Message : x.rec = k =>
            /\ x \in blocks' <=> x \in todo'[p]
            /\ x \in indexed' <=> x \in todo'[p] \/ x = cur'[p]
            /\ x \notin events'
            /\ x \in latest' => x \in indexed'
    BY <1>0, <1>1, <1>3 DEF Vanishing
  <2> QED  BY <1>0, <2>1, <2>2 DEF Vanishing
<1> QED  BY <1>0, <1>1, <1>2, <1>3, <1>4, PurgeStep

\* ... and its index entry; after the last one the record is gone.
LEMMA SerialPurgeIndex ==
    ASSUME NEW p, Serial(p), SerialInv(p), StoreInv', PurgeIndex(p)
    PROVE  SerialInv(p)'
<1> DEFINE m == cur[p]
<1>0. /\ pc[p] = "purgeIndex" /\ pc[p] \in Purging /\ TypeOK /\ p \in Procs
      /\ pc'[p] = IF todo[p] = {} THEN "purge" ELSE "purgeBlock"
      /\ indexed' = indexed \ {m} /\ latest' = latest \ {m} /\ TypeOK'
      /\ UNCHANGED <<blocks, data, events, emitted, purged, req, stream, existing, todo, cur,
                     plan, resuming, resumed, opening>>
  BY Handler DEF PurgeIndex, Goto, TypeOK, SerialInv, StoreInv, locals, history, Purging
<1>1. PICK k \in Record : Vanishing(p, k)
  BY <1>0 DEF SerialInv
<1>2. /\ pc'[p] \in Purge0 /\ (pc'[p] # "purge" => pc'[p] = "purgeBlock")
      /\ (pc'[p] = "purge" => todo[p] = {} /\ pc'[p] \notin Purging)
  BY <1>0 DEF Purging, Purge0
<1>3. m.rec = k
  BY <1>0, <1>1 DEF Vanishing
<1>4. \A x \in Message : x.rec = k =>
        /\ x \in blocks' <=> x \in todo[p]
        /\ x \in indexed' => x \in todo[p]
        /\ x \in todo[p] /\ x # m => x \in indexed'
        /\ x \notin events'
        /\ x \in latest' => x \in indexed'
  BY <1>0, <1>1 DEF Vanishing
<1>5. m \notin todo[p]
  BY <1>0, <1>1 DEF Vanishing
<1>6. pc'[p] \in Purging => Vanishing(p, k)'
  BY <1>0, <1>1, <1>2, <1>4, <1>5 DEF Vanishing
<1>7. pc'[p] = "purge" => AtRest(k)' /\ ~Exists(k)'
  <2> SUFFICES ASSUME pc'[p] = "purge" PROVE AtRest(k)' /\ ~Exists(k)'
    OBVIOUS
  <2>1. \A x \in Message : x.rec = k =>
            x \notin blocks' /\ x \notin indexed' /\ x \notin events' /\ x \notin latest'
    BY <1>2, <1>4
  <2>2. k \in purged' /\ \A c \in DataCid \cup {NoData} : <<k, c>> \notin data'
    BY <1>0, <1>1 DEF Vanishing
  <2>3. \A c \in DataCid \cup {NoData} : ~Owes(k, c)'
    BY <1>0, <2>1 DEF Owes, TypeOK
  <2> QED  BY <1>0, <2>1, <2>2, <2>3 DEF AtRest, Exists, TypeOK
<1> QED  BY <1>0, <1>1, <1>2, <1>3, <1>6, <1>7, PurgeStep

\* After the last call nothing is left below the pruned record.
LEMMA SerialPurgeEnd ==
    ASSUME NEW p, Serial(p), SerialInv(p), StoreInv', PurgeEnd(p)
    PROVE  SerialInv(p)'
<1>0. /\ pc[p] = "purge" /\ pc[p] \in Purge0 /\ pc[p] \in Holding /\ plan[p] = <<>>
      /\ pc'[p] = "clean" /\ pc'[p] \in Holding /\ pc'[p] \notin Purge0 /\ p \in Procs /\ TypeOK
      /\ pc'[p] \notin Purging /\ pc'[p] # "append"
      /\ todo'[p] = Older(existing[p], req[p])
      /\ UNCHANGED <<blocks, indexed, latest, data, events, emitted, purged, req, stream,
                     existing, cur, plan, resuming, resumed, opening>>
  BY Handler, HoldingIs DEF PurgeEnd, Goto, TypeOK, SerialInv, stores, history, Purging, Purge0
<1>1. /\ InHand(p) /\ Forest(p) /\ PlanInv(p) /\ Calls(p) = {}
      /\ \A r \in purged : ~Exists(r)
  BY <1>0, PruningIs, BetweenCalls DEF Calls
<1>2. InHand(p)'
  BY <1>0, <1>1, EnterClean
<1>3. \A q \in Record : q # req[p].rec => Untouched(q)
  BY <1>0 DEF Untouched
<1>4. \A x \in indexed : Par(x.rec) # req[p].rec
  <2> SUFFICES ASSUME NEW x \in indexed, Par(x.rec) = req[p].rec PROVE FALSE
    OBVIOUS
  <2>1. x.rec \in purged
    BY <1>1 DEF PlanInv, Covers
  <2> QED  BY <1>1, <2>1 DEF Exists
<1>5. Forest(p)'
  <2>1. (\A x \in indexed : Par(x.rec) # NoRecord => Exists(Par(x.rec)))'
    BY <1>0, <1>1 DEF Forest, Exists
  <2>2. (\A T \in SUBSET Record :
        T # {} /\ (\A r \in T : Exists(r)) => \E r \in T : Par(r) \notin T)'
    BY <1>0, <1>1 DEF Forest, Exists
  <2>3. (\A r \in purged :
        /\ Par(r) \in Record
        /\ Exists(r) => pc[p] \in Purging /\ Vanishing(p, r)
        /\ \/ Par(r) \in purged
           \/ \E d \in indexed : d.rec = Par(r) /\ IsDelete(d)
           \/ /\ pc[p] \in Purge0
              /\ \E i \in Calls(p) : Is(p, i, "purge", Par(r)))'
    <3> SUFFICES ASSUME NEW r \in purged
                 PROVE  /\ Par(r) \in Record /\ ~Exists(r)'
                        /\ \/ Par(r) \in purged
                           \/ \E d \in indexed : d.rec = Par(r) /\ IsDelete(d)
      BY <1>0
    <3> QED  BY <1>0, <1>1 DEF Forest, Exists
  <2>4. (\A d \in indexed :
        IsDelete(d) /\ d.prune /\ ~(d = req[p] /\ pc[p] \in Purge0 \cup {"append"}) =>
            \A x \in indexed : Par(x.rec) # d.rec)'
    BY <1>0, <1>1, <1>4 DEF Forest
  <2> QED  BY <2>1, <2>2, <2>3, <2>4 DEF Forest
<1> QED  BY <1>0, <1>2, <1>3, <1>5, HoldingStep

----------------------------------------------------------------------------
\* All steps.

\* No process stops, and a task is never taken up again.
LEMMA SerialOpen ==
    ASSUME NEW p, Serial(p), SerialInv(p), StoreInv',
           Grab \/ Resume(p) \/ Unwind(p) \/ UNCHANGED vars
    PROVE  SerialInv(p)'
<1>0. /\ p \in Procs /\ TypeOK /\ TypeOK' /\ resuming = {} /\ resumed[p] = FALSE
      /\ pc[p] # "unwind" /\ stream[p] # "bad" /\ Knows(p)
      /\ (opening => tasks = {} /\ pc[p] = "idle")
  BY Handler DEF SerialInv, StoreInv
<1>1. CASE Grab
  <2>1. /\ pc[p] = "idle" /\ tasks = {} /\ resuming' = {} /\ ~opening'
        /\ UNCHANGED <<stores, pc, locals, emitted, crashes, history>>
    BY <1>0, <1>1 DEF Grab, NoneRunning
  <2>2. /\ UNCHANGED message /\ pc[p] \notin Busy /\ pc'[p] \notin Busy
        /\ pc'[p] = "idle" /\ resumed'[p] = FALSE /\ stream'[p] # "bad" /\ Knows(p)'
    BY <1>0, <2>1, CalmIsNotBusy DEF Calm, message, stores, history, locals, Knows
  <2> QED  BY <2>1, <2>2, QuietSerial
<1>2. CASE Resume(p)
  BY <1>0, <1>2 DEF Resume
<1>3. CASE Unwind(p)
  BY <1>0, <1>3 DEF Unwind
<1>4. CASE UNCHANGED vars
  <2>1. /\ UNCHANGED <<blocks, encoded, indexed, latest, data, events, tasks, opening,
                       resuming, pc, req, stream, existing, todo, cur, plan, resumed,
                       emitted, purged>>
    BY <1>4 DEF vars, stores, locals, history
  <2>2. \A r \in Record : AtRest(r)' <=> AtRest(r)
    BY <2>1 DEF AtRest, Owes
  <2>3. \A k \in Record : Vanishing(p, k)' <=> Vanishing(p, k)
    BY <2>1 DEF Vanishing
  <2>4. InHand(p)' <=> InHand(p)
    BY <2>1 DEF InHand, HasBlock, HasIndex, HasEvent, MayBeLatest, Follows, ParentAlive,
                BringsData, BecomesLatest
  <2>5. Forest(p)' <=> Forest(p)
    BY <2>1, <2>3 DEF Forest, Exists, Calls, Is, TypeOK, Vanishing
  <2>6. PlanInv(p)' <=> PlanInv(p)
    BY <2>1 DEF PlanInv, PurgeCall, EnterCall, Covers, Calls, Purges, Enters, Is, Exists,
                Children, OfRecord
  <2>7. Knows(p)' <=> Knows(p)
    BY <2>1 DEF Knows, Follows, ParentAlive, BecomesLatest, OfRecord
  <2> QED  BY <2>1, <2>2, <2>3, <2>4, <2>5, <2>6, <2>7 DEF SerialInv
<1> QED  BY <1>1, <1>2, <1>3, <1>4

\* Every step of the DWN keeps the invariant, but for a stop.
LEMMA SerialStep ==
    ASSUME NEW p, Serial(p), SerialInv(p), [Next]_vars, ~Crash
    PROVE  SerialInv(p)'
<1>1. StoreInv'
  BY SafeStep DEF SerialInv
<1>2. CASE Grab \/ UNCHANGED vars
  BY <1>1, <1>2, SerialOpen
<1>3. CASE Receive(p) \/ Resume(p) \/ Reply(p) \/ Refuse(p)
  BY <1>1, <1>3, SerialReceive, SerialOpen, SerialCheck
<1>4. CASE Write(p)
  BY <1>1, <1>4, SerialCheck, SerialWrite, SerialData, SerialOpen DEF Write
<1>5. CASE Delete(p)
  BY <1>1, <1>5, SerialCheck, SerialTask, SerialPerform DEF Delete
<1>6. CASE Store(p)
  BY <1>1, <1>6, SerialCheck, SerialPutBlock, SerialPutIndex, SerialAppend DEF Store
<1>7. CASE Purge(p)
  BY <1>1, <1>7, SerialDescend, SerialGroup, SerialPurgeData, SerialPurgeEvents,
     SerialPurgeBlock, SerialPurgeIndex, SerialPurgeEnd DEF Purge
<1>8. CASE Clean(p)
  BY <1>1, <1>8, SerialCleanData, SerialCleanMessage, SerialRestore, SerialCleanEvents,
     SerialCleanEnd DEF Clean
<1> QED  BY <1>2, <1>3, <1>4, <1>5, <1>6, <1>7, <1>8 DEF Next, Run, Serial

\* Stops are only counted up.
LEMMA CrashesStep ==
    ASSUME StoreInv, [Next]_vars
    PROVE  crashes' = crashes \/ (Crash /\ crashes' = crashes + 1)
<1>1. CASE UNCHANGED vars \/ Grab \/ Crash
  BY <1>1 DEF vars, Grab, Crash
<1>2. ASSUME NEW p \in Procs, Receive(p) \/ Resume(p) \/ Reply(p) \/ Refuse(p) \/ Write(p)
                              \/ Delete(p) \/ Store(p)
      PROVE  crashes' = crashes
  BY <1>2
  DEF Receive, Resume, Reply, Refuse, Write, CheckParent, WriteFetch, DataPut, Unwind, DataGet,
      Delete, DeleteFetch, Register, PerformFetch, Complete, Store, Scan, PutBlock, PutIndex,
      AppendEvent
<1>3. ASSUME NEW p \in Procs, Purge(p) \/ Clean(p)
      PROVE  crashes' = crashes
  BY <1>3
  DEF Purge, PurgeDescend, PurgeGroup, PurgeData, PurgeEvents, PurgeBlock, PurgeIndex, PurgeEnd,
      Clean, CleanData, CleanBlock, CleanIndex, RestoreBlock, RestoreIndex, CleanEvents, CleanEnd
<1> QED  BY <1>1, <1>2, <1>3 DEF Next, Run

\* With one handler at a time and streams that are what their messages say, every record
\* is at rest but the one in hand and the one that is being purged, the records are a
\* forest, and the plan of a prune covers all that is left below the pruned record: until
\* the first stop, ...  (records-write.ts:53-171, records-delete.ts:26-106,
\* storage-controller.ts:43-239)
THEOREM UntilStop ==
    ASSUME NEW p, Serial(p)
    PROVE  Spec => [](StoreInv /\ (crashes = 0 => SerialInv(p)))
<1>1. Init => StoreInv /\ (crashes = 0 => SerialInv(p))
  BY SerialInit, SafeInit
<1>2. StoreInv /\ (crashes = 0 => SerialInv(p)) /\ [Next]_vars =>
        (StoreInv /\ (crashes = 0 => SerialInv(p)))'
  <2> SUFFICES ASSUME StoreInv, crashes = 0 => SerialInv(p), [Next]_vars
               PROVE  StoreInv' /\ (crashes' = 0 => SerialInv(p)')
    OBVIOUS
  <2>1. crashes \in Nat
    BY DEF StoreInv, TypeOK
  <2>2. Crash => crashes' = crashes + 1
    BY DEF Crash
  <2>3. crashes' = 0 => crashes = 0 /\ ~Crash
    BY <2>1, <2>2, CrashesStep
  <2> QED  BY <2>3, SafeStep, SerialStep
<1> QED  BY <1>1, <1>2, PTL DEF Spec

\* ... and if there is none, always.
THEOREM SerialAlways ==
    ASSUME NEW p, Serial(p), MaxCrashes = 0
    PROVE  Spec => []SerialInv(p)
<1>1. Init => crashes = 0
  BY DEF Init
<1>2. StoreInv /\ crashes = 0 /\ [Next]_vars => (crashes = 0)'
  BY CrashesStep DEF Crash
<1>3. Spec => [](StoreInv /\ (crashes = 0 => SerialInv(p)))
  BY UntilStop
<1> QED  BY <1>1, <1>2, <1>3, PTL DEF Spec

----------------------------------------------------------------------------
\* What holds between two messages.

LEMMA AllSettled ==
    ASSUME NEW p, Serial(p), SerialInv(p), Settled
    PROVE  /\ TypeOK /\ pc[p] = "idle" /\ Forest(p) /\ Stored = indexed
           /\ \A r \in Record : AtRest(r)
           /\ \A x \in Message : /\ x.rec \in Record
                                 /\ x \in indexed <=> x \in events
                                 /\ x \in latest => x \in indexed /\ x \in emitted
<1>1. TypeOK /\ pc[p] = "idle" /\ Forest(p)
  BY Handler DEF SerialInv, Settled, NoneRunning
<1>2. \A r \in Record : AtRest(r)
  BY <1>1, AllAtRest, CalmIsNotBusy DEF Calm
<1>3. \A x \in Message : /\ x.rec \in Record
                         /\ x \in blocks <=> x \in indexed
                         /\ x \in indexed <=> x \in events
                         /\ x \in latest => x \in indexed /\ x \in emitted
  BY <1>2, Kinds DEF AtRest
<1>4. Stored = indexed
  BY <1>1, <1>3 DEF Stored, TypeOK
<1> QED  BY <1>1, <1>2, <1>3, <1>4

\* With one handler at a time and no stops a record is tidied up before the next message
\* is taken: only its initial write and its newest message are left, and only the newest
\* may be the latest state.  (storage-controller.ts:206)
THEOREM RecordsTidyAlways ==
    ASSUME NEW p, Serial(p), MaxCrashes = 0
    PROVE  Spec => []RecordsTidy
<1>1. SerialInv(p) => RecordsTidy
  <2> SUFFICES ASSUME SerialInv(p), Settled, NEW r \in Record, OfRecord(Stored, r) # {}
               PROVE  LET S == OfRecord(Stored, r)
                      IN  /\ InitialWrite(r) \in S
                          /\ S \subseteq {InitialWrite(r), Newest(S)}
                          /\ S \cap latest \subseteq {Newest(S)}
                          /\ ~Newest(S).initial => Newest(S) \in latest
    BY DEF RecordsTidy
  <2> DEFINE S == OfRecord(indexed, r)
  <2>1. TypeOK /\ Stored = indexed /\ AtRest(r)
    BY AllSettled
  <2>2. /\ \A x \in S : x \in indexed /\ x \in Message /\ x.rec = r
        /\ S # {} /\ OfRecord(Stored, r) = S
    BY <2>1 DEF OfRecord, TypeOK
  <2>3. Newest(S) \in S /\ \A n \in S : n = Newest(S) \/ IsNewer(Newest(S), n)
    BY <2>1, <2>2, NewestOf
  <2>4. InitialWrite(r) \in S
    BY <2>1, <2>2, InitialOf DEF AtRest, OfRecord
  <2> HIDE DEF S
  <2>5. \A x \in S : x # Newest(S) => x.initial /\ x \notin latest
    BY <2>1, <2>2, <2>3 DEF AtRest
  <2>6. \A x \in S : x.initial => x = InitialWrite(r)
    BY <2>2, Kinds
  <2>7. ~Newest(S).initial => Newest(S) \in latest
    BY <2>1, <2>2, <2>3 DEF AtRest
  <2> QED  BY <2>2, <2>4, <2>5, <2>6, <2>7
<1> QED  BY <1>1, SerialAlways, PTL

\* The event log then has the messages that the message store has.
THEOREM EventsMatchAlways ==
    ASSUME NEW p, Serial(p), MaxCrashes = 0
    PROVE  Spec => []EventsMatch
<1>1. SerialInv(p) => EventsMatch
  BY AllSettled DEF EventsMatch, TypeOK
<1> QED  BY <1>1, SerialAlways, PTL

\* The data store then has the large data of the latest states and nothing else.
THEOREM DataMatchAlways ==
    ASSUME NEW p, Serial(p), MaxCrashes = 0
    PROVE  Spec => []DataMatch
<1>1. SerialInv(p) => DataMatch
  <2> SUFFICES ASSUME SerialInv(p), Settled
               PROVE  data = {<<w.rec, w.data>> : w \in
                                {m \in latest \cap Stored : IsWrite(m) /\ IsLarge(m)}}
    BY DEF DataMatch
  <2> DEFINE D == {<<w.rec, w.data>> : w \in
                        {m \in latest \cap Stored : IsWrite(m) /\ IsLarge(m)}}
  <2>1. TypeOK /\ latest \subseteq Message /\ latest \cap Stored = latest
    BY AllSettled DEF TypeOK
  <2>2. \A r \in Record : \A c \in DataCid \cup {NoData} : <<r, c>> \in data <=> Owes(r, c)
    BY AllSettled DEF AtRest
  <2>3. \A r \in Record : \A c \in DataCid \cup {NoData} : Owes(r, c) <=> <<r, c>> \in D
    BY <2>1 DEF Owes
  <2>4. D \subseteq Record \X (DataCid \cup {NoData})
    BY <2>1, Kinds
  <2>5. data \subseteq Record \X (DataCid \cup {NoData})
    BY <2>1 DEF TypeOK
  <2> HIDE DEF D
  <2>6. \A d \in Record \X (DataCid \cup {NoData}) : d \in data <=> d \in D
    <3> SUFFICES ASSUME NEW r \in Record, NEW c \in DataCid \cup {NoData}
                 PROVE  <<r, c>> \in data <=> <<r, c>> \in D
      OBVIOUS
    <3> QED  BY <2>2, <2>3
  <2>7. data = D
    BY <2>4, <2>5, <2>6
  <2> QED  BY <2>7 DEF D
<1> QED  BY <1>1, SerialAlways, PTL

\* The chain of a record up to its root is then in the message store.
\* (protocol-authorization.ts:323)
THEOREM ChainCompleteAlways ==
    ASSUME NEW p, Serial(p), MaxCrashes = 0
    PROVE  Spec => []ChainComplete
<1>1. SerialInv(p) => ChainComplete
  <2> SUFFICES ASSUME SerialInv(p), Settled, NEW m \in Stored, ParentOf(m) # NoRecord
               PROVE  InitialWrite(ParentOf(m)) \in Stored
    BY DEF ChainComplete
  <2>1. Stored = indexed /\ Forest(p) /\ TypeOK /\ StoreInv /\ \A r \in Record : AtRest(r)
    BY AllSettled DEF SerialInv
  <2>2. ParentOf(m) = Par(m.rec)
    BY <2>1, ParentIs
  <2>3. Exists(Par(m.rec))
    BY <2>1, <2>2 DEF Forest
  <2>4. PICK x \in indexed : x.rec = Par(m.rec)
    BY <2>3 DEF Exists
  <2>5. x.rec \in Record
    BY <2>1, <2>4, Kinds DEF TypeOK
  <2> QED  BY <2>1, <2>2, <2>4, <2>5 DEF AtRest
<1> QED  BY <1>1, SerialAlways, PTL

\* All that a query returns then was emitted.
THEOREM LatestEmittedAlways ==
    ASSUME NEW p, Serial(p), MaxCrashes = 0
    PROVE  Spec => []LatestEmitted
<1>1. SerialInv(p) => LatestEmitted
  BY AllSettled DEF LatestEmitted, TypeOK
<1> QED  BY <1>1, SerialAlways, PTL

\* Nothing is then left below a record that was pruned.  (storage-controller.ts:74-77)
THEOREM PruneCompleteAlways ==
    ASSUME NEW p, Serial(p), MaxCrashes = 0
    PROVE  Spec => []PruneComplete
<1>1. SerialInv(p) => PruneComplete
  <2> SUFFICES ASSUME SerialInv(p), Settled, NEW d \in Stored, IsDelete(d), d.prune,
                      NEW m \in Stored
               PROVE  ParentOf(m) # d.rec
    BY DEF PruneComplete
  <2>1. Stored = indexed /\ Forest(p) /\ StoreInv /\ pc[p] = "idle"
    BY AllSettled DEF SerialInv
  <2>2. pc[p] \notin Purge0 \cup {"append"}
    BY <2>1 DEF Purge0, Purging
  <2>3. Par(m.rec) # d.rec
    BY <2>1, <2>2 DEF Forest
  <2> QED  BY <2>1, <2>3, ParentIs
<1> QED  BY <1>1, SerialAlways, PTL

\* Subscribers hear of the messages of a record in the order of their age.
THEOREM EmittedInOrderAlways ==
    ASSUME NEW p, Serial(p), MaxCrashes = 0
    PROVE  Spec => EmittedInOrder
<1>1. ASSUME SerialInv(p), [Next]_vars
      PROVE  [\A m \in emitted' \ emitted : \A n \in emitted :
                    m.rec = n.rec => IsNewer(m, n)]_vars
  <2> SUFFICES ASSUME NEW m \in emitted', m \notin emitted, NEW n \in emitted, m.rec = n.rec
               PROVE  IsNewer(m, n)
    OBVIOUS
  <2>1. emitted' # emitted
    OBVIOUS
  <2>2. AppendEvent(p)
    <3>1. ~UNCHANGED vars
      BY <2>1 DEF vars
    <3>2. PICK q \in Procs : Receive(q) \/ Run(q) \/ Resume(q) \/ Grab \/ Crash
      BY <1>1, <3>1 DEF Next, Serial
    <3>3. q = p
      BY DEF Serial
    <3>4. Run(p)
      BY <2>1, <3>2, <3>3 DEF Receive, Resume, Grab, Crash
    <3> QED
      BY <2>1, <3>4
      DEF Run, Write, Delete, Store, Purge, Clean, Reply, Refuse, CheckParent, WriteFetch,
          DataPut, Unwind, DataGet, DeleteFetch, Register, PerformFetch, Complete, Scan,
          PutBlock, PutIndex, PurgeDescend, PurgeGroup, PurgeData, PurgeEvents, PurgeBlock,
          PurgeIndex, PurgeEnd, CleanData, CleanBlock, CleanIndex, RestoreBlock,
          RestoreIndex, CleanEvents, CleanEnd
  <2>3. m = req[p]
    BY <2>2 DEF AppendEvent, Emits
  <2>4. InHand(p)
    <3>1. pc[p] \in Busy
      BY <2>2 DEF AppendEvent, Busy
    <3> QED  BY <1>1, <3>1 DEF SerialInv
  <2> QED  BY <2>3, <2>4 DEF InHand
<1>2. SerialInv(p) /\ [Next]_vars =>
        [\A m \in emitted' \ emitted, n \in emitted :
            m.rec = n.rec => IsNewer(m, n)]_vars
  BY <1>1
<1> QED  BY <1>2, SerialAlways, PTL DEF Spec, EmittedInOrder

----------------------------------------------------------------------------
\* The whole implements RecordHistory.

\* A record is the message in hand once that is stored, ...
LEMMA NewestIs ==
    ASSUME NEW S \in SUBSET Message, NEW m \in S,
           \A x \in S : x = m \/ IsNewer(m, x)
    PROVE  Newest(S) = m
<1>1. \A n \in S : ~IsNewer(n, m)
  BY NewerOrder
<1>2. Newest(S) \in S /\ ~IsNewer(m, Newest(S))
  BY <1>1 DEF Newest
<1> QED  BY <1>2

LEMMA NewestInHand ==
    ASSUME NEW p, Serial(p), SerialInv(p), pc[p] \in Busy, pc[p] \notin Putting
    PROVE  NewestState(req[p].rec) = {req[p]}
<1> DEFINE S == OfRecord(Stored, req[p].rec)
<1>0. /\ TypeOK /\ req[p] \in Message /\ InHand(p) /\ existing[p] \subseteq Message
      /\ pc[p] \in CleaningOne => cur[p] \in existing[p]
  BY Handler DEF SerialInv, InHand
<1>1. req[p] \in S
  BY <1>0 DEF InHand, HasBlock, HasIndex, Stored, OfRecord, Putting
<1>2. \A x \in S : x = req[p] \/ IsNewer(req[p], x)
  <2> SUFFICES ASSUME NEW x \in S, x # req[p] PROVE IsNewer(req[p], x)
    OBVIOUS
  <2>1. x \in Message /\ x.rec = req[p].rec /\ HasBlock(p, x)
    BY <1>0 DEF InHand, Stored, OfRecord, TypeOK
  <2>2. x \in existing[p]
    BY <1>0, <2>1 DEF InHand, HasBlock, Cleaning, CleaningOne
  <2> QED  BY <1>0, <2>2 DEF InHand, Follows
<1>3. S \subseteq Message
  BY <1>0 DEF Stored, OfRecord, TypeOK
<1> HIDE DEF S
<1>4. Newest(S) = req[p]
  BY <1>1, <1>2, <1>3, NewestIs
<1> QED  BY <1>0, <1>1, <1>4 DEF NewestState, InHand, S

\* ... and stays it.
LEMMA NewestThen ==
    ASSUME NEW p, Serial(p), SerialInv(p)', NEW m, m = req'[p],
           pc'[p] \in Busy, pc'[p] \notin Putting
    PROVE  NewestState(m.rec)' = {m}
<1>0. PICK S : S = OfRecord(Stored, m.rec)'
  OBVIOUS
<1>1. /\ TypeOK' /\ InHand(p)' /\ p \in Procs
      /\ m \in Message /\ existing'[p] \subseteq Message
  BY DEF SerialInv, StoreInv, TypeOK, Serial
<1>2. \A x : x \in S <=> x \in blocks' /\ x \in indexed' /\ x.rec = m.rec
  BY <1>0 DEF OfRecord, Stored
<1>3. S \in SUBSET Message
  BY <1>1, <1>2 DEF TypeOK
<1>4. /\ m.rec \notin purged'
      /\ \A x \in existing'[p] : IsNewer(m, x)
      /\ \A x \in Message : x.rec = m.rec =>
            (x \in blocks' <=> HasBlock(p, x)') /\ (x \in indexed' <=> HasIndex(p, x)')
      /\ pc'[p] \in Cleaning => todo'[p] \subseteq existing'[p]
      /\ pc'[p] \in CleaningOne => cur'[p] \in existing'[p]
  BY <1>1 DEF InHand, Follows
<1>5. m \in S
  BY <1>1, <1>2, <1>4 DEF HasBlock, HasIndex, Putting
<1>6. \A x \in S : x = m \/ IsNewer(m, x)
  BY <1>2, <1>3, <1>4 DEF HasBlock, Cleaning, CleaningOne
<1>7. Newest(S) = m
  BY <1>3, <1>5, <1>6, NewestIs
<1> QED  BY <1>0, <1>4, <1>5, <1>7 DEF NewestState

\* ... and what was found before.
LEMMA StoredInHand ==
    ASSUME NEW p, Serial(p), SerialInv(p), pc[p] \in Putting
    PROVE  OfRecord(Stored, req[p].rec) = existing[p] /\ req[p] \notin existing[p]
<1>0. /\ TypeOK /\ req[p] \in Message /\ existing[p] \subseteq Message /\ InHand(p)
      /\ pc[p] \notin Cleaning
  BY Handler DEF SerialInv, Busy, Putting, Cleaning, CleaningOne
<1>1. \A x \in existing[p] : x.rec = req[p].rec /\ x # req[p]
  BY <1>0, NewerOrder DEF InHand, Follows
<1>2. \A x \in Message : x.rec = req[p].rec => (x \in Stored <=> x \in existing[p])
  BY <1>0, <1>1 DEF InHand, HasBlock, HasIndex, Stored
<1>3. Stored \subseteq Message
  BY <1>0 DEF Stored, TypeOK
<1> QED  BY <1>0, <1>1, <1>2, <1>3 DEF OfRecord

LEMMA NewestKept ==
    ASSUME NEW r, r \in purged' <=> r \in purged,
           \A x : x.rec = r => (x \in Stored' <=> x \in Stored)
    PROVE  NewestState(r)' = NewestState(r)
<1>1. OfRecord(Stored, r)' = OfRecord(Stored, r)
  BY DEF OfRecord
<1> QED  BY <1>1 DEF NewestState

\* A record at rest that has a write as its latest state is that write.
LEMMA NewestAlive ==
    ASSUME TypeOK, NEW r \in Record, AtRest(r), r \notin purged,
           NEW w \in latest, w.rec = r
    PROVE  NewestState(r) = {w}
<1> DEFINE S == OfRecord(Stored, r)
<1>1. w \in S /\ S \subseteq Message /\ \A x \in S : x \in indexed /\ x.rec = r
  BY DEF AtRest, TypeOK, Stored, OfRecord
<1>2. \A x \in S : ~IsNewer(x, w)
  BY <1>1 DEF AtRest
<1> HIDE DEF S
<1>3. Newest(S) = w
  <2>1. Newest(S) \in S /\ ~IsNewer(w, Newest(S))
    BY <1>1, <1>2 DEF Newest
  <2> QED  BY <1>1, <1>2, <2>1, NewerOrder
<1> QED  BY <1>1, <1>3 DEF NewestState, S

\* Storing the message is what the history sees of a write or a delete.
LEMMA TakesIn ==
    ASSUME NEW p, Serial(p), SerialInv(p), SerialInv(p)', PutIndex(p), NEW m, m = req[p]
    PROVE  History!Next
<1>0. /\ p \in Procs /\ TypeOK /\ m \in Message /\ m.rec \in Record /\ existing[p] \subseteq Message
      /\ pc[p] = "putIndex" /\ pc'[p] = "append" /\ indexed' = indexed \cup {m}
      /\ UNCHANGED <<req, blocks, purged, existing>>
  BY Handler DEF SerialInv, PutIndex, Goto, TypeOK, locals
<1>1. /\ pc[p] \in Putting /\ pc[p] \in Busy /\ pc[p] \notin Purging
      /\ pc'[p] \in Busy /\ pc'[p] \notin Putting
  BY <1>0 DEF Putting, Busy, Purging
<1>2. /\ InHand(p) /\ Forest(p) /\ Follows(p) /\ m.rec \notin purged
      /\ \A r \in Record : r # m.rec => AtRest(r)
  BY <1>1 DEF SerialInv, InHand
<1>3. NewestState(m.rec)' = {m}
  BY <1>0, <1>1, NewestThen
<1>4. \A r \in Record : r # m.rec => NewestState(r)' = NewestState(r)
  <2> SUFFICES ASSUME NEW r \in Record, r # m.rec PROVE NewestState(r)' = NewestState(r)
    OBVIOUS
  <2>1. \A x : x.rec = r => (x \in Stored' <=> x \in Stored)
    BY <1>0 DEF Stored
  <2> QED  BY <1>0, <2>1, NewestKept
<1>5. \A n \in NewestState(m.rec) : n \in existing[p]
  <2>1. existing[p] # {} => Newest(existing[p]) \in existing[p]
    <3>1. \A x \in existing[p] : x.rec = m.rec
      BY <1>2 DEF Follows
    <3>2. ASSUME existing[p] # {} PROVE \E x \in existing[p] : \A n \in existing[p] : ~IsNewer(n, x)
      <4>1. CASE \E x \in existing[p] : ~x.initial
        BY <1>2, <4>1 DEF Follows
      <4>2. CASE \A x \in existing[p] : x.initial
        BY <1>0, <3>1, <3>2, <4>2, Kinds, NewerOrder
      <4> QED  BY <4>1, <4>2
    <3> QED  BY <3>2 DEF Newest
  <2> QED  BY <1>1, <2>1, StoredInHand DEF NewestState
<1>6. NewestState(m.rec) = {} <=> existing[p] = {}
  BY <1>1, <1>2, StoredInHand DEF NewestState
<1> DEFINE N == [r \in Record |-> NewestState(r)]
<1>9. /\ N' = [N EXCEPT ![m.rec] = {m}] /\ N[m.rec] = NewestState(m.rec)
      /\ \A r \in Record : N[r] = NewestState(r)
  <2>1. N' = [r \in Record |-> NewestState(r)']
    OBVIOUS
  <2>2. \A r \in Record : NewestState(r)' = IF r = m.rec THEN {m} ELSE NewestState(r)
    BY <1>3, <1>4
  <2> QED  BY <1>0, <2>1, <2>2
<1>7. CASE IsWrite(m)
  <2>1. m.parent # NoRecord => \E w \in NewestState(m.parent) : IsWrite(w)
    <3> SUFFICES ASSUME m.parent # NoRecord PROVE \E w \in NewestState(m.parent) : IsWrite(w)
      OBVIOUS
    <3>1. PICK w \in latest : w \in indexed /\ IsWrite(w) /\ w.rec = m.parent
      BY <1>1, <1>2, <1>7 DEF InHand, ParentAlive
    <3>2. m.parent \in Record /\ Exists(m.parent)
      BY <1>0, <3>1, Kinds DEF TypeOK, Exists
    <3>3. Par(m.rec) = m.parent
      <4>1. HandlerInv(p)
        BY Handler DEF SerialInv
      <4> QED  BY <1>0, <1>7, <4>1 DEF HandlerInv, Storing, Grounded, Par
    <3>4. m.parent # m.rec
      BY <1>0, <1>2, <3>2, <3>3, NotOwnParent
    <3>5. m.parent \notin purged
      BY <1>1, <1>2, <3>2 DEF Forest
    <3>6. NewestState(m.parent) = {w}
      BY <1>0, <1>2, <3>1, <3>2, <3>4, <3>5, NewestAlive
    <3> QED  BY <3>1, <3>6
  <2>2. NewestState(m.rec) = {} => m.initial
    BY <1>2, <1>6 DEF Follows
  <2>3. \A n \in NewestState(m.rec) : IsWrite(n) /\ IsNewer(m, n)
    BY <1>2, <1>5, <1>7 DEF Follows
  <2>4. History!TakeWrite(m)
    BY <1>0, <1>2, <1>7, <1>9, <2>1, <2>2, <2>3, Kinds
    DEF History!TakeWrite, History!Alive, History!IsWrite, IsWrite, History!IsNewer, IsNewer
  <2> QED  BY <1>0, <2>4 DEF History!Next
<1>8. CASE IsDelete(m)
  <2>1. NewestState(m.rec) # {}
    BY <1>0, <1>2, <1>6, <1>8, Kinds DEF Follows
  <2>2. \A n \in NewestState(m.rec) : IsNewer(m, n) /\ (IsDelete(n) => m.prune /\ ~n.prune)
    BY <1>2, <1>5, <1>8 DEF Follows
  <2>3. History!TakeDelete(m)
    BY <1>0, <1>8, <1>9, <2>1, <2>2
    DEF History!TakeDelete, History!IsDelete, IsDelete, History!IsNewer, IsNewer
  <2> QED  BY <1>0, <2>3 DEF History!Next
<1> QED  BY <1>0, <1>7, <1>8, Kinds

\* What the history does not see.
LEMMA Unseen ==
    ASSUME UNCHANGED purged, \A r \in Record : NewestState(r)' = NewestState(r)
    PROVE  UNCHANGED History!vars
<1>1. [r \in Record |-> NewestState(r)]' = [r \in Record |-> NewestState(r)]
  OBVIOUS
<1> QED  BY <1>1 DEF History!vars

LEMMA StoreUnseen ==
    ASSUME UNCHANGED <<blocks, indexed, purged>>
    PROVE  UNCHANGED History!vars
<1>1. \A r \in Record : NewestState(r)' = NewestState(r)
  BY DEF NewestState, OfRecord, Stored
<1> QED  BY <1>1, Unseen

\* A block without an index entry is not seen ...
LEMMA BlockUnseen ==
    ASSUME NEW p, Serial(p), SerialInv(p), PutBlock(p)
    PROVE  UNCHANGED History!vars
<1>1. /\ pc[p] = "putBlock" /\ blocks' = blocks \cup {req[p]}
      /\ UNCHANGED <<indexed, purged>>
  BY DEF PutBlock, history
<1>2. InHand(p) /\ req[p] \in Message
  BY <1>1, Handler DEF SerialInv, Busy, Putting
<1>3. req[p] \notin existing[p]
  BY <1>1, StoredInHand DEF Putting
<1>4. req[p] \notin indexed
  BY <1>1, <1>2, <1>3 DEF InHand, HasIndex, Putting, Cleaning, CleaningOne
<1>5. Stored' = Stored
  BY <1>1, <1>4 DEF Stored
<1>6. \A r \in Record : NewestState(r)' = NewestState(r)
  BY <1>1, <1>5, NewestKept
<1> QED  BY <1>1, <1>6, Unseen

\* ... nor is what a purge does to a record that is gone, ...
LEMMA PurgeUnseen ==
    ASSUME NEW p, Serial(p), SerialInv(p), PurgeBlock(p) \/ PurgeIndex(p)
    PROVE  UNCHANGED History!vars
<1>1. TypeOK /\ p \in Procs /\ HandlerInv(p)
  BY Handler DEF SerialInv
<1>2. /\ UNCHANGED purged
      /\ \E m : m.rec \in purged /\ blocks \ {m} \subseteq blocks' /\ blocks' \subseteq blocks
                                 /\ indexed \ {m} \subseteq indexed' /\ indexed' \subseteq indexed
  BY <1>1 DEF PurgeBlock, PurgeIndex, history, HandlerInv, Purging
<1>3. ASSUME NEW r \in Record
      PROVE  NewestState(r)' = NewestState(r)
  <2>1. CASE r \in purged
    BY <1>2, <2>1 DEF NewestState
  <2>2. CASE r \notin purged
    <3>1. \A x : x.rec = r => (x \in Stored' <=> x \in Stored)
      BY <1>2, <2>2 DEF Stored
    <3> QED  BY <1>2, <3>1, NewestKept
  <2> QED  BY <2>1, <2>2
<1> QED  BY <1>2, <1>3, Unseen

\* ... nor a clean-up, which leaves the message in hand.
LEMMA CleanUnseen ==
    ASSUME NEW p, Serial(p), SerialInv(p), SerialInv(p)',
           CleanBlock(p) \/ CleanIndex(p) \/ RestoreBlock(p) \/ RestoreIndex(p)
    PROVE  UNCHANGED History!vars
<1>m. PICK m : m = req[p]
  OBVIOUS
<1>1. /\ TypeOK /\ p \in Procs /\ m \in Message /\ m.rec \in Record
      /\ pc[p] \in CleaningOne /\ pc'[p] \in CleaningOne
      /\ UNCHANGED <<purged, req>>
      /\ blocks \ {cur[p]} \subseteq blocks' /\ blocks' \subseteq blocks \cup {cur[p]}
      /\ indexed \ {cur[p]} \subseteq indexed' /\ indexed' \subseteq indexed \cup {cur[p]}
  BY <1>m, Handler
  DEF SerialInv, TypeOK, Goto, CleanBlock, CleanIndex, RestoreBlock, RestoreIndex, CleaningOne,
      history, locals
<1>2. /\ pc[p] \in Busy /\ pc[p] \notin Putting /\ pc'[p] \in Busy /\ pc'[p] \notin Putting
      /\ m = req'[p]
  BY <1>m, <1>1 DEF Busy, Putting, Cleaning, CleaningOne
<1>3. cur[p].rec = m.rec
  BY <1>m, <1>1, <1>2 DEF SerialInv, InHand, Follows
<1>4. NewestState(m.rec) = {m} /\ NewestState(m.rec)' = {m}
  BY <1>m, <1>2, NewestInHand, NewestThen
<1>5. ASSUME NEW r \in Record, r # m.rec
      PROVE  NewestState(r)' = NewestState(r)
  <2>1. \A x : x.rec = r => (x \in Stored' <=> x \in Stored)
    BY <1>1, <1>3, <1>5 DEF Stored
  <2> QED  BY <1>1, <2>1, NewestKept
<1>6. \A r \in Record : NewestState(r)' = NewestState(r)
  BY <1>4, <1>5
<1> QED  BY <1>1, <1>6, Unseen

\* Whatever is purged is below the pruned record: the records that are to be purged have
\* a top, and the record above that is the pruned one.
LEMMA BelowRoot ==
    ASSUME NEW p, Serial(p), SerialInv(p), pc[p] \in Purge0,
           NEW h \in Calls(p), Purges(p, h)
    PROVE  History!Below(req[p].rec, plan[p][h].rec)
<1> SUFFICES ASSUME NEW S \in SUBSET Record,
                    \A q \in Record : Par(q) \in S \cup {req[p].rec} => q \in S,
                    plan[p][h].rec \notin S
             PROVE  FALSE
  BY DEF History!Below, History!ParentRecord, History!InitialWrite, InitialWrite, Par
<1> DEFINE P == {i \in Calls(p) : Purges(p, i)}
           T == {plan[p][i].rec : i \in P} \ S
<1>1. T \in SUBSET Record /\ T # {}
  BY PruningIs
<1>2. \A r \in T : Exists(r)
  BY PruningIs DEF PlanInv, PurgeCall
<1>3. PICK r \in T : Par(r) \notin T
  <2> HIDE DEF T
  <2> QED  BY <1>1, <1>2, PruningIs DEF Forest
<1>4. PICK i \in P : r = plan[p][i].rec
  BY <1>3
<1>5. r \in Record /\ r \notin S /\ PurgeCall(p, i)
  BY <1>3, <1>4, PruningIs DEF PlanInv
<1>6. CASE Par(r) = req[p].rec
  BY <1>5, <1>6
<1>7. CASE \E j \in Calls(p) : j > i /\ Is(p, j, "purge", Par(r))
  <2>1. PICK j \in Calls(p) : Is(p, j, "purge", Par(r))
    BY <1>7
  <2>2. j \in P /\ plan[p][j].rec = Par(r)
    BY <2>1 DEF Is, Purges
  <2>3. Par(r) \in S
    BY <1>3, <2>2
  <2> QED  BY <1>5, <2>3
<1> QED  BY <1>4, <1>5, <1>6, <1>7 DEF PurgeCall

\* The first step of the purge of a record is where the history sees it vanish.
LEMMA VanishesIn ==
    ASSUME NEW p, Serial(p), SerialInv(p), PurgeData(p)
    PROVE  [History!Next]_(History!vars)
<1>1. /\ pc[p] = "purge" /\ pc[p] \in Purge0 /\ plan[p] # <<>> /\ Head(plan[p]).op = "purge"
      /\ UNCHANGED <<blocks, indexed>>
  BY HoldingIs DEF PurgeData
<1>2. CASE UNCHANGED purged
  BY <1>1, <1>2, StoreUnseen
<1>3. CASE ~UNCHANGED purged
  <2>r. PICK root \in Record : root = req[p].rec
    BY <1>1, PruningIs
  <2>d. PICK d \in Message : d = req[p]
    BY <1>1, PruningIs
  <2>1. /\ TypeOK /\ PlanInv(p) /\ IsDelete(d) /\ d.prune /\ Head(plan[p]) = plan[p][1]
        /\ 1 \in Calls(p) /\ plan[p][1].rec \in Record
        /\ NewestState(root) = {d}
    <3>1. /\ TypeOK /\ PlanInv(p) /\ pc[p] \in Busy /\ pc[p] \notin Putting
          /\ plan[p] \in Seq(PlanItem) /\ Calls(p) = 1 .. Len(plan[p])
          /\ \A i \in Calls(p) : plan[p][i].rec \in Record
      BY <1>1, PruningIs
    <3>2. Head(plan[p]) = plan[p][1] /\ 1 \in Calls(p)
      BY <1>1, <3>1
    <3> QED  BY <2>r, <2>d, <3>1, <3>2, NewestInHand DEF PlanInv
  <2>k. PICK k \in Record : k = plan[p][1].rec
    BY <2>1
  <2>2. /\ Purges(p, 1) /\ k \notin purged /\ plan[p][1].msgs = OfRecord(indexed, k)
        /\ Exists(k)
    <3>1. Purges(p, 1)
      BY <1>1, <2>1 DEF Purges
    <3> QED  BY <2>1, <2>k, <3>1 DEF PlanInv, PurgeCall
  <2>3. purged' = purged \cup {k}
    <3>1. purged' = purged \cup {m.rec : m \in plan[p][1].msgs}
      BY <1>3, <2>1 DEF PurgeData
    <3>2. {m.rec : m \in OfRecord(indexed, k)} = {k}
      <4>1. \E m \in OfRecord(indexed, k) : m.rec = k
        BY <2>2 DEF Exists, OfRecord
      <4>2. \A m \in OfRecord(indexed, k) : m.rec = k
        BY DEF OfRecord
      <4> QED  BY <4>1, <4>2
    <3> QED  BY <2>2, <3>1, <3>2
  <2>4. NewestState(k)' = {}
    BY <2>3 DEF NewestState
  <2>5. ASSUME NEW r \in Record, r # k
        PROVE  NewestState(r)' = NewestState(r)
    <3>1. Stored' = Stored
      BY <1>1 DEF Stored
    <3> QED  BY <2>3, <2>5, <3>1, NewestKept
  <2> DEFINE N == [r \in Record |-> NewestState(r)]
  <2>6. /\ N' = [N EXCEPT ![k] = {}] /\ N[root] = NewestState(root)
    <3>1. N' = [r \in Record |-> NewestState(r)']
      OBVIOUS
    <3>2. \A r \in Record : NewestState(r)' = IF r = k THEN {} ELSE NewestState(r)
      BY <2>4, <2>5
    <3> QED  BY <3>1, <3>2
  <2>7. History!Below(root, k)
    BY <1>1, <2>r, <2>k, <2>1, <2>2, BelowRoot
  <2>8. History!Pruned(root)
    BY <2>1, <2>6 DEF History!Pruned, History!IsDelete, IsDelete
  <2>9. History!Vanish(k)
    BY <2>2, <2>3, <2>6, <2>7, <2>8 DEF History!Vanish
  <2> QED  BY <2>9 DEF History!Next
<1> QED  BY <1>2, <1>3

LEMMA HistoryInit ==
    ASSUME Init
    PROVE  History!Init
<1>1. \A r \in Record : NewestState(r) = {}
  BY DEF Init, NewestState, OfRecord, Stored
<1> QED  BY <1>1 DEF Init, History!Init

LEMMA HistoryStep ==
    ASSUME NEW p, Serial(p), SerialInv(p), SerialInv(p)', [Next]_vars
    PROVE  [History!Next]_(History!vars)
<1>1. CASE Grab \/ Crash \/ UNCHANGED vars
  BY <1>1, StoreUnseen DEF Grab, Crash, vars, stores, history
<1>2. CASE Receive(p) \/ Resume(p) \/ Reply(p) \/ Refuse(p)
  BY <1>2, StoreUnseen DEF Receive, Resume, Reply, Refuse, stores, history
<1>3. CASE Write(p) \/ Delete(p)
  BY <1>3, StoreUnseen
  DEF Write, Delete, CheckParent, WriteFetch, DataPut, Unwind, DataGet, DeleteFetch, Register,
      PerformFetch, Complete, stores, history
<1>4. CASE Scan(p) \/ AppendEvent(p)
  BY <1>4, StoreUnseen DEF Scan, AppendEvent, stores, history
<1>5. CASE PutBlock(p)
  BY <1>5, BlockUnseen
<1>6. CASE PutIndex(p)
  BY <1>6, TakesIn
<1>7. CASE PurgeDescend(p) \/ PurgeGroup(p) \/ PurgeEvents(p) \/ PurgeEnd(p)
  BY <1>7, StoreUnseen DEF PurgeDescend, PurgeGroup, PurgeEvents, PurgeEnd, stores, history
<1>8. CASE PurgeData(p)
  BY <1>8, VanishesIn
<1>9. CASE PurgeBlock(p) \/ PurgeIndex(p)
  BY <1>9, PurgeUnseen
<1>10. CASE CleanData(p) \/ CleanEvents(p) \/ CleanEnd(p)
  BY <1>10, StoreUnseen DEF CleanData, CleanEvents, CleanEnd, stores, history
<1>11. CASE CleanBlock(p) \/ CleanIndex(p) \/ RestoreBlock(p) \/ RestoreIndex(p)
  BY <1>11, CleanUnseen
<1> QED
  BY <1>1, <1>2, <1>3, <1>4, <1>5, <1>6, <1>7, <1>8, <1>9, <1>10, <1>11
  DEF Next, Run, Serial, Store, Purge, Clean

\* One handler at a time, with no stops, does what a client may rely on: a record starts
\* with its initial write, moves to ever newer messages, ends with a delete and disappears
\* only under a pruned record; the copies the handlers work on, the clean-up and the
\* purge, spread over many steps, cannot be told from that.  (storage-controller.ts:43-83
\* and 165-239)
THEOREM ImplementsHistoryAlways ==
    ASSUME NEW p, Serial(p), MaxCrashes = 0
    PROVE  Spec => ImplementsHistory
<1>1. Spec => []SerialInv(p)
  BY SerialAlways
<1>2. Init => History!Init
  BY HistoryInit
<1>3. SerialInv(p) /\ SerialInv(p)' /\ [Next]_vars => [History!Next]_(History!vars)
  BY HistoryStep
<1> QED  BY <1>1, <1>2, <1>3, PTL DEF Spec, ImplementsHistory, History!Spec
=============================================================================
