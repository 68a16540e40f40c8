------------------------ MODULE RecordsReadersProofs ------------------------
(***************************************************************************)
(* What reads return beside one handler at a time, for any messages and    *)
(* any number of read requests side by side: as long as the process does   *)
(* not stop, and, if no delete prunes, beside one stop too.                *)
(*                                                                         *)
(* A reader scans the index and then gets block by block, so it may find   *)
(* what has been replaced since.  Two things make the reads of a record go *)
(* forward all the same: once a message is acknowledged or shown, nothing  *)
(* older of its record that the index still has ever gets its block back   *)
(* (Current), and whatever a reader could find below a message it found    *)
(* it does find, and then answers that there are several (ReadInv).        *)
(***************************************************************************)
EXTENDS RecordsStops, RecordsReaders

\* Message x is older than n and of the same record.
Behind(n, x) == x.rec = n.rec /\ IsNewer(n, x)

\* What is behind message n and in the index has lost its block for good: only
\* initial writes are put back.
Current(n) ==
    /\ n \in accepted
    /\ \A x \in latest : Behind(n, x) => x \notin blocks /\ ~x.initial


\* All the requests need to know of the stores ...
StoresFit ==
    /\ TypeOK
    /\ latest \subseteq indexed /\ indexed \subseteq accepted
    /\ \A x \in indexed : ~x.initial => x \in latest

\* ... and of a step of the DWN: what is behind an accepted message never comes back.
GoesForward ==
    /\ accepted \subseteq accepted'
    /\ \A n \in accepted, x \in Message : Behind(n, x) =>
        /\ x \in latest' => x \in latest
        /\ x \in latest /\ x \in blocks' => x \in blocks
        /\ ~x.initial /\ x \in blocks' => x \in blocks

\* A message stays current.
LEMMA CurrentStays ==
    ASSUME StoresFit, StoresFit', GoesForward, NEW n, Current(n)
    PROVE  Current(n)'
<1>1. n \in accepted /\ n \in accepted'
  BY DEF Current, GoesForward
<1>2. ASSUME NEW x \in latest', Behind(n, x)
      PROVE  x \notin blocks' /\ ~x.initial
  <2>1. x \in Message
    BY DEF StoresFit, TypeOK
  <2>2. x \in latest /\ (~x.initial /\ x \in blocks' => x \in blocks)
    BY <1>1, <1>2, <2>1 DEF GoesForward
  <2> QED  BY <1>2, <2>2 DEF Current
<1> QED  BY <1>1, <1>2 DEF Current, Behind

----------------------------------------------------------------------------
\* The requests.

RLabels == {"idle", "get", "message", "data", "initial", "initialGet", "done"}
Outcomes == {"none", "notFound", "refused", "message", "multiple", "found", "deleted",
             "noInitial", "throws"}

ReaderTypes ==
    /\ rpc \in [Readers -> RLabels] /\ outcome \in [Readers -> Outcomes]
    /\ asked \in [Readers -> Record \cup {NoRecord}]
    /\ toGet \in [Readers -> SUBSET Message] /\ got \in [Readers -> SUBSET Message]
    /\ gotEncoded \in [Readers -> SUBSET Message]
    /\ toAttach \in [Readers -> SUBSET Message]
    /\ foundInitial \in [Readers -> SUBSET Message]
    /\ shownData \in [Readers -> SUBSET Message]
    /\ floor \in [Readers -> [acked : SUBSET Message, shown : SUBSET Message]]

\* The messages of the record that request q has found, got or not.
Has(q) == toGet[q] \cup got[q]

\* What the caller may know from before.
Floor(q) == floor[q].acked \cup floor[q].shown

\* Request q reads a record, and may still return it or does.
Reading(q) ==
    /\ asked[q] # NoRecord
    /\ \/ rpc[q] \in {"get", "data", "initial", "initialGet"}
       \/ rpc[q] = "done" /\ outcome[q] \in {"found", "deleted"}

\* It has all that could be found below a message it has; nothing it has got is
\* behind what the caller knew, and nothing that is will be got.
ReadInv(q) ==
    /\ \A m \in Has(q) : m \in accepted /\ m.rec = asked[q]
    /\ \A m \in Has(q), x \in latest \cap blocks : Behind(m, x) => x \in Has(q)
    /\ \A n \in Floor(q), x \in got[q] : ~Behind(n, x)
    /\ \A n \in Floor(q), x \in toGet[q] : Behind(n, x) => x \notin blocks /\ ~x.initial
    /\ rpc[q] # "get" => toGet[q] = {} /\ \E m \in got[q] : got[q] = {m}
    /\ toAttach[q] \subseteq got[q]
    /\ rpc[q] = "initialGet" => foundInitial[q] \subseteq {InitialWrite(asked[q])}
    /\ rpc[q] = "done" => got[q] \subseteq shown

\* What was acknowledged or returned is current, and a request misses nothing below
\* what it has found.
FreshInv ==
    /\ ReaderTypes
    /\ \A n \in acked \cup shown : Current(n)
    /\ \A q \in Readers :
        /\ floor[q].acked \subseteq acked /\ floor[q].shown \subseteq shown
        /\ Reading(q) => ReadInv(q)

\* A request is not disturbed by the steps of the others.
LEMMA ReadKept ==
    ASSUME StoresFit, StoresFit', GoesForward, NEW q,
           rpc'[q] = rpc[q], asked'[q] = asked[q], toGet'[q] = toGet[q], got'[q] = got[q],
           toAttach'[q] = toAttach[q], foundInitial'[q] = foundInitial[q],
           floor'[q] = floor[q], shown \subseteq shown',
           \A n \in Floor(q) : n \in accepted, ReadInv(q)
    PROVE  ReadInv(q)'
<1>0. TypeOK /\ TypeOK' /\ accepted \subseteq accepted'
  BY DEF StoresFit, GoesForward
<1>1. Has(q)' = Has(q) /\ Floor(q)' = Floor(q)
  BY DEF Has, Floor
<1>2. \A m \in Has(q) : m \in accepted' /\ m \in accepted /\ m.rec = asked[q]
  BY <1>0 DEF ReadInv
<1>3. ASSUME NEW m \in Has(q), NEW x \in latest' \cap blocks', Behind(m, x)
      PROVE  x \in Has(q)
  <2>1. x \in Message /\ m \in accepted
    BY <1>0, <1>2 DEF TypeOK
  <2>2. x \in latest /\ x \in blocks
    BY <1>3, <2>1 DEF GoesForward
  <2> QED  BY <1>3, <2>2 DEF ReadInv
<1>4. ASSUME NEW n \in Floor(q), NEW x \in toGet[q], Behind(n, x)
      PROVE  x \notin blocks' /\ ~x.initial
  <2>1. x \notin blocks /\ ~x.initial /\ n \in accepted
    BY <1>4 DEF ReadInv
  <2>2. x \in Message
    BY <1>0, <1>2 DEF TypeOK, Has
  <2> QED  BY <1>4, <2>1, <2>2 DEF GoesForward
<1> QED  BY <1>1, <1>2, <1>3, <1>4 DEF ReadInv, Behind

\* Nothing comes back when nothing changes.
LEMMA StandingForward ==
    ASSUME UNCHANGED vars PROVE GoesForward /\ (StoresFit => StoresFit')
<1>1. UNCHANGED <<accepted, latest, blocks, indexed>>
  BY DEF vars, stores, history
<1>2. TypeOK => TypeOK'
  BY DEF vars, stores, locals, history, TypeOK
<1> QED  BY <1>1, <1>2 DEF GoesForward, StoresFit

\* What is acknowledged or shown is remembered, in every step but one that changes
\* nothing.
Remembers ==
    acked' = acked \cup Acknowledged' /\ shown' = shown \cup Shown'

Learns ==
    /\ acked \subseteq acked' /\ acked' \subseteq acked \cup Acknowledged'
    /\ shown \subseteq shown' /\ shown' \subseteq shown \cup Shown'

\* A step of the DWN.
LEMMA FreshNext ==
    ASSUME StoresFit, StoresFit', FreshInv, GoesForward, Learns,
           \A n \in Acknowledged' : Current(n)',
           UNCHANGED <<rpc, request, floor, shownData>>
    PROVE  FreshInv'
<1>1. \A n \in Shown' : n \in shown
  BY DEF Shown, request, FreshInv, Reading, ReadInv
<1>2. (\A n \in acked \cup shown : Current(n))'
  <2>1. \A n \in acked \cup shown : Current(n)'
    BY CurrentStays DEF FreshInv
  <2> QED  BY <1>1, <2>1 DEF Learns
<1>3. ReaderTypes'
  BY DEF FreshInv, ReaderTypes, request
<1>4. ASSUME NEW q \in Readers
      PROVE  (/\ floor[q].acked \subseteq acked /\ floor[q].shown \subseteq shown
              /\ Reading(q) => ReadInv(q))'
  <2>1. /\ floor[q].acked \subseteq acked /\ floor[q].shown \subseteq shown
        /\ Reading(q) => ReadInv(q)
    BY DEF FreshInv
  <2>2. \A n \in Floor(q) : n \in accepted
    BY <2>1 DEF FreshInv, Current, Floor
  <2>3. acked \subseteq acked' /\ shown \subseteq shown'
    BY DEF Learns
  <2>4. Reading(q)' => Reading(q)
    BY DEF Reading, request
  <2>5. Reading(q)' => ReadInv(q)'
    BY <2>1, <2>2, <2>3, <2>4, ReadKept DEF request
  <2> QED  BY <2>1, <2>3, <2>5 DEF request
<1> QED  BY <1>2, <1>3, <1>4 DEF FreshInv

\* A step of one request: what it must see to.
LEMMA RequestStep ==
    ASSUME StoresFit, FreshInv, UNCHANGED vars, Remembers, ReaderTypes',
           \A n \in Acknowledged' : Current(n)',
           NEW q \in Readers,
           \A u \in Readers : u # q =>
                /\ rpc'[u] = rpc[u] /\ asked'[u] = asked[u] /\ toGet'[u] = toGet[u]
                /\ got'[u] = got[u] /\ toAttach'[u] = toAttach[u]
                /\ foundInitial'[u] = foundInitial[u] /\ outcome'[u] = outcome[u]
                /\ floor'[u] = floor[u],
           floor'[q].acked \subseteq acked, floor'[q].shown \subseteq shown,
           Reading(q)' => ReadInv(q)',
           Reading(q)' /\ rpc'[q] = "done" => \A n \in got'[q] : Current(n)
    PROVE  FreshInv'
<1>0. GoesForward /\ StoresFit'
  BY StandingForward
<1>1. ASSUME NEW n \in Shown' PROVE Current(n)'
  <2>1. PICK u \in Readers : /\ rpc'[u] = "done" /\ asked'[u] # NoRecord
                             /\ outcome'[u] \in {"found", "deleted"} /\ n \in got'[u]
    BY <1>1 DEF Shown
  <2>2. Current(n)
    <3>1. CASE u = q
      BY <2>1, <3>1 DEF Reading
    <3>2. CASE u # q
      <4>1. Reading(u) /\ rpc[u] = "done" /\ n \in got[u]
        BY <2>1, <3>2 DEF Reading
      <4> QED  BY <4>1 DEF FreshInv, ReadInv
    <3> QED  BY <3>1, <3>2
  <2> QED  BY <1>0, <2>2, CurrentStays
<1>2. (\A n \in acked \cup shown : Current(n))'
  <2>1. \A n \in acked \cup shown : Current(n)'
    BY <1>0, CurrentStays DEF FreshInv
  <2> QED  BY <1>1, <2>1 DEF Remembers
<1>3. acked \subseteq acked' /\ shown \subseteq shown'
  BY DEF Remembers
<1>4. ASSUME NEW u \in Readers, u # q
      PROVE  (/\ floor[u].acked \subseteq acked /\ floor[u].shown \subseteq shown
              /\ Reading(u) => ReadInv(u))'
  <2>1. /\ floor[u].acked \subseteq acked /\ floor[u].shown \subseteq shown
        /\ Reading(u) => ReadInv(u)
    BY DEF FreshInv
  <2>2. \A n \in Floor(u) : n \in accepted
    BY <2>1 DEF FreshInv, Current, Floor
  <2>3. Reading(u)' => Reading(u)
    BY <1>4 DEF Reading
  <2>4. Reading(u)' => ReadInv(u)'
    BY <1>0, <1>3, <1>4, <2>1, <2>2, <2>3, ReadKept
  <2> QED  BY <1>3, <1>4, <2>1, <2>4
<1>5. (/\ floor[q].acked \subseteq acked /\ floor[q].shown \subseteq shown
       /\ Reading(q) => ReadInv(q))'
  BY <1>3
<1> QED  BY <1>2, <1>4, <1>5 DEF FreshInv

\* What is returned is shown.
LEMMA ReturnedIsShown ==
    ASSUME Remembers, NEW q \in Readers, Reading(q)', rpc'[q] = "done"
    PROVE  got'[q] \subseteq shown'
BY DEF Remembers, Shown, Reading

\* The facts about the stores that the requests rest on.
LEMMA StoresAre ==
    ASSUME StoresFit, FreshInv
    PROVE  /\ TypeOK /\ ReaderTypes /\ latest \subseteq indexed /\ indexed \subseteq accepted
           /\ accepted \subseteq Message /\ acked \subseteq accepted /\ shown \subseteq accepted
           /\ latest \subseteq Message /\ indexed \subseteq Message /\ blocks \subseteq Message
           /\ \A r \in Record : \A m \in SupersededWrites(r) : m = InitialWrite(r)
<1>1. TypeOK /\ ReaderTypes /\ latest \subseteq indexed /\ indexed \subseteq accepted
  BY DEF StoresFit, FreshInv
<1>2. \A n \in acked \cup shown : n \in accepted
  BY DEF FreshInv, Current
<1>3. ASSUME NEW r \in Record, NEW m \in SupersededWrites(r)
      PROVE  m = InitialWrite(r)
  <2>1. m \in indexed /\ m \notin latest /\ m.rec = r /\ m \in Message
    BY <1>1, <1>3 DEF SupersededWrites, OfRecord, TypeOK
  <2> QED  BY <2>1, Kinds DEF StoresFit
<1> QED  BY <1>1, <1>2, <1>3 DEF TypeOK

\* The variables of the requests keep their types.
LEMMA TypesKept ==
    ASSUME TypeOK, ReaderTypes, latest \subseteq Message, indexed \subseteq Message,
           acked \subseteq Message, shown \subseteq Message, NEW q \in Readers, Reader(q)
    PROVE  ReaderTypes'
<1>1. CASE AskRecords(q)
  <2>1. PICK r \in Record \cup {NoRecord} :
            /\ Ask(q, r)
            /\ toGet' = [toGet EXCEPT ![q] =
                            IF r = NoRecord THEN LatestWrites ELSE LatestOf(r)]
    BY <1>1 DEF AskRecords
  <2>2. LatestWrites \subseteq Message /\ LatestOf(r) \subseteq Message
    BY DEF LatestWrites, LatestOf, OfRecord
  <2>3. toGet' \in [Readers -> SUBSET Message]
    BY <2>1, <2>2 DEF ReaderTypes
  <2> QED  BY <1>1, <2>1, <2>3 DEF AskRecords, Ask, RGoto, RLabels, Outcomes, ReaderTypes
<1>2. CASE AskMessage(q)
  <2>1. PICK m \in Message :
            /\ Ask(q, m.rec) /\ got' = [got EXCEPT ![q] = {m} \cap blocks]
            /\ gotEncoded' = [gotEncoded EXCEPT ![q] = Encoded({m})]
    BY <1>2 DEF AskMessage
  <2>2. m.rec \in Record /\ Encoded({m}) \subseteq Message
    BY Kinds DEF Encoded
  <2>3. gotEncoded' \in [Readers -> SUBSET Message]
    BY <2>1, <2>2 DEF ReaderTypes
  <2>4. got' \in [Readers -> SUBSET Message]
    BY <2>1 DEF ReaderTypes
  <2>5. /\ asked' = [asked EXCEPT ![q] = m.rec] /\ toAttach' = [toAttach EXCEPT ![q] = {}]
        /\ foundInitial' = [foundInitial EXCEPT ![q] = {}]
        /\ outcome' = [outcome EXCEPT ![q] = "none"]
        /\ floor' = [floor EXCEPT ![q] = [acked |-> acked, shown |-> shown]]
        /\ shownData' = [shownData EXCEPT ![q] = {}] /\ toGet' = [toGet EXCEPT ![q] = {}]
        /\ rpc' = [rpc EXCEPT ![q] = "message"]
    BY <1>2, <2>1 DEF AskMessage, Ask, RGoto
  <2> QED  BY <2>2, <2>3, <2>4, <2>5 DEF RLabels, Outcomes, ReaderTypes
<1>3. CASE ReadMessage(q)
  <2>1. UNCHANGED shownData \/
        shownData' = [shownData EXCEPT ![q] = {w \in got[q] : IsWrite(w) /\ HasData(q, w)}]
    BY <1>3 DEF ReadMessage
  <2>2. shownData' \in [Readers -> SUBSET Message]
    BY <2>1 DEF ReaderTypes
  <2> QED  BY <1>3, <2>2 DEF ReadMessage, End, RGoto, RLabels, Outcomes, ReaderTypes
<1>4. CASE Get(q)
  <2>1. PICK m \in Message : gotEncoded' = [gotEncoded EXCEPT ![q] = @ \cup Encoded({m})]
    BY <1>4 DEF Get, ReaderTypes
  <2>2. Encoded({m}) \subseteq Message
    BY DEF Encoded
  <2>3. gotEncoded' \in [Readers -> SUBSET Message]
    BY <2>1, <2>2 DEF ReaderTypes
  <2>4. toGet' \in [Readers -> SUBSET Message] /\ got' \in [Readers -> SUBSET Message]
    BY <1>4 DEF Get, ReaderTypes
  <2>5. UNCHANGED <<rpc, asked, toAttach, foundInitial, outcome, floor, shownData>>
    BY <1>4 DEF Get
  <2> QED  BY <2>3, <2>4, <2>5 DEF ReaderTypes
<1>5. CASE CheckRead(q) \/ RefuseRead(q) \/ GetInitial(q) \/ Return(q)
  <2>1. UNCHANGED <<asked, toGet, got, gotEncoded, toAttach, foundInitial, floor>>
    BY <1>5 DEF CheckRead, RefuseRead, GetInitial, Return, request
  <2>3. shownData' \in [Readers -> SUBSET Message]
    <3>1. Encoded(foundInitial[q]) \subseteq Message
      BY DEF Encoded, ReaderTypes
    <3>2. \/ shownData' = shownData
          \/ shownData' = [shownData EXCEPT ![q] = Encoded(foundInitial[q])]
      BY <1>5 DEF CheckRead, RefuseRead, GetInitial, Return
    <3> QED  BY <3>1, <3>2 DEF ReaderTypes
  <2>2. /\ \E l \in RLabels : rpc' = [rpc EXCEPT ![q] = l]
        /\ outcome' = outcome \/ \E h \in Outcomes : outcome' = [outcome EXCEPT ![q] = h]
    BY <1>5 DEF CheckRead, RefuseRead, GetInitial, Return, request, End, RGoto, RLabels,
                Outcomes
  <2> QED  BY <2>1, <2>2, <2>3 DEF ReaderTypes
<1>6. CASE ReadData(q)
  <2>1. PICK m \in got[q] :
          \/ /\ shownData' = [shownData EXCEPT ![q] = {m}]
             /\ \/ End(q, "found") /\ UNCHANGED toAttach
                \/ /\ RGoto(q, "initial") /\ UNCHANGED outcome
                   /\ toAttach' = [toAttach EXCEPT ![q] = {m}]
          \/ End(q, "notFound") /\ UNCHANGED <<toAttach, shownData>>
    BY <1>6 DEF ReadData
  <2>2. m \in Message
    BY DEF ReaderTypes
  <2>3. UNCHANGED <<asked, toGet, got, gotEncoded, foundInitial, floor>>
    BY <1>6 DEF ReadData
  <2>4. {m} \in SUBSET Message
    BY <2>2
  <2>5. shownData' \in [Readers -> SUBSET Message] /\ toAttach' \in [Readers -> SUBSET Message]
    <3>1. shownData' = shownData \/ shownData' = [shownData EXCEPT ![q] = {m}]
      BY <2>1
    <3>2. toAttach' = toAttach \/ toAttach' = [toAttach EXCEPT ![q] = {m}]
      BY <2>1
    <3>3. shownData' \in [Readers -> SUBSET Message]
      BY <2>4, <3>1 DEF ReaderTypes
    <3>4. toAttach' \in [Readers -> SUBSET Message]
      BY <2>4, <3>2 DEF ReaderTypes
    <3> QED  BY <3>3, <3>4
  <2>6. rpc' \in [Readers -> RLabels] /\ outcome' \in [Readers -> Outcomes]
    BY <2>1 DEF End, RGoto, RLabels, Outcomes, ReaderTypes
  <2> QED  BY <2>3, <2>5, <2>6 DEF ReaderTypes
<1>7. CASE CheckQuery(q)
  <2>1. toAttach' = [toAttach EXCEPT ![q] = {m \in got[q] : ~m.initial}]
    BY <1>7 DEF CheckQuery
  <2>2. toAttach' \in [Readers -> SUBSET Message]
    BY <2>1 DEF ReaderTypes
  <2>3. shownData' \in [Readers -> SUBSET Message]
    BY <1>7 DEF CheckQuery, ReaderTypes
  <2> QED  BY <1>7, <2>2, <2>3 DEF CheckQuery, End, RGoto, RLabels, Outcomes, ReaderTypes
<1>8. CASE ScanInitial(q)
  <2>1. PICK F \in SUBSET Message : foundInitial' = [foundInitial EXCEPT ![q] = F]
    <3>1. \A r : /\ SupersededWrites(r) \subseteq Message
                 /\ {m \in OfRecord(indexed, r) : m.initial} \subseteq Message
      BY DEF SupersededWrites, OfRecord
    <3> QED  BY <1>8, <3>1 DEF ScanInitial
  <2>2. toAttach' \in [Readers -> SUBSET Message]
    BY <1>8 DEF ScanInitial, ReaderTypes
  <2> QED  BY <1>8, <2>1, <2>2 DEF ScanInitial, RGoto, RLabels, ReaderTypes
<1> QED  BY <1>1, <1>2, <1>3, <1>4, <1>5, <1>6, <1>7, <1>8 DEF Reader

\* What data a request gives out, or has with it to give out.
Held(q) == shownData[q] \cup gotEncoded[q]

\* A request touches nothing of the others, and knows what it knew when it was made.
LEMMA RequestFrame ==
    ASSUME ReaderTypes, NEW q \in Readers, Reader(q)
    PROVE  /\ \A u \in Readers : u # q =>
                /\ rpc'[u] = rpc[u] /\ asked'[u] = asked[u] /\ toGet'[u] = toGet[u]
                /\ got'[u] = got[u] /\ toAttach'[u] = toAttach[u]
                /\ foundInitial'[u] = foundInitial[u] /\ outcome'[u] = outcome[u]
                /\ floor'[u] = floor[u] /\ Held(u)' = Held(u)
           /\ \/ floor' = floor
              \/ /\ floor'[q] = [acked |-> acked, shown |-> shown]
                 /\ Held(q)' \subseteq encoded
<1> SUFFICES
        /\ \A u \in Readers : u # q =>
             /\ rpc'[u] = rpc[u] /\ asked'[u] = asked[u] /\ toGet'[u] = toGet[u]
             /\ got'[u] = got[u] /\ toAttach'[u] = toAttach[u]
             /\ foundInitial'[u] = foundInitial[u] /\ outcome'[u] = outcome[u]
             /\ floor'[u] = floor[u] /\ shownData'[u] = shownData[u]
             /\ gotEncoded'[u] = gotEncoded[u]
        /\ \/ floor' = floor
           \/ /\ floor'[q] = [acked |-> acked, shown |-> shown]
              /\ shownData'[q] = {} /\ gotEncoded'[q] \subseteq encoded
  BY DEF Held
<1>1. CASE AskRecords(q)
  BY <1>1 DEF AskRecords, Ask, RGoto, ReaderTypes
<1>2. CASE AskMessage(q)
  BY <1>2 DEF AskMessage, Ask, RGoto, Encoded, ReaderTypes
<1>3. CASE ReadMessage(q) \/ Get(q)
  BY <1>3 DEF ReadMessage, Get, End, RGoto, ReaderTypes
<1>4. CASE CheckRead(q) \/ RefuseRead(q) \/ GetInitial(q) \/ Return(q)
  BY <1>4 DEF CheckRead, RefuseRead, GetInitial, Return, request, End, RGoto, ReaderTypes
<1>5. CASE ReadData(q) \/ CheckQuery(q) \/ ScanInitial(q)
  BY <1>5 DEF ReadData, CheckQuery, ScanInitial, End, RGoto, ReaderTypes
<1> QED  BY <1>1, <1>2, <1>3, <1>4, <1>5 DEF Reader

\* What the request still reads ...
LEMMA RequestReads ==
    ASSUME StoresFit, FreshInv, UNCHANGED vars, Remembers, ReaderTypes',
           NEW q \in Readers, Reader(q), Reading(q)'
    PROVE  ReadInv(q)'
<1>0. /\ TypeOK /\ ReaderTypes /\ UNCHANGED <<blocks, latest, accepted, indexed>>
      /\ latest \subseteq accepted /\ accepted \subseteq Message
      /\ \A r \in Record : \A m \in SupersededWrites(r) : m = InitialWrite(r)
  BY StoresAre DEF vars, stores, history
<1>1. CASE AskRecords(q)
  <2>1. PICK r \in Record \cup {NoRecord} :
          /\ asked' = [asked EXCEPT ![q] = r]
          /\ toGet' = [toGet EXCEPT ![q] = IF r = NoRecord THEN LatestWrites ELSE LatestOf(r)]
          /\ toAttach' = [toAttach EXCEPT ![q] = {}]
          /\ floor' = [floor EXCEPT ![q] = [acked |-> acked, shown |-> shown]]
    BY <1>1 DEF AskRecords, Ask
  <2>2. /\ asked'[q] = r /\ r # NoRecord /\ toGet'[q] = LatestOf(r) /\ got'[q] = {}
        /\ toAttach'[q] = {} /\ rpc'[q] = "get" /\ floor'[q] = [acked |-> acked, shown |-> shown]
    BY <1>0, <1>1, <2>1 DEF AskRecords, RGoto, ReaderTypes, Reading
  <2>3. \A x \in LatestOf(r) : x \in latest /\ x.rec = r
    BY DEF LatestOf, OfRecord
  <2>4. \A x \in latest : x.rec = r => x \in LatestOf(r)
    BY DEF LatestOf, OfRecord
  <2>5. \A n \in acked \cup shown : Current(n)
    BY DEF FreshInv
  <2>6. Floor(q)' = acked \cup shown /\ Has(q)' = LatestOf(r)
    BY <2>2 DEF Floor, Has
  <2>7. (\A m \in Has(q) : m \in accepted /\ m.rec = asked[q])'
    BY <1>0, <2>2, <2>3, <2>6
  <2>8. (\A m \in Has(q), x \in latest \cap blocks : Behind(m, x) => x \in Has(q))'
    BY <1>0, <2>3, <2>4, <2>6 DEF Behind
  <2>9. (\A n \in Floor(q), x \in toGet[q] : Behind(n, x) => x \notin blocks /\ ~x.initial)'
    BY <1>0, <2>2, <2>3, <2>5, <2>6 DEF Current, Behind
  <2> QED  BY <2>2, <2>7, <2>8, <2>9 DEF ReadInv
<1>2. CASE AskMessage(q) \/ ReadMessage(q) \/ CheckQuery(q) \/ RefuseRead(q) \/ Return(q)
  <2>1. \/ rpc'[q] \in {"message", "idle"}
        \/ rpc'[q] = "done" /\ outcome'[q] \in {"notFound", "refused", "message"}
        \/ asked'[q] = NoRecord
    BY <1>0, <1>2 DEF AskMessage, ReadMessage, CheckQuery, RefuseRead, Return, End, RGoto,
                      ReaderTypes
  <2> QED  BY <2>1 DEF Reading
<1>3. ASSUME ~AskRecords(q), ~(AskMessage(q) \/ ReadMessage(q) \/ CheckQuery(q)
                                \/ RefuseRead(q) \/ Return(q))
      PROVE  /\ Get(q) \/ CheckRead(q) \/ ReadData(q) \/ ScanInitial(q) \/ GetInitial(q)
             /\ asked'[q] = asked[q] /\ floor'[q] = floor[q] /\ ReadInv(q)
             /\ asked[q] \in Record
  <2>1. Get(q) \/ CheckRead(q) \/ ReadData(q) \/ ScanInitial(q) \/ GetInitial(q)
    BY <1>3 DEF Reader
  <2>2. /\ asked'[q] = asked[q] /\ floor'[q] = floor[q]
        /\ rpc[q] \in {"get", "data", "initial", "initialGet"}
    BY <2>1 DEF Get, CheckRead, ReadData, ScanInitial, GetInitial
  <2>3. Reading(q)
    BY <2>2 DEF Reading
  <2> QED  BY <1>0, <2>1, <2>2, <2>3 DEF FreshInv, Reading, ReaderTypes
<1>4. ASSUME rpc'[q] = "done"
      PROVE  got'[q] \subseteq shown'
  BY <1>4, ReturnedIsShown
<1>5. CASE Get(q)
  <2>1. PICK m \in toGet[q] :
          /\ toGet'[q] = toGet[q] \ {m} /\ got'[q] = got[q] \cup ({m} \cap blocks)
          /\ toAttach'[q] = toAttach[q] /\ rpc'[q] = "get" /\ rpc[q] = "get"
          /\ asked'[q] = asked[q] /\ floor'[q] = floor[q]
    BY <1>0, <1>5 DEF Get, ReaderTypes
  <2>2. ReadInv(q)
    BY <2>1 DEF FreshInv, Reading
  <2>3. Floor(q)' = Floor(q) /\ Has(q)' \subseteq Has(q) /\ Has(q) \cap blocks \subseteq Has(q)'
    BY <2>1 DEF Floor, Has
  <2>4. (\A n \in Floor(q), x \in got[q] : ~Behind(n, x))'
    BY <1>0, <2>1, <2>2, <2>3 DEF ReadInv, Behind
  <2>5. (\A k \in Has(q) : k \in accepted /\ k.rec = asked[q])'
    BY <1>0, <2>1, <2>2, <2>3 DEF ReadInv
  <2>6. (\A k \in Has(q), x \in latest \cap blocks : Behind(k, x) => x \in Has(q))'
    BY <1>0, <2>2, <2>3 DEF ReadInv, Behind
  <2>7. (\A n \in Floor(q), x \in toGet[q] : Behind(n, x) => x \notin blocks /\ ~x.initial)'
    BY <1>0, <2>1, <2>2, <2>3 DEF ReadInv, Behind
  <2>8. toAttach'[q] \subseteq got'[q]
    BY <2>1, <2>2 DEF ReadInv
  <2> QED  BY <2>1, <2>4, <2>5, <2>6, <2>7, <2>8 DEF ReadInv
<1>6. ASSUME CheckRead(q) \/ ReadData(q) \/ ScanInitial(q) \/ GetInitial(q), ReadInv(q),
             asked'[q] = asked[q], floor'[q] = floor[q], asked[q] \in Record
      PROVE  ReadInv(q)'
  <2>1. /\ toGet' = toGet /\ got' = got /\ rpc'[q] # "get"
        /\ rpc[q] \in {"get", "data", "initial", "initialGet"}
    BY <1>0, <1>6 DEF CheckRead, ReadData, ScanInitial, GetInitial, End, RGoto, ReaderTypes
  <2>2. Has(q)' = Has(q) /\ Floor(q)' = Floor(q)
    BY <1>6, <2>1 DEF Has, Floor
  <2>3. toGet[q] = {} /\ \E m \in got[q] : got[q] = {m}
    <3>1. CASE CheckRead(q)
      <4>1. \/ outcome'[q] \in {"notFound", "multiple"} /\ rpc'[q] = "done"
            \/ \E m \in got[q] : got[q] = {m}
        BY <1>0, <3>1 DEF CheckRead, End, RGoto, ReaderTypes
      <4> QED  BY <3>1, <4>1 DEF Reading, CheckRead
    <3>2. CASE ~CheckRead(q)
      <4>1. rpc[q] # "get"
        BY <1>6, <3>2 DEF ReadData, ScanInitial, GetInitial
      <4> QED  BY <1>6, <4>1 DEF ReadInv
    <3> QED  BY <3>1, <3>2
  <2>4. toAttach'[q] \subseteq got[q]
    <3>1. CASE ReadData(q)
      <4>1. PICK m \in got[q] : toAttach' = toAttach \/ toAttach' = [toAttach EXCEPT ![q] = {m}]
        BY <3>1 DEF ReadData
      <4> QED  BY <1>0, <1>6, <4>1 DEF ReadInv, ReaderTypes
    <3>2. CASE ScanInitial(q)
      <4>1. toAttach'[q] \subseteq toAttach[q]
        BY <1>0, <3>2 DEF ScanInitial, ReaderTypes
      <4> QED  BY <1>6, <4>1 DEF ReadInv
    <3>3. CASE CheckRead(q) \/ GetInitial(q)
      BY <1>6, <3>3 DEF CheckRead, GetInitial, ReadInv
    <3> QED  BY <1>6, <3>1, <3>2, <3>3
  <2>5. rpc'[q] = "initialGet" => foundInitial'[q] \subseteq {InitialWrite(asked[q])}
    <3>1. CASE ScanInitial(q)
      <4>1. \A m \in toAttach[q] : m.rec = asked[q]
        BY <1>6 DEF ReadInv, Has
      <4>2. {m \in OfRecord(indexed, asked[q]) : m.initial} \subseteq {InitialWrite(asked[q])}
        BY <1>0, Kinds DEF OfRecord, TypeOK
      <4>3. foundInitial'[q] \in {SupersededWrites(asked[q]),
                                  {m \in OfRecord(indexed, asked[q]) : m.initial}}
        BY <1>0, <3>1, <4>1 DEF ScanInitial, ReaderTypes
      <4> QED  BY <1>0, <1>6, <4>2, <4>3
    <3>2. CASE ~ScanInitial(q)
      <4>1. rpc'[q] # "initialGet"
        BY <1>0, <1>6, <3>2 DEF CheckRead, ReadData, GetInitial, End, RGoto, ReaderTypes
      <4> QED  BY <4>1
    <3> QED  BY <3>1, <3>2
  <2> QED  BY <1>0, <1>4, <1>6, <2>1, <2>2, <2>3, <2>4, <2>5 DEF ReadInv
<1> QED  BY <1>1, <1>2, <1>3, <1>5, <1>6

\* ... and what it returns is current: what it could have found below that message is
\* not to be found, and the initial write is there.
LEMMA RequestReturns ==
    ASSUME StoresFit, FreshInv, ReaderTypes', UNCHANGED vars, NEW q \in Readers,
           Reader(q), Reading(q)', rpc'[q] = "done", NEW n \in got'[q]
    PROVE  Current(n)
<1>0. /\ TypeOK /\ ReaderTypes /\ latest \subseteq Message
  BY StoresAre
<1>1. ReadData(q) \/ GetInitial(q)
  <2>1. CASE AskRecords(q) \/ Get(q) \/ ScanInitial(q) \/ AskMessage(q) \/ Return(q)
    <3>1. rpc'[q] # "done"
      BY <1>0, <2>1 DEF AskRecords, Get, ScanInitial, AskMessage, Return, RGoto, ReaderTypes
    <3> QED  BY <3>1
  <2>2. CASE CheckRead(q) \/ RefuseRead(q) \/ ReadMessage(q) \/ CheckQuery(q)
    <3>1. \/ outcome'[q] \in {"notFound", "multiple", "refused", "message"}
          \/ asked'[q] = NoRecord
      BY <1>0, <2>2 DEF CheckRead, RefuseRead, ReadMessage, CheckQuery, End, RGoto, ReaderTypes
    <3> QED  BY <3>1 DEF Reading
  <2> QED  BY <2>1, <2>2 DEF Reader
<1>2. /\ got' = got /\ asked'[q] = asked[q] /\ rpc[q] \in {"data", "initialGet"}
      /\ outcome'[q] \in {"found", "deleted"} /\ asked[q] # NoRecord
  BY <1>1 DEF ReadData, GetInitial, Reading
<1>3. ReadInv(q)
  BY <1>2 DEF FreshInv, Reading
<1>4. /\ got[q] = {n} /\ Has(q) = {n} /\ n \in accepted /\ n.rec = asked[q] /\ n \in Message
      /\ asked[q] \in Record
  BY <1>0, <1>2, <1>3 DEF ReadInv, Has, ReaderTypes
<1>5. ASSUME NEW x \in latest, Behind(n, x)
      PROVE  x \notin blocks
  <2>1. x # n
    BY <1>0, <1>4, <1>5, NewerOrder DEF Behind
  <2> QED  BY <1>3, <1>4, <1>5, <2>1 DEF ReadInv
<1>6. ASSUME NEW x \in latest, Behind(n, x), x.initial
      PROVE  FALSE
  <2>1. x \in Message /\ x = InitialWrite(asked[q])
    BY <1>0, <1>4, <1>6, Kinds DEF Behind
  <2>2. CASE ReadData(q)
    <3>1. n.initial
      BY <1>0, <1>2, <1>4, <2>2 DEF ReadData, End, RGoto, ReaderTypes
    <3>2. x = n
      BY <1>4, <2>1, <3>1, Kinds
    <3> QED  BY <1>4, <1>6, <3>2, NewerOrder DEF Behind
  <2>3. CASE GetInitial(q)
    <3>1. rpc[q] = "initialGet" /\ foundInitial[q] \cap blocks # {}
      BY <1>0, <1>2, <2>3 DEF GetInitial, End, RGoto, ReaderTypes
    <3>2. x \in blocks
      BY <1>3, <2>1, <3>1 DEF ReadInv
    <3> QED  BY <1>5, <1>6, <3>2
  <2> QED  BY <1>1, <2>2, <2>3
<1> QED  BY <1>0, <1>4, <1>5, <1>6 DEF Current

\* A step of a request.
LEMMA FreshRequest ==
    ASSUME StoresFit, FreshInv, UNCHANGED vars, Remembers,
           \A n \in Acknowledged' : Current(n)', NEW q \in Readers, Reader(q)
    PROVE  FreshInv'
<1>0. TypeOK /\ ReaderTypes /\ latest \subseteq Message /\ indexed \subseteq Message
      /\ acked \subseteq Message /\ shown \subseteq Message
  BY StoresAre
<1>1. ReaderTypes'
  BY <1>0, TypesKept
<1>2. /\ \A u \in Readers : u # q =>
            /\ rpc'[u] = rpc[u] /\ asked'[u] = asked[u] /\ toGet'[u] = toGet[u]
            /\ got'[u] = got[u] /\ toAttach'[u] = toAttach[u]
            /\ foundInitial'[u] = foundInitial[u] /\ outcome'[u] = outcome[u]
            /\ floor'[u] = floor[u]
      /\ \/ floor' = floor
         \/ floor'[q] = [acked |-> acked, shown |-> shown]
  BY <1>0, RequestFrame
<1>3. floor'[q].acked \subseteq acked /\ floor'[q].shown \subseteq shown
  BY <1>2 DEF FreshInv
<1>4. Reading(q)' => ReadInv(q)'
  BY <1>1, RequestReads
<1>5. Reading(q)' /\ rpc'[q] = "done" => \A n \in got'[q] : Current(n)
  BY <1>1, RequestReturns
<1> QED  BY <1>1, <1>2, <1>3, <1>4, <1>5, RequestStep

\* Where the data comes from that a request gives out or holds: with a block just read, or
\* from the data store for a message read before.
LEMMA HeldIsStored ==
    ASSUME ReaderTypes, NEW q \in Readers, Reader(q), NEW w \in Held(q)', w \notin Held(q)
    PROVE  \/ w \in encoded
           \/ /\ ReadMessage(q) \/ ReadData(q)
              /\ w \in got[q] /\ w \in Message /\ <<w.rec, w.data>> \in data
<1> USE DEF Held
<1>1. CASE AskRecords(q) \/ AskMessage(q) \/ Get(q) \/ GetInitial(q)
  BY <1>1 DEF AskRecords, AskMessage, Get, GetInitial, Ask, Encoded, ReaderTypes
<1>2. CASE CheckRead(q) \/ RefuseRead(q) \/ ScanInitial(q) \/ Return(q)
  BY <1>2 DEF CheckRead, RefuseRead, ScanInitial, Return, request
<1>3. CASE CheckQuery(q)
  BY <1>3 DEF CheckQuery, ReaderTypes
<1>4. CASE ReadMessage(q)
  <2>1. /\ gotEncoded' = gotEncoded
        /\ shownData'[q] \subseteq shownData[q] \cup {x \in got[q] : HasData(q, x)}
    BY <1>4 DEF ReadMessage, ReaderTypes
  <2> QED  BY <1>4, <2>1 DEF HasData, ReaderTypes
<1>5. CASE ReadData(q)
  <2>1. PICK m \in got[q] : \/ HasData(q, m) /\ shownData' = [shownData EXCEPT ![q] = {m}]
                            \/ shownData' = shownData
    BY <1>5 DEF ReadData
  <2>2. gotEncoded' = gotEncoded
    BY <1>5 DEF ReadData
  <2>3. w = m /\ HasData(q, m)
    BY <2>1, <2>2 DEF ReaderTypes
  <2>4. w \in Message /\ w \in got[q]
    BY <2>3 DEF ReaderTypes
  <2> QED  BY <1>5, <2>3, <2>4 DEF HasData
<1> QED  BY <1>1, <1>2, <1>3, <1>4, <1>5 DEF Reader

\* At the start no request is made.
LEMMA FreshInit == ASSUME RInit PROVE FreshInv
<1>1. ReaderTypes
  BY DEF RInit, NothingKnown, ReaderTypes, RLabels, Outcomes
<1> QED  BY <1>1 DEF RInit, NothingKnown, FreshInv, Reading

\* No read goes back behind what was acknowledged or returned before.
LEMMA FreshReads == ASSUME FreshInv PROVE ReadIsFresh
<1> SUFFICES ASSUME NEW q \in Readers, rpc[q] = "done", outcome[q] \in {"found", "deleted"},
                    asked[q] # NoRecord, NEW m \in got[q],
                    NEW n \in floor[q].acked \cup floor[q].shown,
                    m.rec = n.rec, IsNewer(n, m)
             PROVE  FALSE
  BY DEF ReadIsFresh
<1>1. ReadInv(q)
  BY DEF FreshInv, Reading
<1> QED  BY <1>1 DEF ReadInv, Floor, Behind

----------------------------------------------------------------------------
\* One handler, and no stop.

\* A record that was deleted has neither a write to be found nor data.
Hidden(r) ==
    /\ r \in purged \/ \E d \in indexed : d.rec = r /\ IsDelete(d)
    /\ \A x \in latest : x.rec = r => IsDelete(x)
    /\ \A c \in DataCid \cup {NoData} : <<r, c>> \notin data

\* What SerialInv does not say of the stores: only initial writes leave the latest
\* state, and only its writes have encoded data, but for the one that is being put.
StoresInv(p) ==
    /\ \A x \in indexed : ~x.initial => x \in latest
    /\ \A x \in encoded :
        /\ IsWrite(x) /\ x \in blocks
        /\ x \in latest \/ (x = req[p] /\ pc[p] = "putIndex" /\ BecomesLatest(p))

\* What is acknowledged is stored: a task that was registered can be performed.
AnswerInv(p) ==
    /\ pc[p] \in {"register", "performScan", "performFetch"} =>
        CanPerformDelete(req[p], OfRecord(indexed, req[p].rec))
    /\ pc[p] = "complete" \/ (pc[p] = "reply" /\ reply[p] = 202) => req[p] \in indexed

\* A message comes or goes ...
Puts(p) == PutBlock(p) \/ PutIndex(p)
Cleans(p) == CleanBlock(p) \/ CleanIndex(p) \/ RestoreBlock(p) \/ RestoreIndex(p)
Drops(p) == PurgeBlock(p) \/ PurgeIndex(p)

\* ... or none does.
StandsStill(p) ==
    /\ UNCHANGED <<blocks, encoded, indexed, latest>>
    /\ data' \subseteq data \/ DataPut(p)

LEMMA StepIs ==
    ASSUME NEW p, Serial(p), StoreInv, [Next]_vars
    PROVE  /\ \/ (Puts(p) \/ Cleans(p) \/ Drops(p)) /\ data' = data
              \/ StandsStill(p)
           /\ accepted \subseteq accepted' /\ purged \subseteq purged'
<1>1. CASE UNCHANGED vars \/ Grab \/ Crash
  BY <1>1 DEF vars, stores, history, Grab, Crash, StandsStill
<1>2. CASE Receive(p) \/ Resume(p) \/ Reply(p) \/ Refuse(p)
  BY <1>2 DEF stores, history, Receive, Resume, Reply, Refuse, StandsStill
<1>3. CASE Write(p)
  <2>1. CASE DataPut(p)
    BY <2>1 DEF DataPut, history, StandsStill
  <2> QED  BY <1>3, <2>1 DEF Write, CheckParent, WriteFetch, Unwind, DataGet, stores, history,
                             StandsStill
<1>4. CASE Delete(p)
  BY <1>4 DEF Delete, DeleteFetch, Register, PerformFetch, Complete, stores, history,
              StandsStill
<1>5. CASE Store(p)
  <2>1. CASE PutBlock(p) \/ PutIndex(p)
    BY <2>1 DEF PutBlock, PutIndex, history, Puts
  <2> QED  BY <1>5, <2>1 DEF Store, Scan, AppendEvent, stores, history, StandsStill
<1>6. CASE Purge(p)
  <2>1. CASE PurgeBlock(p) \/ PurgeIndex(p)
    BY <2>1 DEF PurgeBlock, PurgeIndex, history, Drops
  <2>2. CASE PurgeData(p)
    <3>1. /\ UNCHANGED <<blocks, encoded, indexed, latest, accepted>>
          /\ data' \subseteq data /\ purged \subseteq purged'
      BY <2>2 DEF PurgeData
    <3> QED  BY <3>1 DEF StandsStill
  <2> QED  BY <1>6, <2>1, <2>2 DEF Purge, PurgeDescend, PurgeGroup, PurgeEvents, PurgeEnd,
                                   stores, history, StandsStill
<1>7. CASE Clean(p)
  <2>1. CASE CleanBlock(p) \/ CleanIndex(p) \/ RestoreBlock(p) \/ RestoreIndex(p)
    BY <2>1 DEF CleanBlock, CleanIndex, RestoreBlock, RestoreIndex, history, Cleans
  <2>2. CASE CleanData(p)
    <3>1. /\ UNCHANGED <<blocks, encoded, indexed, latest, accepted, purged>>
          /\ data' \subseteq data
      BY <2>2 DEF CleanData, history
    <3> QED  BY <3>1 DEF StandsStill
  <2> QED  BY <1>7, <2>1, <2>2 DEF Clean, CleanEvents, CleanEnd, stores, history, StandsStill
<1> QED  BY <1>1, <1>2, <1>3, <1>4, <1>5, <1>6, <1>7 DEF Next, Run, Serial

\* The message in hand while it is put: newer than all that is stored of its record,
\* and so than all that was accepted.
LEMMA PutIsNewest ==
    ASSUME NEW p, Serial(p), SerialInv(p), pc[p] \in Putting
    PROVE  /\ req[p] \in Message /\ InHand(p) /\ req[p].rec \notin purged
           /\ req[p] \notin indexed /\ req[p] \notin latest
           /\ \A n \in accepted : n.rec = req[p].rec => IsNewer(req[p], n)
           /\ IsWrite(req[p]) =>
                \A d \in indexed : d.rec = req[p].rec => IsWrite(d)
<1>0. /\ TypeOK /\ req[p] \in Message /\ existing[p] \subseteq Message
      /\ pc[p] \in Busy /\ pc[p] \notin Cleaning /\ pc[p] \notin Cleaning
  BY Handler DEF SerialInv, Busy, Putting, Cleaning, CleaningOne
<1>1. InHand(p) /\ Follows(p) /\ req[p].rec \notin purged
  BY <1>0 DEF SerialInv, InHand
<1>2. \A x \in Message : x.rec = req[p].rec => (x \in indexed <=> x \in existing[p])
  BY <1>0, <1>1, NewerOrder DEF InHand, HasIndex, Follows
<1>3. req[p] \notin indexed /\ req[p] \notin latest
  BY <1>0, <1>1, <1>2, NewerOrder DEF InHand, Follows
<1>4. ASSUME NEW n \in accepted, n.rec = req[p].rec
      PROVE  IsNewer(req[p], n)
  <2>1. n \in Message /\ Covered(n)
    BY <1>0 DEF SerialInv, StoreInv, TypeOK
  <2>2. PICK k \in Stored : k.rec = n.rec /\ (k = n \/ IsNewer(k, n))
    BY <1>1, <1>4, <2>1 DEF Covered
  <2>3. k \in Message /\ k \in existing[p]
    BY <1>0, <1>2, <1>4, <2>2 DEF Stored, TypeOK
  <2>4. IsNewer(req[p], k)
    BY <1>1, <2>3 DEF Follows
  <2> QED  BY <1>0, <2>1, <2>2, <2>3, <2>4, NewerOrder
<1>5. ASSUME IsWrite(req[p]), NEW d \in indexed, d.rec = req[p].rec
      PROVE  IsWrite(d)
  BY <1>0, <1>1, <1>2, <1>5 DEF TypeOK, Follows
<1> QED  BY <1>0, <1>1, <1>3, <1>4, <1>5

\* The message that is cleaned up: older than the one in hand, which is stored.
LEMMA CleanedIs ==
    ASSUME NEW p, Serial(p), SerialInv(p), pc[p] \in CleaningOne
    PROVE  /\ req[p] \in indexed /\ req[p] \in Message /\ cur[p] \in Message
           /\ cur[p].rec = req[p].rec /\ cur[p] # req[p] /\ InHand(p)
           /\ pc[p] \in {"restoreBlock", "restoreIndex"} =>
                cur[p].initial /\ cur[p] \notin latest
           /\ pc[p] = "cleanIndex" => cur[p] \notin blocks
           /\ IsDelete(cur[p]) => IsDelete(req[p])
<1>0. /\ TypeOK /\ req[p] \in Message /\ existing[p] \subseteq Message /\ cur[p] \in Message
      /\ pc[p] \in Busy /\ pc[p] \in Cleaning /\ pc[p] \notin Putting
  BY Handler DEF SerialInv, Busy, Putting, Cleaning, CleaningOne
<1>1. InHand(p) /\ Follows(p) /\ cur[p] \in existing[p] \ todo[p]
  BY <1>0 DEF SerialInv, InHand
<1>2. cur[p].rec = req[p].rec /\ cur[p] # req[p]
  BY <1>0, <1>1, NewerOrder DEF Follows
<1>3. req[p] \in indexed
  BY <1>0, <1>1 DEF InHand, HasIndex
<1>4. pc[p] \in {"restoreBlock", "restoreIndex"} => cur[p].initial /\ cur[p] \notin latest
  BY <1>0, <1>1, <1>2 DEF InHand, MayBeLatest
<1>5. pc[p] = "cleanIndex" => cur[p] \notin blocks
  BY <1>0, <1>1, <1>2 DEF InHand, HasBlock
<1>6. IsDelete(cur[p]) => IsDelete(req[p])
  BY <1>0, <1>1, Kinds DEF Follows
<1> QED  BY <1>0, <1>1, <1>2, <1>3, <1>4, <1>5, <1>6

\* What is behind an accepted message never comes back.
LEMMA NoneComesBack ==
    ASSUME NEW p, Serial(p), SerialInv(p), [Next]_vars,
           NEW n \in accepted, NEW x \in Message, Behind(n, x)
    PROVE  /\ x \in latest' => x \in latest
           /\ x \in latest /\ x \in blocks' => x \in blocks
           /\ ~x.initial /\ x \in blocks' => x \in blocks
<1>0. TypeOK /\ StoreInv /\ n \in Message
  BY DEF SerialInv, StoreInv, TypeOK
<1>1. CASE Puts(p)
  <2>1. pc[p] \in Putting
    BY <1>1 DEF Puts, PutBlock, PutIndex, Putting
  <2>2. x # req[p]
    BY <1>0, <2>1, PutIsNewest, NewerOrder DEF Behind
  <2>3. blocks' \subseteq blocks \cup {req[p]} /\ latest' \subseteq latest \cup {req[p]}
    BY <1>1 DEF Puts, PutBlock, PutIndex
  <2> QED  BY <2>2, <2>3
<1>2. CASE Cleans(p)
  <2>1. CASE RestoreBlock(p)
    <3>1. pc[p] \in CleaningOne /\ pc[p] = "restoreBlock"
      BY <2>1 DEF RestoreBlock, CleaningOne
    <3>2. cur[p].initial /\ cur[p] \notin latest
      BY <3>1, CleanedIs
    <3>3. blocks' = blocks \cup {cur[p]} /\ latest' = latest
      BY <2>1 DEF RestoreBlock
    <3> QED  BY <3>2, <3>3
  <2>2. CASE CleanBlock(p) \/ CleanIndex(p) \/ RestoreIndex(p)
    <3>1. blocks' \subseteq blocks /\ latest' \subseteq latest
      BY <2>2 DEF CleanBlock, CleanIndex, RestoreIndex
    <3> QED  BY <3>1
  <2> QED  BY <1>2, <2>1, <2>2 DEF Cleans
<1>3. CASE Drops(p)
  <2>1. blocks' \subseteq blocks /\ latest' \subseteq latest
    BY <1>3 DEF Drops, PurgeBlock, PurgeIndex
  <2> QED  BY <2>1
<1>4. CASE StandsStill(p)
  BY <1>4 DEF StandsStill
<1> QED  BY <1>0, <1>1, <1>2, <1>3, <1>4, StepIs

\* ... and a deleted record hidden: no write may follow a delete.
LEMMA HiddenStays ==
    ASSUME NEW p, Serial(p), SerialInv(p), [Next]_vars, NEW r, Hidden(r)
    PROVE  Hidden(r)'
<1>0. TypeOK /\ StoreInv /\ TypeOK' /\ p \in Procs
  BY SafeStep DEF SerialInv, StoreInv, Serial
<1>1. CASE Puts(p)
  <2>1. /\ pc[p] \in Putting /\ data' = data /\ purged' = purged
        /\ indexed \subseteq indexed' /\ latest' \subseteq latest \cup {req[p]}
    BY <1>1 DEF Puts, PutBlock, PutIndex, Putting, history
  <2>2. req[p].rec = r => IsDelete(req[p])
    <3> SUFFICES ASSUME req[p].rec = r PROVE IsDelete(req[p])
      OBVIOUS
    <3>1. /\ req[p] \in Message /\ r \notin purged
          /\ IsWrite(req[p]) => \A d \in indexed : d.rec = r => IsWrite(d)
      BY <2>1, PutIsNewest
    <3>2. PICK d \in indexed : d.rec = r /\ IsDelete(d)
      BY <3>1 DEF Hidden
    <3> QED  BY <1>0, <3>1, <3>2, Kinds DEF TypeOK
  <2> QED  BY <2>1, <2>2 DEF Hidden
<1>2. CASE Cleans(p)
  <2>1. /\ pc[p] \in CleaningOne /\ data' = data /\ purged' = purged
        /\ indexed \ {cur[p]} \subseteq indexed' /\ latest' \subseteq latest
    BY <1>2 DEF Cleans, CleanBlock, CleanIndex, RestoreBlock, RestoreIndex, CleaningOne, history
  <2>2. /\ req[p] \in indexed /\ cur[p].rec = req[p].rec /\ cur[p] # req[p]
        /\ IsDelete(cur[p]) => IsDelete(req[p])
    BY <2>1, CleanedIs
  <2> QED  BY <2>1, <2>2 DEF Hidden
<1>3. CASE Drops(p)
  <2>1. PICK m : /\ m.rec \in purged /\ data' = data /\ purged' = purged
                 /\ indexed \ {m} \subseteq indexed' /\ latest' \subseteq latest
    <3>1. HandlerInv(p)
      BY Handler DEF SerialInv
    <3> QED  BY <1>3, <3>1 DEF Drops, PurgeBlock, PurgeIndex, HandlerInv, Purging, history
  <2> QED  BY <2>1 DEF Hidden
<1>4. CASE StandsStill(p)
  <2>1. indexed' = indexed /\ latest' = latest /\ purged \subseteq purged'
    BY <1>0, <1>4, StepIs DEF StandsStill
  <2>2. CASE data' \subseteq data
    BY <2>1, <2>2 DEF Hidden
  <2>3. CASE DataPut(p)
    <3>1. pc[p] = "dataPut" /\ data' \subseteq data \cup {<<req[p].rec, req[p].data>>}
      BY <2>3 DEF DataPut
    <3>2. /\ IsWrite(req[p]) /\ Follows(p) /\ req[p].rec \notin purged
          /\ existing[p] = OfRecord(indexed, req[p].rec)
      BY <3>1 DEF SerialInv, Knows
    <3>3. req[p].rec # r
      <4> SUFFICES ASSUME req[p].rec = r PROVE FALSE
        OBVIOUS
      <4>1. PICK d \in indexed : d.rec = r /\ IsDelete(d)
        BY <3>2 DEF Hidden
      <4>2. IsWrite(d)
        BY <3>2, <4>1 DEF Follows, OfRecord
      <4> QED  BY <1>0, <4>1, <4>2, Kinds DEF TypeOK
    <3> QED  BY <2>1, <3>1, <3>3 DEF Hidden
  <2> QED  BY <1>4, <2>2, <2>3 DEF StandsStill
<1> QED  BY <1>0, <1>1, <1>2, <1>3, <1>4, StepIs

\* The stores keep what SerialInv does not say of them.
LEMMA StoresKept ==
    ASSUME NEW p, Serial(p), SerialInv(p), [Next]_vars, ~Crash, StoresInv(p)
    PROVE  StoresInv(p)'
<1>0. /\ TypeOK /\ StoreInv /\ p \in Procs /\ req[p] \in Message /\ cur[p] \in Message
      /\ indexed \subseteq Message /\ encoded \subseteq Message
  BY Handler DEF SerialInv, TypeOK
<1>1. CASE PutBlock(p)
  <2>1. /\ pc[p] = "putBlock" /\ pc'[p] = "putIndex" /\ blocks' = blocks \cup {req[p]}
        /\ UNCHANGED <<indexed, latest, req, stream>>
        /\ encoded' = IF BecomesEncoded(p) THEN encoded \cup {req[p]} ELSE encoded \ {req[p]}
    BY <1>0, <1>1 DEF PutBlock, Goto, TypeOK, locals
  <2>2. BecomesLatest(p)' = BecomesLatest(p)
    BY <2>1 DEF BecomesLatest
  <2>3. ASSUME NEW x \in encoded'
        PROVE  /\ IsWrite(x) /\ x \in blocks'
               /\ x \in latest' \/ (x = req'[p] /\ pc'[p] = "putIndex" /\ BecomesLatest(p)')
    <3>1. CASE x \in encoded
      BY <2>1, <3>1 DEF StoresInv
    <3>2. CASE x = req[p] /\ BecomesEncoded(p)
      BY <2>1, <2>2, <3>2 DEF BecomesEncoded
    <3> QED  BY <2>1, <2>3, <3>1, <3>2
  <2> QED  BY <2>1, <2>3 DEF StoresInv
<1>2. CASE PutIndex(p)
  <2>1. /\ pc[p] = "putIndex" /\ indexed' = indexed \cup {req[p]}
        /\ UNCHANGED <<blocks, encoded>>
        /\ latest' = IF BecomesLatest(p) THEN latest \cup {req[p]} ELSE latest \ {req[p]}
    BY <1>2 DEF PutIndex
  <2>2. req[p] \notin latest
    BY <2>1, PutIsNewest DEF Putting
  <2>3. ~req[p].initial => BecomesLatest(p)
    BY DEF BecomesLatest
  <2>4. \A x \in indexed' : ~x.initial => x \in latest'
    BY <2>1, <2>3 DEF StoresInv
  <2>5. \A x \in encoded' : IsWrite(x) /\ x \in blocks' /\ x \in latest'
    BY <2>1, <2>2 DEF StoresInv
  <2> QED  BY <2>4, <2>5 DEF StoresInv
<1>3. CASE Cleans(p)
  <2>1. pc[p] \in CleaningOne /\ pc[p] # "putIndex"
    BY <1>3 DEF Cleans, CleanBlock, CleanIndex, RestoreBlock, RestoreIndex, CleaningOne
  <2>2. /\ pc[p] \in {"restoreBlock", "restoreIndex"} => cur[p].initial /\ cur[p] \notin latest
        /\ pc[p] = "cleanIndex" => cur[p] \notin blocks
    BY <2>1, CleanedIs
  <2>3. CASE CleanBlock(p) \/ RestoreBlock(p)
    <3>1. /\ encoded' = encoded \ {cur[p]} /\ blocks \ {cur[p]} \subseteq blocks'
          /\ UNCHANGED <<indexed, latest>>
      BY <2>3 DEF CleanBlock, RestoreBlock
    <3> QED  BY <2>1, <3>1 DEF StoresInv
  <2>4. CASE CleanIndex(p)
    <3>1. /\ UNCHANGED <<encoded, blocks>> /\ pc[p] = "cleanIndex"
          /\ indexed' = indexed \ {cur[p]} /\ latest' = latest \ {cur[p]}
      BY <2>4 DEF CleanIndex
    <3> QED  BY <2>1, <2>2, <3>1 DEF StoresInv
  <2>5. CASE RestoreIndex(p)
    <3>1. /\ UNCHANGED <<encoded, blocks>> /\ pc[p] = "restoreIndex"
          /\ indexed' = indexed \cup {cur[p]} /\ latest' = latest \ {cur[p]}
      BY <2>5 DEF RestoreIndex
    <3> QED  BY <2>1, <2>2, <3>1 DEF StoresInv
  <2> QED  BY <1>3, <2>3, <2>4, <2>5 DEF Cleans
<1>4. CASE PurgeBlock(p)
  <2>1. PICK m : encoded' = encoded \ {m} /\ blocks' = blocks \ {m}
                 /\ UNCHANGED <<indexed, latest>> /\ pc[p] # "putIndex"
    BY <1>4 DEF PurgeBlock
  <2> QED  BY <2>1 DEF StoresInv
<1>5. CASE PurgeIndex(p)
  <2>1. /\ UNCHANGED <<encoded, blocks>> /\ pc[p] = "purgeIndex"
        /\ indexed' = indexed \ {cur[p]} /\ latest' = latest \ {cur[p]}
    BY <1>5 DEF PurgeIndex
  <2>2. cur[p] \notin blocks
    <3>1. PICK k \in Record : Vanishing(p, k)
      BY <2>1 DEF SerialInv, Purging
    <3> QED  BY <1>0, <2>1, <3>1 DEF Vanishing
  <2> QED  BY <2>1, <2>2 DEF StoresInv
<1>6. CASE StandsStill(p)
  <2>1. UNCHANGED <<blocks, encoded, indexed, latest>>
    BY <1>6 DEF StandsStill
  <2>2. pc[p] = "putIndex" => UNCHANGED <<pc, req, stream>> \/ encoded \subseteq latest
    <3> SUFFICES ASSUME pc[p] = "putIndex"
                 PROVE  UNCHANGED <<pc, req, stream>> \/ encoded \subseteq latest
      OBVIOUS
    <3>1. CASE PutIndex(p)
      <4>1. req[p] \in indexed
        BY <2>1, <3>1 DEF PutIndex
      <4> QED  BY <4>1, PutIsNewest DEF Putting
    <3>2. CASE ~PutIndex(p)
      <4>1. ~Receive(p) /\ ~Resume(p) /\ ~Reply(p) /\ ~Refuse(p)
        BY DEF Receive, Resume, Reply, Refuse
      <4>2. ~Write(p) /\ ~Delete(p)
        BY DEF Write, Delete, CheckParent, WriteFetch, DataPut, Unwind, DataGet, DeleteFetch,
               Register, PerformFetch, Complete
      <4>3. ~Store(p)
        BY <3>2 DEF Store, Scan, PutBlock, AppendEvent
      <4>4. ~Purge(p)
        BY DEF Purge, PurgeDescend, PurgeGroup, PurgeData, PurgeEvents, PurgeBlock, PurgeIndex,
               PurgeEnd
      <4>5. ~Clean(p)
        BY DEF Clean, CleanData, CleanBlock, CleanIndex, RestoreBlock, RestoreIndex,
               CleanEvents, CleanEnd
      <4>6. Grab \/ UNCHANGED vars
        BY <4>1, <4>2, <4>3, <4>4, <4>5 DEF Next, Run, Serial
      <4> QED  BY <4>6 DEF Grab, vars, locals
    <3> QED  BY <3>1, <3>2
  <2>3. ASSUME NEW x \in encoded'
        PROVE  /\ IsWrite(x) /\ x \in blocks'
               /\ x \in latest' \/ (x = req'[p] /\ pc'[p] = "putIndex" /\ BecomesLatest(p)')
    <3>1. x \in encoded /\ IsWrite(x) /\ x \in blocks
      BY <2>1, <2>3 DEF StoresInv
    <3>2. CASE x \in latest
      BY <2>1, <3>1, <3>2
    <3>3. CASE x \notin latest
      <4>1. x = req[p] /\ pc[p] = "putIndex" /\ BecomesLatest(p)
        BY <3>1, <3>3 DEF StoresInv
      <4>2. UNCHANGED <<pc, req, stream>>
        BY <2>2, <3>1, <3>3, <4>1
      <4> QED  BY <2>1, <3>1, <4>1, <4>2 DEF BecomesLatest
    <3> QED  BY <3>2, <3>3
  <2> QED  BY <2>1, <2>3 DEF StoresInv
<1> QED  BY <1>0, <1>1, <1>2, <1>3, <1>4, <1>5, <1>6, StepIs DEF Puts, Drops

\* A delete is acknowledged once its task is done, and the task does what the
\* handler found it may.
LEMMA AnswerKept ==
    ASSUME NEW p, Serial(p), SerialInv(p), [Next]_vars, AnswerInv(p)
    PROVE  AnswerInv(p)'
<1> DEFINE Ahead == {"register", "performScan", "performFetch"}
<1>0. /\ TypeOK /\ StoreInv /\ p \in Procs /\ req[p] \in Message /\ resuming = {}
      /\ resumed[p] = FALSE
  BY Handler DEF SerialInv
<1>1. ASSUME pc'[p] \notin Ahead, pc'[p] # "complete", pc'[p] = "reply" => reply'[p] # 202
      PROVE  AnswerInv(p)'
  BY <1>1 DEF AnswerInv
<1>2. ASSUME UNCHANGED <<pc, req, reply, indexed>>
      PROVE  AnswerInv(p)'
  BY <1>2 DEF AnswerInv, CanPerformDelete, OfRecord
<1>3. CASE UNCHANGED vars \/ Grab
  BY <1>2, <1>3 DEF vars, stores, locals, Grab
<1>4. CASE Crash \/ Receive(p) \/ Resume(p) \/ Reply(p) \/ Refuse(p)
  <2>1. CASE Crash
    BY <1>0, <1>1, <2>1 DEF Crash
  <2>2. CASE Receive(p)
    BY <1>0, <1>1, <2>2 DEF Receive, Goto, TypeOK
  <2>3. CASE Resume(p)
    BY <1>0, <2>3 DEF Resume
  <2>4. CASE Reply(p)
    BY <1>0, <1>1, <2>4 DEF Reply, Release, Goto, TypeOK
  <2>5. CASE Refuse(p)
    BY <1>0, <1>1, <2>5 DEF Refuse, Answer, Goto, TypeOK
  <2> QED  BY <1>4, <2>1, <2>2, <2>3, <2>4, <2>5
<1>5. CASE Write(p)
  <2>1. CASE CheckParent(p)
    BY <1>0, <1>1, <2>1 DEF CheckParent, Answer, Goto, TypeOK
  <2>2. CASE WriteFetch(p)
    <3>1. \/ Answer(p, 400) \/ Answer(p, 409)
          \/ TakeData(p, Fetched(p))
      BY <2>2 DEF WriteFetch
    <3>2. TakeData(p, Fetched(p)) =>
            Answer(p, 400) \/ Goto(p, "putBlock") \/ Goto(p, "dataGet") \/ Goto(p, "dataPut")
      BY DEF TakeData
    <3> QED  BY <1>0, <1>1, <3>1, <3>2 DEF Answer, Goto, TypeOK
  <2>3. CASE DataPut(p) \/ DataGet(p) \/ Unwind(p)
    BY <1>0, <1>1, <2>3 DEF DataPut, DataGet, Unwind, Answer, Goto, TypeOK
  <2> QED  BY <1>5, <2>1, <2>2, <2>3 DEF Write
<1>6. CASE DeleteFetch(p)
  <2>1. Fetched(p) = OfRecord(indexed, req[p].rec) /\ UNCHANGED <<req, indexed>>
    BY <1>6, Found DEF DeleteFetch, stores
  <2>2. CASE CanPerformDelete(req[p], Fetched(p)) /\ pc' = [pc EXCEPT ![p] = "register"]
    BY <1>0, <2>1, <2>2 DEF AnswerInv, CanPerformDelete, OfRecord, TypeOK
  <2>3. CASE Answer(p, 404) \/ Answer(p, 409)
    BY <1>0, <1>1, <2>3 DEF Answer, Goto, TypeOK
  <2> QED  BY <1>6, <2>2, <2>3 DEF DeleteFetch, Goto
<1>7. CASE Register(p) \/ Scan(p)
  <2>1. UNCHANGED <<req, indexed>>
    BY <1>7 DEF Register, Scan, stores, locals
  <2>2. CASE pc[p] = "scan"
    BY <1>0, <1>1, <1>7, <2>2 DEF Register, Scan, Goto, TypeOK
  <2>3. CASE pc[p] # "scan"
    <3>1. pc[p] \in Ahead /\ pc'[p] \in {"performScan", "performFetch"}
      BY <1>0, <1>7, <2>3 DEF Register, Scan, Goto, TypeOK
    <3>2. CanPerformDelete(req[p], OfRecord(indexed, req[p].rec))
      BY <3>1 DEF AnswerInv
    <3> QED  BY <2>1, <3>1, <3>2 DEF AnswerInv, CanPerformDelete, OfRecord
  <2> QED  BY <2>2, <2>3
<1>8. CASE PerformFetch(p)
  <2>1. Fetched(p) = OfRecord(indexed, req[p].rec) /\ pc[p] = "performFetch"
    BY <1>8, Found DEF PerformFetch
  <2>2. CanPerformDelete(req[p], Fetched(p))
    BY <2>1 DEF AnswerInv
  <2>3. Answer(p, 500) \/ Goto(p, "putBlock")
    BY <1>0, <1>8, <2>2 DEF PerformFetch, TaskFails
  <2> QED  BY <1>0, <1>1, <2>3 DEF Answer, Goto, TypeOK
<1>9. CASE Complete(p)
  <2>1. pc[p] = "complete" /\ pc'[p] = "reply" /\ UNCHANGED <<req, indexed>>
    BY <1>0, <1>9 DEF Complete, Answer, Goto, TypeOK
  <2> QED  BY <2>1 DEF AnswerInv
<1>10. CASE PutBlock(p) \/ PutIndex(p) \/ AppendEvent(p)
  BY <1>0, <1>1, <1>10 DEF PutBlock, PutIndex, AppendEvent, Goto, TypeOK
<1>11. CASE Purge(p)
  <2>1. CASE PurgeData(p)
    BY <1>0, <1>1, <2>1 DEF PurgeData, TaskFails, Answer, Goto, TypeOK
  <2>2. CASE PurgeDescend(p) \/ PurgeGroup(p)
    <3>1. pc'[p] = "purge"
      BY <2>2 DEF PurgeDescend, PurgeGroup
    <3> QED  BY <1>1, <3>1
  <2>3. CASE PurgeEvents(p) \/ PurgeBlock(p) \/ PurgeIndex(p) \/ PurgeEnd(p)
    <3>1. pc'[p] \in {"purgeBlock", "purgeIndex", "purge", "clean"}
      BY <1>0, <2>3 DEF PurgeEvents, PurgeBlock, PurgeIndex, PurgeEnd, Goto, TypeOK
    <3> QED  BY <1>1, <3>1
  <2> QED  BY <1>11, <2>1, <2>2, <2>3 DEF Purge
<1>12. CASE CleanEnd(p)
  <2>1. pc[p] = "clean" /\ pc'[p] \in {"complete", "reply"} /\ UNCHANGED <<req, indexed>>
    BY <1>0, <1>12 DEF CleanEnd, Answer, Goto, TypeOK, stores
  <2>2. req[p] \in indexed
    BY <1>0, <2>1 DEF SerialInv, InHand, HasIndex, Busy, Putting, Cleaning
  <2> QED  BY <2>1, <2>2 DEF AnswerInv
<1>13. CASE Clean(p) /\ ~CleanEnd(p)
  BY <1>0, <1>1, <1>13 DEF Clean, CleanData, CleanBlock, CleanIndex, RestoreBlock,
                           RestoreIndex, CleanEvents, Goto, TypeOK
<1> QED  BY <1>3, <1>4, <1>5, <1>6, <1>7, <1>8, <1>9, <1>10, <1>11, <1>12, <1>13
         DEF Next, Run, Delete, Store, Serial

\* What is acknowledged then is current, and if it is a delete its record is hidden.
LEMMA AcknowledgedIs ==
    ASSUME NEW p, Serial(p), SerialInv(p)', AnswerInv(p)', NEW n \in Acknowledged'
    PROVE  Current(n)' /\ (IsDelete(n) => Hidden(n.rec)')
<1>1. /\ n = req'[p] /\ pc'[p] = "reply" /\ n \in indexed'
      /\ TypeOK' /\ StoreInv'
  BY DEF Serial, Acknowledged, AnswerInv, SerialInv, StoreInv
<1>2. n \in Message /\ n.rec \in Record /\ n \in accepted'
  BY <1>1, Kinds DEF TypeOK, StoreInv
<1>3. pc'[p] \notin Busy /\ pc'[p] \notin Purging
  BY <1>1, CalmIsNotBusy DEF Calm
<1>4. AtRest(n.rec)'
  BY <1>2, <1>3 DEF SerialInv
<1>5. ASSUME NEW x \in latest', x.rec = n.rec
      PROVE  /\ x \in Message /\ x \in indexed' /\ ~IsNewer(n, x)
             /\ IsNewer(x, n) => n.initial
  <2>1. x \in Message /\ x \in indexed'
    BY <1>1, <1>4, <1>5 DEF TypeOK, AtRest
  <2>2. IsNewer(n, x) => x \notin latest'
    BY <1>1, <1>4, <1>5, <2>1 DEF AtRest
  <2>3. IsNewer(x, n) => n.initial
    BY <1>1, <1>4, <1>5, <2>1 DEF AtRest
  <2> QED  BY <1>5, <2>1, <2>2, <2>3
<1>6. Current(n)'
  BY <1>2, <1>5 DEF Current, Behind
<1>7. ASSUME IsDelete(n)
      PROVE  Hidden(n.rec)'
  <2>1. \A x \in latest' : x.rec = n.rec => IsDelete(x)
    <3> SUFFICES ASSUME NEW x \in latest', x.rec = n.rec PROVE IsDelete(x)
      OBVIOUS
    <3>1. ~n.initial
      BY <1>2, <1>7, Kinds
    <3>2. x = n
      BY <1>2, <1>5, <3>1, NewerOrder
    <3> QED  BY <1>7, <3>2
  <2>2. ASSUME NEW c \in DataCid \cup {NoData}
        PROVE  <<n.rec, c>> \notin data'
    <3>1. ~Owes(n.rec, c)'
      BY <1>1, <2>1, Kinds DEF Owes, TypeOK
    <3> QED  BY <1>4, <3>1 DEF AtRest
  <2> QED  BY <1>1, <1>7, <2>1, <2>2 DEF Hidden
<1> QED  BY <1>6, <1>7

\* The requests beside a handler that the process does not stop.
ReadersInv(p) ==
    /\ SerialInv(p) /\ StoresInv(p) /\ AnswerInv(p)
    /\ FreshInv
    /\ \A d \in acked : IsDelete(d) => Hidden(d.rec)
    /\ \A q \in Readers : \A d \in floor[q].acked, w \in Held(q) :
        IsDelete(d) => w.rec # d.rec

\* What the requests need of the stores, ...
LEMMA SerialFits ==
    ASSUME NEW p, Serial(p), SerialInv(p), StoresInv(p)
    PROVE  StoresFit
<1>1. TypeOK /\ indexed \subseteq accepted
  BY DEF SerialInv, StoreInv
<1>2. latest \subseteq indexed
  <2> SUFFICES ASSUME NEW x \in latest PROVE x \in indexed
    OBVIOUS
  <2>1. x \in Message /\ x.rec \in Record
    BY <1>1, Kinds DEF TypeOK
  <2>2. CASE AtRest(x.rec)
    BY <2>1, <2>2 DEF AtRest
  <2>3. CASE pc[p] \in Busy /\ x.rec = req[p].rec
    <3>1. InHand(p)
      BY <1>1, <2>3 DEF SerialInv
    <3>2. MayBeLatest(p, x) /\ (req[p] \in latest => pc[p] \notin Putting)
      BY <2>1, <2>3, <3>1 DEF InHand
    <3>3. pc[p] \in {"cleanBlock", "cleanIndex"} => pc[p] \in Cleaning
      BY DEF Cleaning, CleaningOne
    <3>4. HasIndex(p, x)
      BY <3>2, <3>3 DEF MayBeLatest, HasIndex
    <3> QED  BY <2>1, <2>3, <3>1, <3>4 DEF InHand
  <2>4. CASE pc[p] \in Purging /\ ~AtRest(x.rec) /\ x.rec # req[p].rec
    <3>1. Vanishing(p, x.rec)
      BY <1>1, <2>1, <2>4 DEF SerialInv
    <3> QED  BY <2>1, <3>1 DEF Vanishing
  <2>5. pc[p] \notin Busy => pc[p] \notin Purging
    BY DEF Busy, Purge0
  <2> QED  BY <1>1, <2>1, <2>2, <2>3, <2>4, <2>5 DEF SerialInv
<1> QED  BY <1>1, <1>2 DEF StoresFit, StoresInv

LEMMA SerialFitsNext ==
    ASSUME NEW p, Serial(p)
    PROVE  (SerialInv(p) /\ StoresInv(p))' => StoresFit'
<1>1. SerialInv(p) /\ StoresInv(p) => StoresFit
  BY SerialFits
<1> QED  BY <1>1, PTL

\* ... and of a step.
LEMMA SerialForward ==
    ASSUME NEW p, Serial(p), SerialInv(p), [Next]_vars
    PROVE  GoesForward
<1>1. accepted \subseteq accepted'
  BY StepIs DEF SerialInv
<1> QED  BY <1>1, NoneComesBack DEF GoesForward

\* No data of a deleted record is to be found.
LEMMA NoHiddenData ==
    ASSUME NEW p, Serial(p), ReadersInv(p), NEW d \in acked, IsDelete(d),
           NEW w \in Message, w \in encoded \/ <<w.rec, w.data>> \in data
    PROVE  w.rec # d.rec
<1> SUFFICES ASSUME w.rec = d.rec PROVE FALSE
  OBVIOUS
<1>0. SerialInv(p) /\ StoresInv(p) /\ TypeOK
  BY DEF ReadersInv, SerialInv, StoreInv
<1>1. Hidden(w.rec)
  BY DEF ReadersInv
<1>2. <<w.rec, w.data>> \notin data
  BY <1>1, Kinds DEF Hidden
<1>3. w \in encoded /\ IsWrite(w)
  BY <1>0, <1>2 DEF StoresInv
<1>4. w \notin latest
  BY <1>1, <1>3, Kinds DEF Hidden
<1>5. w = req[p] /\ pc[p] = "putIndex"
  BY <1>0, <1>3, <1>4 DEF StoresInv
<1>6. w.rec \notin purged /\ \A x \in indexed : x.rec = w.rec => IsWrite(x)
  BY <1>0, <1>3, <1>5, PutIsNewest DEF Putting
<1>7. PICK x \in indexed : x.rec = w.rec /\ IsDelete(x)
  BY <1>1, <1>6 DEF Hidden
<1> QED  BY <1>0, <1>6, <1>7, Kinds DEF TypeOK

\* The stores go on, and what is acknowledged is current, and hidden if it was deleted.
LEMMA SerialGoesOn ==
    ASSUME NEW p, Serial(p), ReadersInv(p), [Next]_vars, ~Crash
    PROVE  /\ SerialInv(p)' /\ StoresInv(p)' /\ AnswerInv(p)'
           /\ StoresFit /\ StoresFit' /\ GoesForward
           /\ \A n \in Acknowledged' : Current(n)'
           /\ Learns => (\A d \in acked : IsDelete(d) => Hidden(d.rec))'
<1>1. SerialInv(p) /\ StoresInv(p) /\ SerialInv(p)' /\ StoresInv(p)' /\ AnswerInv(p)'
  BY SerialStep, StoresKept, AnswerKept DEF ReadersInv
<1>2. StoresFit /\ StoresFit' /\ GoesForward
  BY <1>1, SerialFits, SerialFitsNext, SerialForward
<1>3. \A d \in acked : IsDelete(d) => Hidden(d.rec)'
  BY <1>1, HiddenStays DEF ReadersInv
<1>4. \A n \in Acknowledged' : Current(n)' /\ (IsDelete(n) => Hidden(n.rec)')
  BY <1>1, AcknowledgedIs
<1> QED  BY <1>1, <1>2, <1>3, <1>4 DEF Learns

\* A step of the DWN.
LEMMA ReadersNext ==
    ASSUME NEW p, Serial(p), ReadersInv(p), [Next]_vars, ~Crash, Learns,
           UNCHANGED <<rpc, request, floor, shownData>>
    PROVE  ReadersInv(p)'
<1>1. /\ SerialInv(p)' /\ StoresInv(p)' /\ AnswerInv(p)'
      /\ StoresFit /\ StoresFit' /\ GoesForward
      /\ \A n \in Acknowledged' : Current(n)'
      /\ (\A d \in acked : IsDelete(d) => Hidden(d.rec))'
  BY SerialGoesOn
<1>2. FreshInv'
  BY <1>1, FreshNext DEF ReadersInv
<1>3. \A q \in Readers : floor'[q] = floor[q] /\ Held(q)' = Held(q)
  BY DEF request, Held
<1> QED  BY <1>1, <1>2, <1>3 DEF ReadersInv

\* A step of a request.
LEMMA ReadersRequest ==
    ASSUME NEW p, Serial(p), ReadersInv(p), UNCHANGED vars, Remembers, NEW q \in Readers,
           Reader(q)
    PROVE  ReadersInv(p)'
<1>0. [Next]_vars /\ ~Crash /\ Learns /\ ReaderTypes
  <2>1. crashes \in Nat
    BY DEF ReadersInv, SerialInv, StoreInv, TypeOK
  <2> QED  BY <2>1 DEF Remembers, Learns, Crash, vars, ReadersInv, FreshInv
<1>1. /\ SerialInv(p)' /\ StoresInv(p)' /\ AnswerInv(p)'
      /\ StoresFit /\ \A n \in Acknowledged' : Current(n)'
      /\ (\A d \in acked : IsDelete(d) => Hidden(d.rec))'
  BY <1>0, SerialGoesOn
<1>2. FreshInv'
  BY <1>1, FreshRequest DEF ReadersInv
<1>3. ASSUME NEW u \in Readers, NEW d \in floor'[u].acked, NEW w \in Held(u)',
             IsDelete(d), w.rec = d.rec
      PROVE  FALSE
  <2>1. CASE u # q
    <3>1. floor'[u] = floor[u] /\ Held(u)' = Held(u)
      BY <1>0, <2>1, RequestFrame
    <3> QED  BY <1>3, <3>1 DEF ReadersInv
  <2>2. CASE u = q
    <3>1. d \in acked /\ TypeOK
      <4>1. floor[q].acked \subseteq acked /\ TypeOK
        BY DEF ReadersInv, FreshInv, SerialInv, StoreInv
      <4> QED  BY <1>0, <1>3, <2>2, <4>1, RequestFrame
    <3>2. w \in Message
      BY <1>0, <1>3, <2>2, <1>2 DEF Held, FreshInv, ReaderTypes
    <3>3. ~(w \in encoded \/ <<w.rec, w.data>> \in data)
      BY <1>3, <3>1, <3>2, NoHiddenData
    <3>4. w \in Held(q)
      BY <1>0, <1>3, <2>2, <3>3, HeldIsStored
    <3>5. floor' = floor
      BY <1>0, <1>3, <2>2, <3>3, RequestFrame
    <3> QED  BY <1>3, <2>2, <3>4, <3>5 DEF ReadersInv
  <2> QED  BY <2>1, <2>2
<1> QED  BY <1>1, <1>2, <1>3 DEF ReadersInv

LEMMA ReadersInit == ASSUME NEW p, Serial(p), RInit PROVE ReadersInv(p)
<1>1. SerialInv(p) /\ Init /\ FreshInv
  BY SerialInit, FreshInit DEF RInit
<1>2. StoresInv(p) /\ AnswerInv(p)
  BY <1>1 DEF Init, StoresInv, AnswerInv, Serial
<1> QED  BY <1>1, <1>2 DEF RInit, NothingKnown, ReadersInv, Held

LEMMA ReadersStep ==
    ASSUME NEW p, Serial(p), ReadersInv(p), [RNext]_allVars, ~Crash
    PROVE  ReadersInv(p)'
<1>1. CASE UNCHANGED allVars
  <2>1. UNCHANGED <<vars, rpc, request, floor, shownData>> /\ Learns
    BY <1>1 DEF allVars, readerVars, Learns
  <2> QED  BY <2>1, ReadersNext
<1>2. CASE Next /\ UNCHANGED <<rpc, request, floor, shownData>> /\ Remembers
  <2>1. Learns
    BY <1>2 DEF Remembers, Learns
  <2> QED  BY <1>2, <2>1, ReadersNext
<1>3. CASE Stop
  BY <1>3 DEF Stop
<1>4. CASE (\E q \in Readers : Reader(q)) /\ UNCHANGED vars /\ Remembers
  BY <1>4, ReadersRequest
<1> QED  BY <1>1, <1>2, <1>3, <1>4 DEF RNext, Remembers

LEMMA ReadersTogether ==
    ASSUME [RNext]_allVars
    PROVE  [Next]_vars
BY DEF RNext, Stop, Next, allVars

\* The inductive invariant of the handler and the requests beside it: what was
\* acknowledged or returned is current, and a request misses nothing below what it
\* has found. It holds until the first stop, ...  (records-read.ts:48,
\* message-store-level.ts:109)
THEOREM ReadersUntilStop ==
    ASSUME NEW p, Serial(p)
    PROVE  RSpec => [](StoreInv /\ (crashes = 0 => ReadersInv(p)))
<1>1. RInit => StoreInv /\ (crashes = 0 => ReadersInv(p))
  BY ReadersInit, SafeInit DEF RInit
<1>2. StoreInv /\ (crashes = 0 => ReadersInv(p)) /\ [RNext]_allVars =>
        (StoreInv /\ (crashes = 0 => ReadersInv(p)))'
  <2> SUFFICES ASSUME StoreInv, crashes = 0 => ReadersInv(p), [RNext]_allVars
               PROVE  StoreInv' /\ (crashes' = 0 => ReadersInv(p)')
    OBVIOUS
  <2>1. [Next]_vars /\ crashes \in Nat
    BY ReadersTogether DEF StoreInv, TypeOK
  <2>2. Crash => crashes' = crashes + 1
    BY DEF Crash
  <2>3. crashes' = 0 => crashes = 0 /\ ~Crash
    BY <2>1, <2>2, CrashesStep
  <2> QED  BY <2>1, <2>3, SafeStep, ReadersStep
<1> QED  BY <1>1, <1>2, PTL DEF RSpec

\* ... and if there is none, always.
THEOREM ReadersAlways ==
    ASSUME NEW p, Serial(p), MaxCrashes = 0 PROVE RSpec => []ReadersInv(p)
<1>1. RInit => crashes = 0
  BY DEF RInit, Init
<1>2. StoreInv /\ crashes = 0 /\ [RNext]_allVars => (crashes = 0)'
  <2> SUFFICES ASSUME StoreInv, crashes = 0, [RNext]_allVars PROVE crashes' = 0
    OBVIOUS
  <2>1. [Next]_vars
    BY ReadersTogether
  <2> QED  BY <2>1, CrashesStep DEF Crash
<1>3. RSpec => [](StoreInv /\ (crashes = 0 => ReadersInv(p)))
  BY ReadersUntilStop
<1> QED  BY <1>1, <1>2, <1>3, PTL DEF RSpec

\* RecordsRead never goes back in time, for any number of requests beside one
\* handler: what it returns is not older than what was acknowledged or returned
\* before it was asked.  (records-read.ts:48)
THEOREM ReadIsFreshAlways ==
    ASSUME NEW p, Serial(p), MaxCrashes = 0 PROVE RSpec => []ReadIsFresh
<1>1. ReadersInv(p) => ReadIsFresh
  BY FreshReads DEF ReadersInv
<1> QED  BY <1>1, ReadersAlways, PTL

\* No request gives out data of a record whose deletion was acknowledged before it
\* was asked.  (storage-controller.ts:192-240, messages-read.ts:57)
THEOREM DeletedStaysHiddenAlways ==
    ASSUME NEW p, Serial(p), MaxCrashes = 0 PROVE RSpec => []DeletedStaysHidden
<1>1. ReadersInv(p) => DeletedStaysHidden
  BY DEF ReadersInv, Held, DeletedStaysHidden
<1> QED  BY <1>1, ReadersAlways, PTL

----------------------------------------------------------------------------
\* One handler, at most one stop, and no delete that prunes.

\* No write of the deleted record is to come, and of those taken in neither block nor data
\* is left, but for the block of the initial write.
Silent(d) ==
    /\ d \in accepted /\ Final(d)
    /\ \A w \in OfRecord(accepted, d.rec) : IsWrite(w) =>
        w \notin encoded /\ (w \in blocks => w.initial)
    /\ InitialData(d.rec) \notin data

\* What a request gives out, or has in hand to give out, is of no deleted record.
HidesInv(q) ==
    /\ rpc[q] = "data" => asked[q] # NoRecord
    /\ \A d \in floor[q].acked : IsDelete(d) =>
        /\ \A w \in Held(q) \cap accepted : w.rec # d.rec
        /\ rpc[q] = "message" => \A w \in got[q] \cap accepted :
            w.rec = d.rec /\ IsWrite(w) => w.initial

StopReadersInv(p) ==
    /\ UnprunedInv(p)
    /\ FreshInv
    /\ \A d \in acked : IsDelete(d) => Silent(d)
    /\ \A q \in Readers : HidesInv(q)
    /\ \A q \in Readers : \A w \in Held(q) : IsWrite(w)

\* What the requests need of the stores, ...
LEMMA UnprunedFits ==
    ASSUME NEW p, Serial(p), UnprunedInv(p)
    PROVE  StoresFit
BY UnprunedIs DEF UnprunedInv, UnprunedStores, StoreInv, StoresFit

LEMMA UnprunedFitsNext ==
    ASSUME NEW p, Serial(p)
    PROVE  UnprunedInv(p)' => StoresFit'
<1>1. UnprunedInv(p) => StoresFit
  BY UnprunedFits
<1> QED  BY <1>1, PTL

\* ... and of a step: what is put is newer than all that was taken in, and what is put back
\* is an initial write out of the latest state.
LEMMA UnprunedForward ==
    ASSUME NEW p, Serial(p), UnprunedInv(p), [Next]_vars
    PROVE  GoesForward
<1>0. /\ Alone(p) /\ req[p] \in Message /\ cur[p] \in Message /\ LabelInv(p) /\ UnprunedLabel(p)
      /\ accepted \subseteq Message /\ ~Purge(p)
  BY UnprunedIs DEF UnprunedInv
<1>1. CASE PutBlock(p) \/ PutIndex(p)
  <2>1. Leads(p)
    BY <1>0, <1>1 DEF PutBlock, PutIndex, UnprunedLabel, Storing
  <2>2. \A n \in accepted : ~Behind(n, req[p])
    BY <1>0, <2>1, NewerOrder DEF Leads, OfRecord, Behind
  <2>3. /\ latest' \subseteq latest \cup {req[p]} /\ blocks' \subseteq blocks \cup {req[p]}
        /\ accepted \subseteq accepted'
    BY <1>1 DEF PutBlock, PutIndex, history
  <2> QED  BY <2>2, <2>3 DEF GoesForward
<1>2. CASE RestoreBlock(p)
  <2>1. cur[p].initial /\ cur[p] \notin latest
    BY <1>0, <1>2 DEF RestoreBlock, LabelInv
  <2>2. latest' = latest /\ blocks' = blocks \cup {cur[p]} /\ accepted' = accepted
    BY <1>2 DEF RestoreBlock, history
  <2> QED  BY <2>1, <2>2 DEF GoesForward
<1>3. CASE DataPut(p) \/ CleanBlock(p) \/ CleanIndex(p) \/ RestoreIndex(p)
  <2>1. latest' \subseteq latest /\ blocks' \subseteq blocks /\ accepted' = accepted
    BY <1>3 DEF DataPut, CleanBlock, CleanIndex, RestoreIndex, history
  <2> QED  BY <2>1 DEF GoesForward
<1>4. CASE UNCHANGED <<blocks, latest, accepted>>
  BY <1>4 DEF GoesForward
<1> QED  BY <1>0, <1>1, <1>2, <1>3, <1>4, UnprunedSteps

\* No write is stored of a record whose delete was acknowledged: it would have found that
\* delete, or a newer one, as the newest message.
LEMMA NoWriteOn ==
    ASSUME NEW p, Serial(p), UnprunedInv(p), NEW d, Silent(d),
           pc[p] \in Storing, req[p].rec = d.rec
    PROVE  IsDelete(req[p])
<1>0. /\ StoreInv /\ TypeOK /\ req[p] \in Message /\ purged = {} /\ NewestExists
      /\ accepted \subseteq Message /\ Stored \subseteq accepted /\ Meets(p) /\ Leads(p)
      /\ d \in accepted /\ Final(d)
  BY UnprunedIs DEF UnprunedInv, UnprunedLabel, Silent
<1> DEFINE S == existing[p]
<1>1. PICK x \in Stored : x.rec = d.rec /\ (x = d \/ IsNewer(x, d))
  BY <1>0 DEF StoreInv, Covered
<1>2. x \in S /\ S \in SUBSET indexed /\ S \subseteq OfRecord(accepted, d.rec)
  <2>1. x \in accepted /\ x # req[p]
    BY <1>0, <1>1, NewerOrder DEF Leads, OfRecord
  <2> QED  BY <1>0, <1>1, <2>1 DEF Meets, OfRecord, Stored
<1>3. Newest(S) \in S /\ \A n \in S : n = Newest(S) \/ IsNewer(Newest(S), n)
  <2> HIDE DEF S
  <2> QED  BY <1>0, <1>2, NewestIn
<1>4. ~IsDelete(Newest(S)) /\ Newest(S) \in OfRecord(accepted, d.rec)
  BY <1>0, <1>2, <1>3 DEF Meets, IsDeleted
<1> HIDE DEF S
<1>5. Newest(S) \in Message /\ d \in Message /\ x \in Message
  BY <1>0, <1>1, <1>4 DEF OfRecord
<1>6. IsNewer(d, Newest(S))
  <2>1. IsWrite(Newest(S))
    BY <1>4, <1>5, Kinds
  <2> QED  BY <1>0, <1>4, <2>1 DEF Final
<1>7. x = Newest(S) \/ IsNewer(Newest(S), x)
  BY <1>2, <1>3
<1> QED  BY <1>1, <1>5, <1>6, <1>7, NewerOrder

\* What a step takes in is no write of a deleted record ...
LEMMA TakesNoWrite ==
    ASSUME NEW p, Serial(p), UnprunedInv(p), [Next]_vars, NEW d, Silent(d),
           NEW w \in accepted', w.rec = d.rec, IsWrite(w)
    PROVE  w \in accepted
<1>1. Alone(p) /\ StoreInv /\ req[p] \in Message
  BY UnprunedIs
<1>2. w \in accepted \/ (PutIndex(p) /\ w = req[p])
  BY <1>1, HandSteps
<1>3. CASE PutIndex(p) /\ w = req[p]
  <2>1. IsDelete(w)
    BY <1>3, NoWriteOn DEF PutIndex, Storing
  <2> QED  BY <2>1 DEF IsDelete, IsWrite
<1> QED  BY <1>2, <1>3

\* ... so that the record stays silent.
LEMMA SilentStays ==
    ASSUME NEW p, Serial(p), UnprunedInv(p), [Next]_vars, NEW d, Silent(d)
    PROVE  Silent(d)'
<1>0. /\ Alone(p) /\ StoreInv /\ req[p] \in Message /\ cur[p] \in Message /\ LabelInv(p)
      /\ UnprunedLabel(p) /\ accepted \subseteq Message /\ ~Purge(p) /\ purged = {}
  BY UnprunedIs DEF UnprunedInv
<1>1. d \in accepted' /\ Final(d)'
  <2>1. accepted \subseteq accepted' /\ purged \subseteq purged'
    BY <1>0, HandSteps
  <2>2. \A w \in OfRecord(accepted', d.rec) : IsWrite(w) => IsNewer(d, w)
    BY <1>0, TakesNoWrite DEF Silent, Final, OfRecord
  <2> QED  BY <2>1, <2>2 DEF Silent, Final, OfRecord
<1>2. ASSUME NEW w \in accepted, w.rec = d.rec, IsWrite(w)
      PROVE  w \notin encoded' /\ (w \in blocks' => w.initial)
  <2>1. w \notin encoded /\ (w \in blocks => w.initial)
    BY <1>2 DEF Silent, OfRecord
  <2>2. CASE PutBlock(p)
    <3>1. Leads(p)
      BY <1>0, <2>2 DEF PutBlock, UnprunedLabel, Storing
    <3>2. w # req[p]
      BY <1>0, <1>2, <3>1, NewerOrder DEF Leads, OfRecord
    <3> QED  BY <2>1, <2>2, <3>2 DEF PutBlock
  <2>3. CASE RestoreBlock(p)
    <3>1. cur[p].initial
      BY <1>0, <2>3 DEF RestoreBlock, LabelInv
    <3> QED  BY <2>1, <2>3, <3>1 DEF RestoreBlock
  <2>4. CASE PutIndex(p) \/ DataPut(p) \/ CleanBlock(p) \/ CleanIndex(p) \/ RestoreIndex(p)
    <3>1. encoded' \subseteq encoded /\ blocks' \subseteq blocks
      BY <2>4 DEF PutIndex, DataPut, CleanBlock, CleanIndex, RestoreIndex
    <3> QED  BY <2>1, <3>1
  <2> QED  BY <1>0, <2>1, <2>2, <2>3, <2>4, UnprunedSteps
<1>3. InitialData(d.rec) \notin data'
  <2>1. InitialData(d.rec) \notin data
    BY DEF Silent
  <2>2. CASE DataPut(p)
    <3>1. /\ pc[p] = "dataPut" /\ IsLarge(req[p])
          /\ data' \subseteq data \cup {<<req[p].rec, req[p].data>>}
      BY <1>0, <2>2 DEF DataPut, UnprunedLabel
    <3>2. req[p].rec # d.rec
      BY <1>0, <3>1, NoWriteOn, Kinds DEF Storing
    <3> QED  BY <2>1, <3>1, <3>2 DEF InitialData
  <2>3. CASE ~DataPut(p)
    <3>1. data' \subseteq data
      BY <1>0, <2>3, UnprunedSteps
      DEF PutBlock, PutIndex, CleanBlock, CleanIndex, RestoreBlock, RestoreIndex
    <3> QED  BY <2>1, <3>1
  <2> QED  BY <2>2, <2>3
<1>4. \A w \in OfRecord(accepted', d.rec) : IsWrite(w) =>
        w \notin encoded' /\ (w \in blocks' => w.initial)
  BY <1>2, TakesNoWrite DEF OfRecord
<1>5. InitialData(d.rec)' = InitialData(d.rec)
  BY DEF InitialData
<1> QED  BY <1>1, <1>3, <1>4, <1>5 DEF Silent, OfRecord

\* What is acknowledged is current, and silent if it is a delete.
LEMMA AnsweredIs ==
    ASSUME NEW p, Serial(p), UnprunedInv(p), NEW n \in Acknowledged
    PROVE  Current(n) /\ (IsDelete(n) => Silent(n))
<1>0. /\ UnprunedStores /\ UnprunedLabel(p) /\ req[p] \in Message /\ accepted \subseteq Message
      /\ TypeOK /\ StoreInv
  BY UnprunedIs DEF UnprunedInv
<1>1. n = req[p] /\ Cleaned(p)
  BY <1>0 DEF Serial, Acknowledged, UnprunedLabel
<1>2. ASSUME NEW x \in latest, Behind(n, x)
      PROVE  x \notin blocks /\ ~x.initial
  <2>1. x # n
    BY <1>0, <1>1, <1>2, NewerOrder DEF Behind
  <2> QED  BY <1>1, <1>2, <2>1 DEF Cleaned, OfRecord, Behind
<1>3. Current(n)
  BY <1>1, <1>2 DEF Cleaned, Current
<1>4. ASSUME IsDelete(n) PROVE Silent(n)
  <2>1. ASSUME NEW w \in OfRecord(accepted, n.rec), IsWrite(w)
        PROVE  w \notin encoded /\ (w \in blocks => w.initial)
    <3>1. w \in accepted /\ w.rec = req[p].rec /\ w # req[p]
      BY <1>1, <1>4, <2>1 DEF OfRecord, IsWrite, IsDelete
    <3>2. CASE w \in encoded \/ (w \in blocks /\ ~w.initial)
      <4>1. w \in OfRecord(Stored, req[p].rec)
        BY <1>0, <3>1, <3>2 DEF UnprunedStores, OfRecord, Stored
      <4>2. Kept(w)
        BY <1>1, <3>1, <4>1 DEF Cleaned
      <4> QED  BY <3>2, <4>2 DEF Kept
    <3> QED  BY <3>2
  <2> QED  BY <1>1, <1>4, <2>1 DEF Cleaned, Silent
<1> QED  BY <1>3, <1>4

LEMMA AnsweredNext ==
    ASSUME NEW p, Serial(p)
    PROVE  UnprunedInv(p)' =>
            (\A n \in Acknowledged : Current(n) /\ (IsDelete(n) => Silent(n)))'
<1>1. UnprunedInv(p) => \A n \in Acknowledged : Current(n) /\ (IsDelete(n) => Silent(n))
  BY AnsweredIs
<1> QED  BY <1>1, PTL

\* The stores go on.
LEMMA UnprunedGoesOn ==
    ASSUME NEW p, Serial(p), MaxCrashes <= 1, NoPrunes, StopReadersInv(p), [Next]_vars
    PROVE  /\ UnprunedInv(p)' /\ StoresFit /\ StoresFit' /\ GoesForward
           /\ \A n \in Acknowledged' : Current(n)'
           /\ Learns => (\A d \in acked : IsDelete(d) => Silent(d))'
<1>1. UnprunedInv(p) /\ UnprunedInv(p)'
  BY UnprunedStep DEF StopReadersInv
<1>2. StoresFit /\ StoresFit' /\ GoesForward
  BY <1>1, UnprunedFits, UnprunedFitsNext, UnprunedForward
<1>3. \A n \in Acknowledged' : Current(n)' /\ (IsDelete(n) => Silent(n)')
  BY <1>1, AnsweredNext
<1>4. \A d \in acked : IsDelete(d) => Silent(d)'
  BY <1>1, SilentStays DEF StopReadersInv
<1> QED  BY <1>1, <1>2, <1>3, <1>4 DEF Learns

\* A step of the DWN.
LEMMA StopReadersNext ==
    ASSUME NEW p, Serial(p), MaxCrashes <= 1, NoPrunes, StopReadersInv(p), [Next]_vars, Learns,
           UNCHANGED <<rpc, request, floor, shownData>>
    PROVE  StopReadersInv(p)'
<1>1. /\ UnprunedInv(p)' /\ StoresFit /\ StoresFit' /\ GoesForward
      /\ \A n \in Acknowledged' : Current(n)'
      /\ (\A d \in acked : IsDelete(d) => Silent(d))'
  BY UnprunedGoesOn
<1>2. FreshInv'
  BY <1>1, FreshNext DEF StopReadersInv
<1>3. ASSUME NEW q \in Readers PROVE HidesInv(q)'
  <2>1. HidesInv(q) /\ UnprunedInv(p) /\ floor[q].acked \subseteq acked
    BY DEF StopReadersInv, FreshInv
  <2>2. ASSUME NEW d \in floor[q].acked, IsDelete(d), NEW w \in accepted', w.rec = d.rec,
               IsWrite(w)
        PROVE  w \in accepted
    BY <2>1, <2>2, TakesNoWrite DEF StopReadersInv
  <2>3. \A w \in Held(q) : IsWrite(w)
    BY DEF StopReadersInv
  <2>4. Held(q)' = Held(q)
    BY DEF request, Held
  <2> QED  BY <2>1, <2>2, <2>3, <2>4 DEF HidesInv, request
<1>4. (\A q \in Readers : \A w \in Held(q) : IsWrite(w))'
  BY DEF StopReadersInv, request, Held
<1> QED  BY <1>1, <1>2, <1>3, <1>4 DEF StopReadersInv

\* A step of a request.
LEMMA StopReadersRequest ==
    ASSUME NEW p, Serial(p), MaxCrashes <= 1, NoPrunes, StopReadersInv(p), UNCHANGED vars,
           Remembers, NEW q \in Readers, Reader(q)
    PROVE  StopReadersInv(p)'
<1>0. /\ [Next]_vars /\ Learns /\ ReaderTypes /\ UnprunedInv(p) /\ FreshInv
      /\ UNCHANGED <<accepted, blocks, encoded, data>>
  BY DEF Remembers, Learns, StopReadersInv, FreshInv, vars, stores, history
<1>1. /\ UnprunedInv(p)' /\ StoresFit /\ \A n \in Acknowledged' : Current(n)'
      /\ (\A d \in acked : IsDelete(d) => Silent(d))'
  BY <1>0, UnprunedGoesOn
<1>2. FreshInv'
  BY <1>0, <1>1, FreshRequest
\* Data comes from a write.
<1>3. ASSUME NEW w \in Message, w \in encoded \/ <<w.rec, w.data>> \in data
      PROVE  IsWrite(w)
  <2>1. CASE w \in encoded
    BY <1>0, <2>1 DEF UnprunedInv, UnprunedStores
  <2>2. CASE <<w.rec, w.data>> \in data
    BY <1>0, <2>2, Kinds DEF UnprunedInv, UnprunedStores, IsLarge
  <2> QED  BY <1>3, <2>1, <2>2
<1>4. /\ \A u \in Readers : u # q =>
            /\ rpc'[u] = rpc[u] /\ asked'[u] = asked[u] /\ got'[u] = got[u]
            /\ floor'[u] = floor[u] /\ Held(u)' = Held(u)
      /\ \/ floor' = floor
         \/ floor'[q] = [acked |-> acked, shown |-> shown] /\ Held(q)' \subseteq encoded
  BY <1>0, RequestFrame
<1>5. \A w \in Held(q)' : w \notin Held(q) =>
        \/ w \in encoded
        \/ /\ ReadMessage(q) \/ ReadData(q)
           /\ w \in got[q] /\ w \in Message /\ <<w.rec, w.data>> \in data
  BY <1>0, HeldIsStored
<1>6. ASSUME NEW u \in Readers, NEW w \in Held(u)' PROVE IsWrite(w)
  <2>1. w \in encoded => w \in Message
    BY <1>1 DEF StoresFit, TypeOK
  <2> QED  BY <1>3, <1>4, <1>5, <1>6, <2>1 DEF StopReadersInv
<1>7. rpc'[q] = "data" => asked'[q] # NoRecord
  <2>1. CASE CheckRead(q)
    BY <2>1 DEF CheckRead
  <2>2. CASE ~CheckRead(q)
    <3>1. rpc'[q] # "data"
      BY <1>0, <2>2 DEF Reader, AskRecords, Get, RefuseRead, ReadData, CheckQuery, ScanInitial,
                        GetInitial, AskMessage, ReadMessage, Return, Ask, End, RGoto, ReaderTypes
    <3> QED  BY <3>1
  <2> QED  BY <2>1, <2>2
\* A request that gives out data after the delete was acknowledged.
<1>8. ASSUME NEW d \in floor[q].acked, IsDelete(d), NEW w \in got[q], w \in accepted,
             w \in Message, <<w.rec, w.data>> \in data, w.rec = d.rec,
             ReadMessage(q) \/ ReadData(q)
      PROVE  FALSE
  <2>1. d \in acked /\ Silent(d) /\ IsWrite(w) /\ HidesInv(q)
    BY <1>3, <1>8 DEF StopReadersInv, FreshInv
  <2>2. CASE ReadData(q)
    <3>1. rpc[q] = "data" /\ asked[q] # NoRecord
      BY <2>1, <2>2 DEF ReadData, HidesInv
    <3>2. ReadInv(q)
      BY <1>0, <3>1 DEF FreshInv, Reading
    <3>3. ~Behind(d, w)
      BY <1>8, <3>2 DEF ReadInv, Floor
    <3>4. IsNewer(d, w)
      BY <1>0, <1>8, <2>1 DEF Silent, Final, OfRecord, UnprunedInv, UnprunedStores
    <3> QED  BY <1>8, <3>3, <3>4 DEF Behind
  <2>3. CASE ReadMessage(q)
    <3>1. rpc[q] = "message" /\ w.initial
      BY <1>8, <2>1, <2>3 DEF ReadMessage, HidesInv
    <3>2. <<w.rec, w.data>> = InitialData(d.rec)
      BY <1>8, <3>1, Kinds DEF InitialData
    <3> QED  BY <1>8, <2>1, <3>2 DEF Silent, OfRecord
  <2> QED  BY <1>8, <2>2, <2>3
\* A message asked for by its CID.
<1>9. ASSUME rpc'[q] = "message", NEW d \in floor'[q].acked, IsDelete(d),
             NEW w \in got'[q], w \in accepted, w.rec = d.rec, IsWrite(w)
      PROVE  w.initial
  <2>1. AskMessage(q)
    <3>1. ~AskMessage(q) => rpc'[q] # "message"
      BY <1>0 DEF Reader, AskRecords, Get, CheckRead, RefuseRead, ReadData, CheckQuery,
                  ScanInitial, GetInitial, ReadMessage, Return, Ask, End, RGoto, ReaderTypes
    <3> QED  BY <1>9, <3>1
  <2>2. w \in blocks /\ d \in acked
    BY <1>0, <1>9, <2>1 DEF AskMessage, Ask, ReaderTypes
  <2>3. Silent(d)
    BY <1>9, <2>2 DEF StopReadersInv
  <2> QED  BY <1>9, <2>2, <2>3 DEF Silent, OfRecord
<1>10. HidesInv(q)'
  <2>1. ASSUME NEW d \in floor'[q].acked, IsDelete(d), NEW w \in Held(q)', w \in accepted
        PROVE  w.rec # d.rec
    <3>1. d \in acked /\ Silent(d) /\ IsWrite(w)
      <4>1. d \in acked
        BY <1>0, <1>4, <2>1 DEF FreshInv
      <4> QED  BY <1>6, <2>1, <4>1 DEF StopReadersInv
    <3>2. w \in encoded => w.rec # d.rec
      BY <2>1, <3>1 DEF Silent, OfRecord
    <3>3. CASE w \in encoded
      BY <3>2, <3>3
    <3>4. CASE w \in Held(q) /\ w \notin encoded
      <4>1. floor' = floor
        BY <1>4, <2>1, <3>4
      <4> QED  BY <2>1, <3>4, <4>1 DEF StopReadersInv, HidesInv
    <3>5. CASE w \notin Held(q) /\ w \notin encoded
      <4>1. floor' = floor
        BY <1>4, <2>1, <3>5
      <4> QED  BY <1>5, <1>8, <2>1, <3>5, <4>1
    <3> QED  BY <3>3, <3>4, <3>5
  <2> QED  BY <1>0, <1>7, <1>9, <2>1 DEF HidesInv
<1>11. ASSUME NEW u \in Readers, u # q PROVE HidesInv(u)'
  <2>1. HidesInv(u)
    BY DEF StopReadersInv
  <2> QED  BY <1>0, <1>4, <1>11, <2>1 DEF HidesInv
<1> QED  BY <1>1, <1>2, <1>6, <1>10, <1>11 DEF StopReadersInv

\* A stop ends the requests; what was acknowledged and shown stays so.
LEMMA StopReadersStop ==
    ASSUME NEW p, Serial(p), MaxCrashes <= 1, NoPrunes, StopReadersInv(p), Stop, Remembers
    PROVE  StopReadersInv(p)'
<1>0. [Next]_vars /\ Learns
  BY DEF Stop, Next, Remembers, Learns
<1>1. /\ UnprunedInv(p)' /\ StoresFit /\ StoresFit' /\ GoesForward
      /\ \A n \in Acknowledged' : Current(n)'
      /\ (\A d \in acked : IsDelete(d) => Silent(d))'
  BY <1>0, UnprunedGoesOn
<1>2. Shown' = {}
  BY DEF Stop, Shown
<1>3. (\A n \in acked \cup shown : Current(n))'
  <2>1. \A n \in acked \cup shown : Current(n)'
    BY <1>1, CurrentStays DEF StopReadersInv, FreshInv
  <2> QED  BY <1>1, <1>2, <2>1 DEF Remembers
<1>4. ReaderTypes'
  BY DEF Stop, NothingKnown, ReaderTypes, RLabels, Outcomes
<1>5. ASSUME NEW q \in Readers
      PROVE  /\ rpc'[q] = "idle" /\ floor'[q] = NothingKnown /\ Held(q)' = {}
             /\ asked'[q] = NoRecord
  BY DEF Stop, Held
<1>6. FreshInv'
  BY <1>3, <1>4, <1>5 DEF FreshInv, Reading, NothingKnown
<1>7. \A q \in Readers : HidesInv(q)'
  BY <1>5 DEF HidesInv, NothingKnown
<1>8. (\A q \in Readers : \A w \in Held(q) : IsWrite(w))'
  BY <1>5
<1> QED  BY <1>1, <1>6, <1>7, <1>8 DEF StopReadersInv

LEMMA StopReadersInit == ASSUME NEW p, Serial(p), RInit PROVE StopReadersInv(p)
<1>1. UnprunedInv(p) /\ FreshInv
  BY UnprunedInit, FreshInit DEF RInit
<1> QED  BY <1>1 DEF RInit, NothingKnown, StopReadersInv, HidesInv, Held

LEMMA StopReadersStep ==
    ASSUME NEW p, Serial(p), MaxCrashes <= 1, NoPrunes, StopReadersInv(p), [RNext]_allVars
    PROVE  StopReadersInv(p)'
<1>1. CASE UNCHANGED allVars
  <2>1. UNCHANGED <<vars, rpc, request, floor, shownData>> /\ Learns
    BY <1>1 DEF allVars, readerVars, Learns
  <2> QED  BY <2>1, StopReadersNext
<1>2. CASE Next /\ UNCHANGED <<rpc, request, floor, shownData>> /\ Remembers
  <2>1. Learns
    BY <1>2 DEF Remembers, Learns
  <2> QED  BY <1>2, <2>1, StopReadersNext
<1>3. CASE Stop /\ Remembers
  BY <1>3, StopReadersStop
<1>4. CASE (\E q \in Readers : Reader(q)) /\ UNCHANGED vars /\ Remembers
  BY <1>4, StopReadersRequest
<1> QED  BY <1>1, <1>2, <1>3, <1>4 DEF RNext, Remembers

\* The inductive invariant of the requests beside a handler that may be cut short once, if no
\* delete prunes: what was acknowledged or returned is current, a request misses nothing below
\* what it has found, and of a record whose delete was acknowledged no data can be found,
\* whatever the stop left half stored or half cleaned up.
\* (records-read.ts:48, storage-controller.ts:192-240)
THEOREM ReadersBesideStop ==
    ASSUME NEW p, Serial(p), MaxCrashes <= 1, NoPrunes PROVE RSpec => []StopReadersInv(p)
<1>1. RInit => StopReadersInv(p)
  BY StopReadersInit
<1>2. StopReadersInv(p) /\ [RNext]_allVars => StopReadersInv(p)'
  BY StopReadersStep
<1> QED  BY <1>1, <1>2, PTL DEF RSpec

\* Where no delete prunes, RecordsRead does not go back in time over a stop either: what it
\* returns is not older than what was acknowledged or returned before it was asked, be that
\* before the stop.
\* (records-read.ts:48, dwn.ts:82)
THEOREM ReadIsFreshBesideStop ==
    ASSUME NEW p, Serial(p), MaxCrashes <= 1, NoPrunes PROVE RSpec => []ReadIsFresh
<1>1. StopReadersInv(p) => ReadIsFresh
  BY FreshReads DEF StopReadersInv
<1> QED  BY <1>1, ReadersBesideStop, PTL

\* Nor does a request then give out, after a stop, data of a record whose deletion was
\* acknowledged.  (storage-controller.ts:192-240, messages-read.ts:57)
THEOREM DeletedStaysHiddenBesideStop ==
    ASSUME NEW p, Serial(p), MaxCrashes <= 1, NoPrunes PROVE RSpec => []DeletedStaysHidden
<1>1. StopReadersInv(p) => DeletedStaysHidden
  BY DEF StopReadersInv, HidesInv, Held, DeletedStaysHidden
<1> QED  BY <1>1, ReadersBesideStop, PTL
=============================================================================
