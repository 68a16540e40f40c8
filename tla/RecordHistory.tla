---------------------------- MODULE RecordHistory ----------------------------
(***************************************************************************)
(* What a client may rely on: a record is its newest message.  It starts   *)
(* with its initial write, moves to ever newer writes, ends with a delete  *)
(* (which a prune may still follow), and disappears for good when a record *)
(* above it is pruned.  A record below another one is written only while   *)
(* the one above it is alive.                                              *)
(***************************************************************************)
EXTENDS DwnMessages

VARIABLES
    newest,   \* for each record the set of its newest message, {} if none
    gone      \* records purged under a pruned one

vars == <<newest, gone>>

ParentRecord(r) == InitialWrite(r).parent

\* Record r is below record a: r is in every set of records that is closed
\* under children and under the children of a.
Below(a, r) ==
    \A S \in SUBSET Record :
        (\A q \in Record : ParentRecord(q) \in S \cup {a} => q \in S) => r \in S

Alive(r) == \E w \in newest[r] : IsWrite(w)

Pruned(r) == \E d \in newest[r] : IsDelete(d) /\ d.prune

Init == newest = [r \in Record |-> {}] /\ gone = {}

\* A message is taken in: the first one of a record is its initial write,
\* every other one is newer than the newest.
TakeWrite(m) ==
    /\ IsWrite(m) /\ m.rec \notin gone
    /\ m.parent # NoRecord => Alive(m.parent)
    /\ newest[m.rec] = {} => m.initial
    /\ \A n \in newest[m.rec] : IsWrite(n) /\ IsNewer(m, n)
    /\ newest' = [newest EXCEPT ![m.rec] = {m}]
    /\ UNCHANGED gone

TakeDelete(m) ==
    /\ IsDelete(m) /\ newest[m.rec] # {}
    /\ \A n \in newest[m.rec] :
        IsNewer(m, n) /\ (IsDelete(n) => m.prune /\ ~n.prune)
    /\ newest' = [newest EXCEPT ![m.rec] = {m}]
    /\ UNCHANGED gone

Vanish(r) ==
    /\ r \notin gone
    /\ \E a \in Record : Pruned(a) /\ Below(a, r)
    /\ newest' = [newest EXCEPT ![r] = {}]
    /\ gone' = gone \cup {r}

Next ==
    \/ \E m \in Message : TakeWrite(m) \/ TakeDelete(m)
    \/ \E r \in Record : Vanish(r)

Spec == Init /\ [][Next]_vars
=============================================================================
