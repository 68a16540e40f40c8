------------------------------ MODULE MCRecords ------------------------------
(***************************************************************************)
(* A root record a, a record b below it and a record c below b, and the    *)
(* messages the runs send: writes with large and small data, a write that  *)
(* changes an immutable property, deletes and prunes.                      *)
(***************************************************************************)
EXTENDS RecordsProps, TLC

CONSTANTS a, b, c, none, big1, big2, small, noData

Msg(cid, ts, rec, parent, d) ==
    [cid |-> cid, ts |-> ts, rec |-> rec, method |-> "Write",
     initial |-> FALSE, parent |-> parent, data |-> d, prune |-> FALSE]

Initial(cid, ts, rec, parent, d) ==
    [Msg(cid, ts, rec, parent, d) EXCEPT !.initial = TRUE]

Del(cid, ts, rec, prune) ==
    [Msg(cid, ts, rec, none, noData) EXCEPT !.method = "Delete",
                                            !.prune = prune]

\* Two messages of record a share a timestamp, so that the CID decides.  bDel is
\* older than the write b2, which may come after it.
a0 == Initial(3, 1, a, none, big1)
a1 == Msg(5, 2, a, none, big1)
a2 == Msg(4, 2, a, none, big2)
a3 == Msg(6, 3, a, none, small)
a4 == Msg(16, 5, a, none, small)
a5 == Msg(17, 5, a, none, big1)
aMoved == Msg(7, 3, a, b, big1)
aDel == Del(8, 4, a, FALSE)
aPrune == Del(9, 5, a, TRUE)
b0 == Initial(10, 1, b, a, small)
b1 == Msg(11, 2, b, a, small)
b2 == Msg(2, 3, b, a, big1)
bDel == Del(12, 2, b, FALSE)
bPrune == Del(13, 5, b, TRUE)
c0 == Initial(14, 1, c, b, big2)
c1 == Msg(15, 2, c, b, big2)

Tree == {a, b, c}
Pair == {a, b}
Single == {a}

SerialMessages == {a0, a1, a2, aMoved, aDel, aPrune,
                   b0, b2, bDel, bPrune, c0}
RaceMessages == {a0, a1, aDel, a4}
PruneMessages == {a0, aPrune, b0, b1}

DataCids == {big1, big2, small}
LargeData == {big1, big2}

\* The invocations of a handler are interchangeable.
Symmetry == Permutations(Procs)
=============================================================================
