------------------------------ MODULE MCReaders ------------------------------
(***************************************************************************)
(* Read requests beside the handlers of the messages of MCRecords.         *)
(***************************************************************************)
EXTENDS MCRecords, RecordsReaders

\* The messages of the runs whose reads every step of the handlers is tried with.
ReadMessages == {a0, a3, aDel}
StopMessages == ReadMessages \cup {a5, aMoved, aPrune, b0}

\* Reads are tried beside these messages only; without a read the others come too.
ReadScope ==
    reads > 0 =>
        accepted \cup {req[p] : p \in {w \in Procs : pc[w] # "idle"}}
            \subseteq ReadMessages
=============================================================================
