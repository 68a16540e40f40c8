----------------------------- MODULE MCEventFeed -----------------------------
(***************************************************************************)
(* The instance of EventFeed that TLC checks: message 0 is an initial      *)
(* write without data, and message 1 is not what the clients ask for.      *)
(***************************************************************************)
EXTENDS EventFeed, TLC

CONSTANTS h1, h2, c1, c2

Messages == 0 .. 2
MatchingMessages == {0, 2}
QuietMessages == {0}

\* Handlers are interchangeable, and so are clients.
Symmetry == Permutations(Handlers) \cup Permutations(Clients)
=============================================================================
