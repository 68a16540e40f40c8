-------------------------- MODULE ProtocolsConfigure --------------------------
(***************************************************************************)
(* Handlers of ProtocolsConfigure messages (handlers/protocols-configure)  *)
(* on one message store and event log.  A message is stored when it is     *)
(* newer than those of the protocol the handler found, which it deletes    *)
(* afterwards; the process may stop in between.                            *)
(*                                                                         *)
(* A message is a record [cid, ts, author, protocol, definition, ...]; age *)
(* is by timestamp, then by CID (core/message.ts).                         *)
(***************************************************************************)
EXTENDS ProtocolRules

CONSTANTS
    Configurer,           \* concurrent handler invocations
    Configure,            \* the ProtocolsConfigure messages clients may send
    MaxStops              \* bound on stops of the process

ASSUME ConfigureAssumption ==
    /\ \A m \in Configure : m.ts \in Nat /\ m.cid \in Nat
    /\ \A m, n \in Configure : m.cid = n.cid => m = n
    /\ Configure # {} /\ MaxStops \in Nat

VARIABLES
    configures,   \* the messages stored
    logged,       \* those the event log tells of
    cpc,          \* handler: where it is
    creq,         \*   the message it handles
    existing,     \*   the messages of the protocol it found
    newest,       \*   the newest of these and the message
    cstops,       \* stops so far
    \* history
    ever,         \* the messages ever stored
    alone         \* the handler that has had no other beside it

handler == <<cpc, creq, existing, newest>>
stores == <<configures, logged>>
cvars == <<configures, logged, cpc, creq, existing, newest, cstops, ever, alone>>

IsNewer(m, n) == m.ts > n.ts \/ (m.ts = n.ts /\ m.cid > n.cid)

OfProtocol(set, protocol) == {m \in set : m.protocol = protocol}

IsNewest(m, set) == m \in set /\ \A n \in set \ {m} : IsNewer(m, n)

\* The messages of a protocol in the order of their timestamps: the first one
\* that fetchProtocolDefinition gets is the oldest.
InForce(stored, protocol) ==
    LET all == OfProtocol(stored, protocol)
    IN  {m \in all : \A n \in all \ {m} : IsNewer(n, m)}

Working == {"authorize", "query", "put", "append", "clean", "events"}

\* Races and stops before may have left any set of valid messages.
CInit ==
    /\ configures \in SUBSET {m \in Configure : ValidDefinition(m.definition)}
    /\ logged = configures /\ ever = configures
    /\ cpc = [p \in Configurer |-> "idle"]
    /\ creq = [p \in Configurer |-> CHOOSE m \in Configure : TRUE]
    /\ newest = creq
    /\ existing = [p \in Configurer |-> {}]
    /\ cstops \in 0 .. MaxStops
    /\ alone = {}

Goto(p, from, to) == cpc[p] = from /\ cpc' = [cpc EXCEPT ![p] = to]

\* A message with a definition that is not valid is refused when it is parsed.
ReceiveConfigure(p, m) ==
    /\ cpc[p] \in {"idle", "done"}
    /\ cpc' = [cpc EXCEPT ![p] = IF ValidDefinition(m.definition) THEN "authorize" ELSE "idle"]
    /\ creq' = [creq EXCEPT ![p] = m]
    /\ newest' = [newest EXCEPT ![p] = m]
    /\ existing' = [existing EXCEPT ![p] = {}]
    /\ alone' = {q \in {p} : \A r \in Configurer \ {q} : cpc[r] \notin Working}
    /\ UNCHANGED <<stores, cstops, ever>>

\* Authorization, which may refuse.
AuthorizeConfigure(p) ==
    /\ Goto(p, "authorize", "query")
    /\ UNCHANGED <<stores, creq, existing, newest, cstops, ever, alone>>

RefuseConfigure(p) ==
    /\ Goto(p, "authorize", "idle")
    /\ UNCHANGED <<stores, creq, existing, newest, cstops, ever, alone>>

\* A message that is not the newest is refused and nothing is cleaned up.
FindConfiguresBad(p) ==
    LET stored == OfProtocol(configures, creq[p].protocol)
        isNewest == \A n \in stored : IsNewer(creq[p], n)
    IN  /\ cpc[p] = "query"
        /\ existing' = [existing EXCEPT ![p] = stored]
        /\ cpc' = [cpc EXCEPT ![p] = IF isNewest THEN "put" ELSE "done"]
        /\ UNCHANGED <<stores, creq, newest, cstops, ever, alone>>

\* A message is put when it is newer than all of its protocol; one that is there
\* already is not.
FindConfigures(p) ==
    LET stored == OfProtocol(configures, creq[p].protocol)
    IN  /\ cpc[p] = "query"
        /\ existing' = [existing EXCEPT ![p] = stored]
        /\ \E m \in stored \cup {creq[p]} :
            /\ IsNewest(m, stored \cup {creq[p]})
            /\ newest' = [newest EXCEPT ![p] = m]
            /\ cpc' = [cpc EXCEPT ![p] = IF m \in stored THEN "clean" ELSE "put"]
        /\ UNCHANGED <<stores, creq, cstops, ever, alone>>

PutConfigure(p) ==
    /\ Goto(p, "put", "append")
    /\ configures' = configures \cup {creq[p]}
    /\ ever' = ever \cup {creq[p]}
    /\ UNCHANGED <<logged, creq, existing, newest, cstops, alone>>

\* The event is appended, and emitted.
AppendConfigure(p) ==
    /\ Goto(p, "append", "clean")
    /\ logged' = logged \cup {creq[p]}
    /\ UNCHANGED <<configures, creq, existing, newest, cstops, ever, alone>>

\* Whatever was found is deleted although a newer message was there.
DeleteOlderBad(p, m) ==
    /\ cpc[p] = "clean"
    /\ m \in existing[p] \cap configures
    /\ configures' = configures \ {m}
    /\ UNCHANGED <<logged, handler, cstops, ever, alone>>

\* Each message found that is older than the newest is deleted; it may be gone.
DeleteOlder(p, m) ==
    /\ cpc[p] = "clean"
    /\ m \in existing[p] \cap configures /\ IsNewer(newest[p], m)
    /\ configures' = configures \ {m}
    /\ UNCHANGED <<logged, handler, cstops, ever, alone>>

OlderDeleted(p) ==
    /\ \A m \in existing[p] \cap configures : ~IsNewer(newest[p], m)
    /\ Goto(p, "clean", "events")
    /\ UNCHANGED <<stores, creq, existing, newest, cstops, ever, alone>>

\* The events of those messages are deleted, and the reply is given.
DeleteConfigureEvents(p) ==
    /\ Goto(p, "events", "done")
    /\ logged' = logged \ {m \in existing[p] : IsNewer(newest[p], m)}
    /\ UNCHANGED <<configures, creq, existing, newest, cstops, ever, alone>>

StopConfigures ==
    /\ cstops < MaxStops
    /\ cstops' = cstops + 1
    /\ cpc' = [p \in Configurer |-> "idle"]
    /\ alone' = {}
    /\ UNCHANGED <<stores, creq, existing, newest, ever>>

ConfigureStep(p) ==
    \/ \E m \in Configure : ReceiveConfigure(p, m)
    \/ AuthorizeConfigure(p) \/ RefuseConfigure(p)
    \/ FindConfigures(p) \/ PutConfigure(p) \/ AppendConfigure(p)
    \/ \E m \in Configure : DeleteOlder(p, m)
    \/ OlderDeleted(p) \/ DeleteConfigureEvents(p)

CNext == StopConfigures \/ \E p \in Configurer : ConfigureStep(p)

CSpec == CInit /\ [][CNext]_cvars

----------------------------------------------------------------------------
ConfigureTypeOK ==
    /\ configures \subseteq Configure /\ logged \subseteq Configure
    /\ cpc \in [Configurer -> Working \cup {"idle", "done"}]
    /\ creq \in [Configurer -> Configure] /\ newest \in [Configurer -> Configure]
    /\ existing \in [Configurer -> SUBSET Configure]
    /\ cstops \in 0 .. MaxStops
    /\ ever \subseteq Configure
    /\ alone \subseteq Configurer

\* Whatever was ever stored is still there or a newer message of its protocol is:
\* handlers that delete what they found on the strength of an old copy, stops in
\* between and messages in any order never lose the newest definition.
\* (handlers/protocols-configure.ts:54-96)
NewestDefinition ==
    \A m \in ever : \E n \in configures :
        n.protocol = m.protocol /\ (n = m \/ IsNewer(n, m))

\* Two handlers at once, or a stop, may leave two definitions of a protocol, and
\* then the older one is in force.  A handler that has had no other beside it
\* settles this when it replies, be its message accepted or refused as too old:
\* the newest definition ever stored is the only one.
\* (handlers/protocols-configure.ts:85-98, core/protocol-authorization.ts:274-287)
DefinitionSettled ==
    \A p \in Configurer : cpc[p] = "done" /\ p \in alone =>
        LET stored == OfProtocol(ever, creq[p].protocol)
        IN  /\ stored # {}
            /\ OfProtocol(configures, creq[p].protocol)
                    = {m \in stored : IsNewest(m, stored)}
=============================================================================
