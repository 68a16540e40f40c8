-------------------------- MODULE AuthorizationProofs --------------------------
(***************************************************************************)
(* For any messages, definitions, handlers and stops: the configure        *)
(* handlers never lose the newest definition, and one that has no other    *)
(* beside it settles which definition is stored, on their own and beside   *)
(* all that Authorization lets happen; then grants and rules are honoured  *)
(* and a record is placed once.                                            *)
(*                                                                         *)
(* A handler looks at the stores several times while they change; what it  *)
(* found is kept here as something that was so in one of the states its    *)
(* request may have seen (views).                                          *)
(***************************************************************************)
EXTENDS AuthorizationProps, TLAPS, SequenceTheorems, WellFoundedInduction

----------------------------------------------------------------------------
\* The protocol configurations.

\* Age is a strict order.
LEMMA NewerTransitive ==
    ASSUME NEW m \in Configure, NEW n \in Configure, NEW o \in Configure,
           IsNewer(m, n), IsNewer(n, o)
    PROVE  IsNewer(m, o)
  BY ConfigureAssumption DEF ConfigureAssumption, IsNewer

LEMMA NewerAsymmetric ==
    ASSUME NEW m \in Configure, NEW n \in Configure, IsNewer(m, n)
    PROVE  ~IsNewer(n, m) /\ m # n
  BY ConfigureAssumption DEF ConfigureAssumption, IsNewer

----------------------------------------------------------------------------
\* Types.

LEMMA ConfigureTypeInit == CInit => ConfigureTypeOK
  <1> SUFFICES ASSUME CInit PROVE ConfigureTypeOK OBVIOUS
  <1>1. (CHOOSE m \in Configure : TRUE) \in Configure
    BY ConfigureAssumption DEF ConfigureAssumption
  <1> QED BY <1>1 DEF CInit, ConfigureTypeOK, Working

LEMMA ConfigureTypeStep == ConfigureTypeOK /\ [CNext]_cvars => ConfigureTypeOK'
  <1> SUFFICES ASSUME ConfigureTypeOK, [CNext]_cvars PROVE ConfigureTypeOK' OBVIOUS
  <1> USE DEF ConfigureTypeOK
  <1>1. ASSUME NEW p \in Configurer, NEW m \in Configure, ReceiveConfigure(p, m)
        PROVE  ConfigureTypeOK'
    BY <1>1 DEF ReceiveConfigure, stores, Working
  <1>2. ASSUME NEW p \in Configurer, AuthorizeConfigure(p) PROVE ConfigureTypeOK'
    BY <1>2 DEF AuthorizeConfigure, Goto, stores, Working
  <1>3. ASSUME NEW p \in Configurer, RefuseConfigure(p) PROVE ConfigureTypeOK'
    BY <1>3 DEF RefuseConfigure, Goto, stores, Working
  <1>4. ASSUME NEW p \in Configurer, FindConfigures(p) PROVE ConfigureTypeOK'
    BY <1>4 DEF FindConfigures, OfProtocol, IsNewest, stores, Working
  <1>5. ASSUME NEW p \in Configurer, PutConfigure(p) PROVE ConfigureTypeOK'
    BY <1>5 DEF PutConfigure, Goto, Working
  <1>6. ASSUME NEW p \in Configurer, AppendConfigure(p) PROVE ConfigureTypeOK'
    BY <1>6 DEF AppendConfigure, Goto, Working
  <1>7. ASSUME NEW p \in Configurer, NEW m \in Configure, DeleteOlder(p, m)
        PROVE  ConfigureTypeOK'
    BY <1>7 DEF DeleteOlder, handler
  <1>8. ASSUME NEW p \in Configurer, OlderDeleted(p) PROVE ConfigureTypeOK'
    BY <1>8 DEF OlderDeleted, Goto, stores, Working
  <1>9. ASSUME NEW p \in Configurer, DeleteConfigureEvents(p) PROVE ConfigureTypeOK'
    BY <1>9 DEF DeleteConfigureEvents, Goto, Working
  <1>10. ASSUME StopConfigures PROVE ConfigureTypeOK'
    BY <1>10, ConfigureAssumption
       DEF StopConfigures, stores, Working, ConfigureAssumption
  <1>11. ASSUME UNCHANGED cvars PROVE ConfigureTypeOK'
    BY <1>11 DEF cvars
  <1> QED BY <1>1, <1>2, <1>3, <1>4, <1>5, <1>6, <1>7, <1>8, <1>9, <1>10, <1>11
          DEF CNext, ConfigureStep

\* The variables of the configure handlers keep their types.
\* (handlers/protocols-configure.ts)
THEOREM ConfigureTypeCorrect == CSpec => []ConfigureTypeOK
  BY ConfigureTypeInit, ConfigureTypeStep, PTL DEF CSpec

----------------------------------------------------------------------------
\* The newest definition.

\* What a handler found is of its message's protocol, and the newest of it was
\* stored once the handler deletes.
FoundOf(p) ==
    /\ \A m \in existing[p] : m.protocol = creq[p].protocol
    /\ cpc[p] \in {"put", "append", "clean", "events", "done"}
        => newest[p].protocol = creq[p].protocol
    /\ cpc[p] = "put" => newest[p] = creq[p]
    /\ cpc[p] \in {"append", "clean"} => newest[p] \in ever
    /\ cpc[p] = "append" => newest[p] = creq[p]

NewestInv ==
    /\ ConfigureTypeOK
    /\ configures \subseteq ever
    /\ NewestDefinition
    /\ \A p \in Configurer : FoundOf(p)

LEMMA NewestInit == CInit => NewestInv
  <1> SUFFICES ASSUME CInit PROVE NewestInv OBVIOUS
  <1>1. ConfigureTypeOK BY ConfigureTypeInit
  <1>2. NewestDefinition BY DEF CInit, NewestDefinition
  <1>3. \A p \in Configurer : FoundOf(p) BY DEF CInit, FoundOf
  <1> QED BY <1>1, <1>2, <1>3 DEF CInit, NewestInv

\* A step that stores nothing and deletes nothing keeps NewestDefinition.
LEMMA NewestKept ==
    ASSUME NewestInv, configures' = configures, ever' = ever
    PROVE  NewestDefinition' /\ (configures \subseteq ever)'
  BY DEF NewestInv, NewestDefinition

\* Neither does deleting what is older than something stored once.
LEMMA NewestOutlives ==
    ASSUME NewestInv, NEW p \in Configurer, NEW m \in Configure, DeleteOlder(p, m)
    PROVE  NewestDefinition'
  <1> USE DEF NewestInv
  <1>1. /\ cpc[p] = "clean" /\ m \in existing[p] /\ IsNewer(newest[p], m)
        /\ configures' = configures \ {m} /\ ever' = ever
    BY DEF DeleteOlder
  <1>2. newest[p] \in ever /\ newest[p].protocol = m.protocol
    BY <1>1 DEF FoundOf
  <1>3. configures \subseteq Configure /\ ever \subseteq Configure
        /\ newest[p] \in Configure
    BY DEF ConfigureTypeOK
  <1>4. PICK n \in configures :
            n.protocol = newest[p].protocol /\ (n = newest[p] \/ IsNewer(n, newest[p]))
    BY <1>2 DEF NewestDefinition
  <1>5. IsNewer(n, m) /\ n # m
    BY <1>1, <1>3, <1>4, NewerTransitive, NewerAsymmetric
  <1> SUFFICES ASSUME NEW x \in ever
               PROVE  \E o \in configures \ {m} :
                        o.protocol = x.protocol /\ (o = x \/ IsNewer(o, x))
    BY <1>1 DEF NewestDefinition
  <1>6. PICK o \in configures : o.protocol = x.protocol /\ (o = x \/ IsNewer(o, x))
    BY DEF NewestDefinition
  <1>7. CASE o # m BY <1>6, <1>7
  <1>8. CASE o = m
    <2>1. n \in configures \ {m} /\ n.protocol = x.protocol
      BY <1>2, <1>4, <1>5, <1>6, <1>8
    <2>2. n = x \/ IsNewer(n, x)
      BY <1>3, <1>5, <1>6, <1>8, NewerTransitive
    <2> QED BY <2>1, <2>2
  <1> QED BY <1>7, <1>8

LEMMA NewestStep == NewestInv /\ [CNext]_cvars => NewestInv'
  <1> SUFFICES ASSUME NewestInv, [CNext]_cvars PROVE NewestInv' OBVIOUS
  <1>t. ConfigureTypeOK' BY ConfigureTypeStep DEF NewestInv
  <1> USE DEF NewestInv
  <1>1. ASSUME NEW p \in Configurer, NEW m \in Configure, ReceiveConfigure(p, m)
        PROVE  NewestInv'
    <2>1. \A q \in Configurer : FoundOf(q)'
      BY <1>1 DEF ReceiveConfigure, FoundOf, ConfigureTypeOK, Working
    <2> QED BY <1>1, <1>t, <2>1, NewestKept DEF ReceiveConfigure, stores
  <1>2. ASSUME NEW p \in Configurer, AuthorizeConfigure(p) \/ RefuseConfigure(p)
        PROVE  NewestInv'
    <2>1. \A q \in Configurer : FoundOf(q)'
      BY <1>2 DEF AuthorizeConfigure, RefuseConfigure, Goto, FoundOf, ConfigureTypeOK, stores
    <2> QED BY <1>2, <1>t, <2>1, NewestKept
            DEF AuthorizeConfigure, RefuseConfigure, stores
  <1>3. ASSUME NEW p \in Configurer, FindConfigures(p) PROVE NewestInv'
    <2> DEFINE stored == OfProtocol(configures, creq[p].protocol)
    <2>1. PICK m \in stored \cup {creq[p]} :
            /\ newest' = [newest EXCEPT ![p] = m]
            /\ cpc' = [cpc EXCEPT ![p] = IF m \in stored THEN "clean" ELSE "put"]
      BY <1>3 DEF FindConfigures
    <2>2. /\ existing' = [existing EXCEPT ![p] = stored]
          /\ UNCHANGED <<stores, creq, cstops, ever, alone>>
      BY <1>3 DEF FindConfigures
    <2>3. FoundOf(p)'
      BY <2>1, <2>2 DEF FoundOf, ConfigureTypeOK, OfProtocol
    <2>4. \A q \in Configurer \ {p} : FoundOf(q)'
      BY <2>1, <2>2 DEF FoundOf, ConfigureTypeOK
    <2> QED BY <1>t, <2>2, <2>3, <2>4, NewestKept DEF stores
  <1>4. ASSUME NEW p \in Configurer, PutConfigure(p) PROVE NewestInv'
    <2>1. \A q \in Configurer : FoundOf(q)'
      BY <1>4 DEF PutConfigure, Goto, FoundOf, ConfigureTypeOK
    <2>2. NewestDefinition' /\ (configures \subseteq ever)'
      BY <1>4 DEF PutConfigure, NewestDefinition
    <2> QED BY <1>t, <2>1, <2>2
  <1>5. ASSUME NEW p \in Configurer, AppendConfigure(p) PROVE NewestInv'
    <2>1. \A q \in Configurer : FoundOf(q)'
      BY <1>5 DEF AppendConfigure, Goto, FoundOf, ConfigureTypeOK
    <2> QED BY <1>5, <1>t, <2>1, NewestKept DEF AppendConfigure
  <1>6. ASSUME NEW p \in Configurer, NEW m \in Configure, DeleteOlder(p, m)
        PROVE  NewestInv'
    <2>1. \A q \in Configurer : FoundOf(q)'
      BY <1>6 DEF DeleteOlder, handler, FoundOf
    <2>2. (configures \subseteq ever)' BY <1>6 DEF DeleteOlder
    <2> QED BY <1>6, <1>t, <2>1, <2>2, NewestOutlives
  <1>7. ASSUME NEW p \in Configurer, OlderDeleted(p) \/ DeleteConfigureEvents(p)
        PROVE  NewestInv'
    <2>1. \A q \in Configurer : FoundOf(q)'
      BY <1>7 DEF OlderDeleted, DeleteConfigureEvents, Goto, FoundOf, ConfigureTypeOK, stores
    <2> QED BY <1>7, <1>t, <2>1, NewestKept DEF OlderDeleted, DeleteConfigureEvents, stores
  <1>8. ASSUME StopConfigures PROVE NewestInv'
    <2>1. \A q \in Configurer : FoundOf(q)'
      BY <1>8 DEF StopConfigures, stores, FoundOf
    <2> QED BY <1>8, <1>t, <2>1, NewestKept DEF StopConfigures, stores
  <1>9. ASSUME UNCHANGED cvars PROVE NewestInv'
    <2>1. \A q \in Configurer : FoundOf(q)' BY <1>9 DEF cvars, FoundOf
    <2> QED BY <1>9, <1>t, <2>1, NewestKept DEF cvars
  <1> QED BY <1>1, <1>2, <1>3, <1>4, <1>5, <1>6, <1>7, <1>8, <1>9
          DEF CNext, ConfigureStep

\* Whatever was ever stored is still there, or a newer message of its protocol is.
\* (handlers/protocols-configure.ts:54-96)
THEOREM NewestNeverLost == CSpec => []NewestDefinition
  <1>1. CSpec => []NewestInv BY NewestInit, NewestStep, PTL DEF CSpec
  <1>2. NewestInv => NewestDefinition BY DEF NewestInv
  <1> QED BY <1>1, <1>2, PTL

----------------------------------------------------------------------------
\* A handler on its own.

Mine(p) == OfProtocol(configures, creq[p].protocol)

\* What the store has of the protocol, as the handler that is alone goes on.
SettlesOf(p) ==
    /\ cpc[p] = "put" =>
        /\ Mine(p) = existing[p]
        /\ \A n \in existing[p] : IsNewer(newest[p], n)
    /\ cpc[p] \in {"append", "clean"} =>
        /\ newest[p] \in Mine(p) /\ Mine(p) \subseteq existing[p] \cup {newest[p]}
        /\ \A n \in existing[p] \ {newest[p]} : IsNewer(newest[p], n)
    /\ cpc[p] \in {"events", "done"} => Mine(p) = {newest[p]}

SettledInv ==
    /\ NewestInv
    /\ \A p \in alone :
        /\ \A q \in Configurer \ {p} : cpc[q] \notin Working
        /\ SettlesOf(p)

LEMMA SettledInit == CInit => SettledInv
  BY NewestInit DEF CInit, SettledInv

\* The handlers beside one that is alone do not move.
LEMMA OnlyAlone ==
    ASSUME SettledInv, NEW p \in Configurer, cpc[p] \in Working
    PROVE  alone \subseteq {p}
  BY DEF SettledInv, NewestInv, ConfigureTypeOK

LEMMA SettledStep == SettledInv /\ [CNext]_cvars => SettledInv'
  <1> SUFFICES ASSUME SettledInv, [CNext]_cvars PROVE SettledInv' OBVIOUS
  <1>n. NewestInv' BY NewestStep DEF SettledInv
  <1>t. ConfigureTypeOK BY DEF SettledInv, NewestInv
  <1> DEFINE Settled(p) == /\ \A q \in Configurer \ {p} : cpc[q] \notin Working
                           /\ SettlesOf(p)
  <1>s. SUFFICES ASSUME NEW r \in alone' PROVE Settled(r)'
    BY <1>n DEF SettledInv
  <1>0. \A q \in alone : Settled(q) BY DEF SettledInv
  <1>1. ASSUME NEW p \in Configurer, NEW m \in Configure, ReceiveConfigure(p, m)
        PROVE  Settled(r)'
    <2>1. r = p /\ \A q \in Configurer \ {p} : cpc[q] \notin Working
      BY <1>1 DEF ReceiveConfigure
    <2>2. cpc'[p] \in {"authorize", "idle"}
          /\ \A q \in Configurer \ {p} : cpc'[q] = cpc[q]
      BY <1>1, <1>t DEF ReceiveConfigure, ConfigureTypeOK
    <2> QED BY <2>1, <2>2 DEF SettlesOf
  <1>2. ASSUME NEW p \in Configurer, AuthorizeConfigure(p) \/ RefuseConfigure(p)
        PROVE  Settled(r)'
    <2>1. alone' = alone /\ cpc[p] \in Working
          /\ cpc' \in {[cpc EXCEPT ![p] = "query"], [cpc EXCEPT ![p] = "idle"]}
      BY <1>2 DEF AuthorizeConfigure, RefuseConfigure, Goto, Working
    <2>2. r = p BY <2>1, OnlyAlone
    <2> QED BY <1>0, <1>t, <2>1, <2>2 DEF ConfigureTypeOK, SettlesOf
  <1>3. ASSUME NEW p \in Configurer, FindConfigures(p) PROVE Settled(r)'
    <2> DEFINE stored == OfProtocol(configures, creq[p].protocol)
    <2>1. PICK m \in stored \cup {creq[p]} :
            /\ IsNewest(m, stored \cup {creq[p]})
            /\ newest' = [newest EXCEPT ![p] = m]
            /\ cpc' = [cpc EXCEPT ![p] = IF m \in stored THEN "clean" ELSE "put"]
      BY <1>3 DEF FindConfigures
    <2>2. /\ existing' = [existing EXCEPT ![p] = stored] /\ cpc[p] = "query"
          /\ UNCHANGED <<stores, creq, cstops, ever, alone>>
      BY <1>3 DEF FindConfigures
    <2>3. r = p BY <2>2, OnlyAlone DEF Working
    <2>4. /\ Mine(p)' = stored /\ existing'[p] = stored /\ newest'[p] = m
          /\ cpc'[p] = IF m \in stored THEN "clean" ELSE "put"
      BY <1>t, <2>1, <2>2 DEF ConfigureTypeOK, Mine, stores
    <2>5. SettlesOf(p)'
      BY <2>1, <2>4 DEF SettlesOf, IsNewest
    <2>6. \A q \in Configurer \ {p} : cpc'[q] \notin Working
      BY <1>0, <1>t, <2>1, <2>2, <2>3 DEF ConfigureTypeOK
    <2> QED BY <2>3, <2>5, <2>6
  <1>4. ASSUME NEW p \in Configurer, PutConfigure(p) PROVE Settled(r)'
    <2>1. /\ cpc[p] = "put" /\ cpc' = [cpc EXCEPT ![p] = "append"]
          /\ configures' = configures \cup {creq[p]}
          /\ UNCHANGED <<creq, existing, newest, alone>>
      BY <1>4 DEF PutConfigure, Goto
    <2>2. r = p BY <2>1, OnlyAlone DEF Working
    <2>3. newest[p] = creq[p] /\ SettlesOf(p)
      BY <1>0, <2>1, <2>2 DEF SettledInv, NewestInv, FoundOf
    <2>4. Mine(p)' = Mine(p) \cup {newest[p]}
      BY <2>1, <2>3 DEF Mine, OfProtocol
    <2>5. SettlesOf(p)'
      BY <1>t, <2>1, <2>3, <2>4 DEF SettlesOf, ConfigureTypeOK
    <2>6. \A q \in Configurer \ {p} : cpc'[q] \notin Working
      BY <1>0, <1>t, <2>1, <2>2 DEF ConfigureTypeOK
    <2> QED BY <2>2, <2>5, <2>6
  <1>5. ASSUME NEW p \in Configurer, AppendConfigure(p) PROVE Settled(r)'
    <2>1. /\ cpc[p] = "append" /\ cpc' = [cpc EXCEPT ![p] = "clean"]
          /\ UNCHANGED <<configures, creq, existing, newest, alone>>
      BY <1>5 DEF AppendConfigure, Goto
    <2>2. r = p BY <2>1, OnlyAlone DEF Working
    <2> QED BY <1>0, <1>t, <2>1, <2>2 DEF ConfigureTypeOK, SettlesOf, Mine
  <1>6. ASSUME NEW p \in Configurer, NEW m \in Configure, DeleteOlder(p, m)
        PROVE  Settled(r)'
    <2>1. /\ cpc[p] = "clean" /\ IsNewer(newest[p], m)
          /\ configures' = configures \ {m}
          /\ UNCHANGED <<cpc, creq, existing, newest, alone>>
      BY <1>6 DEF DeleteOlder, handler
    <2>2. r = p BY <2>1, OnlyAlone DEF Working
    <2>3. m # newest[p]
      BY <1>t, <2>1, NewerAsymmetric DEF ConfigureTypeOK
    <2>4. Mine(p)' = Mine(p) \ {m} BY <2>1 DEF Mine, OfProtocol
    <2> QED BY <1>0, <2>1, <2>2, <2>3, <2>4 DEF SettlesOf
  <1>7. ASSUME NEW p \in Configurer, OlderDeleted(p) PROVE Settled(r)'
    <2>1. /\ cpc[p] = "clean" /\ cpc' = [cpc EXCEPT ![p] = "events"]
          /\ \A m \in existing[p] \cap configures : ~IsNewer(newest[p], m)
          /\ UNCHANGED <<configures, creq, existing, newest, alone>>
      BY <1>7 DEF OlderDeleted, Goto, stores
    <2>2. r = p BY <2>1, OnlyAlone DEF Working
    <2>3. Mine(p) = {newest[p]}
      BY <1>0, <2>1, <2>2 DEF SettlesOf, Mine, OfProtocol
    <2> QED BY <1>0, <1>t, <2>1, <2>2, <2>3 DEF ConfigureTypeOK, SettlesOf, Mine
  <1>8. ASSUME NEW p \in Configurer, DeleteConfigureEvents(p) PROVE Settled(r)'
    <2>1. /\ cpc[p] = "events" /\ cpc' = [cpc EXCEPT ![p] = "done"]
          /\ UNCHANGED <<configures, creq, existing, newest, alone>>
      BY <1>8 DEF DeleteConfigureEvents, Goto
    <2>2. r = p BY <2>1, OnlyAlone DEF Working
    <2> QED BY <1>0, <1>t, <2>1, <2>2 DEF ConfigureTypeOK, SettlesOf, Mine
  <1>9. ASSUME StopConfigures PROVE Settled(r)'
    BY <1>9 DEF StopConfigures
  <1>10. ASSUME UNCHANGED cvars PROVE Settled(r)'
    BY <1>0, <1>10 DEF cvars, SettlesOf, Mine
  <1> QED BY <1>1, <1>2, <1>3, <1>4, <1>5, <1>6, <1>7, <1>8, <1>9, <1>10
          DEF CNext, ConfigureStep

LEMMA SettledIsNewest == SettledInv => DefinitionSettled
  <1> SUFFICES ASSUME SettledInv, NEW p \in Configurer, cpc[p] = "done", p \in alone
               PROVE  LET stored == OfProtocol(ever, creq[p].protocol)
                      IN  /\ stored # {}
                          /\ Mine(p) = {m \in stored : IsNewest(m, stored)}
    BY DEF DefinitionSettled, Mine
  <1> DEFINE stored == OfProtocol(ever, creq[p].protocol)
  <1>1. Mine(p) = {newest[p]} BY DEF SettledInv, SettlesOf
  <1>2. newest[p] \in stored
    BY <1>1 DEF SettledInv, NewestInv, Mine, OfProtocol
  <1>3. stored \subseteq Configure
    BY DEF SettledInv, NewestInv, ConfigureTypeOK, OfProtocol
  <1>4. \A m \in stored : m = newest[p] \/ IsNewer(newest[p], m)
    <2> TAKE m \in stored
    <2>1. PICK n \in configures : n.protocol = m.protocol /\ (n = m \/ IsNewer(n, m))
      BY DEF SettledInv, NewestInv, NewestDefinition, OfProtocol
    <2>2. n = newest[p] BY <1>1, <2>1 DEF Mine, OfProtocol
    <2> QED BY <2>1, <2>2
  <1>5. ASSUME NEW m \in stored PROVE IsNewest(m, stored) <=> m = newest[p]
    <2>1. IsNewest(newest[p], stored) BY <1>2, <1>4 DEF IsNewest
    <2>2. m # newest[p] => ~IsNewest(m, stored)
      BY <1>2, <1>3, <1>4, <1>5, NewerAsymmetric DEF IsNewest
    <2> QED BY <2>1, <2>2
  <1> QED BY <1>1, <1>2, <1>5

\* When a handler that had no other beside it replies, the newest definition ever
\* stored is the only one of its protocol, so it is in force.
\* (handlers/protocols-configure.ts:54-96)
THEOREM AloneSettles == CSpec => []DefinitionSettled
  <1>1. CSpec => []SettledInv BY SettledInit, SettledStep, PTL DEF CSpec
  <1> QED BY <1>1, SettledIsNewest, PTL

----------------------------------------------------------------------------
\* Beside the other handlers.

LEMMA ConfigureAlongside == [Next]_vars => [CNext]_cvars
  <1> SUFFICES ASSUME [Next]_vars PROVE [CNext]_cvars OBVIOUS
  <1>1. ASSUME NEW c \in Configurer, NEW m \in pending \cap Configure,
               ReceiveConfigure(c, m)
        PROVE  CNext
    BY <1>1 DEF CNext, ConfigureStep
  <1>2. ASSUME NEW c \in Configurer, ConfigureHandle(c) PROVE CNext
    BY <1>2 DEF ConfigureHandle, CNext, ConfigureStep
  <1>3. ASSUME Stop PROVE CNext BY <1>3 DEF Stop, CNext
  <1>4. ASSUME UNCHANGED vars PROVE UNCHANGED cvars BY <1>4 DEF vars, cvars
  <1> QED BY <1>1, <1>2, <1>3, <1>4 DEF Next, Step

\* Authorization, with the tenant's and the grantees' configures among other
\* requests, lets the configure handlers do only what they do on their own: what is
\* proved of them holds in it.
\* (handlers/protocols-configure.ts:38-44, 116-136)
THEOREM ConfigureImplemented == Spec => CSpec
  BY ConfigureAlongside, PTL DEF Spec, Init, CSpec

\* With grants and requests of others about, too, the newest definition is kept
\* and settled.  (handlers/protocols-configure.ts:54-96)
THEOREM DefinitionsSafe == Spec => [](NewestDefinition /\ DefinitionSettled)
  BY ConfigureImplemented, NewestNeverLost, AloneSettles, PTL

----------------------------------------------------------------------------
\* The requests.

Now == [records |-> records, configures |-> configures]

IsWriting(m) == m.method = "Write" /\ m.protocol # None

\* What a handler may know of its request, its target and the states seen (V).
Founded(V, m) == \E v \in V : ParentMatches(v.records, m)

Defined(V, m, d) == \E v \in V : d \in Definitions(v.configures, m.protocol)

Assigned(V, m) ==
    \E u \in V : \E d \in Definitions(u.configures, m.protocol) :
        /\ m.path \in DOMAIN d.structure
        /\ d.structure[m.path].role => \E v \in V : RoleFree(v.records, m)

Delegated(V, m, w) ==
    m.delegated # None =>
        \E v \in V : GrantAllows(v.records, m, w, m.delegated, m.author, m.signer)

ByGrant(m, w) == GrantInvoked(m) /\ ~AllowedAtOnce(m, w)

FoundGrant(V, m, g) == g # None /\ \E v \in V : g = FetchGrant(v.records, m.grant)

Permitted(V, m, w) ==
    \E u \in V :
        LET g == FetchGrant(u.records, m.grant)
        IN  g # None /\ \E v \in V : GrantAllows(v.records, m, w, g, Tenant, m.author)

Denied(V, m, w) ==
    \A v \in V : V = {v} =>
        LET g == FetchGrant(v.records, m.grant)
        IN  g = None \/ ~GrantAllows(v.records, m, w, g, Tenant, m.author)

\* The initial write that an update has to agree with.
HasInitial(m) ==
    \E a \in Message : a.initial /\ a.record = m.record /\ Immutable(a) = Immutable(m)

\* The labels behind the checks of a write, and those behind the look at the delegate.
Judged == {"authorize", "grant", "scope", "chain", "fetch", "role", "rules", "process",
           "accepted"}
Checked == Judged \cup {"delegate"}

\* What it does know at each label, with the definition and the grant it fetched.
Knowledge(label, m, w, d, g, V) ==
    /\ m \in Message
    /\ \A v \in V : RecordsOK(v.records) /\ v.configures \subseteq Configure
    /\ m.method = "Read" /\ m.interface = "Records"
            /\ label \in Checked \cup {"unauthorized", "published"} => w \in Message
    /\ label \in {"definition", "parent", "ruleset"} => IsWriting(m)
    /\ label = "find" => ~IsWriting(m)
    /\ label \in {"parent", "ruleset"} => Defined(V, m, d)
    /\ IsWriting(m) /\ label \in Checked \cup {"ruleset", "unauthorized"} => Founded(V, m)
    /\ IsWriting(m) /\ label \in Checked => Assigned(V, m)
    /\ IsWriting(m) /\ label = "accepted" => Placed(m) /\ HasInitial(m)
    /\ label \in Judged => Delegated(V, m, w)
    /\ label \in {"grant", "scope"} => ByGrant(m, w)
    /\ label = "scope" => FoundGrant(V, m, g)
    /\ label \in {"chain", "fetch", "role", "rules"} => ~ByGrant(m, w)
    /\ label \in {"process", "accepted"} /\ ByGrant(m, w) => Permitted(V, m, w)
    /\ label \in {"unauthorized", "published"} /\ ByGrant(m, w)
            /\ m.delegated = None /\ m.owner = None => Denied(V, m, w)

HandlerOK(p) ==
    IF pc[p] = "idle" THEN views[p] = {}
    ELSE /\ Now \in views[p]
         /\ Knowledge(pc[p], req[p], target[p], def[p], grant[p], views[p])

Locals ==
    /\ DOMAIN pc = Handler /\ DOMAIN req = Handler /\ DOMAIN target = Handler
    /\ DOMAIN def = Handler /\ DOMAIN grant = Handler

AuthInv ==
    /\ ConfigureTypeOK
    /\ RecordsOK(records)
    /\ \A p \in Handler : HandlerOK(p)
    /\ Locals

----------------------------------------------------------------------------
\* What was so in one of the states seen stays so.
LEMMA SeenMore ==
    ASSUME NEW V, NEW W, V \subseteq W, NEW m, NEW w
    PROVE  /\ Founded(V, m) => Founded(W, m)
           /\ \A d : Defined(V, m, d) => Defined(W, m, d)
           /\ Assigned(V, m) => Assigned(W, m)
           /\ Delegated(V, m, w) => Delegated(W, m, w)
           /\ \A g : FoundGrant(V, m, g) => FoundGrant(W, m, g)
           /\ Permitted(V, m, w) => Permitted(W, m, w)
           /\ V # {} /\ Denied(V, m, w) => Denied(W, m, w)
<1>1. Founded(V, m) => Founded(W, m)
  BY DEF Founded
<1>2. \A d : Defined(V, m, d) => Defined(W, m, d)
  BY DEF Defined
<1>3. Assigned(V, m) => Assigned(W, m)
  BY DEF Assigned
<1>4. Delegated(V, m, w) => Delegated(W, m, w)
  BY DEF Delegated
<1>5. \A g : FoundGrant(V, m, g) => FoundGrant(W, m, g)
  BY DEF FoundGrant
<1>6. Permitted(V, m, w) => Permitted(W, m, w)
  BY DEF Permitted
<1>7. V # {} /\ Denied(V, m, w) => Denied(W, m, w)
  <2> SUFFICES ASSUME V # {}, Denied(V, m, w), NEW v \in W, W = {v}
               PROVE  LET g == FetchGrant(v.records, m.grant)
                      IN  g = None \/ ~GrantAllows(v.records, m, w, g, Tenant, m.author)
    BY DEF Denied
  <2>1. V = {v}
    OBVIOUS
  <2> QED  BY <2>1 DEF Denied
<1> QED  BY <1>1, <1>2, <1>3, <1>4, <1>5, <1>6, <1>7

LEMMA KnowledgeGrows ==
    ASSUME NEW V, NEW v, RecordsOK(v.records), v.configures \subseteq Configure, V # {},
           NEW label, NEW m, NEW w, NEW d, NEW g, Knowledge(label, m, w, d, g, V)
    PROVE  Knowledge(label, m, w, d, g, V \cup {v})
<1> DEFINE W == V \cup {v}
<1>1. V \subseteq W
  OBVIOUS
<1>2. \A u \in W : RecordsOK(u.records) /\ u.configures \subseteq Configure
  BY DEF Knowledge
<1> HIDE DEF W
<1>3. Knowledge(label, m, w, d, g, W)
  BY <1>1, <1>2, SeenMore DEF Knowledge
<1> QED  BY <1>3 DEF W

\* The stores as the invariant has them.
StoresOK == RecordsOK(records) /\ configures \subseteq Configure

Watches(p) == views'[p] = IF pc'[p] = "idle" THEN {} ELSE views[p] \cup {Now'}

LEMMA StoresSeen ==
    ASSUME StoresOK PROVE RecordsOK(Now.records) /\ Now.configures \subseteq Configure
BY DEF StoresOK, Now

\* What a handler knows when the stores have changed under it.
LEMMA Onwards ==
    ASSUME NEW p, HandlerOK(p), StoresOK', Watches(p), pc[p] # "idle", pc'[p] # "idle"
    PROVE  /\ Now \in views'[p] /\ Now' \in views'[p]
           /\ Knowledge(pc[p], req[p], target[p], def[p], grant[p], views'[p])
<1>1. PICK now : now = Now'
  OBVIOUS
<1>2. RecordsOK(now.records) /\ now.configures \subseteq Configure
  BY <1>1 DEF StoresOK, Now
<1>3. views'[p] = views[p] \cup {now} /\ Now \in views[p]
  BY <1>1 DEF Watches, HandlerOK
<1>4. Knowledge(pc[p], req[p], target[p], def[p], grant[p], views[p])
  BY DEF HandlerOK
<1> QED  BY <1>1, <1>2, <1>3, <1>4, KnowledgeGrows

\* A handler is not disturbed by others.
LEMMA OthersStay ==
    ASSUME NEW p, HandlerOK(p), StoresOK', Watches(p),
           pc'[p] = pc[p], req'[p] = req[p], target'[p] = target[p], def'[p] = def[p],
           grant'[p] = grant[p]
    PROVE  HandlerOK(p)'
<1>1. CASE pc[p] = "idle"
  BY <1>1 DEF HandlerOK, Watches
<1>2. CASE pc[p] # "idle"
  BY <1>2, Onwards DEF HandlerOK
<1> QED  BY <1>1, <1>2

\* What a handler that goes on has to know.
LEMMA Goes ==
    ASSUME NEW p, HandlerOK(p), StoresOK', Watches(p), pc[p] # "idle", pc'[p] # "idle",
           Knowledge(pc'[p], req'[p], target'[p], def'[p], grant'[p], views'[p])
    PROVE  HandlerOK(p)'
BY DEF HandlerOK, Watches

\* A request arrives.
LEMMA AfterReceive ==
    ASSUME AuthInv, StoresOK', NEW p \in Handler, Watches(p), NEW m \in pending, Receive(p, m)
    PROVE  HandlerOK(p)'
<1>1. /\ req'[p] = m /\ m \in Message /\ pc[p] = "idle"
      /\ pc'[p] = (CASE m.method = "Write" /\ m.protocol # None -> "definition"
               [] m.method \in {"Read", "Delete"} -> "find"
               [] OTHER -> "delegate")
  BY DEF Receive, AuthInv, At, Locals, Go
<1>r. PICK l, w, d, g, now : l = pc'[p] /\ w = target'[p] /\ d = def'[p] /\ g = grant'[p]
                             /\ now = Now'
  OBVIOUS
<1>2. /\ l \in {"definition", "find", "delegate"}
      /\ l = "definition" => IsWriting(m)
      /\ l \in {"find", "delegate"} => ~IsWriting(m)
      /\ l = "delegate" => m.method # "Read"
  BY <1>1, <1>r DEF IsWriting
<1>3. views'[p] = {now}
  BY <1>1, <1>2, <1>r DEF Watches, AuthInv, HandlerOK
<1>4. RecordsOK(now.records) /\ now.configures \subseteq Configure
  BY <1>r DEF Now, StoresOK
<1>5. Knowledge(l, m, w, d, g, {now})
  BY <1>1, <1>2, <1>4 DEF Knowledge, Checked, Judged
<1>6. pc'[p] # "idle"
  BY <1>r, <1>2
<1> QED  BY <1>1, <1>3, <1>5, <1>6, <1>r DEF HandlerOK

\* The checks of a write against the protocol.
LEMMA AfterDefinition ==
    ASSUME AuthInv, StoresOK', NEW p \in Handler, Watches(p), CheckDefinition(p)
    PROVE  HandlerOK(p)'
<1>r. PICK l, m, w, d, g, W, now :
        /\ l = pc'[p] /\ m = req[p] /\ w = target[p] /\ d = def'[p] /\ g = grant[p]
        /\ W = views'[p] /\ now = Now
  OBVIOUS
<1>1. /\ pc[p] = "definition" /\ l \in {"parent", "invalid"}
      /\ l = "parent" => d \in Definitions(now.configures, m.protocol)
      /\ req'[p] = m /\ target'[p] = w /\ grant'[p] = g
  BY <1>r DEF CheckDefinition, AuthInv, At, Locals, Go, Now
<1>2. HandlerOK(p) /\ pc[p] # "idle" /\ pc'[p] # "idle"
  BY <1>1, <1>r DEF AuthInv
<1>3. Knowledge("definition", m, w, def[p], g, W) /\ now \in W
  BY <1>r, <1>1, <1>2, Onwards
<1>4. Knowledge(l, m, w, d, g, W)
  BY <1>1, <1>3 DEF Knowledge, Defined, Checked, Judged
<1> QED  BY <1>r, <1>1, <1>2, <1>4, Goes

LEMMA AfterParent ==
    ASSUME AuthInv, StoresOK', NEW p \in Handler, Watches(p), CheckParent(p)
    PROVE  HandlerOK(p)'
<1>r. PICK l, m, w, d, g, W, now :
        /\ l = pc'[p] /\ m = req[p] /\ w = target[p] /\ d = def[p] /\ g = grant[p]
        /\ W = views'[p] /\ now = Now
  OBVIOUS
<1>1. /\ pc[p] = "parent" /\ l \in {"ruleset", "invalid"}
      /\ l = "ruleset" => ParentMatches(now.records, m)
      /\ req'[p] = m /\ target'[p] = w /\ def'[p] = d /\ grant'[p] = g
  BY <1>r DEF CheckParent, AuthInv, At, Locals, Go, Keep, local, Now
<1>2. HandlerOK(p) /\ pc[p] # "idle" /\ pc'[p] # "idle"
  BY <1>1, <1>r DEF AuthInv
<1>3. Knowledge("parent", m, w, d, g, W) /\ now \in W
  BY <1>r, <1>1, <1>2, Onwards
<1>4. Knowledge(l, m, w, d, g, W)
  BY <1>1, <1>3 DEF Knowledge, Founded, Checked, Judged
<1> QED  BY <1>r, <1>1, <1>2, <1>4, Goes

LEMMA AfterRuleSet ==
    ASSUME AuthInv, StoresOK', NEW p \in Handler, Watches(p), CheckRuleSet(p)
    PROVE  HandlerOK(p)'
<1>r. PICK l, m, w, d, g, W, now :
        /\ l = pc'[p] /\ m = req[p] /\ w = target[p] /\ d = def[p] /\ g = grant[p]
        /\ W = views'[p] /\ now = Now
  OBVIOUS
<1>1. /\ pc[p] = "ruleset" /\ l \in {"delegate", "invalid"}
      /\ l = "delegate" => /\ RuleSetAt(m.path, d) # None
                           /\ RuleSetAt(m.path, d).role => RoleFree(now.records, m)
      /\ req'[p] = m /\ target'[p] = w /\ def'[p] = d /\ grant'[p] = g
  BY <1>r DEF CheckRuleSet, AuthInv, At, Locals, Go, Keep, local, Now
<1>2. HandlerOK(p) /\ pc[p] # "idle" /\ pc'[p] # "idle"
  BY <1>1, <1>r DEF AuthInv
<1>3. Knowledge("ruleset", m, w, d, g, W) /\ now \in W
  BY <1>r, <1>1, <1>2, Onwards
<1>4. l = "delegate" => Assigned(W, m)
  BY <1>1, <1>3 DEF Knowledge, Assigned, Defined, RuleSetAt
<1>5. IsWriting(m) /\ m.method # "Read"
  BY <1>3 DEF Knowledge, IsWriting
<1>6. Knowledge(l, m, w, d, g, W)
  BY <1>1, <1>3, <1>4, <1>5 DEF Knowledge, Checked, Judged
<1> QED  BY <1>r, <1>1, <1>2, <1>6, Goes

\* The message a read is about is one that is stored.
LEMMA AfterFind ==
    ASSUME AuthInv, StoresOK', NEW p \in Handler, Watches(p), Find(p)
    PROVE  HandlerOK(p)'
<1>r. PICK l, m, w, d, g, W, now :
        /\ l = pc'[p] /\ m = req[p] /\ w = target'[p] /\ d = def[p] /\ g = grant[p]
        /\ W = views'[p] /\ now = Now
  OBVIOUS
<1>1. /\ pc[p] = "find" /\ l \in {"delegate", "invalid"}
      /\ req'[p] = m /\ def'[p] = d /\ grant'[p] = g
  BY <1>r DEF Find, AuthInv, At, Locals, Go
<1>2. HandlerOK(p) /\ pc[p] # "idle" /\ pc'[p] # "idle"
  BY <1>1, <1>r DEF AuthInv
<1>3. Knowledge("find", m, target[p], d, g, W) /\ now \in W
  BY <1>r, <1>1, <1>2, Onwards
<1>4. ASSUME l = "delegate", m.method = "Read", m.interface = "Records"
      PROVE  w \in Message
  <2> DEFINE matches == {x \in Stored : m.record \in DOMAIN records /\ x = Readable(m.record)}
  <2>1. matches # {} /\ w \in matches
    BY <1>r, <1>1, <1>4 DEF Find, AuthInv, At, Locals, Go
  <2>2. m.record \in DOMAIN records /\ w = Readable(m.record)
    BY <2>1
  <2>3. records[m.record] \in [initial : Message, newest : Message]
    BY <2>2 DEF AuthInv, RecordsOK
  <2> QED  BY <2>2, <2>3 DEF Readable
<1>5. Knowledge(l, m, w, d, g, W)
  BY <1>1, <1>3, <1>4 DEF Knowledge, Checked, Judged
<1> QED  BY <1>r, <1>1, <1>2, <1>5, Goes

\* Who signs for the author.
LEMMA AfterDelegate ==
    ASSUME AuthInv, StoresOK', NEW p \in Handler, Watches(p), CheckDelegate(p)
    PROVE  HandlerOK(p)'
<1>r. PICK l, m, w, d, g, W, now :
        /\ l = pc'[p] /\ m = req[p] /\ w = target[p] /\ d = def[p] /\ g = grant[p]
        /\ W = views'[p] /\ now = Now
  OBVIOUS
<1>1. /\ pc[p] = "delegate" /\ l \in {"authorize", "unauthorized"}
      /\ l = "authorize" <=>
            /\ m.owner \in {None, Tenant}
            /\ \/ m.delegated = None
               \/ GrantAllows(now.records, m, w, m.delegated, m.author, m.signer)
      /\ req'[p] = m /\ target'[p] = w /\ def'[p] = d /\ grant'[p] = g
  BY <1>r DEF CheckDelegate, AuthInv, At, Locals, Go, Keep, local, Now
<1>2. HandlerOK(p) /\ pc[p] # "idle" /\ pc'[p] # "idle"
  BY <1>1, <1>r DEF AuthInv
<1>3. Knowledge("delegate", m, w, d, g, W) /\ now \in W
  BY <1>r, <1>1, <1>2, Onwards
<1>4. l = "authorize" => Delegated(W, m, w)
  BY <1>1, <1>3 DEF Delegated
<1>5. l = "unauthorized" => m.delegated # None \/ m.owner # None
  BY <1>1
<1>6. Knowledge(l, m, w, d, g, W)
  BY <1>1, <1>3, <1>4, <1>5 DEF Knowledge, Checked, Judged
<1> QED  BY <1>r, <1>1, <1>2, <1>6, Goes

\* What entitles a handler that judges a request to go on to a label.
Entitles(l, m, w, g, V) ==
    /\ \/ l \in (Judged \ {"accepted"}) \cup {"unauthorized", "published"}
       \/ l = "accepted" /\ ~IsWriting(m)
    /\ l \in {"grant", "scope"} => ByGrant(m, w)
    /\ l = "scope" => FoundGrant(V, m, g)
    /\ l \in {"chain", "fetch", "role", "rules"} => ~ByGrant(m, w)
    /\ l \in {"process", "accepted"} /\ ByGrant(m, w) => Permitted(V, m, w)
    /\ l \in {"unauthorized", "published"} /\ ByGrant(m, w)
            /\ m.delegated = None /\ m.owner = None => Denied(V, m, w)

LEMMA Judging ==
    ASSUME AuthInv, StoresOK', NEW p \in Handler, Watches(p), pc[p] \in Judged,
           req'[p] = req[p], target'[p] = target[p],
           Entitles(pc'[p], req[p], target[p], grant'[p], views'[p])
    PROVE  HandlerOK(p)'
<1>r. PICK k, l, m, w, d, e, g, h, W :
        /\ k = pc[p] /\ l = pc'[p] /\ m = req[p] /\ w = target[p] /\ d = def[p]
        /\ e = def'[p] /\ g = grant[p] /\ h = grant'[p] /\ W = views'[p]
  OBVIOUS
<1>1. HandlerOK(p) /\ pc[p] # "idle" /\ pc'[p] # "idle"
  BY DEF Judged, AuthInv, Entitles
<1>2. Knowledge(k, m, w, d, g, W)
  BY <1>r, <1>1, Onwards
<1>3. k \in Judged /\ Entitles(l, m, w, h, W)
  BY <1>r
<1>4. Knowledge(l, m, w, e, h, W)
  BY <1>2, <1>3 DEF Knowledge, Entitles, Checked, Judged
<1> QED  BY <1>r, <1>1, <1>4, Goes

LEMMA ActOf ==
    ASSUME NEW m
    PROVE  /\ Act(m) \in {"process", "accepted"}
           /\ IsWriting(m) => Act(m) = "process"
           /\ Refusal(m) \in {"unauthorized", "published"}
BY DEF Act, IsWriting, Refusal

LEMMA AfterAuthorize ==
    ASSUME AuthInv, StoresOK', NEW p \in Handler, Watches(p), Authorize(p)
    PROVE  HandlerOK(p)'
<1>r. PICK l, m, w, W, g, s :
        /\ l = pc'[p] /\ m = req[p] /\ w = target[p] /\ W = views'[p] /\ g = grant'[p]
        /\ s = Subject(p)
  OBVIOUS
<1>1. /\ pc[p] = "authorize" /\ req'[p] = m /\ target'[p] = w
      /\ l = IF AllowedAtOnce(m, w) THEN Act(m)
             ELSE IF GrantInvoked(m) THEN "grant"
             ELSE IF m.interface # "Records" \/ s.protocol = None THEN Refusal(m)
             ELSE IF m.method \in {"Query", "Subscribe"} THEN "fetch"
             ELSE "chain"
  BY <1>r DEF Authorize, AuthInv, At, Locals, Go, Keep, local
<1>2. \/ ~ByGrant(m, w) /\ l = Act(m)
      \/ ByGrant(m, w) /\ l = "grant"
      \/ ~ByGrant(m, w) /\ l \in {Refusal(m), "fetch", "chain"}
  BY <1>1 DEF ByGrant
<1>3. Entitles(l, m, w, g, W)
  BY <1>2, ActOf DEF Entitles, Judged
<1> QED  BY <1>r, <1>1, <1>3, Judging DEF Judged

----------------------------------------------------------------------------
\* By a grant.
LEMMA AfterLookUpGrant ==
    ASSUME AuthInv, StoresOK', NEW p \in Handler, Watches(p), LookUpGrant(p)
    PROVE  HandlerOK(p)'
<1>r. PICK l, m, w, g, W, now, V :
        /\ l = pc'[p] /\ m = req[p] /\ w = target[p] /\ g = grant'[p]
        /\ W = views'[p] /\ now = Now /\ V = views[p]
  OBVIOUS
<1>1. /\ pc[p] = "grant" /\ req'[p] = m /\ target'[p] = w
      /\ g = FetchGrant(now.records, m.grant)
      /\ l = IF g = None THEN "unauthorized" ELSE "scope"
  BY <1>r DEF LookUpGrant, AuthInv, At, Locals, Go, Now
<1>2. HandlerOK(p) /\ pc[p] # "idle" /\ pc'[p] # "idle"
  BY <1>1, <1>r DEF AuthInv
<1>3. Knowledge("grant", m, w, def[p], grant[p], W) /\ now \in W
  BY <1>r, <1>1, <1>2, Onwards
<1>4. l = "scope" => FoundGrant(W, m, g)
  BY <1>1, <1>3 DEF FoundGrant
<1>5. l = "unauthorized" => Denied(W, m, w)
  BY <1>1, <1>3 DEF Denied
<1>6. Entitles(l, m, w, g, W)
  BY <1>1, <1>3, <1>4, <1>5 DEF Knowledge, Entitles, Judged
<1> QED  BY <1>r, <1>1, <1>6, Judging DEF Judged

LEMMA AfterCheckGrant ==
    ASSUME AuthInv, StoresOK', NEW p \in Handler, Watches(p), CheckGrant(p)
    PROVE  HandlerOK(p)'
<1>r. PICK l, m, w, g, W, now :
        /\ l = pc'[p] /\ m = req[p] /\ w = target[p] /\ g = grant[p]
        /\ W = views'[p] /\ now = Now
  OBVIOUS
<1>1. /\ pc[p] = "scope" /\ req'[p] = m /\ target'[p] = w /\ grant'[p] = g
      /\ l = IF ~GrantApplies(now.records, m, g, Tenant, m.author) THEN "unauthorized"
             ELSE IF ScopeAllows(now.records, m, w, g) THEN Act(m)
             ELSE Refusal(m)
  BY <1>r DEF CheckGrant, AuthInv, At, Locals, Go, Keep, local, Now
<1>2. HandlerOK(p) /\ pc[p] # "idle" /\ pc'[p] # "idle"
  BY <1>1, <1>r, ActOf DEF AuthInv
<1>3. Knowledge("scope", m, w, def[p], g, W) /\ now \in W
  BY <1>r, <1>1, <1>2, Onwards
<1>4. ByGrant(m, w) /\ FoundGrant(W, m, g)
  BY <1>3 DEF Knowledge
<1>5. ASSUME GrantAllows(now.records, m, w, g, Tenant, m.author)
      PROVE  Entitles(l, m, w, g, W)
  <2>1. l = Act(m)
    BY <1>1, <1>5 DEF GrantAllows
  <2>2. Permitted(W, m, w)
    BY <1>3, <1>4, <1>5 DEF Permitted, FoundGrant
  <2> QED  BY <1>4, <2>1, <2>2, ActOf DEF Entitles, Judged
<1>6. ASSUME ~GrantAllows(now.records, m, w, g, Tenant, m.author)
      PROVE  Entitles(l, m, w, g, W)
  <2>1. l \in {"unauthorized", Refusal(m)}
    BY <1>1, <1>6 DEF GrantAllows
  <2>2. Denied(W, m, w)
    BY <1>3, <1>4, <1>6 DEF Denied, FoundGrant
  <2> QED  BY <1>4, <2>1, <2>2, ActOf DEF Entitles, Judged
<1>7. Entitles(l, m, w, g, W)
  BY <1>5, <1>6
<1> QED  BY <1>r, <1>1, <1>7, Judging DEF Judged

----------------------------------------------------------------------------
\* By the rules.
LEMMA ByRules ==
    ASSUME AuthInv, StoresOK', NEW p \in Handler, Watches(p),
           pc[p] \in {"chain", "fetch", "role", "rules"},
           pc'[p] \in {"unauthorized", "fetch", "role", "rules", Act(req[p])},
           req'[p] = req[p], target'[p] = target[p]
    PROVE  HandlerOK(p)'
<1>r. PICK k, l, m, w, W, g :
        /\ k = pc[p] /\ l = pc'[p] /\ m = req[p] /\ w = target[p] /\ W = views'[p]
        /\ g = grant'[p]
  OBVIOUS
<1>1. HandlerOK(p) /\ pc[p] # "idle" /\ pc'[p] # "idle"
  BY ActOf DEF AuthInv
<1>2. Knowledge(k, m, w, def[p], grant[p], W)
  BY <1>r, <1>1, Onwards
<1>3. k \in {"chain", "fetch", "role", "rules"} /\ k \in Judged
      /\ l \in {"unauthorized", "fetch", "role", "rules", Act(m)}
  BY <1>r DEF Judged
<1>4. ~ByGrant(m, w)
  BY <1>2, <1>3 DEF Knowledge
<1>5. Entitles(l, m, w, g, W)
  BY <1>3, <1>4, ActOf DEF Entitles, Judged
<1> QED  BY <1>r, <1>3, <1>5, Judging

LEMMA AfterBuildChain ==
    ASSUME AuthInv, StoresOK', NEW p \in Handler, Watches(p), BuildChain(p)
    PROVE  HandlerOK(p)'
<1>1. pc[p] = "chain" /\ pc'[p] \in {"unauthorized", "fetch"}
      /\ req'[p] = req[p] /\ target'[p] = target[p]
  BY DEF BuildChain, AuthInv, At, Locals, Go
<1> QED  BY <1>1, ByRules

LEMMA AfterFetchDefinition ==
    ASSUME AuthInv, StoresOK', NEW p \in Handler, Watches(p), FetchDefinition(p)
    PROVE  HandlerOK(p)'
<1>1. pc[p] = "fetch" /\ pc'[p] \in {"unauthorized", "role"}
      /\ req'[p] = req[p] /\ target'[p] = target[p]
  BY DEF FetchDefinition, AuthInv, At, Locals, Go
<1> QED  BY <1>1, ByRules

LEMMA AfterCheckRole ==
    ASSUME AuthInv, StoresOK', NEW p \in Handler, Watches(p), CheckRole(p)
    PROVE  HandlerOK(p)'
<1>1. pc[p] = "role" /\ pc'[p] \in {"unauthorized", "rules"}
      /\ req'[p] = req[p] /\ target'[p] = target[p]
  BY DEF CheckRole, AuthInv, At, Locals, Go, Keep, local
<1> QED  BY <1>1, ByRules

LEMMA AfterCheckRules ==
    ASSUME AuthInv, StoresOK', NEW p \in Handler, Watches(p), CheckRules(p)
    PROVE  HandlerOK(p)'
<1>1. pc[p] = "rules" /\ pc'[p] \in {"unauthorized", Act(req[p])}
      /\ req'[p] = req[p] /\ target'[p] = target[p]
  BY DEF CheckRules, AuthInv, At, Locals, Go, Keep, local
<1> QED  BY <1>1, ByRules

----------------------------------------------------------------------------
\* The contexts of records.
LEMMA IsSequence ==
    ASSUME NEW S, NEW s \in Seq(S)
    PROVE  Sequence(s)
<1>1. DOMAIN s = 1 .. Len(s) /\ \A i \in 1 .. Len(s) : s[i] \in ToSet(s)
  BY DEF ToSet
<1>2. s = [i \in 1 .. Len(s) |-> s[i]] /\ Len(s) \in Nat
  OBVIOUS
<1> QED  BY <1>1, <1>2, IsASeq DEF Sequence

\* A stored record of a protocol is placed.
LEMMA StoredPlaced ==
    ASSUME NEW recs, RecordsOK(recs), NEW r \in DOMAIN recs, IsLive(recs, r),
           NEW x, x = recs[r].newest, x.protocol # None
    PROVE  x \in Message /\ x.method = "Write" /\ x.record = r /\ Placed(x)
<1>1. recs[r] \in [initial : Message, newest : Message] /\ x.record = r
  BY DEF RecordsOK
<1>2. x.method = "Write"
  BY DEF IsLive
<1> QED  BY <1>1, <1>2 DEF RecordsOK

\* The initial write of what may be stored.
LEMMA InitialOf ==
    ASSUME RecordsOK(records), NEW m \in Message, m.method = "Write", CanStore(m)
    PROVE  HasInitial(m)
<1> USE DEF HasInitial
<1>1. CASE m.initial
  BY <1>1
<1>2. CASE ~m.initial
  <2>1. m.record \in DOMAIN records /\ Immutable(records[m.record].initial) = Immutable(m)
    BY <1>2 DEF CanStore
  <2> QED  BY <2>1 DEF RecordsOK
<1> QED  BY <1>1, <1>2

\* The parts of a place, by names of their own.
LEMMA PlacedParts ==
    ASSUME NEW x, Placed(x), NEW c, c = x.context, NEW n, n = Len(x.path),
           NEW r, r = x.record, NEW protocol, protocol = x.protocol
    PROVE  /\ Sequence(c) /\ Len(c) = n /\ n > 0 /\ c[n] = r
           /\ \A i \in 1 .. n : \E b \in Message :
                /\ b.initial /\ b.record = c[i]
                /\ b.parent = IF i = 1 THEN None ELSE c[i - 1]
                /\ b.protocol = protocol /\ Len(b.path) = i
<1>1. Sequence(c) /\ Len(c) = n /\ n > 0 /\ c[n] = r
  BY DEF Placed
<1>2. ASSUME NEW i \in 1 .. n
      PROVE  \E b \in Message :
                /\ b.initial /\ b.record = c[i]
                /\ b.parent = IF i = 1 THEN None ELSE c[i - 1]
                /\ b.protocol = protocol /\ Len(b.path) = i
  <2>1. PICK b \in Message :
                /\ b.initial /\ b.record = c[i]
                /\ b.parent = IF i = 1 THEN None ELSE c[i - 1]
                /\ b.protocol = protocol /\ Len(b.path) = i
    BY DEF Placed
  <2> QED  BY <2>1
<1> QED  BY <1>1, <1>2

\* What is stored is placed: below its parent as it was found.
LEMMA WritePlaced ==
    ASSUME RecordsOK(records), NEW m \in Message, NEW V, IsWriting(m), Founded(V, m),
           \A v \in V : RecordsOK(v.records), HasInitial(m)
    PROVE  Placed(m)
<1>1. PICK v \in V : ParentMatches(v.records, m)
  BY DEF Founded
<1>2. PICK a \in Message : a.initial /\ a.record = m.record /\ Immutable(a) = Immutable(m)
  BY DEF HasInitial
<1>3. a.parent = m.parent /\ a.protocol = m.protocol /\ a.path = m.path
  BY <1>2 DEF Immutable
<1>4. m.method = "Write" /\ m.protocol # None /\ WellFormed(m) /\ Sequence(m.context)
  BY RequestAssumption DEF IsWriting, WellFormed
<1>5. CASE m.parent = None
  <2>1. Len(m.path) = 1 /\ m.context = <<m.record>>
    BY <1>1, <1>4, <1>5, RequestAssumption DEF ParentMatches
  <2>2. PICK c, path : c = m.context /\ path = m.path
    OBVIOUS
  <2>3. Len(path) = 1 /\ Len(c) = 1 /\ c[1] = m.record /\ \A i \in 1 .. 1 : i = 1
    BY <2>1, <2>2
  <2>4. Len(m.path) = 1 /\ Len(m.context) = 1 /\ m.context[1] = m.record
    BY <2>2, <2>3
  <2>5. a \in Message /\ a.initial /\ a.record = m.record /\ a.parent = None
        /\ a.protocol = m.protocol /\ Len(a.path) = 1
    BY <1>2, <1>3, <1>5, <2>4
  <2>6. \A i \in 1 .. 1 : \E b \in Message :
            /\ b.initial /\ b.record = m.context[i]
            /\ b.parent = IF i = 1 THEN None ELSE m.context[i - 1]
            /\ b.protocol = m.protocol /\ Len(b.path) = i
    BY <2>3, <2>4, <2>5
  <2> QED  BY <1>4, <1>5, <2>4, <2>6 DEF Placed
<1>6. CASE m.parent # None
  <2>1. PICK recs, x : recs = v.records /\ x = recs[m.parent].newest
    OBVIOUS
  <2>2. /\ m.parent \in DOMAIN recs /\ IsLive(recs, m.parent) /\ RecordsOK(recs)
        /\ x.protocol = m.protocol /\ m.path = Append(x.path, TypeName(m.path))
        /\ m.context = Append(x.context, m.record)
    BY <1>1, <1>6, <2>1 DEF ParentMatches, IsLive
  <2>3. x \in Message /\ x.method = "Write" /\ x.record = m.parent /\ Placed(x)
    <3>1. x.protocol # None
      BY <1>4, <2>2
    <3>2. /\ RecordsOK(recs) /\ m.parent \in DOMAIN recs /\ IsLive(recs, m.parent)
          /\ x = recs[m.parent].newest
      BY <2>1, <2>2
    <3> QED  BY <3>1, <3>2, StoredPlaced
  <2>4. PICK n : n = Len(x.path)
    OBVIOUS
  <2>5. /\ Sequence(x.context) /\ Len(x.context) = n /\ n \in Nat /\ n > 0
        /\ x.context[n] = m.parent
        /\ \A i \in 1 .. n : \E b \in Message :
            /\ b.initial /\ b.record = x.context[i]
            /\ b.parent = IF i = 1 THEN None ELSE x.context[i - 1]
            /\ b.protocol = m.protocol /\ Len(b.path) = i
    <3>1. PICK c : c = x.context
      OBVIOUS
    <3>2. /\ Sequence(c) /\ Len(c) = n /\ n > 0 /\ c[n] = m.parent
          /\ \A i \in 1 .. n : \E b \in Message :
                /\ b.initial /\ b.record = c[i]
                /\ b.parent = IF i = 1 THEN None ELSE c[i - 1]
                /\ b.protocol = m.protocol /\ Len(b.path) = i
      <4>1. c = x.context /\ n = Len(x.path) /\ m.parent = x.record /\ m.protocol = x.protocol
        BY <2>2, <2>3, <2>4, <3>1
      <4> QED  BY <2>3, <4>1, PlacedParts
    <3>3. n \in Nat
      BY <3>2 DEF Sequence
    <3> QED  BY <3>1, <3>2, <3>3
  <2>6. Len(m.path) = n + 1
    <3>1. Sequence(x.path)
      <4>1. WellFormed(x) /\ x.path # None
        BY <1>4, <2>2, <2>3, RequestAssumption
      <4> QED  BY <4>1 DEF WellFormed
    <3>2. PICK q, t, S : q = x.path /\ t = TypeName(m.path) /\ S = ToSet(q) \cup {t}
      OBVIOUS
    <3>3. q \in Seq(S) /\ t \in S
      BY <3>1, <3>2 DEF Sequence
    <3>4. Len(Append(q, t)) = Len(q) + 1
      BY <3>3
    <3> QED  BY <2>2, <2>4, <3>2, <3>4
  <2>7. /\ Len(m.context) = n + 1 /\ m.context[n + 1] = m.record
        /\ \A i \in 1 .. n : m.context[i] = x.context[i]
    <3>1. PICK S : S = ToSet(x.context) \cup {m.record}
      OBVIOUS
    <3>2. x.context \in Seq(S) /\ m.record \in S
      BY <2>5, <3>1 DEF Sequence
    <3> QED  BY <2>2, <2>5, <3>2
  <2>8. ASSUME NEW i \in 1 .. n + 1
        PROVE  \E b \in Message :
                    /\ b.initial /\ b.record = m.context[i]
                    /\ b.parent = IF i = 1 THEN None ELSE m.context[i - 1]
                    /\ b.protocol = m.protocol /\ Len(b.path) = i
    <3>1. CASE i = n + 1
      <4>1. /\ m.context[i] = m.record /\ i # 1 /\ i - 1 = n /\ n \in 1 .. n
            /\ Len(m.path) = i
        BY <2>5, <2>6, <2>7, <3>1
      <4>2. m.context[i - 1] = m.parent
        BY <2>5, <2>7, <4>1
      <4> QED  BY <1>2, <1>3, <4>1, <4>2
    <3>2. CASE i \in 1 .. n
      <4>1. i # 1 => i - 1 \in 1 .. n
        BY <2>5, <3>2
      <4>2. m.context[i] = x.context[i] /\ (i # 1 => m.context[i - 1] = x.context[i - 1])
        BY <2>7, <3>2, <4>1
      <4>3. PICK b \in Message :
                /\ b.initial /\ b.record = x.context[i]
                /\ b.parent = IF i = 1 THEN None ELSE x.context[i - 1]
                /\ b.protocol = m.protocol /\ Len(b.path) = i
        BY <2>5, <3>2
      <4> QED  BY <4>2, <4>3
    <3>3. i = n + 1 \/ i \in 1 .. n
      BY <2>5
    <3> QED  BY <3>1, <3>2, <3>3
  <2>9. m.parent = m.context[n] /\ n + 1 # 1 /\ n = (n + 1) - 1
    BY <2>5, <2>7
  <2> QED  BY <1>4, <2>5, <2>6, <2>7, <2>8, <2>9 DEF Placed
<1> QED  BY <1>5, <1>6

LEMMA NewerMessages ==
    ASSUME NEW m \in Message, NEW n \in Message, NEW o \in Message,
           IsNewer(m, n), IsNewer(n, o)
    PROVE  IsNewer(m, o)
<1>1. /\ m.ts \in Nat /\ m.cid \in Nat /\ n.ts \in Nat /\ n.cid \in Nat
      /\ o.ts \in Nat /\ o.cid \in Nat
  BY RequestAssumption DEF WellFormed
<1> QED  BY <1>1 DEF IsNewer

LEMMA WriteKeepsRecords ==
    ASSUME AuthInv, NEW p \in Handler, StoreWrite(p)
    PROVE  RecordsOK(records')
<1>1. CASE ~CanStore(req[p])
  BY <1>1 DEF StoreWrite, AuthInv
<1>2. CASE CanStore(req[p])
  <2>1. PICK m, e, after :
            /\ m = req[p] /\ after = records'
            /\ e = [initial |-> IF m.initial THEN m ELSE records[m.record].initial,
                    newest |-> m]
    OBVIOUS
  <2>2. after = [r \in DOMAIN records \cup {m.record} |->
                    IF r = m.record THEN e ELSE records[r]]
    BY <1>2, <2>1 DEF StoreWrite, With
  <2>3. HandlerOK(p) /\ pc[p] = "process" /\ m.method = "Write"
    BY <2>1 DEF AuthInv, StoreWrite, At
  <2>4. Knowledge("process", m, target[p], def[p], grant[p], views[p])
    BY <2>1, <2>3 DEF HandlerOK
  <2>5. m \in Message /\ RecordsOK(records) /\ CanStore(m)
    BY <1>2, <2>1, <2>4 DEF Knowledge, AuthInv
  <2>6. m.protocol # None => Placed(m)
    <3> SUFFICES ASSUME IsWriting(m) PROVE Placed(m)
      BY <2>3 DEF IsWriting
    <3>1. Founded(views[p], m) /\ \A v \in views[p] : RecordsOK(v.records)
      BY <2>4 DEF Knowledge, Checked, Judged
    <3>2. HasInitial(m)
      BY <2>3, <2>5, InitialOf
    <3> QED  BY <2>5, <3>1, <3>2, WritePlaced
  <2>7. /\ e \in [initial : Message, newest : Message] /\ e.newest = m
        /\ e.initial.initial /\ e.initial.record = m.record /\ e.initial.method = "Write"
        /\ Immutable(m) = Immutable(e.initial)
        /\ e.initial.protocol # None => Placed(e.initial)
        /\ m # e.initial => IsNewer(m, e.initial)
    <3>1. CASE m.initial
      BY <2>1, <2>3, <2>5, <2>6, <3>1
    <3>2. CASE ~m.initial
      <4>1. m.record \in DOMAIN records
            /\ Immutable(records[m.record].initial) = Immutable(m)
        BY <2>5, <3>2 DEF CanStore
      <4>2. PICK a : a = records[m.record].initial
        OBVIOUS
      <4>3. a \in Message /\ a.initial /\ a.record = m.record
            /\ (a.method = "Write" /\ a.protocol # None => Placed(a))
        BY <2>5, <4>1, <4>2 DEF RecordsOK
      <4>4. IsNewer(m, a)
        <5>1. PICK b : b = records[m.record].newest
          OBVIOUS
        <5>2. b \in Message /\ IsNewer(m, b) /\ (b # a => IsNewer(b, a))
          BY <2>5, <4>1, <4>2, <5>1 DEF CanStore, RecordsOK
        <5> QED  BY <2>5, <4>3, <5>2, NewerMessages
      <4> QED  BY <2>1, <2>5, <3>2, <4>1, <4>2, <4>3, <4>4, RequestAssumption
    <3> QED  BY <3>1, <3>2
  <2>8. RecordsOK(after)
    BY <2>2, <2>3, <2>5, <2>6, <2>7 DEF RecordsOK
  <2> QED  BY <2>1, <2>8
<1> QED  BY <1>1, <1>2

LEMMA DeleteKeepsRecords ==
    ASSUME AuthInv, NEW p \in Handler, StoreDelete(p)
    PROVE  RecordsOK(records')
<1>1. PICK m, after : m = req[p] /\ after = records'
  OBVIOUS
<1>2. \/ after = records
      \/ /\ m.record \in DOMAIN records /\ IsNewer(m, records[m.record].newest)
         /\ \E S \in SUBSET DOMAIN records :
            after = [r \in S |-> IF r = m.record THEN [records[r] EXCEPT !.newest = m]
                                 ELSE records[r]]
  BY <1>1 DEF StoreDelete, CanDelete
<1>3. HandlerOK(p) /\ pc[p] = "process" /\ m.method = "Delete"
  BY <1>1 DEF AuthInv, StoreDelete, At
<1>4. m \in Message /\ RecordsOK(records)
  BY <1>1, <1>3 DEF HandlerOK, Knowledge, AuthInv
<1>5. ASSUME NEW S \in SUBSET DOMAIN records,
             m.record \in DOMAIN records, IsNewer(m, records[m.record].newest),
             after = [r \in S |-> IF r = m.record THEN [records[r] EXCEPT !.newest = m]
                                  ELSE records[r]]
      PROVE  RecordsOK(after)
  <2>1. PICK a, b : a = records[m.record].initial /\ b = records[m.record].newest
    OBVIOUS
  <2>2. a \in Message /\ b \in Message /\ (b # a => IsNewer(b, a))
    BY <1>4, <1>5, <2>1 DEF RecordsOK
  <2>3. IsNewer(m, a)
    BY <1>4, <1>5, <2>1, <2>2, NewerMessages
  <2> QED  BY <1>3, <1>4, <1>5, <2>1, <2>3 DEF RecordsOK
<1> QED  BY <1>1, <1>2, <1>4, <1>5

\* What was allowed is done.
LEMMA AfterStoreWrite ==
    ASSUME AuthInv, StoresOK', NEW p \in Handler, Watches(p), StoreWrite(p)
    PROVE  HandlerOK(p)'
<1>r. PICK l, m, w, d, g, W :
        /\ l = pc'[p] /\ m = req[p] /\ w = target[p] /\ d = def[p] /\ g = grant[p]
        /\ W = views'[p]
  OBVIOUS
<1>1. /\ pc[p] = "process" /\ l \in {"accepted", "invalid"}
      /\ l = "accepted" => CanStore(m)
      /\ req'[p] = m /\ target'[p] = w /\ def'[p] = d /\ grant'[p] = g
      /\ m.method = "Write"
  BY <1>r DEF StoreWrite, AuthInv, At, Locals, Go, local
<1>2. HandlerOK(p) /\ pc[p] # "idle" /\ pc'[p] # "idle"
  BY <1>1, <1>r DEF AuthInv
<1>3. Knowledge("process", m, w, d, g, W)
  BY <1>r, <1>1, <1>2, Onwards
<1>4. l = "accepted" /\ IsWriting(m) => Placed(m) /\ HasInitial(m)
  <2>1. IsWriting(m) => Founded(W, m)
    BY <1>3 DEF Knowledge, Checked, Judged
  <2>2. m \in Message /\ \A v \in W : RecordsOK(v.records)
    BY <1>3 DEF Knowledge
  <2>3. l = "accepted" => HasInitial(m)
    BY <1>1, <2>2, InitialOf DEF AuthInv
  <2>4. ASSUME l = "accepted", IsWriting(m) PROVE Placed(m)
    <3>1. HasInitial(m) /\ Founded(W, m) /\ RecordsOK(records)
      BY <2>1, <2>3, <2>4 DEF AuthInv
    <3> QED  BY <2>2, <2>4, <3>1, WritePlaced
  <2> QED  BY <2>3, <2>4
<1>5. Knowledge(l, m, w, d, g, W)
  BY <1>1, <1>3, <1>4 DEF Knowledge, Checked, Judged
<1> QED  BY <1>r, <1>1, <1>2, <1>5, Goes

LEMMA AfterStoreDelete ==
    ASSUME AuthInv, StoresOK', NEW p \in Handler, Watches(p), StoreDelete(p)
    PROVE  HandlerOK(p)'
<1>r. PICK l, m, w, g, W :
        /\ l = pc'[p] /\ m = req[p] /\ w = target[p] /\ g = grant'[p] /\ W = views'[p]
  OBVIOUS
<1>1. /\ pc[p] = "process" /\ l = "accepted" /\ req'[p] = m /\ target'[p] = w
      /\ m.method = "Delete"
  BY <1>r DEF StoreDelete, AuthInv, At, Locals, Go, local
<1>2. HandlerOK(p) /\ pc[p] # "idle" /\ pc'[p] # "idle"
  BY <1>1, <1>r DEF AuthInv
<1>3. Knowledge("process", m, w, def[p], grant[p], W)
  BY <1>r, <1>1, <1>2, Onwards
<1>4. Entitles(l, m, w, g, W)
  BY <1>1, <1>3 DEF Knowledge, Entitles, IsWriting
<1> QED  BY <1>r, <1>1, <1>4, Judging DEF Judged

LEMMA AfterReply ==
    ASSUME AuthInv, NEW p \in Handler, Watches(p), Reply(p)
    PROVE  HandlerOK(p)'
BY DEF Reply, Go, AuthInv, Locals, Watches, HandlerOK

----------------------------------------------------------------------------
\* A handler touches nothing of another's.
Apart(p) ==
    /\ Locals'
    /\ \A q \in Handler \ {p} :
        /\ pc'[q] = pc[q] /\ req'[q] = req[q] /\ target'[q] = target[q]
        /\ def'[q] = def[q] /\ grant'[q] = grant[q]

LEMMA HandlersApart ==
    ASSUME Locals, NEW p \in Handler, Handle(p) \/ \E m \in pending : Receive(p, m)
    PROVE  Apart(p)
<1> USE DEF Locals, Apart, Go
<1>1. ASSUME NEW m \in pending, Receive(p, m) PROVE Apart(p)
  BY <1>1 DEF Receive
<1>2. CASE CheckDefinition(p)
  BY <1>2 DEF CheckDefinition
<1>3. CASE CheckParent(p) \/ CheckRuleSet(p) \/ CheckDelegate(p) \/ Authorize(p)
  BY <1>3 DEF CheckParent, CheckRuleSet, CheckDelegate, Authorize, Keep, local
<1>4. CASE Find(p)
  BY <1>4 DEF Find
<1>5. CASE LookUpGrant(p)
  BY <1>5 DEF LookUpGrant
<1>6. CASE CheckGrant(p) \/ CheckRole(p) \/ CheckRules(p)
  BY <1>6 DEF CheckGrant, CheckRole, CheckRules, Keep, local
<1>7. CASE BuildChain(p)
  BY <1>7 DEF BuildChain
<1>8. CASE FetchDefinition(p)
  BY <1>8 DEF FetchDefinition
<1>9. CASE StoreWrite(p) \/ StoreDelete(p)
  BY <1>9 DEF StoreWrite, StoreDelete, local
<1>10. CASE Reply(p)
  BY <1>10 DEF Reply, NoLocal
<1> QED  BY <1>1, <1>2, <1>3, <1>4, <1>5, <1>6, <1>7, <1>8, <1>9, <1>10 DEF Handle

\* Only storing changes what is stored.
LEMMA RecordsKept ==
    ASSUME AuthInv, NEW p \in Handler, Handle(p) \/ \E m \in pending : Receive(p, m)
    PROVE  RecordsOK(records')
<1>1. CASE StoreWrite(p)
  BY <1>1, WriteKeepsRecords
<1>2. CASE StoreDelete(p)
  BY <1>2, DeleteKeepsRecords
<1>3. CASE ~StoreWrite(p) /\ ~StoreDelete(p)
  <2>1. records' = records
    BY <1>3 DEF Handle, Receive, CheckDefinition, CheckParent, CheckRuleSet, Find,
       CheckDelegate, Authorize, LookUpGrant, CheckGrant, BuildChain, FetchDefinition,
       CheckRole, CheckRules, Reply, Keep
  <2> QED  BY <2>1 DEF AuthInv
<1> QED  BY <1>1, <1>2, <1>3

LEMMA AuthInit == Init => AuthInv
<1> SUFFICES ASSUME Init PROVE AuthInv
  OBVIOUS
<1>1. ConfigureTypeOK
  BY ConfigureTypeInit DEF Init
<1>2. RecordsOK(records)
  BY ScenarioAssumption DEF Init
<1>3. Locals
  BY DEF Init, Nothing, Locals
<1>4. \A p \in Handler : HandlerOK(p)
  BY DEF Init, Nothing, HandlerOK
<1> QED  BY <1>1, <1>2, <1>3, <1>4 DEF AuthInv

LEMMA AuthStep == AuthInv /\ [Next]_vars => AuthInv'
<1> SUFFICES ASSUME AuthInv, [Next]_vars PROVE AuthInv'
  OBVIOUS
<1>1. ConfigureTypeOK'
  BY ConfigureAlongside, ConfigureTypeStep DEF AuthInv
<1>2. Next => \A p \in Handler : Watches(p)
  BY DEF Next, Observe, Watches, Now
<1>3. ASSUME Next, NEW p \in Handler, Handle(p) \/ \E m \in pending : Receive(p, m)
      PROVE  AuthInv'
  <2>1. RecordsOK(records')
    BY <1>3, RecordsKept
  <2>2. StoresOK' /\ Watches(p)
    BY <1>1, <1>2, <1>3, <2>1 DEF StoresOK, ConfigureTypeOK
  <2>3. Apart(p)
    BY <1>3, HandlersApart DEF AuthInv
  <2>4. HandlerOK(p)'
    BY <1>3, <2>2, AfterReceive, AfterDefinition, AfterParent, AfterRuleSet, AfterFind,
       AfterDelegate, AfterAuthorize, AfterLookUpGrant, AfterCheckGrant, AfterBuildChain,
       AfterFetchDefinition, AfterCheckRole, AfterCheckRules, AfterStoreWrite,
       AfterStoreDelete, AfterReply DEF Handle
  <2>5. \A q \in Handler \ {p} : HandlerOK(q)'
    BY <1>2, <1>3, <2>2, <2>3, OthersStay DEF AuthInv, Apart
  <2> QED  BY <1>1, <2>1, <2>3, <2>4, <2>5 DEF AuthInv, Apart
<1>4. ASSUME Next, UNCHANGED avars PROVE AuthInv'
  <2>1. StoresOK'
    BY <1>1, <1>4 DEF StoresOK, ConfigureTypeOK, AuthInv, avars
  <2>2. \A q \in Handler : HandlerOK(q)'
    BY <1>2, <1>4, <2>1, OthersStay DEF AuthInv, avars, local
  <2> QED  BY <1>1, <1>4, <2>1, <2>2 DEF AuthInv, StoresOK, avars, local, Locals
<1>5. ASSUME Next, Stop PROVE AuthInv'
  <2>1. \A q \in Handler : HandlerOK(q)'
    BY <1>2, <1>5 DEF Stop, Nothing, HandlerOK, Watches
  <2> QED  BY <1>1, <1>5, <2>1 DEF AuthInv, Stop, Nothing, Locals
<1>6. ASSUME UNCHANGED vars PROVE AuthInv'
  <2>1. \A q \in Handler : HandlerOK(q)'
    BY <1>6 DEF vars, avars, cvars, local, AuthInv, HandlerOK, Now
  <2> QED  BY <1>1, <1>6, <2>1 DEF AuthInv, vars, avars, local, Locals
<1> QED  BY <1>3, <1>4, <1>5, <1>6 DEF Next, Step

----------------------------------------------------------------------------
\* A context starts with its own beginning.
LEMMA BeginningIs ==
    ASSUME NEW s, NEW t, Sequence(s), Sequence(t),
           Len(s) <= Len(t), \A i \in DOMAIN s : s[i] = t[i]
    PROVE  StartsWith(s, t)
BY DEF StartsWith

----------------------------------------------------------------------------
\* Grants as the handlers check them, and as the one who gave them sees them.
LEMMA StandingIs ==
    ASSUME NEW recs, NEW m, NEW g
    PROVE  NotRevoked(recs, m, g) <=> Standing(recs, g, m)
BY DEF NotRevoked, Revocations, Standing

LEMMA WithinIs ==
    ASSUME NEW x, NEW g
    PROVE  InScope(x, g.scope) <=>
            /\ x.protocol = g.scope.protocol
            /\ g.scope.path \in {None, x.path}
            /\ g.scope.context # None =>
                   /\ x.context # None /\ Len(g.scope.context) <= Len(x.context)
                   /\ \A i \in DOMAIN g.scope.context :
                        \/ g.scope.context[i] = x.context[i]
                        \/ /\ i = Len(g.scope.context)
                           /\ <<g.scope.context[i], x.context[i]>> \in Abbreviates
BY DEF InScope, StartsWith

LEMMA CoversIs ==
    ASSUME NEW m \in Message, NEW w, NEW g, NEW recs, WellFormed(g), Scoped(g),
           m.method = "Read" /\ m.interface = "Records" => w \in Message,
           NEW grantor, NEW grantee,
           grantor = IF m.delegated = g THEN m.author ELSE Tenant,
           grantee = IF m.delegated = g THEN m.signer ELSE m.author
    PROVE  GrantAllows(recs, m, w, g, grantor, grantee)
            <=> Covers(recs, g, m, w) /\ Standing(recs, g, m)
<1>1. WellFormed(m) /\ (m.method \in {"Write", "Delete"} => m.interface = "Records")
  BY RequestAssumption
<1>2. m.method = "Read" /\ m.interface = "Records" => WellFormed(w)
  BY RequestAssumption
<1>3. m.ts \in g.created .. g.expires - 1 <=> g.created <= m.ts /\ m.ts < g.expires
  BY <1>1 DEF WellFormed
<1>4. /\ InScope(m, g.scope) <=>
            /\ m.protocol = g.scope.protocol
            /\ g.scope.path \in {None, m.path}
            /\ g.scope.context # None =>
                   /\ m.context # None /\ Len(g.scope.context) <= Len(m.context)
                   /\ \A i \in DOMAIN g.scope.context :
                        \/ g.scope.context[i] = m.context[i]
                        \/ /\ i = Len(g.scope.context)
                           /\ <<g.scope.context[i], m.context[i]>> \in Abbreviates
      /\ ConditionsMet(m, g.conditions)
            <=> g.conditions # (IF m.published THEN "prohibited" ELSE "required")
  BY <1>1, WithinIs DEF ConditionsMet, WellFormed
<1>5. m.method = "Read" /\ m.interface = "Records" =>
        (InScope(w, g.scope) <=>
            /\ w.protocol = g.scope.protocol
            /\ g.scope.path \in {None, w.path}
            /\ g.scope.context # None =>
                   /\ w.context # None /\ Len(g.scope.context) <= Len(w.context)
                   /\ \A i \in DOMAIN g.scope.context :
                        \/ g.scope.context[i] = w.context[i]
                        \/ /\ i = Len(g.scope.context)
                           /\ <<g.scope.context[i], w.context[i]>> \in Abbreviates)
  BY <1>2, WithinIs
<1> DEFINE About == CASE m.interface = "Messages" /\ m.method = "Read" ->
                            MessageInScope(recs, w, g.scope)
                      [] m.interface = "Records" /\ m.method = "Write" ->
                            InScope(m, g.scope) /\ ConditionsMet(m, g.conditions)
                      [] m.interface = "Records" /\ m.method = "Read" -> InScope(w, g.scope)
                      [] m.interface = "Records" /\ m.method = "Delete" ->
                            g.scope.protocol \in {None, w.protocol}
                      [] OTHER -> g.scope.protocol \in {None, m.protocol}
<1>6. ScopeAllows(recs, m, w, g) <=> About
  <2>1. CASE m.method = "Write"
    BY <1>1, <2>1 DEF ScopeAllows, AllowsWrite
  <2>2. CASE m.method = "Delete"
    BY <1>1, <2>2 DEF ScopeAllows, AllowsDelete, SameProtocol
  <2>3. CASE m.method = "Read" /\ m.interface = "Records"
    BY <2>3 DEF ScopeAllows
  <2>4. CASE m.method = "Read" /\ m.interface = "Messages"
    BY <2>4 DEF ScopeAllows
  <2>5. CASE /\ m.method \notin {"Write", "Delete"}
             /\ m.method = "Read" => m.interface \notin {"Records", "Messages"}
    BY <2>5 DEF ScopeAllows, AllowsQuery, SameProtocol
  <2> QED  BY <2>1, <2>2, <2>3, <2>4, <2>5
<1>7. Covers(recs, g, m, w) <=>
        /\ g.recipient = grantee /\ g.author = grantor
        /\ g.created <= m.ts /\ m.ts < g.expires
        /\ m.interface = g.scope.interface /\ m.method = g.scope.method
        /\ About
  BY <1>3, <1>4, <1>5 DEF Covers
<1> QED  BY <1>6, <1>7, StandingIs DEF GrantAllows, GrantApplies

LEMMA DelegateKnown ==
    ASSUME NEW V, NEW m \in Message, NEW w, m.delegated # None, Delegated(V, m, w),
           m.method = "Read" /\ m.interface = "Records" => w \in Message
    PROVE  /\ \E v \in V : /\ Covers(v.records, m.delegated, m, w)
                           /\ Standing(v.records, m.delegated, m)
           /\ m.delegated.author = m.author /\ m.delegated.recipient = m.signer
<1>1. PICK v \in V : GrantAllows(v.records, m, w, m.delegated, m.author, m.signer)
  BY DEF Delegated
<1>2. WellFormed(m.delegated) /\ Scoped(m.delegated)
  BY RequestAssumption
<1>3. Covers(v.records, m.delegated, m, w) /\ Standing(v.records, m.delegated, m)
  BY <1>1, <1>2, CoversIs
<1> QED  BY <1>1, <1>3 DEF GrantAllows, GrantApplies

\* A grant that is looked up is a grant that is stored.
LEMMA GrantKnown ==
    ASSUME NEW v, RecordsOK(v.records), NEW m, m.grant # None
    PROVE  /\ Grants(v, m) = {FetchGrant(v.records, m.grant)} \ {None}
           /\ \A g \in Grants(v, m) : WellFormed(g) /\ Scoped(g)
<1>1. PICK recs, g : recs = v.records /\ g = recs[m.grant].newest
  OBVIOUS
<1>2. CASE m.grant \notin DOMAIN recs \/ g.method # "Write" \/ g.path # GrantPath
  BY <1>1, <1>2 DEF Grants, FetchGrant, IsLive
<1>3. CASE m.grant \in DOMAIN recs /\ g.method = "Write" /\ g.path = GrantPath
  <2>1. g \in Message
    BY <1>1, <1>3 DEF RecordsOK
  <2>2. g # None /\ WellFormed(g) /\ Scoped(g)
    BY <1>3, <2>1, RequestAssumption
  <2>3. FetchGrant(v.records, m.grant) = g
    BY <1>1, <1>3 DEF FetchGrant, IsLive
  <2>4. Grants(v, m) = {g}
    BY <1>1, <1>3 DEF Grants
  <2> QED  BY <2>2, <2>3, <2>4
<1> QED  BY <1>2, <1>3

LEMMA GrantedIs ==
    ASSUME NEW m \in Message, NEW w, NEW V, GrantInvoked(m), Permitted(V, m, w),
           Delegated(V, m, w), \A v \in V : RecordsOK(v.records),
           m.method = "Read" /\ m.interface = "Records" => w \in Message
    PROVE  \E v, u \in V : \E g \in Grants(v, m) :
                /\ \E t \in V : Covers(t.records, g, m, w)
                /\ Standing(u.records, g, m)
<1>0. PICK u \in V, v \in V :
            /\ FetchGrant(u.records, m.grant) # None
            /\ GrantAllows(v.records, m, w, FetchGrant(u.records, m.grant), Tenant, m.author)
  BY DEF Permitted
<1>1. PICK g : /\ g = FetchGrant(u.records, m.grant) /\ g # None
               /\ GrantAllows(v.records, m, w, g, Tenant, m.author)
  BY <1>0
<1>2. g \in Grants(u, m) /\ WellFormed(g) /\ Scoped(g)
  BY <1>1, GrantKnown DEF GrantInvoked
<1>3. CASE m.delegated = g
  <2>1. PICK t \in V : Covers(t.records, g, m, w) /\ Standing(t.records, g, m)
    BY <1>1, <1>3, DelegateKnown
  <2> QED  BY <1>2, <2>1
<1>4. CASE m.delegated # g
  <2>1. Covers(v.records, g, m, w) /\ Standing(v.records, g, m)
    BY <1>1, <1>2, <1>4, CoversIs
  <2> QED  BY <1>2, <2>1
<1> QED  BY <1>3, <1>4

LEMMA DeniedIs ==
    ASSUME NEW m \in Message, NEW w, NEW V, GrantInvoked(m), Denied(V, m, w),
           m.delegated = None, \A v \in V : RecordsOK(v.records),
           m.method = "Read" /\ m.interface = "Records" => w \in Message,
           NEW v \in V, V = {v}, NEW g \in Grants(v, m)
    PROVE  ~(Covers(v.records, g, m, w) /\ Standing(v.records, g, m))
<1>1. g = FetchGrant(v.records, m.grant) /\ g # None /\ WellFormed(g) /\ Scoped(g)
  BY GrantKnown DEF GrantInvoked
<1>2. ~GrantAllows(v.records, m, w, g, Tenant, m.author)
  BY <1>1 DEF Denied
<1> QED  BY <1>1, <1>2, CoversIs

LEMMA GrantHonouredInv == AuthInv => GrantHonoured
<1> SUFFICES ASSUME AuthInv, NEW p \in Handler,
                    NEW m, m = req[p], NEW w, w = target[p], NEW l, l = pc[p],
                    NEW V, V = views[p], l \in {"accepted", "unauthorized", "published"}
    PROVE  LET named == m # None /\ GrantInvoked(m) /\ ~AllowedAtOnce(m, w)
           IN  /\ l = "accepted" /\ m.delegated # None =>
                    \E v \in V : /\ Covers(v.records, m.delegated, m, w)
                                 /\ Standing(v.records, m.delegated, m)
               /\ l = "accepted" /\ named =>
                    \E v, u \in V : \E g \in Grants(v, m) :
                        (\E t \in V : Covers(t.records, g, m, w)) /\ Standing(u.records, g, m)
               /\ l \in {"unauthorized", "published"} /\ named
                        /\ m.delegated = None /\ m.owner = None =>
                    \A v \in V : V = {v} =>
                        \A g \in Grants(v, m) :
                            ~(Covers(v.records, g, m, w) /\ Standing(v.records, g, m))
  BY DEF GrantHonoured
<1>1. Knowledge(l, m, w, def[p], grant[p], V)
  BY DEF AuthInv, HandlerOK
<1>2. /\ m \in Message /\ \A v \in V : RecordsOK(v.records)
      /\ m.method = "Read" /\ m.interface = "Records" => w \in Message
  BY <1>1 DEF Knowledge, Checked, Judged
<1>3. ASSUME l = "accepted" PROVE Delegated(V, m, w)
  BY <1>1, <1>3 DEF Knowledge, Judged
<1>4. ASSUME l = "accepted", m.delegated # None
      PROVE  \E v \in V : /\ Covers(v.records, m.delegated, m, w)
                          /\ Standing(v.records, m.delegated, m)
  BY <1>2, <1>3, <1>4, DelegateKnown
<1>5. ASSUME l = "accepted", GrantInvoked(m), ~AllowedAtOnce(m, w)
      PROVE  \E v, u \in V : \E g \in Grants(v, m) :
                (\E t \in V : Covers(t.records, g, m, w)) /\ Standing(u.records, g, m)
  <2>1. Permitted(V, m, w)
    BY <1>1, <1>5 DEF Knowledge, ByGrant
  <2> QED  BY <1>2, <1>3, <1>5, <2>1, GrantedIs
<1>6. ASSUME l \in {"unauthorized", "published"}, GrantInvoked(m), ~AllowedAtOnce(m, w),
             m.delegated = None, m.owner = None, NEW v \in V, V = {v}, NEW g \in Grants(v, m)
      PROVE  ~(Covers(v.records, g, m, w) /\ Standing(v.records, g, m))
  <2>1. Denied(V, m, w)
    BY <1>1, <1>6 DEF Knowledge, ByGrant
  <2> QED  BY <1>2, <1>6, <2>1, DeniedIs
<1> QED  BY <1>4, <1>5, <1>6

\* Requests that rest on a grant are honoured while grants, revocations and records
\* come and go, for any messages and any number of handlers.
\* (grant-authorization.ts:84-122, records-grant-authorization.ts,
\* permissions.ts:371-400)
THEOREM GrantHonouredAlways == Spec => []GrantHonoured
<1>1. Spec => []AuthInv
  BY AuthInit, AuthStep, PTL DEF Spec
<1> QED  BY <1>1, GrantHonouredInv, PTL

----------------------------------------------------------------------------
\* Places and roles.
LEMMA DefinitionsAre ==
    ASSUME NEW v, NEW protocol
    PROVE  Definitions(v.configures, protocol) = DefinitionsSeen(v, protocol)
<1>1. PICK C : C = v.configures
  OBVIOUS
<1>2. InForce(C, protocol) =
        {c \in C : c.protocol = protocol
                   /\ \A e \in C : e.protocol = protocol => e = c \/ IsNewer(e, c)}
  BY DEF InForce, OfProtocol
<1> QED  BY <1>1, <1>2 DEF Definitions, DefinitionsSeen

LEMMA LeastNumber ==
    ASSUME NEW S \in SUBSET Nat, S # {}
    PROVE  \E n \in S : \A k \in S : n <= k
<1>1. PICK R : R = OpToRel(<, Nat)
  OBVIOUS
<1>2. IsWellFoundedOn(R, Nat)
  BY <1>1, NatLessThanWellFounded
<1>3. PICK n \in S : \A k \in S : <<k, n>> \notin R
  BY <1>2, WFMin
<1>4. \A i, j \in Nat : i < j => <<i, j>> \in R
  BY <1>1 DEF OpToRel
<1>5. \A k \in S : ~(k < n)
  BY <1>3, <1>4
<1>6. S \subseteq Nat
  OBVIOUS
<1> QED  BY <1>5, <1>6

----------------------------------------------------------------------------
\* The line of records above a record, and the chain of writes built along it.
Before(c, i) == IF i = 1 THEN None ELSE c[i - 1]

IsLine(c, r) ==
    /\ Sequence(c) /\ Len(c) > 0 /\ c[Len(c)] = r
    /\ \A i \in 1 .. Len(c) : \E a \in Message :
        a.initial /\ a.record = c[i] /\ a.parent = Before(c, i)

\* A record has one place only.
LEMMA OnePlace ==
    ASSUME NEW c, NEW r, IsLine(c, r), NEW i \in 1 .. Len(c),
           NEW a \in Message, a.initial, a.record = c[i]
    PROVE  a.parent = Before(c, i) /\ c[i] # None
<1>1. PICK b \in Message : b.initial /\ b.record = c[i] /\ b.parent = Before(c, i)
  BY DEF IsLine
<1>2. Immutable(a) = Immutable(b)
  BY <1>1, RequestAssumption
<1> QED  BY <1>1, <1>2, RequestAssumption DEF Immutable

LEMMA LineIds ==
    ASSUME NEW c, NEW r, IsLine(c, r), NEW i \in 1 .. Len(c)
    PROVE  c[i] # None
BY RequestAssumption DEF IsLine

LEMMA SameBefore ==
    ASSUME NEW c, NEW d, NEW r, NEW q, IsLine(c, r), IsLine(d, q),
           NEW i \in 1 .. Len(c), NEW j \in 1 .. Len(d), c[i] = d[j]
    PROVE  Before(c, i) = Before(d, j)
<1>1. PICK a \in Message : a.initial /\ a.record = c[i] /\ a.parent = Before(c, i)
  BY DEF IsLine
<1> QED  BY <1>1, OnePlace

LEMMA LineIsSeq ==
    ASSUME NEW c, NEW r, IsLine(c, r)
    PROVE  /\ Len(c) \in Nat /\ Len(c) > 0 /\ DOMAIN c = 1 .. Len(c)
           /\ c = [i \in 1 .. Len(c) |-> c[i]] /\ c[Len(c)] = r
           /\ c \in Seq(ToSet(c)) /\ \A i \in 1 .. Len(c) : c[i] \in ToSet(c)
           /\ ToSet(c) = {c[i] : i \in 1 .. Len(c)}
<1>1. PICK S : S = ToSet(c)
  OBVIOUS
<1>2. c \in Seq(S) /\ Len(c) > 0 /\ c[Len(c)] = r
  BY <1>1 DEF IsLine, Sequence
<1>3. Len(c) \in Nat /\ DOMAIN c = 1 .. Len(c) /\ c = [i \in 1 .. Len(c) |-> c[i]]
  BY <1>2
<1> QED  BY <1>1, <1>2, <1>3 DEF ToSet

\* From their ends up, two lines that end in the same record are the same.
LEMMA LinesAgree ==
    ASSUME NEW c, NEW d, NEW r, IsLine(c, r), IsLine(d, r),
           NEW n, n = Len(c), NEW k, k = Len(d), NEW j \in Nat, j < n, j < k
    PROVE  c[n - j] = d[k - j]
<1>1. n \in Nat /\ k \in Nat /\ n > 0 /\ k > 0 /\ c[n] = r /\ d[k] = r
  BY LineIsSeq
<1> DEFINE S == {i \in Nat : i < n /\ i < k /\ c[n - i] # d[k - i]}
<1>2. ASSUME S # {} PROVE FALSE
  <2>1. PICK i \in S : \A h \in S : i <= h
    BY <1>2, LeastNumber
  <2>2. i \in Nat /\ i < n /\ i < k /\ c[n - i] # d[k - i] /\ i # 0
    BY <1>1, <2>1
  <2>3. PICK h : h = i - 1
    OBVIOUS
  <2>4. h \in Nat /\ h < n /\ h < k /\ h \notin S
    BY <1>1, <2>1, <2>2, <2>3, SMTT(20)
  <2>5. c[n - h] = d[k - h]
    BY <2>4
  <2>6. PICK x, y : x = n - h /\ y = k - h
    OBVIOUS
  <2>7. x \in 1 .. n /\ y \in 1 .. k /\ x # 1 /\ y # 1 /\ x - 1 = n - i /\ y - 1 = k - i
    BY <1>1, <2>2, <2>3, <2>4, <2>6, SMTT(20)
  <2>0. x \in 1 .. Len(c) /\ y \in 1 .. Len(d) /\ c[x] = d[y]
    BY <2>5, <2>6, <2>7
  <2>8. Before(c, x) = Before(d, y)
    BY <2>0, SameBefore
  <2>9. c[n - i] = d[k - i]
    BY <2>7, <2>8 DEF Before
  <2> QED  BY <2>2, <2>9
<1> QED  BY <1>2

LEMMA NotLonger ==
    ASSUME NEW c, NEW d, NEW r, IsLine(c, r), IsLine(d, r)
    PROVE  ~(Len(c) < Len(d))
<1> SUFFICES ASSUME Len(c) < Len(d) PROVE FALSE
  OBVIOUS
<1>1. PICK n, k : n = Len(c) /\ k = Len(d)
  OBVIOUS
<1>2. n \in Nat /\ k \in Nat /\ n > 0 /\ n < k
  BY <1>1, LineIsSeq
<1>3. PICK j : j = n - 1
  OBVIOUS
<1>4. j \in Nat /\ j < n /\ j < k /\ n - j = 1
  BY <1>2, <1>3
<1>5. c[1] = d[k - j]
  <2>1. c[n - j] = d[k - j]
    BY <1>1, <1>4, LinesAgree
  <2> QED  BY <1>4, <2>1
<1>6. PICK y : y = k - j
  OBVIOUS
<1>7. y \in 1 .. k /\ y # 1 /\ y - 1 \in 1 .. k /\ 1 \in 1 .. n
  BY <1>2, <1>3, <1>6
<1>8. Before(c, 1) = Before(d, y)
  BY <1>1, <1>5, <1>6, <1>7, SameBefore
<1>9. d[y - 1] # None
  BY <1>1, <1>7, LineIds
<1> QED  BY <1>7, <1>8, <1>9 DEF Before

LEMMA SameLine ==
    ASSUME NEW c, NEW d, NEW r, IsLine(c, r), IsLine(d, r)
    PROVE  c = d
<1>1. PICK n : n = Len(c)
  OBVIOUS
<1>2. n \in Nat /\ Len(d) \in Nat
  BY <1>1, LineIsSeq
<1>3. Len(d) = n
  BY <1>1, <1>2, NotLonger
<1>4. ASSUME NEW i \in 1 .. n PROVE c[i] = d[i]
  <2>1. n - i \in Nat /\ n - i < n /\ n - (n - i) = i
    BY <1>2
  <2>2. c[n - (n - i)] = d[n - (n - i)]
    BY <1>1, <1>3, <2>1, LinesAgree
  <2> QED  BY <2>1, <2>2
<1>5. c = [i \in 1 .. n |-> c[i]] /\ d = [i \in 1 .. n |-> d[i]]
  BY <1>1, <1>3, LineIsSeq
<1> QED  BY <1>4, <1>5

\* The line of the record above.
LEMMA LineUp ==
    ASSUME NEW c, NEW r, IsLine(c, r), NEW n, n = Len(c), n # 1
    PROVE  /\ IsLine(Front(c), c[n - 1]) /\ Len(Front(c)) = n - 1
           /\ Front(c) = [i \in 1 .. n - 1 |-> c[i]]
           /\ ToSet(Front(c)) = {c[i] : i \in 1 .. n - 1}
<1>1. n \in Nat /\ n > 1 /\ c \in Seq(ToSet(c))
  BY LineIsSeq
<1>2. PICK f : f = Front(c)
  OBVIOUS
<1>3. PICK S : S = ToSet(c)
  OBVIOUS
<1>4. f = SubSeq(c, 1, n - 1) /\ c \in Seq(S)
  BY <1>1, <1>2, <1>3 DEF Front
<1>5. f \in Seq(S) /\ Len(f) = n - 1 /\ f = [i \in 1 .. n - 1 |-> c[i]]
  BY <1>1, <1>4
<1>6. Sequence(f)
  BY <1>5, IsSequence
<1>7. ASSUME NEW i \in 1 .. n - 1
      PROVE  \E a \in Message : a.initial /\ a.record = f[i] /\ a.parent = Before(f, i)
  <2>1. i \in 1 .. n /\ f[i] = c[i] /\ (i # 1 => i - 1 \in 1 .. n - 1)
    BY <1>1, <1>5
  <2>2. Before(f, i) = Before(c, i)
    BY <1>5, <2>1 DEF Before
  <2>3. PICK a \in Message : a.initial /\ a.record = c[i] /\ a.parent = Before(c, i)
    BY <2>1 DEF IsLine
  <2> QED  BY <2>1, <2>2, <2>3
<1>8. f[n - 1] = c[n - 1] /\ n - 1 > 0
  BY <1>1, <1>5
<1>9. IsLine(f, c[n - 1])
  BY <1>5, <1>6, <1>7, <1>8 DEF IsLine
<1>10. ToSet(f) = {c[i] : i \in 1 .. n - 1}
  BY <1>5 DEF ToSet
<1> QED  BY <1>2, <1>5, <1>9, <1>10

----------------------------------------------------------------------------
\* Two records at the same path below the same record are in the same context.
LEMMA SamePlace ==
    ASSUME NEW m, NEW x, Placed(m), Placed(x), m.parent = x.parent, m.path = x.path
    PROVE  StartsWith(Front(m.context), x.context)
<1>1. PICK c, d, n : c = m.context /\ d = x.context /\ n = Len(m.path)
  OBVIOUS
<1>2. /\ Sequence(c) /\ Len(c) = n /\ Sequence(d) /\ Len(d) = n /\ n > 0
      /\ Before(c, n) = Before(d, n) /\ IsLine(c, c[n]) /\ IsLine(d, d[n])
  BY <1>1 DEF Placed, Before, IsLine
<1>3. n \in Nat /\ n - 1 \in Nat
  BY <1>2 DEF Sequence
<1>4. Front(c) = Front(d)
  <2>1. CASE n = 1
    <3>1. PICK S : S = ToSet(c) \cup ToSet(d)
      OBVIOUS
    <3>2. c \in Seq(S) /\ d \in Seq(S) /\ Len(c) = 1 /\ Len(d) = 1
      BY <1>2, <2>1, <3>1 DEF Sequence
    <3>3. SubSeq(c, 1, 0) = SubSeq(d, 1, 0)
      BY <3>2
    <3> QED  BY <3>2, <3>3 DEF Front
  <2>2. CASE n # 1
    <3>1. c[n - 1] = d[n - 1]
      BY <1>2, <2>2 DEF Before
    <3>2. IsLine(Front(c), c[n - 1]) /\ IsLine(Front(d), d[n - 1])
      BY <1>2, <2>2, LineUp
    <3> QED  BY <3>1, <3>2, SameLine
  <2> QED  BY <2>1, <2>2
<1>5. PICK f, S : f = Front(d) /\ S = ToSet(d)
  OBVIOUS
<1>6. d \in Seq(S) /\ f = SubSeq(d, 1, n - 1)
  BY <1>2, <1>3, <1>5 DEF Sequence, Front
<1>7. f \in Seq(S) /\ Len(f) = n - 1 /\ \A i \in 1 .. n - 1 : f[i] = d[i]
  BY <1>2, <1>3, <1>6
<1>8. Sequence(f) /\ DOMAIN f = 1 .. n - 1 /\ Len(f) <= Len(d)
  BY <1>2, <1>3, <1>7, IsSequence
<1>9. StartsWith(f, d)
  BY <1>2, <1>7, <1>8, BeginningIs
<1> QED  BY <1>1, <1>4, <1>5, <1>9

\* The place of the parent, as the rules have it.
Parented(recs, m) ==
    /\ m.parent \in DOMAIN recs
    /\ recs[m.parent].newest.method = "Write"
    /\ recs[m.parent].newest.protocol = m.protocol
    /\ m.path = recs[m.parent].newest.path \o <<Last(m.path)>>
    /\ m.context = recs[m.parent].newest.context \o <<m.record>>

LEMMA ParentIs ==
    ASSUME NEW recs, RecordsOK(recs), NEW m, m.protocol # None, m.parent # None,
           ParentMatches(recs, m)
    PROVE  Parented(recs, m)
<1>x. PICK x : x = recs[m.parent].newest
  OBVIOUS
<1>1. /\ IsLive(recs, m.parent) /\ m.parent \in DOMAIN recs /\ x.method = "Write"
      /\ x.protocol = m.protocol /\ m.path = Append(x.path, Last(m.path))
      /\ m.context = Append(x.context, m.record)
  BY <1>x DEF ParentMatches, IsLive, TypeName
<1>2. Sequence(x.context)
  BY <1>x, <1>1, StoredPlaced DEF Placed
<1>3. x \in Message
  BY <1>x, <1>1 DEF RecordsOK
<1>4. Sequence(x.path)
  BY <1>1, <1>3, RequestAssumption DEF WellFormed
<1>5. \A s, e : Sequence(s) => Append(s, e) = s \o <<e>>
  <2> SUFFICES ASSUME NEW s, NEW e, Sequence(s) PROVE Append(s, e) = s \o <<e>>
    OBVIOUS
  <2>1. s \in Seq(ToSet(s) \cup {e}) /\ e \in ToSet(s) \cup {e}
    BY DEF Sequence
  <2> QED  BY <2>1, AppendIsConcat
<1>6. m.path = x.path \o <<Last(m.path)>> /\ m.context = x.context \o <<m.record>>
  BY <1>1, <1>2, <1>4, <1>5
<1> QED  BY <1>x, <1>1, <1>6 DEF Parented

LEMMA RoleIsFree ==
    ASSUME NEW recs, RecordsOK(recs), NEW m, m.protocol # None, Placed(m), RoleFree(recs, m),
           NEW r \in DOMAIN recs, NEW x, x = recs[r].newest,
           x.method = "Write", x.protocol = m.protocol, x.path = m.path,
           x.recipient = m.recipient, x.parent = m.parent
    PROVE  x.record = m.record
<1>1. IsLive(recs, r)
  BY DEF IsLive
<1>2. Placed(x) /\ x.record = r
  BY <1>1, StoredPlaced
<1>3. StartsWith(Front(m.context), x.context)
  BY <1>2, SamePlace
<1>4. r \in LiveAt(recs, m.protocol, m.path, m.recipient, Front(m.context))
  BY <1>1, <1>3 DEF LiveAt
<1> QED  BY <1>2, <1>4 DEF RoleFree

SameRole(x, m) ==
    /\ x.method = "Write" /\ x.protocol = m.protocol
    /\ x.path = m.path /\ x.recipient = m.recipient
    /\ x.parent = m.parent /\ x.record # m.record

AllRoles(V, m) ==
    \A v \in V : \A d \in DefinitionsSeen(v, m.protocol) :
        m.path \in DOMAIN d.structure /\ d.structure[m.path].role

LEMMA PlacedOnceInv == AuthInv => PlacedOnce
<1>1. ASSUME AuthInv, NEW p \in Handler, NEW m, m = req[p], NEW V, V = views[p],
             pc[p] = "accepted", m.method = "Write", m.protocol # None
      PROVE  /\ m.parent # None => \E v \in V : Parented(v.records, m)
             /\ AllRoles(V, m) => \E v \in V : \A r \in DOMAIN v.records :
                    ~SameRole(v.records[r].newest, m)
  <2>1. Knowledge("accepted", m, target[p], def[p], grant[p], V)
    BY <1>1 DEF AuthInv, HandlerOK
  <2>2. /\ Founded(V, m) /\ Assigned(V, m) /\ Placed(m)
        /\ \A v \in V : RecordsOK(v.records) /\ v.configures \subseteq Configure
    BY <1>1, <2>1 DEF Knowledge, IsWriting, Checked, Judged
  <2>3. ASSUME m.parent # None PROVE \E v \in V : Parented(v.records, m)
    <3>1. PICK v \in V : ParentMatches(v.records, m)
      BY <2>2, <2>3 DEF Founded
    <3>2. Parented(v.records, m)
      BY <1>1, <2>2, <2>3, <3>1, ParentIs
    <3> QED  BY <3>2
  <2>4. ASSUME AllRoles(V, m)
        PROVE  \E v \in V : \A r \in DOMAIN v.records : ~SameRole(v.records[r].newest, m)
    <3>1. PICK v \in V : RoleFree(v.records, m)
      BY <2>2, <2>4, DefinitionsAre DEF Assigned, AllRoles
    <3>2. \A r \in DOMAIN v.records : ~SameRole(v.records[r].newest, m)
      BY <1>1, <2>2, <3>1, RoleIsFree DEF SameRole
    <3> QED  BY <3>2
  <2> QED  BY <2>3, <2>4
<1> SUFFICES ASSUME AuthInv, NEW p \in Handler,
                    pc[p] = "accepted", req[p].method = "Write", req[p].protocol # None
             PROVE  /\ req[p].parent # None =>
                        \E recs \in {v.records : v \in views[p]} : Parented(recs, req[p])
                    /\ AllRoles(views[p], req[p]) =>
                        \A r \in DOMAIN records : \E recs \in {v.records : v \in views[p]} :
                            r \in DOMAIN recs => ~SameRole(recs[r].newest, req[p])
  BY Zenon DEF PlacedOnce, Parented, SameRole, AllRoles
<1>2. PICK m, V : m = req[p] /\ V = views[p]
  OBVIOUS
<1>3. m.parent # None => \E recs \in {v.records : v \in V} : Parented(recs, m)
  BY <1>1, <1>2
<1>4. ASSUME AllRoles(V, m), NEW r \in DOMAIN records
      PROVE  \E recs \in {v.records : v \in V} : r \in DOMAIN recs => ~SameRole(recs[r].newest, m)
  <2>1. PICK v \in V : \A q \in DOMAIN v.records : ~SameRole(v.records[q].newest, m)
    BY <1>1, <1>2, <1>4
  <2> QED  BY <2>1
<1> QED  BY <1>2, <1>3, <1>4

\* A record is placed under a parent that was there, and a role is given once, while
\* definitions, parents and roles come and go, for any messages and any number of
\* handlers.  (protocol-authorization.ts:377-431, 798-848)
THEOREM PlacedOnceAlways == Spec => []PlacedOnce
<1>1. Spec => []AuthInv
  BY AuthInit, AuthStep, PTL DEF Spec
<1> QED  BY <1>1, PlacedOnceInv, PTL

\* The line of a stored record, as its initial write has it.
LEMMA StoredLine ==
    ASSUME NEW recs, RecordsOK(recs), NEW r \in DOMAIN recs, NEW x, x = recs[r].initial
    PROVE  /\ x \in Message /\ x.initial /\ x.record = r /\ x.method = "Write"
           /\ \E c : IsLine(c, r)
           /\ x.protocol # None => Placed(x) /\ IsLine(x.context, r)
<1>1. /\ recs[r] \in [initial : Message, newest : Message] /\ x.initial /\ x.record = r
      /\ x.method = "Write" /\ x.protocol # None => Placed(x)
  BY DEF RecordsOK
<1>2. x \in Message /\ x.method = "Write"
  BY <1>1, RequestAssumption
<1>3. ASSUME x.protocol # None PROVE Placed(x) /\ IsLine(x.context, r)
  <2>1. Placed(x)
    BY <1>1, <1>2, <1>3
  <2>2. IsLine(x.context, r)
    BY <1>1, <2>1 DEF Placed, IsLine, Before
  <2> QED  BY <2>1, <2>2
<1>4. ASSUME x.protocol = None PROVE IsLine(<<r>>, r)
  <2>1. x.parent = None
    BY <1>2, <1>4, RequestAssumption
  <2>2. Sequence(<<r>>)
    <3>1. <<r>> \in Seq({r})
      OBVIOUS
    <3> QED  BY <3>1, IsSequence
  <2>3. \A i \in 1 .. 1 : i = 1
    OBVIOUS
  <2> QED  BY <1>1, <1>2, <2>1, <2>2, <2>3 DEF IsLine, Before
<1> QED  BY <1>1, <1>2, <1>3, <1>4

\* The initial writes along a line, if all are there.
Known(recs, c) ==
    IF ToSet(c) \subseteq DOMAIN recs THEN [i \in 1 .. Len(c) |-> recs[c[i]].initial]
    ELSE <<>>

LEMMA KnownIs ==
    ASSUME NEW recs, NEW c, NEW r, IsLine(c, r), ToSet(c) \subseteq DOMAIN recs,
           NEW k, k = Known(recs, c)
    PROVE  /\ k # <<>> /\ Len(k) = Len(c) /\ k \in Seq(ToSet(k))
           /\ \A i \in 1 .. Len(c) : k[i] = recs[c[i]].initial
           /\ ToSet(k) = Lineage(recs, ToSet(c))
           /\ Last(k) = recs[r].initial
<1>1. PICK n : n = Len(c)
  OBVIOUS
<1>2. n \in Nat /\ n > 0 /\ k = [i \in 1 .. n |-> recs[c[i]].initial] /\ c[n] = r
      /\ ToSet(c) = {c[i] : i \in 1 .. n}
  BY <1>1, LineIsSeq DEF Known
<1>3. PICK S : S = {recs[c[i]].initial : i \in 1 .. n}
  OBVIOUS
<1>4. k \in Seq(S)
  BY <1>2, <1>3, IsASeq
<1>5. Len(k) = n /\ ToSet(k) = S /\ k # <<>>
  <2>1. Len(k) = n /\ DOMAIN k = 1 .. n
    BY <1>2, <1>4
  <2>2. k # <<>>
    BY <1>2, <2>1
  <2>3. ToSet(k) = {k[i] : i \in 1 .. n}
    BY <2>1 DEF ToSet
  <2>4. \A i \in 1 .. n : k[i] = recs[c[i]].initial
    BY <1>2
  <2> QED  BY <1>3, <2>1, <2>2, <2>3, <2>4
<1>6. Lineage(recs, ToSet(c)) = S
  BY <1>2, <1>3 DEF Lineage
<1>7. Last(k) = recs[r].initial
  BY <1>2, <1>5 DEF Last
<1> QED  BY <1>1, <1>2, <1>4, <1>5, <1>6, <1>7

\* One step of the walk.
Longer(recs, from, r) ==
    LET initial == recs[r].initial
    IN  IF initial.parent = None THEN <<initial>>
        ELSE IF initial.parent \notin DOMAIN recs THEN <<>>
        ELSE IF from[initial.parent] = <<>> THEN <<>>
        ELSE Append(from[initial.parent], initial)

LEMMA LongerIs ==
    ASSUME NEW recs, RecordsOK(recs), NEW r \in DOMAIN recs, NEW c, IsLine(c, r),
           NEW n, n = Len(c), NEW from,
           n # 1 /\ c[n - 1] \in DOMAIN recs => from[c[n - 1]] = Known(recs, Front(c))
    PROVE  Longer(recs, from, r) = Known(recs, c)
<1>1. PICK x, q : x = recs[r].initial /\ q = x.parent
  OBVIOUS
<1>2. n \in Nat /\ n > 0 /\ c[n] = r /\ ToSet(c) = {c[i] : i \in 1 .. n}
  BY LineIsSeq
<1>3. x \in Message /\ x.initial /\ x.record = r
  BY <1>1, StoredLine
<1>4. q = Before(c, n)
  BY <1>1, <1>2, <1>3, OnePlace
<1>5. CASE n = 1
  <2>1. q = None
    BY <1>4, <1>5 DEF Before
  <2>2. Longer(recs, from, r) = <<x>>
    BY <1>1, <2>1 DEF Longer
  <2>3. ToSet(c) = {r}
    BY <1>2, <1>5
  <2>4. Known(recs, c) = [i \in 1 .. 1 |-> recs[c[i]].initial]
    BY <1>5, <2>3 DEF Known
  <2>5. [i \in 1 .. 1 |-> recs[c[i]].initial] = [i \in 1 .. 1 |-> x]
    BY <1>1, <1>2, <1>5
  <2> QED  BY <2>2, <2>4, <2>5
<1>6. CASE n # 1
  <2>1. PICK f, m : f = Front(c) /\ m = n - 1
    OBVIOUS
  <2>2. m \in Nat /\ m > 0 /\ m \in 1 .. n /\ q = c[m]
    BY <1>2, <1>4, <1>6, <2>1 DEF Before
  <2>3. q # None
    BY <2>2, LineIds
  <2>4. IsLine(f, q) /\ Len(f) = m /\ (\A i \in 1 .. m : f[i] = c[i])
        /\ ToSet(f) = {c[i] : i \in 1 .. m}
    BY <1>6, <2>1, <2>2, LineUp, SMTT(20)
  <2>5. ToSet(c) = ToSet(f) \cup {r}
    BY <1>2, <2>1, <2>2, <2>4
  <2>6. q \in ToSet(f)
    BY <2>2, <2>4
  <2>7. CASE q \notin DOMAIN recs
    <3>1. Longer(recs, from, r) = <<>>
      BY <1>1, <2>3, <2>7 DEF Longer
    <3>2. ~(ToSet(c) \subseteq DOMAIN recs)
      BY <2>5, <2>6, <2>7
    <3> QED  BY <3>1, <3>2 DEF Known
  <2>8. CASE q \in DOMAIN recs /\ ~(ToSet(f) \subseteq DOMAIN recs)
    <3>1. from[q] = <<>> /\ Known(recs, c) = <<>>
      BY <1>6, <2>1, <2>2, <2>5, <2>8 DEF Known
    <3> QED  BY <1>1, <2>3, <2>8, <3>1 DEF Longer
  <2>9. CASE ToSet(f) \subseteq DOMAIN recs
    <3>1. PICK k : k = Known(recs, f)
      OBVIOUS
    <3>2. /\ k # <<>> /\ Len(k) = m /\ k \in Seq(ToSet(k))
          /\ \A i \in 1 .. m : k[i] = recs[c[i]].initial
      BY <2>4, <2>9, <3>1, KnownIs
    <3>3. from[q] = k /\ q \in DOMAIN recs
      BY <1>6, <2>1, <2>2, <2>6, <2>9, <3>1
    <3>4. Longer(recs, from, r) = Append(k, x)
      BY <1>1, <2>3, <3>2, <3>3 DEF Longer
    <3>5. PICK S : S = ToSet(k) \cup {x}
      OBVIOUS
    <3>6. k \in Seq(S) /\ x \in S
      BY <3>2, <3>5
    <3>7. Append(k, x) = [i \in 1 .. m + 1 |-> IF i = m + 1 THEN x ELSE k[i]]
      <4>1. PICK t : t = Append(k, x)
        OBVIOUS
      <4>2. /\ t \in Seq(S) /\ Len(t) = m + 1 /\ t[m + 1] = x
            /\ \A i \in 1 .. m : t[i] = k[i]
        BY <2>2, <3>2, <3>6, <4>1
      <4>3. t = [i \in 1 .. m + 1 |-> t[i]]
        BY <2>2, <4>2
      <4>4. \A i \in 1 .. m + 1 : t[i] = IF i = m + 1 THEN x ELSE k[i]
        BY <2>2, <4>2
      <4> QED  BY <4>1, <4>3, <4>4
    <3>8. \A i \in 1 .. n : recs[c[i]].initial = IF i = m + 1 THEN x ELSE k[i]
      BY <1>1, <1>2, <2>1, <3>2
    <3>9. Known(recs, c) = [i \in 1 .. n |-> recs[c[i]].initial]
      BY <2>5, <2>9 DEF Known
    <3>10. n = m + 1
      BY <1>2, <2>1
    <3> QED  BY <3>4, <3>7, <3>8, <3>9, <3>10
  <2> QED  BY <2>7, <2>8, <2>9
<1> QED  BY <1>5, <1>6

\* What the walk finds, wherever it starts.
LEMMA ChainsIs ==
    ASSUME NEW recs, RecordsOK(recs), NEW r \in DOMAIN recs, NEW c, IsLine(c, r)
    PROVE  Chains(recs)[r] = Known(recs, c)
<1> DEFINE line(q) == CHOOSE d : IsLine(d, q)
<1> DEFINE all == [q \in DOMAIN recs |-> Known(recs, line(q))]
<1>1. ASSUME NEW q \in DOMAIN recs PROVE IsLine(line(q), q)
  BY StoredLine
<1>2. ASSUME NEW q \in DOMAIN recs PROVE Longer(recs, all, q) = Known(recs, line(q))
  <2>1. PICK d, n : d = line(q) /\ n = Len(d)
    OBVIOUS
  <2>2. IsLine(d, q)
    BY <1>1, <2>1
  <2>3. ASSUME n # 1, d[n - 1] \in DOMAIN recs
        PROVE  all[d[n - 1]] = Known(recs, Front(d))
    <3>1. IsLine(Front(d), d[n - 1])
      BY <2>1, <2>2, <2>3, LineUp
    <3>2. IsLine(line(d[n - 1]), d[n - 1])
      BY <1>1, <2>3
    <3>3. line(d[n - 1]) = Front(d)
      BY <3>1, <3>2, SameLine
    <3> QED  BY <2>3, <3>3
  <2>4. PICK from : from = all
    OBVIOUS
  <2>5. n # 1 /\ d[n - 1] \in DOMAIN recs => from[d[n - 1]] = Known(recs, Front(d))
    BY <2>3, <2>4
  <2> HIDE DEF all, line
  <2>6. Longer(recs, from, q) = Known(recs, d)
    BY <2>1, <2>2, <2>5, LongerIs
  <2> QED  BY <2>1, <2>4, <2>6
<1>3. PICK from : from = Chains(recs)
  OBVIOUS
<1>4. from = [q \in DOMAIN recs |-> Longer(recs, from, q)]
  <2>1. all = [q \in DOMAIN recs |-> Longer(recs, all, q)]
    BY <1>2
  <2>2. PICK f : f = [q \in DOMAIN recs |-> Longer(recs, f, q)]
    BY <2>1
  <2>3. Chains(recs) = [q \in DOMAIN recs |-> Longer(recs, Chains(recs), q)]
    BY <2>2 DEF Chains, Longer
  <2> QED  BY <1>3, <2>3
<1> DEFINE Wrong(n) == \E q \in DOMAIN recs : \E d :
                        IsLine(d, q) /\ Len(d) = n /\ from[q] # Known(recs, d)
<1> DEFINE S == {n \in Nat : Wrong(n)}
<1>5. ASSUME S # {} PROVE FALSE
  <2>1. PICK n \in S : \A k \in S : n <= k
    BY <1>5, LeastNumber
  <2>2. n \in Nat /\ Wrong(n)
    BY <2>1
  <2>3. PICK q \in DOMAIN recs : \E e : IsLine(e, q) /\ Len(e) = n /\ from[q] # Known(recs, e)
    BY <2>2
  <2>0. PICK d : IsLine(d, q) /\ Len(d) = n /\ from[q] # Known(recs, d)
    BY <2>3
  <2>4. n # 1 /\ d[n - 1] \in DOMAIN recs => from[d[n - 1]] = Known(recs, Front(d))
    <3> SUFFICES ASSUME n # 1, d[n - 1] \in DOMAIN recs
                 PROVE  from[d[n - 1]] = Known(recs, Front(d))
      OBVIOUS
    <3>1. IsLine(Front(d), d[n - 1]) /\ Len(Front(d)) = n - 1
      BY <2>0, LineUp
    <3>2. n > 0
      BY <2>0, LineIsSeq
    <3>3. n - 1 \in Nat /\ n - 1 \notin S
      BY <2>1, <2>2, <3>2
    <3>4. ~Wrong(n - 1)
      BY <3>3
    <3> QED  BY <3>1, <3>4
  <2>5. Longer(recs, from, q) = Known(recs, d)
    BY <2>0, <2>4, LongerIs
  <2> QED  BY <1>4, <2>0, <2>5
<1>6. Len(c) \in Nat
  BY LineIsSeq
<1>7. ~Wrong(Len(c))
  BY <1>5, <1>6
<1> QED  BY <1>3, <1>7

----------------------------------------------------------------------------
\* The definition in force.
ValidConfigures == {c \in Configure : ValidDefinition(c.definition)}

LEMMA OneDefinition ==
    ASSUME NEW C, C \subseteq Configure, NEW protocol,
           NEW d \in Definitions(C, protocol), NEW e \in Definitions(C, protocol)
    PROVE  d = e
<1>1. CASE protocol = PermissionsUri
  BY <1>1 DEF Definitions
<1>2. CASE protocol # PermissionsUri
  <2>1. PICK c \in InForce(C, protocol) : d = c.definition
    BY <1>2 DEF Definitions
  <2>2. PICK b \in InForce(C, protocol) : e = b.definition
    BY <1>2 DEF Definitions
  <2>3. /\ c \in Configure /\ b \in Configure
        /\ b = c \/ (IsNewer(b, c) /\ IsNewer(c, b))
    BY <2>1, <2>2 DEF InForce, OfProtocol
  <2>4. /\ c.ts \in Nat /\ c.cid \in Nat /\ b.ts \in Nat /\ b.cid \in Nat
    BY <2>3, ConfigureAssumption
  <2> QED  BY <2>1, <2>2, <2>3, <2>4 DEF IsNewer
<1> QED  BY <1>1, <1>2

\* Rule sets that are there, and rules for the recipient of a record that are no rules
\* for queries.
Proper(d) ==
    /\ \A path \in DOMAIN d.structure : d.structure[path] # None
    /\ \A path \in DOMAIN d.structure : \A rule \in ToSet(d.structure[path].actions) :
        /\ rule.who = "recipient" /\ rule.of = None => rule.can \subseteq CoActions
        /\ rule.role # None /\ rule.can \cap ReadActions # {} => ReadActions \subseteq rule.can

LEMMA DefinitionProper ==
    ASSUME NEW C, C \subseteq ValidConfigures, NEW protocol, NEW d \in Definitions(C, protocol)
    PROVE  Proper(d)
<1>1. CASE protocol = PermissionsUri
  <2>1. d = PermissionsDefinition
    BY <1>1 DEF Definitions
  <2>2. \A path \in DOMAIN d.structure : d.structure[path] # None
    BY <2>1, NoneAssumption
  <2>3. ASSUME NEW path \in DOMAIN d.structure, NEW rule \in ToSet(d.structure[path].actions)
        PROVE  /\ rule.who = "recipient" => rule.of # None
               /\ rule.role = None
    <3>1. path \in {RequestPath, GrantPath, RevocationPath}
      BY <2>1, <2>3 DEF PermissionsDefinition
    <3>2. PICK base : base = CASE path = RequestPath -> Rule("anyone", None, {"create"})
                             [] path = GrantPath -> Rule("recipient", GrantPath, {"read", "query"})
                             [] path = RevocationPath -> Rule("anyone", None, {"read"})
      OBVIOUS
    <3>3. d.structure[path].actions = <<base>>
      BY <2>1, <3>1, <3>2 DEF PermissionsDefinition, PermissionRules
    <3>4. rule = base
      BY <2>3, <3>3 DEF ToSet
    <3>5. /\ base \in [who : {"anyone", "recipient"}, of : {None, GrantPath}, role : {None},
                       can : SUBSET {"create", "read", "query"}]
          /\ base.who = "recipient" => base.of = GrantPath
      BY <3>1, <3>2 DEF Rule, RequestPath, GrantPath, RevocationPath
    <3> QED  BY <3>4, <3>5, NoneAssumption
  <2> QED  BY <2>2, <2>3 DEF Proper
<1>2. CASE protocol # PermissionsUri
  <2>1. PICK c \in InForce(C, protocol) : d = c.definition
    BY <1>2 DEF Definitions
  <2>2. c \in Configure /\ ValidDefinition(d)
    BY <2>1 DEF InForce, OfProtocol, ValidConfigures
  <2>3. \A path \in DOMAIN d.structure : d.structure[path] # None
    BY <2>1, <2>2, NoneAssumption
  <2>4. ASSUME NEW path \in DOMAIN d.structure, NEW rule \in ToSet(d.structure[path].actions)
        PROVE  /\ rule.who = "recipient" /\ rule.of = None => rule.can \subseteq CoActions
               /\ rule.role # None /\ rule.can \cap ReadActions # {}
                    => ReadActions \subseteq rule.can
    <3>1. PICK i \in DOMAIN d.structure[path].actions : rule = d.structure[path].actions[i]
      BY <2>4 DEF ToSet
    <3>2. ValidRule(d.structure[path].actions[i], RolePaths(d))
      BY <2>2, <3>1 DEF ValidDefinition, ValidRuleSet
    <3> QED  BY <3>1, <3>2 DEF ValidRule
  <2> QED  BY <2>3, <2>4 DEF Proper
<1> QED  BY <1>1, <1>2

LEMMA RuleSetIs ==
    ASSUME NEW d, Proper(d), NEW path
    PROVE  /\ RuleSetAt(path, d) # None <=> path \in DOMAIN d.structure
           /\ path \in DOMAIN d.structure => RuleSetAt(path, d) = d.structure[path]
BY DEF Proper, RuleSetAt

----------------------------------------------------------------------------
\* Being under the context at the level of the role.
Beneath(c, role, context) ==
    \A i \in 1 .. Len(role) - 1 : i <= Len(context) => c[i] = context[i]

LEMMA UnderIs ==
    ASSUME NEW role, Len(role) \in Nat, NEW context,
           Len(role) > 1 => Sequence(context),
           NEW c, Sequence(c), Len(c) = Len(role)
    PROVE  /\ Beneath(c, role, context) => StartsWith(RoleContext(role, context), c)
           /\ /\ StartsWith(RoleContext(role, context), c)
              /\ Len(role) > 1 => context # None /\ Whole(context, role)
              => Beneath(c, role, context)
<1>n. PICK n, k : n = Len(role) /\ k = Len(context)
  OBVIOUS
<1>0. n \in Nat /\ Len(c) = n /\ (n > 1 => Sequence(context))
  BY <1>n
<1>1. CASE n <= 1
  <2>1. RoleContext(role, context) = <<>>
    BY <1>n, <1>1 DEF RoleContext
  <2>2. Len(<<>>) = 0 /\ DOMAIN <<>> = {}
    OBVIOUS
  <2>3. StartsWith(<<>>, c)
    BY <1>0, <2>2 DEF StartsWith
  <2>4. Beneath(c, role, context)
    BY <1>0, <1>1, <1>n DEF Beneath
  <2> QED  BY <2>1, <2>3, <2>4
<1>2. CASE n > 1
  <2>1. PICK S : S = ToSet(context)
    OBVIOUS
  <2>2. context \in Seq(S) /\ k \in Nat /\ DOMAIN context = 1 .. k
    BY <1>0, <1>2, <1>n, <2>1 DEF Sequence
  <2>3. PICK p, j : p = RoleContext(role, context) /\ j = Len(p)
    OBVIOUS
  <2>4. /\ j \in Nat /\ j <= n - 1 /\ j <= k /\ DOMAIN p = 1 .. j
        /\ \A i \in 1 .. n - 1 : i <= k => i <= j
        /\ \A i \in 1 .. j : p[i] = context[i]
    <3>1. CASE k < n - 1
      <4>1. p = context
        BY <1>n, <1>2, <2>3, <3>1 DEF RoleContext
      <4> QED  BY <1>0, <1>n, <2>2, <2>3, <3>1, <4>1
    <3>2. CASE ~(k < n - 1)
      <4>1. p = SubSeq(context, 1, n - 1)
        BY <1>n, <1>2, <2>3, <3>2 DEF RoleContext
      <4>2. p \in Seq(S) /\ Len(p) = n - 1 /\ \A i \in 1 .. n - 1 : p[i] = context[i]
        BY <1>0, <1>2, <1>n, <2>2, <3>2, <4>1
      <4> QED  BY <1>0, <1>2, <2>2, <2>3, <3>2, <4>2
    <3> QED  BY <3>1, <3>2
  <2>5. ASSUME Beneath(c, role, context) PROVE StartsWith(p, c)
    <3>1. j <= Len(c)
      BY <1>0, <1>2, <2>4
    <3>2. \A i \in 1 .. j : p[i] = c[i]
      BY <1>0, <1>2, <1>n, <2>2, <2>4, <2>5 DEF Beneath
    <3> QED  BY <2>3, <2>4, <3>1, <3>2 DEF StartsWith
  <2>6. ASSUME StartsWith(p, c), context # None, Whole(context, role)
        PROVE  Beneath(c, role, context)
    <3> SUFFICES ASSUME NEW i \in 1 .. n - 1, i <= k PROVE c[i] = context[i]
      BY <1>n DEF Beneath
    <3>1. i \in DOMAIN p /\ p[i] = context[i] /\ i \in DOMAIN context
      BY <1>0, <2>2, <2>4
    <3>2. p[i] = c[i] \/ <<p[i], c[i]>> \in Abbreviates
      BY <2>6, <3>1 DEF StartsWith
    <3>3. \A pair \in Abbreviates : pair[1] # context[i]
      BY <1>n, <2>6, <3>1 DEF Whole
    <3> QED  BY <3>1, <3>2, <3>3
  <2> QED  BY <1>2, <1>n, <2>3, <2>5, <2>6
<1> QED  BY <1>0, <1>1, <1>2

\* The role is held when someone who holds it asks, and only then where the context names
\* whole records.
LEMMA HeldIs ==
    ASSUME NEW recs, RecordsOK(recs), NEW m, WellFormed(m), m.role # None,
           NEW protocol, protocol # None, NEW context, context # None => Sequence(context),
           NEW d, Proper(d)
    PROVE  /\ /\ m.role \in DOMAIN d.structure /\ d.structure[m.role].role
              /\ m.author \in Holders(recs, m.role, protocol, context)
              => RoleHeld(recs, m, protocol, context, d)
           /\ RoleHeld(recs, m, protocol, context, d)
              => /\ m.role \in DOMAIN d.structure /\ d.structure[m.role].role
                 /\ Whole(context, m.role)
                        => m.author \in Holders(recs, m.role, protocol, context)
<1>1. PICK role, n : role = m.role /\ n = Len(role)
  OBVIOUS
<1>2. Sequence(role) /\ n \in Nat
  BY <1>1 DEF WellFormed, Sequence
<1> DEFINE Gives(x) == /\ x.method = "Write" /\ x.protocol = protocol /\ x.path = role
                       /\ x.recipient = m.author
<1>3. ASSUME NEW r \in DOMAIN recs, NEW x, x = recs[r].newest, Gives(x), n > 1 => context # None
      PROVE  /\ Beneath(x.context, role, context)
                    => StartsWith(RoleContext(role, context), x.context)
             /\ StartsWith(RoleContext(role, context), x.context) /\ Whole(context, role)
                    => Beneath(x.context, role, context)
  <2>1. IsLive(recs, r)
    BY <1>3 DEF IsLive
  <2>2. Placed(x)
    BY <1>3, <2>1, StoredPlaced
  <2>3. PICK c : c = x.context
    OBVIOUS
  <2>4. Sequence(c) /\ Len(c) = n
    BY <1>1, <1>3, <2>2, <2>3 DEF Placed
  <2>5. Len(role) \in Nat /\ Len(c) = Len(role) /\ (Len(role) > 1 => Sequence(context))
    BY <1>1, <1>2, <1>3, <2>4
  <2>6. /\ Beneath(c, role, context) => StartsWith(RoleContext(role, context), c)
        /\ /\ StartsWith(RoleContext(role, context), c)
           /\ Len(role) > 1 => context # None /\ Whole(context, role)
           => Beneath(c, role, context)
    BY <2>4, <2>5, UnderIs
  <2> QED  BY <1>1, <1>3, <2>3, <2>6
<1>4. RoleHeld(recs, m, protocol, context, d)
        <=> /\ role \in DOMAIN d.structure /\ d.structure[role].role
            /\ n > 1 => context # None
            /\ \E r \in DOMAIN recs : Gives(recs[r].newest)
                /\ StartsWith(RoleContext(role, context), recs[r].newest.context)
  <2>1. LiveAt(recs, protocol, role, m.author, RoleContext(role, context)) # {}
        <=> \E r \in DOMAIN recs : Gives(recs[r].newest)
                /\ StartsWith(RoleContext(role, context), recs[r].newest.context)
    BY DEF LiveAt, IsLive
  <2> QED  BY <1>1, <2>1, RuleSetIs DEF RoleHeld
<1>5. m.author \in Holders(recs, role, protocol, context)
        <=> \E r \in DOMAIN recs : Gives(recs[r].newest)
                /\ \A i \in 1 .. n - 1 : context # None
                        /\ (i <= Len(context) => recs[r].newest.context[i] = context[i])
  BY <1>1 DEF Holders
<1>6. (\E i \in 1 .. n - 1 : TRUE) <=> n > 1
  BY <1>2
<1>7. CASE n > 1 /\ context = None
  BY <1>1, <1>4, <1>5, <1>6, <1>7
<1>8. CASE n > 1 => context # None
  <2>1. \A x : (\A i \in 1 .. n - 1 : context # None
                    /\ (i <= Len(context) => x.context[i] = context[i]))
            <=> Beneath(x.context, role, context)
    BY <1>1, <1>6, <1>8 DEF Beneath
  <2>2. m.author \in Holders(recs, role, protocol, context)
        <=> \E r \in DOMAIN recs : Gives(recs[r].newest)
                /\ Beneath(recs[r].newest.context, role, context)
    BY <1>5, <2>1
  <2> QED  BY <1>1, <1>3, <1>4, <1>8, <2>2
<1> QED  BY <1>7, <1>8

----------------------------------------------------------------------------
\* The chain of a record that has a line.
LEMMA ChainIs ==
    ASSUME NEW recs, RecordsOK(recs), NEW q, NEW c, IsLine(c, q), NEW k, k = ChainTo(recs, q)
    PROVE  /\ k # <<>> <=> ToSet(c) \subseteq DOMAIN recs
           /\ k # <<>> => ToSet(k) = Lineage(recs, ToSet(c)) /\ Last(k) = recs[q].initial
<1>1. q \in ToSet(c)
  <2>1. Len(c) \in 1 .. Len(c) /\ c[Len(c)] = q
    BY LineIsSeq
  <2> QED  BY <2>1, LineIsSeq
<1>2. CASE q \notin DOMAIN recs
  BY <1>1, <1>2 DEF ChainTo
<1>3. CASE q \in DOMAIN recs
  <2>1. k = Known(recs, c)
    BY <1>3, ChainsIs DEF ChainTo
  <2>2. CASE ToSet(c) \subseteq DOMAIN recs
    BY <2>1, <2>2, KnownIs
  <2>3. CASE ~(ToSet(c) \subseteq DOMAIN recs)
    BY <2>1, <2>3 DEF Known
  <2> QED  BY <2>2, <2>3
<1> QED  BY <1>2, <1>3

\* No record is there under no ID.
LEMMA NoneIsNoRecord ==
    ASSUME NEW recs, RecordsOK(recs)
    PROVE  None \notin DOMAIN recs
<1> SUFFICES ASSUME None \in DOMAIN recs PROVE FALSE
  OBVIOUS
<1>1. PICK x : x = recs[None].initial
  OBVIOUS
<1>2. x \in Message /\ x.initial /\ x.record = None
  BY <1>1, StoredLine
<1> QED  BY <1>2, RequestAssumption

LEMMA PlacedLine ==
    ASSUME NEW x, Placed(x)
    PROVE  /\ IsLine(x.context, x.record)
           /\ Sequence(x.context) /\ Len(x.context) = Len(x.path) /\ Len(x.path) \in Nat
           /\ \A i \in 1 .. Len(x.context) : \E a \in Message :
                a.initial /\ a.record = x.context[i] /\ a.protocol = x.protocol
<1>1. PICK c, n : c = x.context /\ n = Len(x.path)
  OBVIOUS
<1>2. /\ Sequence(c) /\ Len(c) = n /\ n > 0 /\ c[n] = x.record
      /\ \A i \in 1 .. n : \E a \in Message :
            /\ a.initial /\ a.record = c[i] /\ a.parent = Before(c, i)
            /\ a.protocol = x.protocol
  BY <1>1 DEF Placed, Before
<1>3. IsLine(c, x.record)
  BY <1>2 DEF IsLine
<1>4. n \in Nat
  BY <1>2 DEF Sequence
<1> QED  BY <1>1, <1>2, <1>3, <1>4

ChainAt(recs, m) ==
    IF m.method \in {"Query", "Subscribe"} THEN <<>> ELSE ChainTo(recs, ChainStart(recs, m))

Linked(recs, m) ==
    \/ m.method \in {"Query", "Subscribe"} \/ ChainStart(recs, m) = None
    \/ ChainTo(recs, ChainStart(recs, m)) # <<>>

\* What a write, a read or a delete is about has its place and its initial write.
Situated(m, x) ==
    /\ m.method \notin {"Query", "Subscribe"}
    /\ x \in Message /\ x.protocol # None /\ Placed(x) /\ x.record = m.record
    /\ m.method = "Write" => x = m
    /\ \E a \in Message : a.initial /\ a.record = x.record /\ Immutable(a) = Immutable(x)

\* The ancestors are those of the protocol: each has a path.
LEMMA AncestorsPaths ==
    ASSUME NEW recs, RecordsOK(recs), NEW x, Placed(x), x.protocol # None,
           NEW r \in ToSet(x.context) \cap DOMAIN recs
    PROVE  recs[r].initial.path # None
<1>1. PICK a \in Message : a.initial /\ a.record = r /\ a.protocol = x.protocol
  <2>1. IsLine(x.context, x.record)
    BY PlacedLine
  <2>2. PICK i \in 1 .. Len(x.context) : r = x.context[i]
    BY <2>1, LineIsSeq
  <2> QED  BY <2>2, PlacedLine
<1>2. PICK b : b = recs[r].initial
  OBVIOUS
<1>3. b \in Message /\ b.initial /\ b.record = r /\ b.method = "Write"
  BY <1>2, StoredLine
<1>4. b.protocol = x.protocol
  <2>1. Immutable(a) = Immutable(b)
    BY <1>1, <1>3, RequestAssumption
  <2> QED  BY <1>1, <2>1 DEF Immutable
<1> QED  BY <1>2, <1>3, <1>4, RequestAssumption

LEMMA AboveIs ==
    ASSUME NEW recs, RecordsOK(recs), NEW m \in Message, NEW x, Situated(m, x),
           NEW k, k = ChainAt(recs, m), NEW A, A = Above(recs, m, x)
    PROVE  /\ Linked(recs, m) <=> A \subseteq DOMAIN recs
           /\ Linked(recs, m) =>
                /\ ToSet(k) = Lineage(recs, A)
                /\ \A a \in ToSet(k) : a.path # None
                /\ m.method # "Write" => Last(k) = recs[x.record].initial
<1>1. PICK c, q, n : c = x.context /\ q = ChainStart(recs, m) /\ n = Len(c)
  OBVIOUS
<1>2. IsLine(c, x.record) /\ x.record = m.record
  BY <1>1, PlacedLine DEF Situated
<1>3. n \in Nat /\ n > 0 /\ c[n] = m.record /\ ToSet(c) = {c[i] : i \in 1 .. n}
  BY <1>1, <1>2, LineIsSeq, SMTT(20)
<1>4. k = ChainTo(recs, q) /\ (Linked(recs, m) <=> q = None \/ k # <<>>)
  BY <1>1 DEF ChainAt, Linked, Situated
<1>5. A \subseteq ToSet(c)
      /\ \/ q = m.record /\ A = ToSet(c)
         \/ m.method = "Write" /\ q = m.parent /\ A = ToSet(Front(c)) /\ x = m
  <2>1. CASE m.method = "Write" /\ m.record \notin DOMAIN recs
    <3>1. q = m.parent /\ A = ToSet(Front(c)) /\ x = m
      BY <1>1, <1>2, <2>1 DEF ChainStart, Above, Situated
    <3>2. ToSet(Front(c)) \subseteq ToSet(c)
      <4>1. CASE n = 1
        <5>1. c \in Seq(ToSet(c)) /\ Len(c) = 1
          BY <1>1, <1>2, <4>1, LineIsSeq
        <5>2. Front(c) = <<>>
          <6>1. PICK S : S = ToSet(c)
            OBVIOUS
          <6>2. c \in Seq(S) /\ Front(c) = SubSeq(c, 1, 0)
            BY <5>1, <6>1 DEF Front
          <6> QED  BY <6>2
        <5> QED  BY <5>2 DEF ToSet
      <4>2. CASE n # 1
        <5>1. ToSet(Front(c)) = {c[i] : i \in 1 .. n - 1}
          <6>1. PICK r : r = x.record
            OBVIOUS
          <6>2. IsLine(c, r) /\ n = Len(c) /\ n # 1
            BY <1>1, <1>2, <4>2, <6>1
          <6> QED  BY <6>2, LineUp
        <5> QED  BY <1>3, <5>1
      <4> QED  BY <4>1, <4>2
    <3> QED  BY <2>1, <3>1, <3>2
  <2>2. CASE m.method # "Write" \/ m.record \in DOMAIN recs
    BY <1>1, <1>2, <2>2 DEF ChainStart, Above, Situated
  <2> QED  BY <2>1, <2>2
<1>6. \A r \in A \cap DOMAIN recs : recs[r].initial.path # None
  BY <1>1, <1>5, AncestorsPaths DEF Situated
<1>7. ASSUME A \subseteq DOMAIN recs, ToSet(k) = Lineage(recs, A)
      PROVE  \A a \in ToSet(k) : a.path # None
  BY <1>6, <1>7 DEF Lineage
<1>8. CASE q = m.record /\ A = ToSet(c)
  <2>1. q # None
    BY <1>2, <1>3, <1>8, <1>1, LineIds
  <2>2. /\ k # <<>> <=> A \subseteq DOMAIN recs
        /\ k # <<>> => ToSet(k) = Lineage(recs, A) /\ Last(k) = recs[x.record].initial
    BY <1>2, <1>4, <1>8, ChainIs
  <2> QED  BY <1>4, <1>7, <2>1, <2>2
<1>9. CASE m.method = "Write" /\ q = m.parent /\ A = ToSet(Front(c)) /\ x = m
  <2>1. PICK b \in Message : b.initial /\ b.record = c[n] /\ b.parent = Before(c, n)
    BY <1>1, <1>2, <1>3 DEF IsLine
  <2>2. q = Before(c, n)
    BY <1>1, <1>9 DEF Situated, Placed, Before
  <2>3. CASE n = 1
    <3>1. q = None
      BY <2>2, <2>3 DEF Before
    <3>2. k = <<>>
      BY <1>4, <3>1, NoneIsNoRecord DEF ChainTo
    <3>3. A = {}
      <4>1. PICK S : S = ToSet(c)
        OBVIOUS
      <4>2. c \in Seq(S) /\ Len(c) = 1
        BY <1>1, <1>2, <2>3, <4>1, LineIsSeq
      <4>3. Front(c) = <<>>
        BY <4>2 DEF Front
      <4> QED  BY <1>9, <4>3 DEF ToSet
    <3>4. ToSet(k) = {} /\ Lineage(recs, A) = {}
      BY <3>2, <3>3 DEF ToSet, Lineage
    <3> QED  BY <1>4, <1>7, <1>9, <3>1, <3>3, <3>4
  <2>4. CASE n # 1
    <3>1. IsLine(Front(c), c[n - 1]) /\ q = c[n - 1] /\ q # None
      <4>1. n - 1 \in 1 .. n
        BY <1>3, <2>4
      <4> QED  BY <1>1, <1>2, <2>2, <2>4, <4>1, LineUp, LineIds DEF Before
    <3>2. /\ k # <<>> <=> A \subseteq DOMAIN recs
          /\ k # <<>> => ToSet(k) = Lineage(recs, A)
      BY <1>4, <1>9, <3>1, ChainIs
    <3> QED  BY <1>4, <1>7, <1>9, <3>1, <3>2
  <2> QED  BY <2>3, <2>4
<1> QED  BY <1>5, <1>8, <1>9

----------------------------------------------------------------------------
\* What the rules say, and what the handlers make of it.
LEMMA SoughtIs ==
    ASSUME NEW m \in Message, m.interface = "Records", NEW a
    PROVE  ActionsSought(m, a) = Does(m, a)
<1>1. m.method \in {"Write", "Read", "Delete", "Query", "Subscribe"}
  BY RequestAssumption
<1>2. CASE m.method = "Write"
  BY <1>2 DEF ActionsSought, Does
<1>3. CASE m.method = "Delete"
  BY <1>3 DEF ActionsSought, Does
<1>4. CASE m.method \in {"Read", "Query", "Subscribe"}
  BY <1>4 DEF ActionsSought, Does
<1> QED  BY <1>1, <1>2, <1>3, <1>4

LEMMA NamedIs ==
    ASSUME NEW rule, NEW m, NEW x, NEW k, \A a \in ToSet(k) : a.path # None,
           rule.who = "recipient" /\ rule.of = None /\ m.role = None
                => (IsRecipient(m, k) <=> x.recipient = m.author)
    PROVE  RuleAllows(rule, m, k)
            <=> /\ m.author # None \/ rule.who = "anyone"
                /\ m.author \in Named(rule, m, x, ToSet(k))
<1>1. CASE rule.who = "anyone"
  BY <1>1 DEF RuleAllows, Named
<1>2. CASE rule.who # "anyone" /\ m.role # None
  BY <1>2 DEF RuleAllows, Named
<1>3. CASE rule.who = "recipient" /\ rule.of = None /\ m.role = None
  BY <1>3 DEF RuleAllows, Named
<1>4. CASE rule.who # "anyone" /\ m.role = None /\ ~(rule.who = "recipient" /\ rule.of = None)
  <2>1. RuleAllows(rule, m, k) <=> m.author # None /\ CheckActor(m.author, rule, k)
    BY <1>4 DEF RuleAllows
  <2>2. CASE rule.of = None
    BY <1>4, <2>1, <2>2 DEF CheckActor, Named
  <2>3. CASE rule.of # None
    <3>1. CASE rule.who = "recipient"
      BY <1>4, <2>1, <2>3, <3>1 DEF CheckActor, Named
    <3>2. CASE rule.who # "recipient"
      BY <1>4, <2>1, <2>3, <3>2 DEF CheckActor, Named
    <3> QED  BY <3>1, <3>2
  <2> QED  BY <2>2, <2>3
<1> QED  BY <1>1, <1>2, <1>3, <1>4

\* A view of the stores as it may be.
ViewOK(v) == RecordsOK(v.records) /\ v.configures \subseteq ValidConfigures

InitialOr(recs, m) == IF m.record \in DOMAIN recs THEN recs[m.record].initial ELSE m

AllowsIt(recs, m, x, d, k) ==
    /\ m.method = "Delete" \/ (m.method = "Write" /\ ~m.initial) => m.record \in DOMAIN recs
    /\ ActionAllowed(RuleSetAt(x.path, d), m, ActionsSought(m, InitialOr(recs, m)), k)

\* The decision of a handler that looked at definitions, roles, ancestors and the
\* record at four times.
ByTheRules(v, u, t, s, m, x) ==
    /\ Linked(t.records, m)
    /\ \E d \in Definitions(v.configures, x.protocol) :
        /\ RuleSetAt(x.path, d) # None
        /\ m.role # None => RoleHeld(u.records, m, x.protocol, x.context, d)
        /\ AllowsIt(s.records, m, x, d, ChainAt(t.records, m))

\* The subject of a query is the query.
Asking(m, x) ==
    m.method \in {"Query", "Subscribe"} /\ x = m /\ x.protocol # None

LEMMA ChainHas ==
    ASSUME NEW recs, RecordsOK(recs), NEW m \in Message, NEW x,
           Situated(m, x) \/ Asking(m, x), NEW k, k = ChainAt(recs, m),
           NEW A, A = Above(recs, m, x)
    PROVE  /\ Linked(recs, m) <=> A \subseteq DOMAIN recs
           /\ Linked(recs, m) =>
                /\ ToSet(k) = Lineage(recs, A)
                /\ \A a \in ToSet(k) : a.path # None
                /\ m.method \notin {"Write", "Query", "Subscribe"}
                        => Last(k) = recs[x.record].initial /\ x.record \in DOMAIN recs
<1>1. CASE Asking(m, x)
  <2>1. k = <<>> /\ A = {} /\ Linked(recs, m) /\ m.method \in {"Query", "Subscribe"}
    BY <1>1 DEF Asking, ChainAt, Above, Linked
  <2>2. ToSet(k) = {} /\ Lineage(recs, A) = {}
    BY <2>1 DEF ToSet, Lineage
  <2> QED  BY <2>1, <2>2
<1>2. CASE Situated(m, x)
  <2>1. /\ Linked(recs, m) <=> A \subseteq DOMAIN recs
        /\ Linked(recs, m) =>
                /\ ToSet(k) = Lineage(recs, A)
                /\ \A a \in ToSet(k) : a.path # None
                /\ m.method # "Write" => Last(k) = recs[x.record].initial
    BY <1>2, AboveIs
  <2>2. ASSUME m.method # "Write", A \subseteq DOMAIN recs PROVE x.record \in DOMAIN recs
    <3>1. A = ToSet(x.context) /\ IsLine(x.context, x.record)
      BY <1>2, <2>2, PlacedLine DEF Situated, Above
    <3>2. x.record \in ToSet(x.context)
      <4>1. Len(x.context) \in 1 .. Len(x.context) /\ x.context[Len(x.context)] = x.record
        BY <3>1, LineIsSeq
      <4> QED  BY <3>1, <4>1, LineIsSeq
    <3> QED  BY <2>2, <3>1, <3>2
  <2> QED  BY <2>1, <2>2
<1> QED  BY <1>1, <1>2

\* A rule lets the handler go on just if it names the author.
LEMMA RuleIs ==
    ASSUME NEW recs, RecordsOK(recs), NEW m \in Message, m.interface = "Records", NEW x,
           Situated(m, x) \/ Asking(m, x), NEW k, k = ChainAt(recs, m), Linked(recs, m),
           m.method \notin {"Write", "Query", "Subscribe"} /\ x.record \in DOMAIN recs
                => Immutable(recs[x.record].initial) = Immutable(x),
           NEW d, Proper(d), x.path \in DOMAIN d.structure,
           NEW rule \in ToSet(d.structure[x.path].actions), NEW b,
           rule.can \cap Does(m, b) # {}
    PROVE  RuleAllows(rule, m, k)
            <=> /\ m.author # None \/ rule.who = "anyone"
                /\ m.author \in Named(rule, m, x, Lineage(recs, Above(recs, m, x)))
<1>0. PICK A : A = Above(recs, m, x)
  OBVIOUS
<1>1. /\ ToSet(k) = Lineage(recs, A) /\ \A a \in ToSet(k) : a.path # None
      /\ m.method \notin {"Write", "Query", "Subscribe"}
            => Last(k) = recs[x.record].initial /\ x.record \in DOMAIN recs
  BY <1>0, ChainHas
<1>2. ASSUME rule.who = "recipient", rule.of = None, m.role = None
      PROVE  IsRecipient(m, k) <=> x.recipient = m.author
  <2>1. CASE m.method = "Write"
    BY <2>1 DEF IsRecipient, Situated, Asking
  <2>2. CASE m.method \in {"Query", "Subscribe"}
    <3>1. rule.can \subseteq CoActions
      BY <1>2 DEF Proper
    <3>2. Does(m, b) \subseteq {"query", "subscribe"}
      BY <2>2 DEF Does
    <3> QED  BY <3>1, <3>2 DEF CoActions
  <2>3. CASE m.method \notin {"Write", "Query", "Subscribe"}
    <3>1. Last(k).recipient = x.recipient
      BY <1>1, <2>3 DEF Immutable
    <3> QED  BY <2>3, <3>1 DEF IsRecipient
  <2> QED  BY <2>1, <2>2, <2>3
<1>3. RuleAllows(rule, m, k)
            <=> /\ m.author # None \/ rule.who = "anyone"
                /\ m.author \in Named(rule, m, x, ToSet(k))
  BY <1>1, <1>2, NamedIs
<1> QED  BY <1>0, <1>1, <1>3

LEMMA AllowsIs ==
    ASSUME NEW recs, RecordsOK(recs), NEW m \in Message, m.interface = "Records", NEW x,
           Situated(m, x) \/ Asking(m, x), NEW k, k = ChainAt(recs, m), Linked(recs, m),
           m.method \notin {"Write", "Query", "Subscribe"} /\ x.record \in DOMAIN recs
                => Immutable(recs[x.record].initial) = Immutable(x),
           NEW d, Proper(d), x.path \in DOMAIN d.structure,
           NEW b
    PROVE  ActionAllowed(RuleSetAt(x.path, d), m, ActionsSought(m, b), k)
            <=> \E rule \in ToSet(d.structure[x.path].actions) :
                    /\ rule.can \cap Does(m, b) # {}
                    /\ m.author # None \/ rule.who = "anyone"
                    /\ m.author \in Named(rule, m, x, Lineage(recs, Above(recs, m, x)))
<1>1. RuleSetAt(x.path, d) = d.structure[x.path]
  BY RuleSetIs
<1>2. ActionsSought(m, b) = Does(m, b)
  BY SoughtIs
<1>3. PICK R, A : R = ToSet(d.structure[x.path].actions) /\ A = Lineage(recs, Above(recs, m, x))
  OBVIOUS
<1>4. ASSUME NEW rule \in R, rule.can \cap Does(m, b) # {}
      PROVE  RuleAllows(rule, m, k)
                <=> /\ m.author # None \/ rule.who = "anyone"
                    /\ m.author \in Named(rule, m, x, A)
  BY <1>3, <1>4, RuleIs
<1> QED  BY <1>1, <1>2, <1>3, <1>4 DEF ActionAllowed

LEMMA InitialKept ==
    ASSUME NEW recs, RecordsOK(recs), NEW m, NEW x, Situated(m, x), x.record \in DOMAIN recs
    PROVE  Immutable(recs[x.record].initial) = Immutable(x)
<1>1. PICK a \in Message : a.initial /\ a.record = x.record /\ Immutable(a) = Immutable(x)
  BY DEF Situated
<1>2. PICK b : b = recs[x.record].initial
  OBVIOUS
<1>3. b \in Message /\ b.initial /\ b.record = x.record
  BY <1>2, StoredLine
<1> QED  BY <1>1, <1>2, <1>3, RequestAssumption

\* A role is asked for in a context of whole record IDs.
InWhole(m, x) == m.role # None => Whole(x.context, m.role)

\* The handler's decision is that of the rules.
LEMMA DecisionIs ==
    ASSUME NEW v, ViewOK(v), NEW u, ViewOK(u), NEW t, ViewOK(t), NEW s, ViewOK(s),
           NEW m \in Message, m.interface = "Records", NEW x,
           Situated(m, x) \/ Asking(m, x)
    PROVE  /\ (\E d \in DefinitionsSeen(v, x.protocol) :
                    Entitled(d, u.records, t.records, s.records, m, x))
              => ByTheRules(v, u, t, s, m, x)
           /\ ByTheRules(v, u, t, s, m, x) /\ InWhole(m, x)
              => \E d \in DefinitionsSeen(v, x.protocol) :
                    Entitled(d, u.records, t.records, s.records, m, x)
<1>r. PICK roles, above, recs, k, A, D, b :
        /\ roles = u.records /\ above = t.records /\ recs = s.records
        /\ k = ChainAt(above, m) /\ A = Above(above, m, x)
        /\ D = DefinitionsSeen(v, x.protocol) /\ b = InitialOr(recs, m)
  OBVIOUS
<1>1. RecordsOK(roles) /\ RecordsOK(above) /\ RecordsOK(recs)
  BY <1>r DEF ViewOK
<1>2. D = Definitions(v.configures, x.protocol) /\ \A d \in D : Proper(d)
  BY <1>r, DefinitionsAre, DefinitionProper DEF ViewOK
<1>3. /\ x \in Message /\ x.protocol # None /\ x.record = m.record
      /\ WellFormed(m) /\ WellFormed(x) /\ (m.method = "Write" => x = m)
  BY RequestAssumption DEF Situated, Asking
<1>4. Linked(above, m) <=> A \subseteq DOMAIN above
  BY <1>r, <1>1, ChainHas
<1>5. m.method \notin {"Write", "Query", "Subscribe"} /\ x.record \in DOMAIN above
        => Immutable(above[x.record].initial) = Immutable(x)
  BY <1>1, InitialKept DEF Asking
<1>6. m.method = "Write" /\ x.record \in DOMAIN recs
        => Immutable(recs[x.record].initial) = Immutable(m)
  BY <1>1, <1>3, InitialKept DEF Asking
<1> DEFINE
      Hold(d) == /\ m.role \in DOMAIN d.structure /\ d.structure[m.role].role
                 /\ m.author \in Holders(roles, m.role, x.protocol, x.context)
      RoleIs(d) == /\ Hold(d) => RoleHeld(roles, m, x.protocol, x.context, d)
                   /\ RoleHeld(roles, m, x.protocol, x.context, d) /\ InWhole(m, x) => Hold(d)
<1>7. ASSUME NEW d \in D, x.path \in DOMAIN d.structure, Linked(above, m)
      PROVE  /\ RuleSetAt(x.path, d) # None
             /\ m.role # None => RoleIs(d)
             /\ ActionAllowed(RuleSetAt(x.path, d), m, ActionsSought(m, b), k)
                    <=> \E rule \in ToSet(d.structure[x.path].actions) :
                            /\ rule.can \cap Does(m, b) # {}
                            /\ m.author # None \/ rule.who = "anyone"
                            /\ m.author \in Named(rule, m, x, Lineage(above, A))
  <2>0. Proper(d)
    BY <1>2, <1>7
  <2>1. RuleSetAt(x.path, d) # None
    BY <1>7, <2>0, RuleSetIs
  <2>2. x.context # None => Sequence(x.context)
    BY <1>3 DEF WellFormed
  <2>3. ASSUME m.role # None
        PROVE  RoleIs(d)
    BY <1>1, <1>3, <2>0, <2>2, <2>3, HeldIs DEF InWhole
  <2>4. ActionAllowed(RuleSetAt(x.path, d), m, ActionsSought(m, b), k)
            <=> \E rule \in ToSet(d.structure[x.path].actions) :
                    /\ rule.can \cap Does(m, b) # {}
                    /\ m.author # None \/ rule.who = "anyone"
                    /\ m.author \in Named(rule, m, x, Lineage(above, A))
    BY <1>r, <1>1, <1>5, <1>7, <2>0, AllowsIs
  <2> QED  BY <2>1, <2>3, <2>4
<1>8. \A d \in D : Entitled(d, roles, above, recs, m, x)
        <=> /\ x.path \in DOMAIN d.structure
            /\ m.role # None => Hold(d)
            /\ A \subseteq DOMAIN above
            /\ m.method = "Delete" \/ (m.method = "Write" /\ ~m.initial)
                    => m.record \in DOMAIN recs
            /\ \E rule \in ToSet(d.structure[x.path].actions) :
                    /\ rule.can \cap Does(m, b) # {}
                    /\ m.author # None \/ rule.who = "anyone"
                    /\ m.author \in Named(rule, m, x, Lineage(above, A))
  BY <1>r, <1>3, <1>6 DEF Entitled, InitialOr
<1>9. ByTheRules(v, u, t, s, m, x)
        <=> /\ Linked(above, m)
            /\ \E d \in D :
                /\ RuleSetAt(x.path, d) # None
                /\ m.role # None => RoleHeld(roles, m, x.protocol, x.context, d)
                /\ m.method = "Delete" \/ (m.method = "Write" /\ ~m.initial)
                        => m.record \in DOMAIN recs
                /\ ActionAllowed(RuleSetAt(x.path, d), m, ActionsSought(m, b), k)
  BY <1>r, <1>2 DEF ByTheRules, AllowsIt
<1>10. \A d \in D : RuleSetAt(x.path, d) # None <=> x.path \in DOMAIN d.structure
  BY <1>2, RuleSetIs
<1> QED  BY <1>r, <1>4, <1>7, <1>8, <1>9, <1>10

----------------------------------------------------------------------------
\* Only valid definitions are ever stored.
ConfiguresValid ==
    /\ configures \subseteq ValidConfigures
    /\ \A p \in Configurer :
        cpc[p] \in {"authorize", "query", "put"} => creq[p] \in ValidConfigures

LEMMA ConfiguresValidInit == CInit => ConfiguresValid
BY DEF CInit, ConfiguresValid, ValidConfigures

LEMMA ConfiguresValidStep ==
    ConfigureTypeOK /\ ConfiguresValid /\ [CNext]_cvars => ConfiguresValid'
<1> SUFFICES ASSUME ConfigureTypeOK, ConfiguresValid, [CNext]_cvars PROVE ConfiguresValid'
  OBVIOUS
<1> USE DEF ConfigureTypeOK, ConfiguresValid
<1>1. ASSUME NEW p \in Configurer, NEW m \in Configure, ReceiveConfigure(p, m)
      PROVE  ConfiguresValid'
  BY <1>1 DEF ReceiveConfigure, stores, ValidConfigures
<1>2. ASSUME NEW p \in Configurer, AuthorizeConfigure(p) \/ RefuseConfigure(p)
      PROVE  ConfiguresValid'
  BY <1>2 DEF AuthorizeConfigure, RefuseConfigure, Goto, stores
<1>3. ASSUME NEW p \in Configurer, FindConfigures(p) PROVE ConfiguresValid'
  BY <1>3 DEF FindConfigures, stores
<1>4. ASSUME NEW p \in Configurer, PutConfigure(p) PROVE ConfiguresValid'
  BY <1>4 DEF PutConfigure, Goto
<1>5. ASSUME NEW p \in Configurer,
             AppendConfigure(p) \/ OlderDeleted(p) \/ DeleteConfigureEvents(p)
      PROVE  ConfiguresValid'
  BY <1>5 DEF AppendConfigure, OlderDeleted, DeleteConfigureEvents, Goto, stores
<1>6. ASSUME NEW p \in Configurer, NEW m \in Configure, DeleteOlder(p, m)
      PROVE  ConfiguresValid'
  BY <1>6 DEF DeleteOlder, handler
<1>7. ASSUME StopConfigures PROVE ConfiguresValid'
  BY <1>7 DEF StopConfigures, stores
<1>8. ASSUME UNCHANGED cvars PROVE ConfiguresValid'
  BY <1>8 DEF cvars, stores, handler
<1> QED  BY <1>1, <1>2, <1>3, <1>4, <1>5, <1>6, <1>7, <1>8 DEF CNext, ConfigureStep

----------------------------------------------------------------------------
\* What a handler knows of the rules.
SubjectOf(m, w) == IF w = None THEN m ELSE w

ByRule(m, w) ==
    /\ m.interface = "Records" /\ SubjectOf(m, w).protocol # None
    /\ ~AllowedAtOnce(m, w) /\ ~GrantInvoked(m)

Found(recs, m, w) ==
    /\ m.record \in DOMAIN recs
    /\ w = IF m.method = "Read" /\ IsLive(recs, m.record) THEN recs[m.record].newest
           ELSE recs[m.record].initial

Walked(V, m, c) == \E t \in V : Linked(t.records, m) /\ c = ChainAt(t.records, m)

Ruled(V, x, d) ==
    RuleSetAt(x.path, d) # None /\ \E v \in V : d \in Definitions(v.configures, x.protocol)

InRole(V, m, x, d) ==
    m.role # None => \E u \in V : RoleHeld(u.records, m, x.protocol, x.context, d)

RuleAllowed(V, m, x) == \E v, u, t, s \in V : ByTheRules(v, u, t, s, m, x)

RuleDenied(V, m, x) == \A v \in V : V = {v} => ~ByTheRules(v, v, v, v, m, x)

\* The definition (d) it fetched and the chain (c) it built, at each label.
Ruling(label, m, w, d, c, V) ==
    /\ \A v \in V : ViewOK(v)
    /\ m.method \notin {"Read", "Delete"} => w = None
    /\ label = "find" => m.method \in {"Read", "Delete"}
    /\ m.interface = "Records" /\ m.method \in {"Read", "Delete"}
            /\ label \in Checked \cup {"unauthorized"} => \E u \in V : Found(u.records, m, w)
    /\ m.method \in {"Query", "Subscribe"} => c = <<>> /\ label # "chain"
    /\ label \in {"chain", "fetch", "role", "rules"} => ByRule(m, w)
    /\ label \in {"fetch", "role", "rules"} => Walked(V, m, c)
    /\ label \in {"role", "rules"} => Ruled(V, SubjectOf(m, w), d)
    /\ label = "rules" => InRole(V, m, SubjectOf(m, w), d)
    /\ label \in {"process", "accepted"} /\ ByRule(m, w)
            => RuleAllowed(V, m, SubjectOf(m, w))
    /\ label = "unauthorized" /\ ByRule(m, w) /\ m.delegated = None /\ m.owner = None
            => RuleDenied(V, m, SubjectOf(m, w))

RulingOK(p) ==
    IF pc[p] = "idle" THEN target[p] = None /\ chain[p] = <<>>
    ELSE Ruling(pc[p], req[p], target[p], def[p], chain[p], views[p])

RulesInv ==
    /\ AuthInv
    /\ ConfiguresValid
    /\ DOMAIN chain = Handler
    /\ \A p \in Handler : RulingOK(p)

----------------------------------------------------------------------------
LEMMA RulesSeenMore ==
    ASSUME NEW V, NEW W, V \subseteq W, NEW m, NEW x
    PROVE  /\ \A c : Walked(V, m, c) => Walked(W, m, c)
           /\ \A d : Ruled(V, x, d) => Ruled(W, x, d)
           /\ \A d : InRole(V, m, x, d) => InRole(W, m, x, d)
           /\ RuleAllowed(V, m, x) => RuleAllowed(W, m, x)
           /\ V # {} /\ RuleDenied(V, m, x) => RuleDenied(W, m, x)
<1>1. \A c : Walked(V, m, c) => Walked(W, m, c)
  BY DEF Walked
<1>2. \A d : Ruled(V, x, d) => Ruled(W, x, d)
  BY DEF Ruled
<1>3. \A d : InRole(V, m, x, d) => InRole(W, m, x, d)
  BY DEF InRole
<1>4. RuleAllowed(V, m, x) => RuleAllowed(W, m, x)
  BY DEF RuleAllowed
<1>5. ASSUME V # {}, RuleDenied(V, m, x), NEW v \in W, W = {v}
      PROVE  ~ByTheRules(v, v, v, v, m, x)
  <2>1. V = {v}
    BY <1>5
  <2> QED  BY <1>5, <2>1 DEF RuleDenied
<1> QED  BY <1>1, <1>2, <1>3, <1>4, <1>5 DEF RuleDenied

LEMMA RulingGrows ==
    ASSUME NEW V, NEW v, ViewOK(v), V # {},
           NEW label, NEW m, NEW w, NEW d, NEW c, Ruling(label, m, w, d, c, V)
    PROVE  Ruling(label, m, w, d, c, V \cup {v})
<1> DEFINE W == V \cup {v}
<1>1. V \subseteq W
  OBVIOUS
<1>2. \A u \in W : ViewOK(u)
  BY DEF Ruling
<1> HIDE DEF W
<1>3. Ruling(label, m, w, d, c, W)
  BY <1>1, <1>2, RulesSeenMore DEF Ruling
<1> QED  BY <1>3 DEF W

\* The stores as a handler sees them.
ViewsOK == ViewOK(Now)

LEMMA RulingOnwards ==
    ASSUME NEW p, HandlerOK(p), RulingOK(p), ViewsOK', Watches(p),
           pc[p] # "idle", pc'[p] # "idle"
    PROVE  /\ Now \in views'[p]
           /\ Ruling(pc[p], req[p], target[p], def[p], chain[p], views'[p])
<1>1. PICK now : now = Now'
  OBVIOUS
<1>2. ViewOK(now)
  BY <1>1 DEF ViewsOK
<1>3. views'[p] = views[p] \cup {now} /\ Now \in views[p]
  BY <1>1 DEF Watches, HandlerOK
<1>4. Ruling(pc[p], req[p], target[p], def[p], chain[p], views[p])
  BY DEF RulingOK
<1>5. views[p] # {}
  BY <1>3
<1> QED  BY <1>2, <1>3, <1>4, <1>5, RulingGrows

LEMMA OthersRule ==
    ASSUME NEW p, HandlerOK(p), RulingOK(p), ViewsOK', Watches(p),
           pc'[p] = pc[p], req'[p] = req[p], target'[p] = target[p], def'[p] = def[p],
           chain'[p] = chain[p]
    PROVE  RulingOK(p)'
<1>1. CASE pc[p] = "idle"
  BY <1>1 DEF RulingOK
<1>2. CASE pc[p] # "idle"
  BY <1>2, RulingOnwards DEF RulingOK
<1> QED  BY <1>1, <1>2

----------------------------------------------------------------------------
\* What a step has to show of a handler that goes on.
LEMMA RulesReceive ==
    ASSUME RulesInv, ViewsOK', NEW p \in Handler, Watches(p), NEW m \in pending, Receive(p, m)
    PROVE  RulingOK(p)'
<1>r. PICK l, w, d, c, W, now :
        /\ l = pc'[p] /\ w = target'[p] /\ d = def'[p] /\ c = chain'[p]
        /\ W = views'[p] /\ now = Now'
  OBVIOUS
<1>1. /\ req'[p] = m /\ m \in Message /\ w = None /\ c = <<>>
      /\ l = (CASE m.method = "Write" /\ m.protocol # None -> "definition"
               [] m.method \in {"Read", "Delete"} -> "find"
               [] OTHER -> "delegate")
  BY <1>r DEF Receive, RulesInv, RulingOK, AuthInv, At, Locals, Go
<1>2. /\ l \in {"definition", "find", "delegate"}
      /\ l = "find" => m.method \in {"Read", "Delete"}
      /\ l = "delegate" => m.method \notin {"Read", "Delete"}
  BY <1>1
<1>3. W = {now}
  BY <1>r, <1>1, <1>2 DEF Watches, RulesInv, AuthInv, HandlerOK, Receive, At
<1>4. ViewOK(now)
  BY <1>r DEF ViewsOK
<1>5. Ruling(l, m, w, d, c, W)
  BY <1>1, <1>2, <1>3, <1>4 DEF Ruling, Checked, Judged
<1> QED  BY <1>r, <1>1, <1>2, <1>5 DEF RulingOK

LEMMA RulesDefinition ==
    ASSUME RulesInv, ViewsOK', NEW p \in Handler, Watches(p),
           CheckDefinition(p) \/ CheckParent(p) \/ CheckRuleSet(p)
    PROVE  RulingOK(p)'
<1>r. PICK k, l, m, w, d, c, W :
        /\ k = pc[p] /\ l = pc'[p] /\ m = req[p] /\ w = target[p] /\ d = def'[p]
        /\ c = chain[p] /\ W = views'[p]
  OBVIOUS
<1>1. /\ k \in {"definition", "parent", "ruleset"}
      /\ l \in {"parent", "ruleset", "delegate", "invalid"}
      /\ req'[p] = m /\ target'[p] = w /\ chain'[p] = c
  BY <1>r DEF CheckDefinition, CheckParent, CheckRuleSet, RulesInv, AuthInv, At, Locals, Go,
     Keep, local
<1>2. HandlerOK(p) /\ RulingOK(p) /\ pc[p] # "idle" /\ pc'[p] # "idle"
  BY <1>1, <1>r DEF RulesInv, AuthInv
<1>3. Ruling(k, m, w, def[p], c, W)
  BY <1>r, <1>2, RulingOnwards
<1>4. m.method = "Write"
  BY <1>1, <1>2, <1>r DEF HandlerOK, Knowledge, IsWriting
<1>5. Ruling(l, m, w, d, c, W)
  BY <1>1, <1>3, <1>4 DEF Ruling
<1> QED  BY <1>r, <1>1, <1>2, <1>5 DEF RulingOK

LEMMA RulesFind ==
    ASSUME RulesInv, ViewsOK', NEW p \in Handler, Watches(p), Find(p)
    PROVE  RulingOK(p)'
<1>r. PICK l, m, w, d, c, W, now :
        /\ l = pc'[p] /\ m = req[p] /\ w = target'[p] /\ d = def[p] /\ c = chain[p]
        /\ W = views'[p] /\ now = Now
  OBVIOUS
<1>1. /\ pc[p] = "find" /\ l \in {"delegate", "invalid"}
      /\ req'[p] = m /\ def'[p] = d /\ chain'[p] = c
  BY <1>r DEF Find, RulesInv, AuthInv, At, Locals, Go
<1>2. HandlerOK(p) /\ RulingOK(p) /\ pc[p] # "idle" /\ pc'[p] # "idle"
  BY <1>1, <1>r DEF RulesInv, AuthInv
<1>3. Ruling("find", m, target[p], d, c, W) /\ now \in W
  BY <1>r, <1>1, <1>2, RulingOnwards
<1>4. m.method \in {"Read", "Delete"}
  BY <1>3 DEF Ruling
<1>5. ASSUME l = "delegate", m.interface = "Records" PROVE Found(now.records, m, w)
  <2> DEFINE matches == {x \in Stored : /\ m.record \in DOMAIN records
                                        /\ IF m.method = "Read" THEN x = Readable(m.record)
                                           ELSE /\ CanDelete(m, records[m.record].newest)
                                                /\ x = records[m.record].initial}
  <2>1. matches # {} /\ w \in matches
    BY <1>r, <1>1, <1>5 DEF Find, RulesInv, AuthInv, At, Locals, Go
  <2>2. m.record \in DOMAIN records
        /\ w = IF m.method = "Read" THEN Readable(m.record) ELSE records[m.record].initial
    BY <2>1
  <2>3. now.records = records
    BY <1>r DEF Now
  <2> QED  BY <2>2, <2>3 DEF Found, Readable
<1>6. Ruling(l, m, w, d, c, W)
  BY <1>1, <1>3, <1>4, <1>5 DEF Ruling, Checked, Judged
<1> QED  BY <1>r, <1>1, <1>2, <1>6 DEF RulingOK

LEMMA RulesDelegate ==
    ASSUME RulesInv, ViewsOK', NEW p \in Handler, Watches(p), CheckDelegate(p)
    PROVE  RulingOK(p)'
<1>r. PICK l, m, w, d, c, W :
        /\ l = pc'[p] /\ m = req[p] /\ w = target[p] /\ d = def[p] /\ c = chain[p]
        /\ W = views'[p]
  OBVIOUS
<1>1. /\ pc[p] = "delegate" /\ l \in {"authorize", "unauthorized"}
      /\ l = "unauthorized" => m.delegated # None \/ m.owner # None
      /\ req'[p] = m /\ target'[p] = w /\ def'[p] = d /\ chain'[p] = c
  BY <1>r DEF CheckDelegate, RulesInv, AuthInv, At, Locals, Go, Keep, local
<1>2. HandlerOK(p) /\ RulingOK(p) /\ pc[p] # "idle" /\ pc'[p] # "idle"
  BY <1>1, <1>r DEF RulesInv, AuthInv
<1>3. Ruling("delegate", m, w, d, c, W)
  BY <1>r, <1>1, <1>2, RulingOnwards
<1>4. Ruling(l, m, w, d, c, W)
  BY <1>1, <1>3 DEF Ruling, Checked, Judged
<1> QED  BY <1>r, <1>1, <1>2, <1>4 DEF RulingOK

LEMMA RulesAuthorize ==
    ASSUME RulesInv, ViewsOK', NEW p \in Handler, Watches(p), Authorize(p)
    PROVE  RulingOK(p)'
<1>r. PICK l, m, w, d, c, W, x :
        /\ l = pc'[p] /\ m = req[p] /\ w = target[p] /\ d = def[p] /\ c = chain[p]
        /\ W = views'[p] /\ x = SubjectOf(m, w)
  OBVIOUS
<1>1. /\ pc[p] = "authorize"
      /\ req'[p] = m /\ target'[p] = w /\ def'[p] = d /\ chain'[p] = c
      /\ l = IF AllowedAtOnce(m, w) THEN Act(m)
             ELSE IF GrantInvoked(m) THEN "grant"
             ELSE IF m.interface # "Records" \/ x.protocol = None THEN Refusal(m)
             ELSE IF m.method \in {"Query", "Subscribe"} THEN "fetch"
             ELSE "chain"
  BY <1>r DEF Authorize, RulesInv, AuthInv, At, Locals, Go, Keep, local, Subject, SubjectOf
<1>2. \/ ~ByRule(m, w) /\ l \in {Act(m), "grant", Refusal(m)}
      \/ ByRule(m, w) /\ m.method \in {"Query", "Subscribe"} /\ l = "fetch"
      \/ ByRule(m, w) /\ m.method \notin {"Query", "Subscribe"} /\ l = "chain"
  BY <1>r, <1>1 DEF ByRule
<1>3. /\ l \in {"process", "accepted", "grant", "unauthorized", "published", "fetch", "chain"}
      /\ Act(m) \in {"process", "accepted"} /\ Refusal(m) \in {"unauthorized", "published"}
  BY <1>2, ActOf
<1>4. HandlerOK(p) /\ RulingOK(p) /\ pc[p] # "idle" /\ pc'[p] # "idle"
  BY <1>1, <1>3, <1>r DEF RulesInv, AuthInv
<1>5. Ruling("authorize", m, w, d, c, W) /\ Now \in W
  BY <1>r, <1>1, <1>4, RulingOnwards
<1>6. l = "fetch" => Walked(W, m, c)
  <2> SUFFICES ASSUME l = "fetch" PROVE Walked(W, m, c)
    OBVIOUS
  <2>1. m.method \in {"Query", "Subscribe"}
    BY <1>2, <1>3
  <2>2. c = <<>>
    BY <1>5, <2>1 DEF Ruling
  <2> QED  BY <1>5, <2>1, <2>2 DEF Walked, Linked, ChainAt
<1>7. /\ l \in {"chain", "fetch"} => ByRule(m, w)
      /\ l = "chain" => m.method \notin {"Query", "Subscribe"}
      /\ l \in {"process", "accepted"} => ~ByRule(m, w)
      /\ l = "unauthorized" => ~ByRule(m, w)
  BY <1>2, <1>3
<1>8. Ruling(l, m, w, d, c, W)
  BY <1>3, <1>5, <1>6, <1>7 DEF Ruling, Checked, Judged
<1> QED  BY <1>r, <1>1, <1>4, <1>8 DEF RulingOK

\* Who comes with a grant is judged by the grant.
LEMMA RulesGrant ==
    ASSUME RulesInv, ViewsOK', NEW p \in Handler, Watches(p), LookUpGrant(p) \/ CheckGrant(p)
    PROVE  RulingOK(p)'
<1>r. PICK k, l, m, w, d, c, W :
        /\ k = pc[p] /\ l = pc'[p] /\ m = req[p] /\ w = target[p] /\ d = def[p]
        /\ c = chain[p] /\ W = views'[p]
  OBVIOUS
<1>1. /\ k \in {"grant", "scope"} /\ l \in {"unauthorized", "scope", Act(m), Refusal(m)}
      /\ req'[p] = m /\ target'[p] = w /\ def'[p] = d /\ chain'[p] = c
  BY <1>r DEF LookUpGrant, CheckGrant, RulesInv, AuthInv, At, Locals, Go, Keep, local
<1>2. l \in {"unauthorized", "scope", "process", "accepted", "published"}
  BY <1>1, ActOf
<1>3. HandlerOK(p) /\ RulingOK(p) /\ pc[p] # "idle" /\ pc'[p] # "idle"
  BY <1>1, <1>2, <1>r DEF RulesInv, AuthInv
<1>4. Ruling(k, m, w, d, c, W)
  BY <1>r, <1>3, RulingOnwards
<1>5. ~ByRule(m, w)
  BY <1>1, <1>3, <1>r DEF HandlerOK, Knowledge, ByGrant, ByRule
<1>6. Ruling(l, m, w, d, c, W)
  BY <1>1, <1>2, <1>4, <1>5 DEF Ruling, Checked, Judged
<1> QED  BY <1>r, <1>1, <1>3, <1>6 DEF RulingOK

\* The rules: what was found at each look, and what is missing where it ends.
LEMMA RulesChain ==
    ASSUME RulesInv, ViewsOK', NEW p \in Handler, Watches(p), BuildChain(p)
    PROVE  RulingOK(p)'
<1>r. PICK l, m, w, d, c, W, now, x :
        /\ l = pc'[p] /\ m = req[p] /\ w = target[p] /\ d = def[p] /\ c = chain'[p]
        /\ W = views'[p] /\ now = Now /\ x = SubjectOf(m, w)
  OBVIOUS
<1>1. /\ pc[p] = "chain" /\ req'[p] = m /\ target'[p] = w /\ def'[p] = d
      /\ c = ChainTo(now.records, ChainStart(now.records, m))
      /\ l = IF ChainStart(now.records, m) = None \/ c # <<>> THEN "fetch"
             ELSE "unauthorized"
  BY <1>r DEF BuildChain, RulesInv, AuthInv, At, Locals, Go, Now
<1>2. HandlerOK(p) /\ RulingOK(p) /\ pc[p] # "idle" /\ pc'[p] # "idle"
  BY <1>1, <1>r DEF RulesInv, AuthInv
<1>3. Ruling("chain", m, w, d, chain[p], W) /\ now \in W
  BY <1>r, <1>1, <1>2, RulingOnwards
<1>4. m.method \notin {"Query", "Subscribe"} /\ ByRule(m, w)
  BY <1>3 DEF Ruling
<1>5. /\ c = ChainAt(now.records, m)
      /\ l = IF Linked(now.records, m) THEN "fetch" ELSE "unauthorized"
  BY <1>1, <1>4 DEF ChainAt, Linked
<1>6. l = "fetch" => Walked(W, m, c)
  BY <1>3, <1>5 DEF Walked
<1>7. l = "unauthorized" => RuleDenied(W, m, x)
  BY <1>3, <1>5 DEF RuleDenied, ByTheRules
<1>8. Ruling(l, m, w, d, c, W)
  BY <1>r, <1>3, <1>4, <1>5, <1>6, <1>7 DEF Ruling, Checked, Judged
<1> QED  BY <1>r, <1>1, <1>2, <1>8 DEF RulingOK

LEMMA RulesFetch ==
    ASSUME RulesInv, ViewsOK', NEW p \in Handler, Watches(p), FetchDefinition(p)
    PROVE  RulingOK(p)'
<1>r. PICK l, m, w, d, c, W, now, x :
        /\ l = pc'[p] /\ m = req[p] /\ w = target[p] /\ d = def'[p] /\ c = chain[p]
        /\ W = views'[p] /\ now = Now /\ x = SubjectOf(m, w)
  OBVIOUS
<1> DEFINE D == Definitions(now.configures, x.protocol)
<1> DEFINE fine == \E e \in D : RuleSetAt(x.path, e) # None
<1>1. /\ pc[p] = "fetch" /\ req'[p] = m /\ target'[p] = w /\ chain'[p] = c
      /\ d = IF fine THEN CHOOSE e \in D : TRUE ELSE None
      /\ l = IF fine THEN "role" ELSE "unauthorized"
  BY <1>r DEF FetchDefinition, RulesInv, AuthInv, At, Locals, Go, Now, Subject, SubjectOf
<1>2. HandlerOK(p) /\ RulingOK(p) /\ pc[p] # "idle" /\ pc'[p] # "idle"
  BY <1>1, <1>r DEF RulesInv, AuthInv
<1>3. Ruling("fetch", m, w, def[p], c, W) /\ now \in W
  BY <1>r, <1>1, <1>2, RulingOnwards
<1>4. now.configures \subseteq Configure
  BY <1>3 DEF Ruling, ViewOK, ValidConfigures
<1>5. ASSUME l = "role" PROVE Ruled(W, x, d)
  <2>1. PICK e \in D : RuleSetAt(x.path, e) # None
    BY <1>1, <1>5
  <2>2. d \in D
    BY <1>1, <2>1
  <2>3. d = e
    BY <1>4, <2>1, <2>2, OneDefinition
  <2> QED  BY <1>3, <2>1, <2>2, <2>3 DEF Ruled
<1>6. l = "unauthorized" => RuleDenied(W, m, x)
  BY <1>1, <1>3 DEF RuleDenied, ByTheRules
<1> HIDE DEF D
<1>7. l \in {"role", "unauthorized"}
  BY <1>1
<1>8. Ruling(l, m, w, d, c, W)
  BY <1>r, <1>3, <1>5, <1>6, <1>7 DEF Ruling, Checked, Judged
<1> QED  BY <1>r, <1>1, <1>2, <1>8 DEF RulingOK

LEMMA RulesRole ==
    ASSUME RulesInv, ViewsOK', NEW p \in Handler, Watches(p), CheckRole(p)
    PROVE  RulingOK(p)'
<1>r. PICK l, m, w, d, c, W, now, x :
        /\ l = pc'[p] /\ m = req[p] /\ w = target[p] /\ d = def[p] /\ c = chain[p]
        /\ W = views'[p] /\ now = Now /\ x = SubjectOf(m, w)
  OBVIOUS
<1> DEFINE fine == \/ m.role = None
                   \/ RoleHeld(now.records, m, x.protocol, x.context, d)
<1>1. /\ pc[p] = "role" /\ req'[p] = m /\ target'[p] = w /\ def'[p] = d /\ chain'[p] = c
      /\ l = IF fine THEN "rules" ELSE "unauthorized"
  BY <1>r DEF CheckRole, RulesInv, AuthInv, At, Locals, Go, Keep, local, Now, Subject, SubjectOf
<1>2. HandlerOK(p) /\ RulingOK(p) /\ pc[p] # "idle" /\ pc'[p] # "idle"
  BY <1>1, <1>r DEF RulesInv, AuthInv
<1>3. Ruling("role", m, w, d, c, W) /\ now \in W
  BY <1>r, <1>1, <1>2, RulingOnwards
<1>4. l = "rules" => InRole(W, m, x, d)
  BY <1>1, <1>3 DEF InRole
<1>5. ASSUME l = "unauthorized", NEW v \in W, W = {v} PROVE ~ByTheRules(v, v, v, v, m, x)
  <2>1. v = now /\ v.configures \subseteq Configure
    BY <1>3, <1>5 DEF Ruling, ViewOK, ValidConfigures
  <2>2. d \in Definitions(v.configures, x.protocol)
    BY <1>r, <1>3, <1>5 DEF Ruling, Ruled
  <2>3. \A e \in Definitions(v.configures, x.protocol) : e = d
    BY <2>1, <2>2, OneDefinition
  <2>4. m.role # None /\ ~RoleHeld(v.records, m, x.protocol, x.context, d)
    BY <1>1, <1>5, <2>1
  <2> QED  BY <2>3, <2>4 DEF ByTheRules
<1>6. l = "unauthorized" => RuleDenied(W, m, x)
  BY <1>5 DEF RuleDenied
<1>7. l \in {"rules", "unauthorized"}
  BY <1>1
<1>8. Ruling(l, m, w, d, c, W)
  BY <1>r, <1>3, <1>4, <1>6, <1>7 DEF Ruling, Checked, Judged
<1> QED  BY <1>r, <1>1, <1>2, <1>8 DEF RulingOK

LEMMA RulesRules ==
    ASSUME RulesInv, ViewsOK', NEW p \in Handler, Watches(p), CheckRules(p)
    PROVE  RulingOK(p)'
<1>r. PICK l, m, w, d, c, W, now, x :
        /\ l = pc'[p] /\ m = req[p] /\ w = target[p] /\ d = def[p] /\ c = chain[p]
        /\ W = views'[p] /\ now = Now /\ x = SubjectOf(m, w)
  OBVIOUS
<1>1. /\ pc[p] = "rules" /\ req'[p] = m /\ target'[p] = w /\ def'[p] = d /\ chain'[p] = c
      /\ l = IF AllowsIt(now.records, m, x, d, c) THEN Act(m) ELSE "unauthorized"
  BY <1>r DEF CheckRules, RulesInv, AuthInv, At, Locals, Go, Keep, local, Now, Subject,
     SubjectOf, AllowsIt, InitialOr
<1>2. l \in {"process", "accepted", "unauthorized"} /\ Act(m) # "unauthorized"
  BY <1>1, ActOf
<1>3. HandlerOK(p) /\ RulingOK(p) /\ pc[p] # "idle" /\ pc'[p] # "idle"
  BY <1>1, <1>2, <1>r DEF RulesInv, AuthInv
<1>4. Ruling("rules", m, w, d, c, W) /\ now \in W
  BY <1>r, <1>1, <1>3, RulingOnwards
<1>5. Walked(W, m, c) /\ Ruled(W, x, d) /\ InRole(W, m, x, d)
  BY <1>r, <1>4 DEF Ruling
<1>6. PICK t \in W : Linked(t.records, m) /\ c = ChainAt(t.records, m)
  BY <1>5 DEF Walked
<1>7. PICK v \in W : d \in Definitions(v.configures, x.protocol)
  BY <1>5 DEF Ruled
<1>8. ASSUME l # "unauthorized" PROVE RuleAllowed(W, m, x)
  <2>1. PICK u \in W : m.role # None => RoleHeld(u.records, m, x.protocol, x.context, d)
    BY <1>4, <1>5 DEF InRole
  <2>2. RuleSetAt(x.path, d) # None /\ AllowsIt(now.records, m, x, d, c)
    BY <1>1, <1>5, <1>8 DEF Ruled
  <2>3. ByTheRules(v, u, t, now, m, x)
    BY <1>6, <1>7, <2>1, <2>2 DEF ByTheRules
  <2> QED  BY <1>4, <2>3 DEF RuleAllowed
<1>9. ASSUME l = "unauthorized", NEW y \in W, W = {y} PROVE ~ByTheRules(y, y, y, y, m, x)
  <2>1. y = now /\ y = t /\ y = v /\ y.configures \subseteq Configure
    BY <1>4, <1>9 DEF Ruling, ViewOK, ValidConfigures
  <2>2. \A e \in Definitions(y.configures, x.protocol) : e = d
    BY <1>7, <2>1, OneDefinition
  <2>3. ~AllowsIt(y.records, m, x, d, ChainAt(y.records, m))
    BY <1>1, <1>2, <1>6, <1>9, <2>1
  <2> QED  BY <2>2, <2>3 DEF ByTheRules
<1>10. l = "unauthorized" => RuleDenied(W, m, x)
  BY <1>9 DEF RuleDenied
<1>11. Ruling(l, m, w, d, c, W)
  BY <1>r, <1>2, <1>4, <1>8, <1>10 DEF Ruling, Checked, Judged
<1> QED  BY <1>r, <1>1, <1>3, <1>11 DEF RulingOK

\* What was allowed is done.
LEMMA RulesStore ==
    ASSUME RulesInv, ViewsOK', NEW p \in Handler, Watches(p), StoreWrite(p) \/ StoreDelete(p)
    PROVE  RulingOK(p)'
<1>r. PICK l, m, w, d, c, W :
        /\ l = pc'[p] /\ m = req[p] /\ w = target[p] /\ d = def[p] /\ c = chain[p]
        /\ W = views'[p]
  OBVIOUS
<1>1. /\ pc[p] = "process" /\ l \in {"accepted", "invalid"}
      /\ req'[p] = m /\ target'[p] = w /\ def'[p] = d /\ chain'[p] = c
  BY <1>r DEF StoreWrite, StoreDelete, RulesInv, AuthInv, At, Locals, Go, local
<1>2. HandlerOK(p) /\ RulingOK(p) /\ pc[p] # "idle" /\ pc'[p] # "idle"
  BY <1>1, <1>r DEF RulesInv, AuthInv
<1>3. Ruling("process", m, w, d, c, W)
  BY <1>r, <1>1, <1>2, RulingOnwards
<1>4. Ruling(l, m, w, d, c, W)
  BY <1>1, <1>3 DEF Ruling, Checked, Judged
<1> QED  BY <1>r, <1>1, <1>2, <1>4 DEF RulingOK

LEMMA RulesReply ==
    ASSUME RulesInv, NEW p \in Handler, Reply(p)
    PROVE  RulingOK(p)'
BY DEF Reply, NoLocal, Go, RulesInv, AuthInv, Locals, RulingOK

----------------------------------------------------------------------------
LEMMA ChainsApart ==
    ASSUME Locals, DOMAIN chain = Handler, NEW p \in Handler,
           Handle(p) \/ \E m \in pending : Receive(p, m)
    PROVE  DOMAIN chain' = Handler /\ \A q \in Handler \ {p} : chain'[q] = chain[q]
<1>1. CASE BuildChain(p)
  BY <1>1 DEF BuildChain
<1>2. CASE Reply(p)
  BY <1>2 DEF Reply, NoLocal
<1>3. CASE ~BuildChain(p) /\ ~Reply(p)
  BY <1>3 DEF Handle, Receive, CheckDefinition, CheckParent, CheckRuleSet, Find,
     CheckDelegate, Authorize, LookUpGrant, CheckGrant, FetchDefinition, CheckRole,
     CheckRules, StoreWrite, StoreDelete, Keep, local
<1> QED  BY <1>1, <1>2, <1>3

LEMMA RulesInit == Init => RulesInv
<1> SUFFICES ASSUME Init PROVE RulesInv
  OBVIOUS
<1>1. AuthInv
  BY AuthInit
<1>2. ConfiguresValid
  BY ConfiguresValidInit DEF Init
<1> QED  BY <1>1, <1>2 DEF Init, Nothing, RulesInv, RulingOK

LEMMA RulesStep == RulesInv /\ [Next]_vars => RulesInv'
<1> SUFFICES ASSUME RulesInv, [Next]_vars PROVE RulesInv'
  OBVIOUS
<1>1. AuthInv /\ AuthInv'
  BY AuthStep DEF RulesInv
<1>2. ConfiguresValid'
  BY <1>1, ConfigureAlongside, ConfiguresValidStep DEF RulesInv, AuthInv
<1>3. ViewsOK'
  BY <1>1, <1>2 DEF ViewsOK, ViewOK, Now, AuthInv, ConfiguresValid
<1>4. Next => \A p \in Handler : Watches(p)
  BY DEF Next, Observe, Watches, Now
<1>5. \A p \in Handler : HandlerOK(p) /\ RulingOK(p)
  BY <1>1 DEF RulesInv, AuthInv
<1>6. ASSUME Next, NEW p \in Handler, Handle(p) \/ \E m \in pending : Receive(p, m)
      PROVE  RulesInv'
  <2>1. Apart(p) /\ DOMAIN chain' = Handler /\ \A q \in Handler \ {p} : chain'[q] = chain[q]
    BY <1>1, <1>6, HandlersApart, ChainsApart DEF AuthInv, RulesInv
  <2>2. Watches(p)
    BY <1>4, <1>6
  <2>3. RulingOK(p)'
    BY <1>3, <1>6, <2>2, RulesReceive, RulesDefinition, RulesFind, RulesDelegate,
       RulesAuthorize, RulesGrant, RulesChain, RulesFetch, RulesRole, RulesRules,
       RulesStore, RulesReply DEF Handle
  <2>4. \A q \in Handler \ {p} : RulingOK(q)'
    BY <1>3, <1>4, <1>5, <1>6, <2>1, OthersRule DEF Apart
  <2> QED  BY <1>1, <1>2, <2>1, <2>3, <2>4 DEF RulesInv
<1>7. ASSUME Next, UNCHANGED avars PROVE RulesInv'
  <2>1. \A q \in Handler : RulingOK(q)'
    BY <1>3, <1>4, <1>5, <1>7, OthersRule DEF avars, local
  <2> QED  BY <1>1, <1>2, <1>7, <2>1 DEF RulesInv, avars, local
<1>8. ASSUME Stop PROVE RulesInv'
  BY <1>1, <1>2, <1>8 DEF RulesInv, Stop, Nothing, RulingOK
<1>9. ASSUME UNCHANGED vars PROVE RulesInv'
  BY <1>1, <1>2, <1>9 DEF RulesInv, vars, avars, local, RulingOK
<1> QED  BY <1>6, <1>7, <1>8, <1>9 DEF Next, Step

----------------------------------------------------------------------------
\* The subject of what is judged by the rules is placed.
LEMMA WriteSituated ==
    ASSUME NEW m \in Message, IsWriting(m), Placed(m), HasInitial(m)
    PROVE  Situated(m, m)
BY DEF IsWriting, HasInitial, Situated

LEMMA FoundSituated ==
    ASSUME NEW recs, RecordsOK(recs), NEW m \in Message, m.method \in {"Read", "Delete"},
           NEW w, Found(recs, m, w), SubjectOf(m, w).protocol # None
    PROVE  Situated(m, SubjectOf(m, w))
<1>1. PICK r, a : r = m.record /\ a = recs[r].initial
  OBVIOUS
<1>2. /\ r \in DOMAIN recs /\ w \in {a, recs[r].newest}
      /\ w = a \/ IsLive(recs, r)
  BY <1>1 DEF Found
<1>3. /\ a \in Message /\ a.initial /\ a.record = r /\ a.method = "Write"
      /\ a.protocol # None => Placed(a)
  BY <1>1, <1>2, StoredLine
<1>4. recs[r].newest \in Message
  BY <1>2 DEF RecordsOK
<1>5. w \in Message /\ w # None /\ SubjectOf(m, w) = w
  BY <1>2, <1>3, <1>4, RequestAssumption DEF SubjectOf
<1>6. w.method = "Write"
  BY <1>2, <1>3 DEF IsLive
<1>7. w.record = r /\ Immutable(w) = Immutable(a) /\ (w.protocol # None => Placed(w))
  BY <1>1, <1>2, <1>6 DEF RecordsOK
<1> QED  BY <1>1, <1>3, <1>5, <1>7 DEF Situated

\* What each word of a definition in force decides, by what the request knows.
LEMMA RulesDecide ==
    ASSUME NEW m \in Message, m.interface = "Records", NEW x, NEW V, \A v \in V : ViewOK(v),
           Situated(m, x) \/ Asking(m, x)
    PROVE  /\ RuleAllowed(V, m, x) /\ InWhole(m, x) =>
                \E v, u, t, s \in V : \E d \in DefinitionsSeen(v, x.protocol) :
                    Entitled(d, u.records, t.records, s.records, m, x)
           /\ RuleDenied(V, m, x) =>
                \A v \in V : V = {v} => \A d \in DefinitionsSeen(v, x.protocol) :
                    ~Entitled(d, v.records, v.records, v.records, m, x)
<1>1. ASSUME RuleAllowed(V, m, x), InWhole(m, x)
      PROVE  \E v, u, t, s \in V : \E d \in DefinitionsSeen(v, x.protocol) :
                    Entitled(d, u.records, t.records, s.records, m, x)
  <2>1. PICK v \in V, u \in V, t \in V, s \in V : ByTheRules(v, u, t, s, m, x)
    BY <1>1 DEF RuleAllowed
  <2>2. ViewOK(v) /\ ViewOK(u) /\ ViewOK(t) /\ ViewOK(s)
    OBVIOUS
  <2>3. \E d \in DefinitionsSeen(v, x.protocol) :
            Entitled(d, u.records, t.records, s.records, m, x)
    BY <1>1, <2>1, <2>2, DecisionIs
  <2> QED  BY <2>3
<1>2. ASSUME RuleDenied(V, m, x), NEW v \in V, V = {v}
      PROVE  \A d \in DefinitionsSeen(v, x.protocol) :
                    ~Entitled(d, v.records, v.records, v.records, m, x)
  <2>1. ~ByTheRules(v, v, v, v, m, x)
    BY <1>2 DEF RuleDenied
  <2>2. ViewOK(v)
    OBVIOUS
  <2>3. ~(\E d \in DefinitionsSeen(v, x.protocol) :
            Entitled(d, v.records, v.records, v.records, m, x))
    BY <2>1, <2>2, DecisionIs
  <2> QED  BY <2>3
<1> QED  BY <1>1, <1>2

HonoursRules(l, m, w, V, x) ==
    /\ l = "accepted" /\ m # None /\ ByRule(m, w) /\ InWhole(m, x) =>
        \E v, u, t, s \in V : \E d \in DefinitionsSeen(v, x.protocol) :
            Entitled(d, u.records, t.records, s.records, m, x)
    /\ l = "unauthorized" /\ m # None /\ ByRule(m, w) /\ m.delegated = None /\ m.owner = None =>
        \A v \in V : V = {v} => \A d \in DefinitionsSeen(v, x.protocol) :
            ~Entitled(d, v.records, v.records, v.records, m, x)

LEMMA RulesHonouredInv == RulesInv => RulesHonoured
<1> SUFFICES ASSUME RulesInv, NEW p \in Handler
             PROVE  HonoursRules(pc[p], req[p], target[p], views[p],
                                 SubjectOf(req[p], target[p]))
  <2>1. \A p \in Handler : Subject(p) = SubjectOf(req[p], target[p])
    BY DEF Subject, SubjectOf
  <2>2. ASSUME NEW p \in Handler,
               HonoursRules(pc[p], req[p], target[p], views[p], Subject(p))
        PROVE  LET m == req[p]
                   w == Subject(p)
                   byRules == /\ m # None /\ m.interface = "Records" /\ w.protocol # None
                              /\ ~AllowedAtOnce(m, target[p]) /\ ~GrantInvoked(m)
               IN  /\ pc[p] = "accepted" /\ byRules
                            /\ (m.role # None => Whole(w.context, m.role)) =>
                        \E v, u, t, s \in views[p] : \E d \in DefinitionsSeen(v, w.protocol) :
                            Entitled(d, u.records, t.records, s.records, m, w)
                   /\ pc[p] = "unauthorized" /\ byRules /\ m.delegated = None /\ m.owner = None =>
                        \A v \in views[p] : views[p] = {v} =>
                            \A d \in DefinitionsSeen(v, w.protocol) :
                                ~Entitled(d, v.records, v.records, v.records, m, w)
    <3>1. ByRule(req[p], target[p]) <=>
            /\ req[p].interface = "Records" /\ Subject(p).protocol # None
            /\ ~AllowedAtOnce(req[p], target[p]) /\ ~GrantInvoked(req[p])
      BY <2>1 DEF ByRule
    <3> QED  BY <2>2, <3>1, Zenon DEF HonoursRules, InWhole
  <2> QED  BY <2>1, <2>2, Zenon DEF RulesHonoured
<1> SUFFICES ASSUME NEW m, m = req[p], NEW w, w = target[p], NEW l, l = pc[p],
                    NEW V, V = views[p], NEW x, x = SubjectOf(m, w),
                    l \in {"accepted", "unauthorized"}, m # None, ByRule(m, w)
             PROVE  /\ l = "accepted" /\ InWhole(m, x) =>
                        \E v, u, t, s \in V : \E d \in DefinitionsSeen(v, x.protocol) :
                            Entitled(d, u.records, t.records, s.records, m, x)
                    /\ l = "unauthorized" /\ m.delegated = None /\ m.owner = None =>
                        \A v \in V : V = {v} => \A d \in DefinitionsSeen(v, x.protocol) :
                            ~Entitled(d, v.records, v.records, v.records, m, x)
  BY DEF HonoursRules
<1>1. Knowledge(l, m, w, def[p], grant[p], V) /\ Ruling(l, m, w, def[p], chain[p], V)
  BY DEF RulesInv, AuthInv, HandlerOK, RulingOK
<1>2. /\ m \in Message /\ m.interface = "Records" /\ x.protocol # None
      /\ \A v \in V : ViewOK(v) /\ RecordsOK(v.records)
      /\ m.method \in {"Write", "Read", "Delete", "Query", "Subscribe"}
      /\ m.method \notin {"Read", "Delete"} => x = m
  BY <1>1, RequestAssumption DEF Knowledge, Ruling, ByRule, SubjectOf
<1>3. ASSUME m.method \in {"Query", "Subscribe"} PROVE Asking(m, x)
  BY <1>2, <1>3 DEF Asking
<1>4. ASSUME m.method \in {"Read", "Delete"} PROVE Situated(m, x)
  <2>1. l \in Checked \cup {"unauthorized"}
    BY DEF Checked, Judged
  <2>2. PICK u \in V : Found(u.records, m, w)
    BY <1>1, <1>2, <1>4, <2>1 DEF Ruling
  <2> QED  BY <1>2, <1>4, <2>2, FoundSituated
<1>5. m.method = "Write" => IsWriting(m)
  BY <1>2 DEF IsWriting
<1>6. CASE l = "accepted"
  <2>1. Situated(m, x) \/ Asking(m, x)
    <3>1. CASE m.method = "Write"
      <4>1. Placed(m) /\ HasInitial(m)
        BY <1>1, <1>5, <1>6, <3>1 DEF Knowledge
      <4> QED  BY <1>2, <1>5, <3>1, <4>1, WriteSituated
    <3> QED  BY <1>2, <1>3, <1>4, <3>1
  <2>2. RuleAllowed(V, m, x)
    BY <1>1, <1>6 DEF Ruling
  <2> QED  BY <1>2, <1>6, <2>1, <2>2, RulesDecide, SMTT(20)
<1>7. CASE l = "unauthorized"
  <2> SUFFICES ASSUME m.delegated = None, m.owner = None, NEW v \in V, V = {v},
                      NEW d \in DefinitionsSeen(v, x.protocol),
                      Entitled(d, v.records, v.records, v.records, m, x)
               PROVE  FALSE
    BY <1>7
  <2>1. Situated(m, x) \/ Asking(m, x)
    <3>1. CASE m.method = "Write"
      <4>1. Founded(V, m)
        BY <1>1, <1>5, <1>7, <3>1 DEF Knowledge
      <4>2. HasInitial(m)
        <5>1. CASE m.initial
          BY <1>2, <5>1 DEF HasInitial
        <5>2. CASE ~m.initial
          <6>1. PICK recs, a : recs = v.records /\ a = recs[m.record].initial
            OBVIOUS
          <6>2. m.record \in DOMAIN recs /\ Immutable(a) = Immutable(m)
            BY <1>2, <3>1, <5>2, <6>1 DEF Entitled
          <6>3. a \in Message /\ a.initial /\ a.record = m.record
            BY <1>2, <6>1, <6>2, StoredLine
          <6> QED  BY <6>2, <6>3 DEF HasInitial
        <5> QED  BY <5>1, <5>2
      <4>3. Placed(m)
        <5>1. RecordsOK(records) /\ IsWriting(m) /\ \A u \in V : RecordsOK(u.records)
          BY <1>2, <1>5, <3>1 DEF RulesInv, AuthInv
        <5> QED  BY <1>2, <4>1, <4>2, <5>1, WritePlaced
      <4> QED  BY <1>2, <1>5, <3>1, <4>2, <4>3, WriteSituated
    <3> QED  BY <1>2, <1>3, <1>4, <3>1
  <2>2. RuleDenied(V, m, x)
    BY <1>1, <1>7 DEF Ruling
  <2> QED  BY <1>2, <2>1, <2>2, RulesDecide
<1> QED  BY <1>6, <1>7

\* What the rules of a protocol decide is what they say, while definitions, roles,
\* ancestors and the record itself come and go, for any messages and any number of
\* handlers; of queries in a role, for those whose context is not cut short within a
\* record ID.  (protocol-authorization.ts:75-259, 480-730, 873-898)
THEOREM RulesHonouredAlways == Spec => []RulesHonoured
<1>1. Spec => []RulesInv
  BY RulesInit, RulesStep, PTL DEF Spec
<1> QED  BY <1>1, RulesHonouredInv, PTL

----------------------------------------------------------------------------
\* Who may query by a role may read by it.
LEMMA AsReader ==
    ASSUME NEW q \in Roles, NEW m, m = [q EXCEPT !.method = "Read"]
    PROVE  m.method = "Read" /\ m.role = q.role /\ m.author = q.author
BY RolesAssumption

\* The record is in the context asked for, so a role held there is held for it.
LEMMA HeldBelow ==
    ASSUME NEW recs, NEW q \in Roles, NEW w, WellFormed(w), InPlace(q),
           q.context # None => w.context # None /\ StartsWith(q.context, w.context),
           q.author \in Holders(recs, q.role, q.protocol, q.context)
    PROVE  q.author \in Holders(recs, q.role, q.protocol, w.context)
<1>1. PICK n, c, e : n = Len(q.role) /\ c = q.context /\ e = w.context
  OBVIOUS
<1>2. /\ n \in Nat /\ (c # None => Sequence(c)) /\ (e # None => Sequence(e))
      /\ n > 1 => c # None /\ e # None /\ Len(c) >= n - 1
  BY <1>1, RolesAssumption DEF WellFormed, Sequence, InPlace
<1>3. ASSUME NEW i \in 1 .. n - 1 PROVE e # None /\ i <= Len(c) /\ e[i] = c[i] /\ c # None
  <2>1. c # None /\ e # None /\ Len(c) >= n - 1 /\ Sequence(c) /\ Sequence(e)
    BY <1>2
  <2>2. DOMAIN c = 1 .. Len(c) /\ Len(c) \in Nat
    <3>1. PICK S : S = ToSet(c)
      OBVIOUS
    <3>2. c \in Seq(S)
      BY <2>1, <3>1 DEF Sequence
    <3> QED  BY <3>2
  <2>3. i \in DOMAIN c /\ i <= Len(c)
    BY <1>2, <2>1, <2>2
  <2>4. c[i] = e[i] \/ <<c[i], e[i]>> \in Abbreviates
    BY <1>1, <2>1, <2>3 DEF StartsWith
  <2>5. \A pair \in Abbreviates : pair[1] # c[i]
    BY <1>1, <2>1, <2>3 DEF InPlace, Whole
  <2> QED  BY <2>1, <2>3, <2>4, <2>5
<1>4. PICK x : /\ x \in {recs[r].newest : r \in DOMAIN recs}
               /\ x.method = "Write" /\ x.protocol = q.protocol /\ x.path = q.role
               /\ x.recipient = q.author
               /\ \A i \in 1 .. n - 1 :
                    c # None /\ (i <= Len(c) => x.context[i] = c[i])
  BY <1>1 DEF Holders
<1>5. \A i \in 1 .. n - 1 : e # None /\ (i <= Len(e) => x.context[i] = e[i])
  BY <1>3, <1>4
<1> QED  BY <1>1, <1>4, <1>5 DEF Holders

LEMMA QueryInPlaceReadableInv == RulesInv => QueryInPlaceReadable
<1> SUFFICES ASSUME RulesInv, NEW q \in Roles, InPlace(q), QueryAllowed(q), NEW r \in DOMAIN records,
                    NEW w, w = records[r].newest,
                    w.method = "Write", w.protocol = q.protocol, w.path = q.path,
                    q.context # None => StartsWith(q.context, w.context),
                    ChainTo(records, r) # <<>>
             PROVE  ReadAllowed(q, w)
  BY DEF QueryInPlaceReadable
<1>1. PICK m : m = [q EXCEPT !.method = "Read"]
  OBVIOUS
<1>2. m.method = "Read" /\ m.role = q.role /\ m.author = q.author
  BY <1>1, AsReader
<1>3. /\ WellFormed(q) /\ q.method = "Query" /\ q.protocol # None /\ q.role # None
      /\ Sequence(q.role) /\ (q.context # None => Sequence(q.context))
  BY RolesAssumption DEF WellFormed
<1>4. RecordsOK(records) /\ configures \subseteq ValidConfigures
  BY DEF RulesInv, AuthInv, ConfiguresValid
<1>5. /\ w.record = r
      /\ w \in Message /\ WellFormed(w) /\ w.context # None /\ Sequence(w.context)
  <2>1. w \in Message /\ w.record = r
    BY <1>4 DEF RecordsOK
  <2> QED  BY <1>3, <2>1, RequestAssumption DEF WellFormed
<1>6. PICK d \in Definitions(configures, q.protocol) :
        /\ RuleSetAt(q.path, d) # None
        /\ RoleHeld(records, q, q.protocol, q.context, d)
        /\ \E rule \in ToSet(RuleSetAt(q.path, d).actions) :
            /\ rule.role = q.role /\ rule.can \cap ActionsSought(q, q) # {}
            /\ RuleAllows(rule, q, <<>>)
  BY DEF QueryAllowed
<1>7. PICK rule \in ToSet(RuleSetAt(q.path, d).actions) :
            /\ rule.role = q.role /\ rule.can \cap ActionsSought(q, q) # {}
            /\ RuleAllows(rule, q, <<>>)
  BY <1>6
<1>8. Proper(d)
  BY <1>4, <1>6, DefinitionProper
<1>9. RuleSetAt(q.path, d) = d.structure[q.path] /\ q.path \in DOMAIN d.structure
  BY <1>6, <1>8, RuleSetIs
<1>10. "read" \in rule.can
  <2>1. ActionsSought(q, q) = {"query"}
    BY <1>3 DEF ActionsSought
  <2>2. rule.can \cap ReadActions # {}
    BY <1>7, <2>1 DEF ReadActions
  <2>3. ReadActions \subseteq rule.can
    BY <1>3, <1>7, <1>8, <1>9, <2>2 DEF Proper
  <2> QED  BY <2>3 DEF ReadActions
<1>11. RuleAllows(rule, m, ChainTo(records, w.record))
  BY <1>2, <1>3, <1>7 DEF RuleAllows
<1>12. ActionAllowed(RuleSetAt(q.path, d), m, ActionsSought(m, m), ChainTo(records, w.record))
  BY <1>2, <1>7, <1>10, <1>11 DEF ActionAllowed, ActionsSought
<1>13. RoleHeld(records, m, q.protocol, w.context, d)
  <2>1. /\ q.role \in DOMAIN d.structure /\ d.structure[q.role].role
        /\ q.author \in Holders(records, q.role, q.protocol, q.context)
    BY <1>3, <1>4, <1>6, <1>8, HeldIs DEF InPlace
  <2>2. q.author \in Holders(records, q.role, q.protocol, w.context)
    BY <1>5, <2>1, HeldBelow
  <2>3. RoleHeld(records, q, q.protocol, w.context, d)
    BY <1>3, <1>4, <1>5, <1>8, <2>1, <2>2, HeldIs
  <2> QED  BY <1>2, <2>3 DEF RoleHeld
<1> QED  BY <1>1, <1>5, <1>6, <1>12, <1>13 DEF ReadAllowed

\* What a rule for a role lets a query return can be read in the same role, whatever
\* definitions are configured and however roles come and go, if the query's context
\* reaches down to where the role is held, in whole record IDs.  Nothing in the code
\* makes it do so: where it does not, a query may find what a read refuses.
\* (protocols-configure.ts:190-203, protocol-authorization.ts:173-211, 518-533)
THEOREM QueryInPlaceReadableAlways == Spec => []QueryInPlaceReadable
<1>1. Spec => []RulesInv
  BY RulesInit, RulesStep, PTL DEF Spec
<1> QED  BY <1>1, QueryInPlaceReadableInv, PTL
----------------------------------------------------------------------------
\* Types.
LinkedUp(c) ==
    \A i \in DOMAIN c : /\ c[i].initial
                        /\ c[i].parent = IF i = 1 THEN None ELSE c[i - 1].record

LocalTypes(p) ==
    /\ req[p] \in Message \cup {None} /\ (pc[p] = "idle") = (req[p] = None)
    /\ target[p] # None => target[p] \in Message \cup Configure
    /\ grant[p] # None => grant[p].path = GrantPath
    /\ LinkedUp(chain[p])

TypesInv ==
    /\ RulesInv
    /\ pending \subseteq Message \cup Configure
    /\ \A p \in Handler : LocalTypes(p)

\* The chain that is built goes from a root to the record.
LEMMA ChainLinked ==
    ASSUME NEW recs, RecordsOK(recs), NEW q
    PROVE  LinkedUp(ChainTo(recs, q))
<1>1. LinkedUp(<<>>)
  BY DEF LinkedUp
<1>2. CASE q \notin DOMAIN recs
  BY <1>1, <1>2 DEF ChainTo
<1>3. CASE q \in DOMAIN recs
  <2>1. PICK c : IsLine(c, q)
    BY <1>3, StoredLine
  <2>2. PICK k : k = Known(recs, c)
    OBVIOUS
  <2>3. ChainTo(recs, q) = k
    BY <1>3, <2>1, <2>2, ChainsIs DEF ChainTo
  <2>4. CASE ~(ToSet(c) \subseteq DOMAIN recs)
    BY <1>1, <2>2, <2>3, <2>4 DEF Known
  <2>5. CASE ToSet(c) \subseteq DOMAIN recs
    <3>1. PICK n : n = Len(c)
      OBVIOUS
    <3>2. /\ DOMAIN k = 1 .. n /\ \A i \in 1 .. n : k[i] = recs[c[i]].initial
      BY <2>2, <2>5, <3>1 DEF Known
    <3>3. n \in Nat /\ \A i \in 1 .. n : c[i] \in DOMAIN recs
      BY <2>1, <2>5, <3>1, LineIsSeq
    <3>4. ASSUME NEW i \in 1 .. n
          PROVE  k[i] \in Message /\ k[i].initial /\ k[i].record = c[i]
      BY <3>2, <3>3, StoredLine
    <3>5. ASSUME NEW i \in 1 .. n
          PROVE  k[i].parent = IF i = 1 THEN None ELSE k[i - 1].record
      <4>1. k[i].parent = Before(c, i)
        BY <2>1, <3>1, <3>4, OnePlace
      <4>2. i # 1 => i - 1 \in 1 .. n
        BY <3>3
      <4> QED  BY <3>4, <4>1, <4>2 DEF Before
    <3>6. LinkedUp(k)
      BY <3>2, <3>4, <3>5 DEF LinkedUp
    <3> QED  BY <2>3, <3>6
  <2> QED  BY <2>4, <2>5
<1> QED  BY <1>2, <1>3

LEMMA TypesOfOne ==
    ASSUME TypesInv, NEW p \in Handler, Handle(p) \/ \E m \in pending : Receive(p, m)
    PROVE  LocalTypes(p)'
<1>0. /\ Locals /\ DOMAIN chain = Handler /\ LocalTypes(p) /\ RecordsOK(records)
      /\ configures \subseteq Configure
  BY DEF TypesInv, RulesInv, AuthInv, ConfigureTypeOK
<1>1. ASSUME NEW m \in pending, Receive(p, m) PROVE LocalTypes(p)'
  <2>1. pc'[p] # "idle"
    <3>1. PICK l : l = (CASE m.method = "Write" /\ m.protocol # None -> "definition"
                          [] m.method \in {"Read", "Delete"} -> "find"
                          [] OTHER -> "delegate")
      OBVIOUS
    <3>2. l # "idle" /\ pc'[p] = l
      BY <1>0, <1>1, <3>1 DEF Receive, Go, Locals
    <3> QED  BY <3>2
  <2>2. m \in Message /\ m # None /\ req'[p] = m
    BY <1>0, <1>1, RequestAssumption DEF Receive, Locals
  <2> QED  BY <1>0, <1>1, <2>1, <2>2 DEF Receive, LocalTypes
<1>2. CASE Reply(p)
  <2>1. LinkedUp(<<>>)
    BY DEF LinkedUp
  <2> QED  BY <1>0, <1>2, <2>1 DEF Reply, NoLocal, Go, Locals, LocalTypes
<1>3. CASE Find(p)
  <2>1. pc[p] # "idle" /\ pc'[p] # "idle" /\ req'[p] = req[p] /\ grant'[p] = grant[p]
        /\ chain'[p] = chain[p]
    BY <1>0, <1>3 DEF Find, At, Go, Locals
  <2>2. target'[p] = None \/ target'[p] \in Stored
    BY <1>0, <1>3 DEF Find, Locals
  <2>3. Stored \subseteq Message \cup Configure
    BY <1>0 DEF Stored, RecordsOK
  <2> QED  BY <1>0, <2>1, <2>2, <2>3 DEF LocalTypes
<1>4. CASE LookUpGrant(p)
  <2>1. pc[p] # "idle" /\ pc'[p] # "idle" /\ req'[p] = req[p] /\ target'[p] = target[p]
        /\ chain'[p] = chain[p] /\ grant'[p] = FetchGrant(records, req[p].grant)
    BY <1>0, <1>4 DEF LookUpGrant, At, Go, Locals
  <2>2. PICK g : g = FetchGrant(records, req[p].grant)
    OBVIOUS
  <2>3. g # None => g.path = GrantPath
    BY <2>2 DEF FetchGrant
  <2> QED  BY <1>0, <2>1, <2>2, <2>3 DEF LocalTypes
<1>5. CASE BuildChain(p)
  <2>1. pc[p] # "idle" /\ pc'[p] # "idle" /\ req'[p] = req[p] /\ target'[p] = target[p]
        /\ grant'[p] = grant[p] /\ chain'[p] = ChainTo(records, ChainStart(records, req[p]))
    BY <1>0, <1>5 DEF BuildChain, At, Go, Locals
  <2>2. LinkedUp(chain'[p])
    BY <1>0, <2>1, ChainLinked
  <2> QED  BY <1>0, <2>1, <2>2 DEF LocalTypes
<1>6. ASSUME pc[p] # "idle", pc'[p] # "idle",
             UNCHANGED <<req[p], target[p], grant[p], chain[p]>>
      PROVE  LocalTypes(p)'
  BY <1>0, <1>6 DEF LocalTypes
<1>7. CASE CheckDefinition(p) \/ CheckParent(p) \/ CheckRuleSet(p) \/ CheckDelegate(p)
  BY <1>0, <1>6, <1>7 DEF CheckDefinition, CheckParent, CheckRuleSet, CheckDelegate, At, Go,
     Locals, Keep, local
<1>8. CASE Authorize(p) \/ CheckGrant(p) \/ FetchDefinition(p) \/ CheckRole(p) \/ CheckRules(p)
  <2>1. Act(req[p]) # "idle" /\ Refusal(req[p]) # "idle"
    BY ActOf
  <2>2. pc[p] # "idle" /\ pc'[p] # "idle"
    BY <1>0, <1>8, <2>1 DEF Authorize, CheckGrant, FetchDefinition, CheckRole, CheckRules,
       At, Go, Locals
  <2> QED  BY <1>6, <1>8, <2>2 DEF Authorize, CheckGrant, FetchDefinition, CheckRole,
     CheckRules, Keep, local
<1>9. CASE StoreWrite(p) \/ StoreDelete(p)
  BY <1>0, <1>6, <1>9 DEF StoreWrite, StoreDelete, At, Go, Locals, local
<1> QED  BY <1>1, <1>2, <1>3, <1>4, <1>5, <1>7, <1>8, <1>9 DEF Handle

LEMMA TypesInit == Init => TypesInv
<1> SUFFICES ASSUME Init PROVE TypesInv
  OBVIOUS
<1>1. RulesInv
  BY RulesInit
<1>2. pending \subseteq Message \cup Configure
  BY ScenarioAssumption DEF Init
<1>3. LinkedUp(<<>>)
  BY DEF LinkedUp
<1> QED  BY <1>1, <1>2, <1>3 DEF Init, Nothing, TypesInv, LocalTypes

LEMMA TypesStep == TypesInv /\ [Next]_vars => TypesInv'
<1> SUFFICES ASSUME TypesInv, [Next]_vars PROVE TypesInv'
  OBVIOUS
<1>1. RulesInv /\ RulesInv' /\ AuthInv /\ Locals
  BY RulesStep DEF TypesInv, RulesInv, AuthInv
<1>2. (pending \subseteq Message \cup Configure)'
  BY DEF TypesInv, Next, Step, Stop, vars
<1>3. ASSUME NEW q \in Handler,
             UNCHANGED <<pc[q], req[q], target[q], grant[q], chain[q]>>
      PROVE  LocalTypes(q)'
  BY <1>3 DEF TypesInv, LocalTypes
<1>4. ASSUME NEW p \in Handler, Handle(p) \/ \E m \in pending : Receive(p, m)
      PROVE  TypesInv'
  <2>1. Apart(p) /\ \A q \in Handler \ {p} : chain'[q] = chain[q]
    BY <1>1, <1>4, HandlersApart, ChainsApart DEF RulesInv
  <2>2. \A q \in Handler \ {p} : LocalTypes(q)'
    BY <1>3, <2>1 DEF Apart
  <2>3. LocalTypes(p)'
    BY <1>4, TypesOfOne
  <2> QED  BY <1>1, <1>2, <2>2, <2>3 DEF TypesInv
<1>5. ASSUME UNCHANGED avars PROVE TypesInv'
  BY <1>1, <1>2, <1>3, <1>5 DEF TypesInv, avars, local
<1>6. ASSUME Stop PROVE TypesInv'
  <2>1. LinkedUp(<<>>)
    BY DEF LinkedUp
  <2> QED  BY <1>1, <1>2, <1>6, <2>1 DEF TypesInv, Stop, Nothing, LocalTypes
<1>7. ASSUME UNCHANGED vars PROVE TypesInv'
  BY <1>5, <1>7 DEF vars
<1> QED  BY <1>4, <1>5, <1>6, <1>7 DEF Next, Step

LEMMA AuthTypes == TypesInv => AuthTypeOK
<1> SUFFICES ASSUME TypesInv PROVE AuthTypeOK
  OBVIOUS
<1>1. ConfigureTypeOK /\ RecordsOK(records)
  BY DEF TypesInv, RulesInv, AuthInv
<1>2. \A r \in DOMAIN records :
        /\ records[r].initial \in Message /\ records[r].newest \in Message
        /\ records[r].initial.initial /\ records[r].initial.record = r
        /\ records[r].newest.record = r
        /\ records[r].newest # records[r].initial
            => IsNewer(records[r].newest, records[r].initial)
  BY <1>1 DEF RecordsOK
<1> QED  BY <1>1, <1>2 DEF AuthTypeOK, TypesInv, LocalTypes, LinkedUp

\* Every variable keeps its type: the newest message of a record is newer than its
\* initial write, and a chain goes from a root to the record, each write the parent
\* of the next.  (protocol-authorization.ts:290-330)
THEOREM AuthTypesCorrect == Spec => []AuthTypeOK
<1>1. Spec => []TypesInv
  BY TypesInit, TypesStep, PTL DEF Spec
<1> QED  BY <1>1, AuthTypes, PTL
=============================================================================
