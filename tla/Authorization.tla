----------------------------- MODULE Authorization -----------------------------
(***************************************************************************)
(* Who may do what: the handlers of RecordsWrite, RecordsRead,             *)
(* RecordsDelete, RecordsQuery, RecordsSubscribe, MessagesRead,            *)
(* MessagesQuery, MessagesSubscribe and ProtocolsQuery up to the point     *)
(* where they act, beside the handlers of ProtocolsConfigure.  An action   *)
(* is the code between two queries of the message store, so that           *)
(* definitions, roles, parents, grants and revocations may come and go     *)
(* while a request is judged.                                              *)
(*                                                                         *)
(* Storing a message is one step here; RecordsDwn has what it consists of. *)
(***************************************************************************)
EXTENDS ProtocolsConfigure, PermissionGrants

CONSTANTS
    Handler,      \* concurrent handler invocations
    Tenant,       \* the owner of the DWN
    Message,      \* what clients may send besides Configure
    Scenario      \* see Init

Sequence(s) == s \in Seq(ToSet(s))

WellFormed(m) ==
    /\ m.ts \in Nat /\ m.cid \in Nat /\ m.created \in Nat /\ m.expires \in Nat
    /\ m.published \in BOOLEAN
    /\ m.path # None => Sequence(m.path)
    /\ m.context # None => Sequence(m.context)
    /\ m.role # None => Sequence(m.role)

Scoped(grant) == grant.scope.context # None => Sequence(grant.scope.context)

\* What every write of a record repeats.
Immutable(m) == <<m.protocol, m.path, m.parent, m.recipient>>

\* What parsing a message leaves no doubt of.  A record ID is the hash of the author
\* and the descriptor of the initial write.  The context of a record at the root is
\* its ID: that an initial write has it so is checked, an update is made so.  By the
\* schema of writes only what has a protocol has a parent.
ASSUME RequestAssumption ==
    /\ None \notin Message
    /\ \A m \in Message :
        /\ WellFormed(m)
        /\ m.delegated # None => WellFormed(m.delegated) /\ Scoped(m.delegated)
        /\ m.method = "Write" /\ m.path = GrantPath => Scoped(m)
        /\ m.method \in {"Write", "Delete"} => m.interface = "Records"
        /\ m.interface = "Records" =>
            m.method \in {"Write", "Read", "Delete", "Query", "Subscribe"}
        /\ m.initial => m.method = "Write" /\ m.record # None
        /\ m.method = "Write" /\ m.protocol = None => m.parent = None
        /\ m.method = "Write" /\ m.protocol # None =>
            /\ m.path # None /\ m.context # None
            /\ m.parent = None => m.context = <<m.record>>
    /\ \A m, n \in Message : m.initial /\ n.initial /\ m.record = n.record
        => m.author = n.author /\ Immutable(m) = Immutable(n)
    /\ \A c \in Configure : c.definition.protocol = c.protocol

\* A property that is not there is no path and no rule set.
ASSUME NoneAssumption ==
    /\ None \notin {RequestPath, GrantPath, RevocationPath}
    /\ \A d \in {c.definition : c \in Configure} \cup {PermissionsDefinition} :
        \A path \in DOMAIN d.structure : d.structure[path] # None

VARIABLES
    records,      \* the records of the message store, see PermissionGrants
    pending,      \* what clients still send
    \* local to a handler
    pc, req,
    target,       \* the message a read or a delete is about
    def,          \* the definition it fetched last
    chain,        \* the initial writes from the root to the record
    grant,        \* the grant it fetched
    \* history
    views         \* the states of the stores since the request arrived

local == <<req, target, def, chain, grant>>
avars == <<records, pc, local>>
vars == <<cvars, avars, pending, views>>

\* "published" is the reply to a ProtocolsQuery that gets only published protocols.
Ends == {"accepted", "published", "invalid", "unauthorized"}

\* The definition a handler gets: the core protocol's own, or the one in force.
Definitions(stored, protocol) ==
    IF protocol = PermissionsUri THEN {PermissionsDefinition}
    ELSE {c.definition : c \in InForce(stored, protocol)}

Go(p, label) == pc' = [pc EXCEPT ![p] = label]
At(p, label) == pc[p] = label
Keep == UNCHANGED <<records, local>>

\* The record a request is about, for its protocol, path and context.
Subject(p) == IF target[p] = None THEN req[p] ELSE target[p]

----------------------------------------------------------------------------
\* What the queries of the message store look for.

\* A live write of the protocol at the path, for the recipient, and in a context that
\* starts with the one given: any context for <<>>.
LiveAt(recs, protocol, path, recipient, under) ==
    {r \in DOMAIN recs : IsLive(recs, r) /\
        LET w == recs[r].newest
        IN  /\ w.protocol = protocol /\ w.path = path /\ w.recipient = recipient
            /\ StartsWith(under, w.context)}

\* The parent is live, of the protocol, and at the path and in the context that the
\* record's own continue.
ParentMatches(recs, m) ==
    IF m.parent = None THEN Len(m.path) = 1
    ELSE /\ IsLive(recs, m.parent)
         /\ LET parent == recs[m.parent].newest
            IN  /\ parent.protocol = m.protocol
                /\ m.path = Append(parent.path, TypeName(m.path))
                /\ m.context = Append(parent.context, m.record)

\* The context at the level of the role, or what there is of it: any context for a
\* role at the root.
RoleContext(role, context) ==
    IF Len(role) <= 1 THEN <<>>
    ELSE IF Len(context) < Len(role) - 1 THEN context
    ELSE SubSeq(context, 1, Len(role) - 1)

\* Deleted role records count, too.
RoleHeldBad(recs, m, protocol, context, definition) ==
    /\ RuleSetAt(m.role, definition) # None /\ RuleSetAt(m.role, definition).role
    /\ Len(m.role) > 1 => context # None
    /\ \E r \in DOMAIN recs :
        /\ recs[r].initial.protocol = protocol /\ recs[r].initial.path = m.role
        /\ recs[r].initial.recipient = m.author
        /\ StartsWith(RoleContext(m.role, context), recs[r].initial.context)

\* The role invoked is a role of the protocol, and a live record gives it to the
\* author within the context.
RoleHeld(recs, m, protocol, context, definition) ==
    /\ RuleSetAt(m.role, definition) # None /\ RuleSetAt(m.role, definition).role
    /\ Len(m.role) > 1 => context # None
    /\ LiveAt(recs, protocol, m.role, m.author, RoleContext(m.role, context)) # {}

\* No record is looked for.
RoleFreeBad(recs, m) == TRUE

\* No other record gives the role to the recipient under the same parent.
RoleFree(recs, m) ==
    LiveAt(recs, m.protocol, m.path, m.recipient, Front(m.context))
        \subseteq {m.record}

\* For each record the initial writes from the root to it; none when one is missing.
Chains(recs) ==
    LET from[r \in DOMAIN recs] ==
            LET initial == recs[r].initial
            IN  IF initial.parent = None THEN <<initial>>
                ELSE IF initial.parent \notin DOMAIN recs THEN <<>>
                ELSE IF from[initial.parent] = <<>> THEN <<>>
                ELSE Append(from[initial.parent], initial)
    IN  from

ChainTo(recs, r) == IF r \in DOMAIN recs THEN Chains(recs)[r] ELSE <<>>

\* A record that is not there yet is judged by its parent.
ChainStart(recs, m) ==
    IF m.method # "Write" \/ m.record \in DOMAIN recs THEN m.record ELSE m.parent

----------------------------------------------------------------------------
\* Requests arrive.

Receive(p, m) ==
    /\ At(p, "idle") /\ m \in pending \cap Message
    /\ req' = [req EXCEPT ![p] = m]
    /\ Go(p, CASE m.method = "Write" /\ m.protocol # None -> "definition"
               [] m.method \in {"Read", "Delete"} -> "find"
               [] OTHER -> "delegate")
    /\ UNCHANGED <<records, target, def, chain, grant>>

\* validateReferentialIntegrity, for writes
CheckDefinition(p) ==
    /\ At(p, "definition")
    /\ LET matches == Definitions(configures, req[p].protocol)
           fine == \E d \in matches : TypeAllowed(req[p], d)
       IN  /\ def' = [def EXCEPT ![p] = IF fine THEN CHOOSE d \in matches : TRUE ELSE None]
           /\ Go(p, IF fine THEN "parent" ELSE "invalid")
    /\ UNCHANGED <<records, req, target, chain, grant>>

CheckParent(p) ==
    /\ At(p, "parent")
    /\ Go(p, IF ParentMatches(records, req[p]) THEN "ruleset" ELSE "invalid")
    /\ Keep

CheckRuleSet(p) ==
    /\ At(p, "ruleset")
    /\ LET m == req[p]
           ruleSet == RuleSetAt(m.path, def[p])
           fine == /\ ruleSet # None
                   /\ ruleSet.role => m.recipient # None /\ RoleFree(records, m)
                   /\ SizeAllowed(m, ruleSet) /\ TagsAllowed(m, ruleSet)
       IN  Go(p, IF fine THEN "delegate" ELSE "invalid")
    /\ Keep

\* The messages a MessagesRead may ask for.
Stored == configures \cup {records[r].initial : r \in DOMAIN records}
                     \cup {records[r].newest : r \in DOMAIN records}

CanDelete(m, last) ==
    /\ last.method = "Delete" => m.prune /\ ~last.prune
    /\ IsNewer(m, last)

\* The write a RecordsRead is judged by: the initial one if the record is deleted.
Readable(r) == IF IsLive(records, r) THEN records[r].newest ELSE records[r].initial

\* The message to be read or deleted.
Find(p) ==
    /\ At(p, "find")
    /\ LET m == req[p]
           fits(w) == IF m.interface = "Messages" THEN w.cid = m.asked
                      ELSE /\ m.record \in DOMAIN records
                           /\ IF m.method = "Read" THEN w = Readable(m.record)
                              ELSE /\ CanDelete(m, records[m.record].newest)
                                   /\ w = records[m.record].initial
           matches == {w \in Stored : fits(w)}
       IN  /\ target' = [target EXCEPT ![p] =
                            IF matches = {} THEN None ELSE CHOOSE w \in matches : TRUE]
           /\ Go(p, IF matches = {} THEN "invalid" ELSE "delegate")
    /\ UNCHANGED <<records, req, def, chain, grant>>

\* An owner that signs must be the tenant.  One who signs for the author embeds the
\* grant; the author is the tenant, whose store has the revocations.  (One who signs
\* for the owner embeds the owner's grant, checked in the same way: left out.)
CheckDelegate(p) ==
    /\ At(p, "delegate")
    /\ LET m == req[p]
           fine == /\ m.owner \in {None, Tenant}
                   /\ \/ m.delegated = None
                      \/ GrantAllows(records, m, target[p], m.delegated, m.author, m.signer)
       IN  Go(p, IF fine THEN "authorize" ELSE "unauthorized")
    /\ Keep

\* What needs no look at grants or rules.  A write that an owner signed for its DWN
\* is the owner's; what a read returns, its recipient and its author may read.
WriteAllowedAtOnce(m) == m.owner = Tenant \/ (m.owner = None /\ m.author = Tenant)

ReadAllowedAtOnce(m, w) ==
    \/ m.author = Tenant \/ w.published
    \/ m.author # None /\ m.author \in {w.recipient, w.author}

AllowedAtOnce(m, w) ==
    IF m.interface # "Records" \/ m.method = "Delete" THEN m.author = Tenant
    ELSE CASE m.method = "Write" -> WriteAllowedAtOnce(m)
           [] m.method = "Read" -> ReadAllowedAtOnce(m, w)
           [] OTHER -> m.role = None

\* Grants are looked at before rules, except for deletes and queries of records.
GrantInvoked(m) ==
    /\ m.author # None /\ m.grant # None
    /\ m.interface # "Records" \/ m.method \in {"Write", "Read"}

Act(m) == IF m.method \in {"Write", "Delete"} THEN "process" ELSE "accepted"

\* Who may not query the protocols gets the published ones.
Refusal(m) == IF m.interface = "Protocols" THEN "published" ELSE "unauthorized"

Authorize(p) ==
    /\ At(p, "authorize")
    /\ LET m == req[p]
       IN  Go(p, IF AllowedAtOnce(m, target[p]) THEN Act(m)
                 ELSE IF GrantInvoked(m) THEN "grant"
                 ELSE IF m.interface # "Records" \/ Subject(p).protocol = None THEN Refusal(m)
                 ELSE IF m.method \in {"Query", "Subscribe"} THEN "fetch"
                 ELSE "chain")
    /\ Keep

----------------------------------------------------------------------------
\* By a grant.

LookUpGrant(p) ==
    /\ At(p, "grant")
    /\ LET matches == FetchGrant(records, req[p].grant)
       IN  /\ grant' = [grant EXCEPT ![p] = matches]
           /\ Go(p, IF matches = None THEN "unauthorized" ELSE "scope")
    /\ UNCHANGED <<records, req, target, def, chain>>

CheckGrant(p) ==
    /\ At(p, "scope")
    /\ LET m == req[p]
       IN  Go(p, IF ~GrantApplies(records, m, grant[p], Tenant, m.author) THEN "unauthorized"
                 ELSE IF ScopeAllows(records, m, target[p], grant[p]) THEN Act(m)
                 ELSE Refusal(m))
    /\ Keep

----------------------------------------------------------------------------
\* By the rules of the protocol.

BuildChain(p) ==
    /\ At(p, "chain")
    /\ LET start == ChainStart(records, req[p])
           fine == start = None \/ ChainTo(records, start) # <<>>
       IN  /\ chain' = [chain EXCEPT ![p] = ChainTo(records, start)]
           /\ Go(p, IF fine THEN "fetch" ELSE "unauthorized")
    /\ UNCHANGED <<records, req, target, def, grant>>

FetchDefinition(p) ==
    /\ At(p, "fetch")
    /\ LET matches == Definitions(configures, Subject(p).protocol)
           fine == \E d \in matches : RuleSetAt(Subject(p).path, d) # None
       IN  /\ def' = [def EXCEPT ![p] = IF fine THEN CHOOSE d \in matches : TRUE ELSE None]
           /\ Go(p, IF fine THEN "role" ELSE "unauthorized")
    /\ UNCHANGED <<records, req, target, chain, grant>>

CheckRole(p) ==
    /\ At(p, "role")
    /\ LET m == req[p]
           fine == \/ m.role = None
                   \/ RoleHeld(records, m, Subject(p).protocol, Subject(p).context, def[p])
       IN  Go(p, IF fine THEN "rules" ELSE "unauthorized")
    /\ Keep

\* Nothing allows an update or a delete of a record that has no initial write.
CheckRules(p) ==
    /\ At(p, "rules")
    /\ LET m == req[p]
           needsInitial == m.method = "Delete" \/ (m.method = "Write" /\ ~m.initial)
           initial == IF m.record \in DOMAIN records THEN records[m.record].initial ELSE m
           fine == /\ needsInitial => m.record \in DOMAIN records
                   /\ ActionAllowed(RuleSetAt(Subject(p).path, def[p]), m,
                                    ActionsSought(m, initial), chain[p])
       IN  Go(p, IF fine THEN Act(m) ELSE "unauthorized")
    /\ Keep

----------------------------------------------------------------------------
\* What was allowed is done.

\* A permission record is validated, and a revocation compared with its grant.
CanStore(m) ==
    /\ m.initial \/ (m.record \in DOMAIN records
                        /\ Immutable(records[m.record].initial) = Immutable(m))
    /\ m.record \in DOMAIN records =>
        IsLive(records, m.record) /\ IsNewer(m, records[m.record].newest)
    /\ IsPermission(m) => ValidPermission(m)
    /\ IsPermission(m) /\ m.path = RevocationPath =>
        /\ FetchGrant(records, m.parent) # None
        /\ RevocationTagged(m, FetchGrant(records, m.parent))

With(r, entry) ==
    [q \in DOMAIN records \cup {r} |-> IF q = r THEN entry ELSE records[q]]

\* An update takes the place of the initial write.
StoreWriteBad(p) ==
    /\ At(p, "process") /\ req[p].method = "Write"
    /\ IF CanStore(req[p])
       THEN /\ records' = With(req[p].record, [initial |-> req[p], newest |-> req[p]])
            /\ Go(p, "accepted")
       ELSE UNCHANGED records /\ Go(p, "invalid")
    /\ UNCHANGED local

StoreWrite(p) ==
    /\ At(p, "process") /\ req[p].method = "Write"
    /\ LET m == req[p]
           entry == [initial |-> IF m.initial THEN m ELSE records[m.record].initial,
                     newest |-> m]
       IN  IF CanStore(m) THEN records' = With(m.record, entry) /\ Go(p, "accepted")
           ELSE UNCHANGED records /\ Go(p, "invalid")
    /\ UNCHANGED local

Descendants(r) == {q \in DOMAIN records \ {r} : r \in ToSet(records[q].initial.context)}

\* The task takes a second look at the record; its reply is the same in any case.
StoreDelete(p) ==
    /\ At(p, "process") /\ req[p].method = "Delete"
    /\ LET m == req[p]
           purged == IF m.prune THEN Descendants(m.record) ELSE {}
       IN  IF m.record \in DOMAIN records /\ CanDelete(m, records[m.record].newest)
           THEN records' = [r \in DOMAIN records \ purged |->
                    IF r = m.record THEN [records[r] EXCEPT !.newest = m] ELSE records[r]]
           ELSE UNCHANGED records
    /\ Go(p, "accepted")
    /\ UNCHANGED local

NoLocal(p) ==
    /\ req' = [req EXCEPT ![p] = None] /\ target' = [target EXCEPT ![p] = None]
    /\ def' = [def EXCEPT ![p] = None] /\ chain' = [chain EXCEPT ![p] = <<>>]
    /\ grant' = [grant EXCEPT ![p] = None]

Reply(p) ==
    /\ pc[p] \in Ends
    /\ Go(p, "idle")
    /\ NoLocal(p)
    /\ UNCHANGED records

Handle(p) ==
    \/ CheckDefinition(p) \/ CheckParent(p) \/ CheckRuleSet(p) \/ Find(p)
    \/ CheckDelegate(p) \/ Authorize(p) \/ LookUpGrant(p) \/ CheckGrant(p)
    \/ BuildChain(p) \/ FetchDefinition(p) \/ CheckRole(p) \/ CheckRules(p)
    \/ StoreWrite(p) \/ StoreDelete(p) \/ Reply(p)

----------------------------------------------------------------------------
\* The configure handlers decide by owner or by grant, after the grant of one who
\* signs for the author.
MayConfigure(m) ==
    /\ m.delegated # None => GrantAllows(records, m, m, m.delegated, m.author, m.signer)
    /\ \/ m.author = Tenant
       \/ /\ m.grant # None /\ FetchGrant(records, m.grant) # None
          /\ GrantAllows(records, m, m, FetchGrant(records, m.grant), Tenant, m.author)

ConfigureHandle(c) ==
    \/ AuthorizeConfigure(c) /\ MayConfigure(creq[c])
    \/ RefuseConfigure(c) /\ ~MayConfigure(creq[c])
    \/ FindConfigures(c) \/ PutConfigure(c) \/ AppendConfigure(c)
    \/ \E m \in Configure : DeleteOlder(c, m)
    \/ OlderDeleted(c) \/ DeleteConfigureEvents(c)

\* What a handler has before a request and after a stop.
Nothing(value) == [p \in Handler |-> value]

Stop ==
    /\ StopConfigures
    /\ pc' = Nothing("idle") /\ req' = Nothing(None) /\ target' = Nothing(None)
    /\ def' = Nothing(None) /\ chain' = Nothing(<<>>) /\ grant' = Nothing(None)
    /\ UNCHANGED <<records, pending>>

\* A scenario is a record of
\*     records, configures   what is stored
\*     sent                  what clients send, each message once
\*     stops                 how often the process stops at most
Init ==
    /\ CInit
    /\ pc = Nothing("idle") /\ req = Nothing(None) /\ target = Nothing(None)
    /\ def = Nothing(None) /\ chain = Nothing(<<>>) /\ grant = Nothing(None)
    /\ \E s \in Scenario :
        /\ configures = s.configures /\ records = s.records /\ pending = s.sent
        /\ cstops = MaxStops - s.stops
    /\ views = Nothing({})

\* What a request may have seen grows with every step while it is handled.
Observe ==
    views' = [p \in Handler |->
                IF pc'[p] = "idle" THEN {}
                ELSE views[p] \cup {[records |-> records', configures |-> configures']}]

Step ==
    \/ \E p \in Handler, m \in pending :
        Receive(p, m) /\ pending' = pending \ {m} /\ UNCHANGED cvars
    \/ \E p \in Handler : Handle(p) /\ UNCHANGED <<cvars, pending>>
    \/ \E c \in Configurer, m \in pending \cap Configure :
        ReceiveConfigure(c, m) /\ pending' = pending \ {m} /\ UNCHANGED avars
    \/ \E c \in Configurer : ConfigureHandle(c) /\ UNCHANGED <<avars, pending>>
    \/ Stop

Next == Step /\ Observe

Spec == Init /\ [][Next]_vars
=============================================================================
