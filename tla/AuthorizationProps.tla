--------------------------- MODULE AuthorizationProps ---------------------------
(***************************************************************************)
(* What Authorization promises.  Grants and rules are stated here from the *)
(* view of the one who gave them: which messages a grant covers, which     *)
(* callers a rule names.  A handler reads the store several times, so each *)
(* thing a decision rests on must have been so in some state since the     *)
(* request arrived; where the stores stood still, the decision is exact.   *)
(***************************************************************************)
EXTENDS Authorization

CONSTANT
    Roles     \* queries by role that callers may ask

\* The context is the line of records of the protocol from the root to the record,
\* as long as its path: the initial write of each names the one before it as its
\* parent.
Placed(m) ==
    LET n == Len(m.path)
        Before(i) == IF i = 1 THEN None ELSE m.context[i - 1]
    IN  /\ Sequence(m.context) /\ Len(m.context) = n /\ n > 0
        /\ m.context[n] = m.record /\ m.parent = Before(n)
        /\ \A i \in 1 .. n : \E a \in Message :
            /\ a.initial /\ a.record = m.context[i] /\ a.parent = Before(i)
            /\ a.protocol = m.protocol /\ Len(a.path) = i

\* Records as the handlers leave them.
RecordsOK(recs) ==
    \A r \in DOMAIN recs :
        /\ recs[r] \in [initial : Message, newest : Message]
        /\ recs[r].initial.initial
        /\ recs[r].newest # recs[r].initial => IsNewer(recs[r].newest, recs[r].initial)
        /\ \A x \in {recs[r].initial, recs[r].newest} :
            /\ x.record = r
            /\ x.method = "Write" =>
                /\ Immutable(x) = Immutable(recs[r].initial)
                /\ x.protocol # None => Placed(x)

ASSUME ScenarioAssumption ==
    \A s \in Scenario : RecordsOK(s.records) /\ s.sent \subseteq Message \cup Configure

ASSUME RolesAssumption ==
    \A q \in Roles : /\ {"method", "author", "role"} \subseteq DOMAIN q
                     /\ WellFormed(q) /\ q.method = "Query"
                     /\ q.protocol # None /\ q.role # None

\* The IDs of records are of one length: none is a proper beginning of another.
ASSUME WholeAssumption ==
    \A m \in Message, pair \in Abbreviates : m.initial => pair[1] # m.record

AuthTypeOK ==
    /\ ConfigureTypeOK
    /\ \A r \in DOMAIN records :
        /\ records[r].initial \in Message /\ records[r].newest \in Message
        /\ records[r].initial.initial /\ records[r].initial.record = r
        /\ records[r].newest.record = r
        /\ records[r].newest # records[r].initial
            => IsNewer(records[r].newest, records[r].initial)
    /\ pending \subseteq Message \cup Configure
    /\ \A p \in Handler :
        /\ req[p] \in Message \cup {None}
        /\ (pc[p] = "idle") = (req[p] = None)
        /\ target[p] # None => target[p] \in Message \cup Configure
        /\ grant[p] # None => grant[p].path = GrantPath
        /\ \A i \in DOMAIN chain[p] :
            /\ chain[p][i].initial
            /\ chain[p][i].parent = IF i = 1 THEN None ELSE chain[p][i - 1].record

----------------------------------------------------------------------------
\* Grants.

\* No revocation that still stands is as old as the message.
Standing(recs, g, m) ==
    \A r \in DOMAIN recs :
        recs[r].initial.parent = g.record /\ recs[r].initial.path = RevocationPath
            => recs[r].newest.ts > m.ts

\* What the grant is about.
Covers(recs, g, m, w) ==
    LET scope == g.scope
        within(x) == /\ x.protocol = scope.protocol
                     /\ scope.path \in {None, x.path}
                     /\ scope.context # None =>
                            /\ x.context # None /\ Len(scope.context) <= Len(x.context)
                            /\ \A i \in DOMAIN scope.context :
                                \/ scope.context[i] = x.context[i]
                                \/ /\ i = Len(scope.context)
                                   /\ <<scope.context[i], x.context[i]>> \in Abbreviates
    IN  /\ g.recipient = IF m.delegated = g THEN m.signer ELSE m.author
        /\ g.author = IF m.delegated = g THEN m.author ELSE Tenant
        /\ m.ts \in g.created .. g.expires - 1
        /\ <<m.interface, m.method>> = <<scope.interface, scope.method>>
        /\ CASE m.interface = "Messages" /\ m.method = "Read" ->
                    MessageInScope(recs, w, scope)
             [] m.interface = "Records" /\ m.method = "Write" ->
                    within(m) /\ g.conditions # (IF m.published THEN "prohibited"
                                                 ELSE "required")
             [] m.interface = "Records" /\ m.method = "Read" -> within(w)
             [] m.interface = "Records" /\ m.method = "Delete" ->
                    scope.protocol \in {None, w.protocol}
             [] OTHER -> scope.protocol \in {None, m.protocol}

\* The grants a request rests on: the one embedded, and the one it names.
Grants(view, m) ==
    IF m.grant = None \/ m.grant \notin DOMAIN view.records THEN {}
    ELSE {g \in {view.records[m.grant].newest} :
            g.method = "Write" /\ g.path = GrantPath}

\* A request that rests on a grant, embedded or named, is accepted only if the
\* grant was there and covers it, and at some time since the request arrived all
\* of the grant's revocations were later than the request: once the tenant has
\* revoked a grant, requests dated afterwards are refused, whatever else the
\* tenant revokes later and in whichever order messages come.  Where nothing
\* changed meanwhile, what a grant covers is not refused, nor answered with the
\* published protocols only.
\* (grant-authorization.ts:84-122, records-grant-authorization.ts,
\* permissions.ts:371-400)
GrantHonoured ==
    \A p \in Handler :
        LET m == req[p]
            w == target[p]
            named == m # None /\ GrantInvoked(m) /\ ~AllowedAtOnce(m, w)
        IN  /\ pc[p] = "accepted" /\ m.delegated # None =>
                \E v \in views[p] : /\ Covers(v.records, m.delegated, m, w)
                                    /\ Standing(v.records, m.delegated, m)
            /\ pc[p] = "accepted" /\ named =>
                \E v, u \in views[p] : \E g \in Grants(v, m) :
                    (\E t \in views[p] : Covers(t.records, g, m, w))
                        /\ Standing(u.records, g, m)
            /\ pc[p] \in {"unauthorized", "published"} /\ named
                    /\ m.delegated = None /\ m.owner = None =>
                \A v \in views[p] : views[p] = {v} =>
                    \A g \in Grants(v, m) :
                        ~(Covers(v.records, g, m, w) /\ Standing(v.records, g, m))

----------------------------------------------------------------------------
\* Rules.

\* Who holds the role in the context: as far down as the role is, or the context.
Holders(recs, role, protocol, context) ==
    {w.recipient : w \in
        {x \in {recs[r].newest : r \in DOMAIN recs} :
            /\ x.method = "Write" /\ x.protocol = protocol /\ x.path = role
            /\ \A i \in 1 .. Len(role) - 1 :
                context # None /\ (i <= Len(context) => x.context[i] = context[i])}}

\* The context names whole record IDs down to where the role is held.
Whole(context, role) ==
    context # None =>
        \A i \in DOMAIN context \cap 1 .. Len(role) - 1 :
            \A pair \in Abbreviates : pair[1] # context[i]

\* The initial writes of the records the context of a record names.
Lineage(recs, ids) == {recs[r].initial : r \in ids}

\* Those a rule names.
Named(rule, m, w, ancestors) ==
    IF rule.who = "anyone" THEN {m.author}
    ELSE IF m.role # None THEN IF rule.role = m.role THEN {m.author} ELSE {}
    ELSE IF rule.of = None THEN IF rule.who = "recipient" THEN {w.recipient} ELSE {}
    ELSE {IF rule.who = "recipient" THEN a.recipient ELSE a.author :
            a \in {b \in ancestors : b.path = rule.of}}

\* What the caller does to the record, in the words of the rules.
Does(m, initial) ==
    LET action == CASE m.method = "Delete" -> IF m.prune THEN "prune" ELSE "delete"
                    [] m.method = "Write" /\ ~m.initial -> "update"
                    [] OTHER -> "other"
        others == CASE action = "prune" -> "co-prune" [] action = "delete" -> "co-delete"
                    [] action = "update" -> "co-update"
                    [] action = "other" -> IF m.method = "Write" THEN "create"
                                           ELSE IF m.method = "Query" THEN "query"
                                           ELSE IF m.method = "Subscribe" THEN "subscribe"
                                           ELSE "read"
    IN  IF action # "other" /\ initial.author = m.author THEN {action, others} ELSE {others}

\* The records whose actors count: those above a record that is still to be
\* written, and the record itself once it is; none for a query.
Above(recs, m, w) ==
    IF m.method \in {"Query", "Subscribe"} THEN {}
    ELSE IF m.method = "Write" /\ w.record \notin DOMAIN recs THEN ToSet(Front(w.context))
    ELSE ToSet(w.context)

\* Some rule of the definition names the author, and the role is held: the roles,
\* the records above and the record itself may be those of different times.
Entitled(definition, roles, above, recs, m, w) ==
    /\ w.path \in DOMAIN definition.structure
    /\ m.role # None =>
        /\ m.role \in DOMAIN definition.structure /\ definition.structure[m.role].role
        /\ m.author \in Holders(roles, m.role, w.protocol, w.context)
    /\ Above(above, m, w) \subseteq DOMAIN above
    /\ m.method = "Delete" => w.record \in DOMAIN recs
    /\ m.method = "Write" /\ ~m.initial =>
        w.record \in DOMAIN recs /\ Immutable(recs[w.record].initial) = Immutable(m)
    /\ LET initial == IF w.record \in DOMAIN recs THEN recs[w.record].initial ELSE m
       IN  \E rule \in ToSet(definition.structure[w.path].actions) :
            /\ rule.can \cap Does(m, initial) # {}
            /\ m.author # None \/ rule.who = "anyone"
            /\ m.author \in Named(rule, m, w, Lineage(above, Above(above, m, w)))

\* The definition that was in force: the core protocol's own is not configured.
DefinitionsSeen(v, protocol) ==
    IF protocol = PermissionsUri THEN {PermissionsDefinition}
    ELSE {c.definition : c \in
            {c \in v.configures : /\ c.protocol = protocol
                                 /\ \A e \in v.configures : e.protocol = protocol
                                        => e = c \/ IsNewer(e, c)}}

\* A request that is neither the tenant's own nor rests on a grant is accepted only
\* if a rule of a definition that was in force since it arrived names its author,
\* by a role that was held, by ancestors that were there together and, for an update
\* or a delete, by a record that was there since; and it is not refused as
\* unauthorized where nothing changed and a rule names its author.  (A query or a
\* subscription in a role whose context is cut short within a record ID is left
\* out: a role held in any context that begins so is taken for one in this context.)
\* (protocol-authorization.ts:75-259, 480-730, 873-898)
RulesHonoured ==
    \A p \in Handler :
        LET m == req[p]
            w == Subject(p)
            byRules == /\ m # None /\ m.interface = "Records" /\ w.protocol # None
                       /\ ~AllowedAtOnce(m, target[p]) /\ ~GrantInvoked(m)
        IN  /\ pc[p] = "accepted" /\ byRules
                    /\ (m.role # None => Whole(w.context, m.role)) =>
                \E v, u, t, s \in views[p] : \E d \in DefinitionsSeen(v, w.protocol) :
                    Entitled(d, u.records, t.records, s.records, m, w)
            /\ pc[p] = "unauthorized" /\ byRules /\ m.delegated = None /\ m.owner = None =>
                \A v \in views[p] : views[p] = {v} =>
                    \A d \in DefinitionsSeen(v, w.protocol) :
                        ~Entitled(d, v.records, v.records, v.records, m, w)

\* A write under a parent is accepted only if the parent was live, of the protocol
\* and in the right place at some time since the write arrived; and a role is not
\* given twice: when a role record is accepted, no other record that was there all
\* the time gives the same role to the same recipient in the same place.
\* (protocol-authorization.ts:377-431, 798-848)
PlacedOnce ==
    \A p \in Handler :
        LET m == req[p]
            before == {v.records : v \in views[p]}
            same(x) == /\ x.method = "Write" /\ x.protocol = m.protocol
                       /\ x.path = m.path /\ x.recipient = m.recipient
                       /\ x.parent = m.parent /\ x.record # m.record
        IN  pc[p] = "accepted" /\ m.method = "Write" /\ m.protocol # None =>
                /\ m.parent # None => \E recs \in before :
                    /\ m.parent \in DOMAIN recs
                    /\ LET parent == recs[m.parent].newest
                       IN  /\ parent.method = "Write" /\ parent.protocol = m.protocol
                           /\ m.path = parent.path \o <<Last(m.path)>>
                           /\ m.context = parent.context \o <<m.record>>
                /\ (\A v \in views[p] : \A d \in DefinitionsSeen(v, m.protocol) :
                        m.path \in DOMAIN d.structure /\ d.structure[m.path].role) =>
                    \A r \in DOMAIN records : \E recs \in before :
                        r \in DOMAIN recs => ~same(recs[r].newest)

----------------------------------------------------------------------------
\* Two places that say the same.

QueryAllowed(q) ==
    \E d \in Definitions(configures, q.protocol) :
        /\ RuleSetAt(q.path, d) # None
        /\ RoleHeld(records, q, q.protocol, q.context, d)
        /\ \E rule \in ToSet(RuleSetAt(q.path, d).actions) :
            /\ rule.role = q.role /\ rule.can \cap ActionsSought(q, q) # {}
            /\ RuleAllows(rule, q, <<>>)

ReadAllowed(q, w) ==
    LET m == [q EXCEPT !.method = "Read"]
    IN  /\ ChainTo(records, w.record) # <<>>
        /\ \E d \in Definitions(configures, w.protocol) :
            /\ RuleSetAt(w.path, d) # None
            /\ RoleHeld(records, m, w.protocol, w.context, d)
            /\ ActionAllowed(RuleSetAt(w.path, d), m, ActionsSought(m, m),
                             ChainTo(records, w.record))

\* The query's context reaches down to where its role is held, in whole record IDs.
\* Nothing in the code sees to it: the contextId of a query may be any string.
InPlace(q) ==
    /\ Len(q.role) > 1 => q.context # None /\ Len(q.context) >= Len(q.role) - 1
    /\ Whole(q.context, q.role)

\* A query by role is judged once, by the path and the context it asks for, and a
\* read by the record it finds: what a rule for the role lets the query return can
\* be read in the same role, whatever definition was configured, unless an ancestor
\* was purged.  It is so only for a query whose context is in place: with a context
\* cut short, a role held in one thread lets a query find the records of every
\* thread that begins so, which a read refuses.
\* (protocols-configure.ts:190-203, protocol-authorization.ts:173-211, 518-533)
QueryInPlaceReadable ==
    \A q \in Roles : InPlace(q) /\ QueryAllowed(q) =>
        \A r \in DOMAIN records :
            LET w == records[r].newest
            IN  /\ w.method = "Write" /\ w.protocol = q.protocol /\ w.path = q.path
                /\ q.context # None => StartsWith(q.context, w.context)
                /\ ChainTo(records, r) # <<>>
                => ReadAllowed(q, w)

\* The newest state of its record, and for a revocation also the grant's.
IsCurrent(m) ==
    /\ m = records[m.record].newest
    /\ IsPermission(m) /\ m.path = RevocationPath => IsLive(records, m.parent)

\* What a grant for the messages of a protocol lets its grantee read one by one is
\* what a query for the protocol finds, by protocol or by tag; of the permissions
\* it finds, those that are gone or whose grant is gone cannot be read any more.
\* The delete of a permission record has no tag: it is read but not found.
\* (messages-grant-authorization.ts:84-128, utils/messages.ts:48-98,
\* handlers/records-write.ts:186-209, permissions.ts:166-332)
ScopedMessagesFound ==
    \A m \in Stored, c \in Configure :
        LET scope == [interface |-> "Messages", method |-> "Read",
                      protocol |-> c.protocol, context |-> None, path |-> None]
            readable == MessageInScope(records, m, scope)
            isFound == FoundByProtocol(records, m, c.protocol)
            untagged == m.method = "Delete" /\ IsPermission(records[m.record].initial)
        IN  /\ readable => isFound \/ untagged
            /\ isFound /\ m.interface = "Records" /\ IsCurrent(m) => readable
=============================================================================
