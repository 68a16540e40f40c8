--------------------------- MODULE PermissionGrants ---------------------------
(***************************************************************************)
(* Permission grants, requests and revocations: records of a core protocol *)
(* (protocols/permissions.ts), and what a grant allows                     *)
(* (core/grant-authorization.ts and core/*-grant-authorization.ts).        *)
(*                                                                         *)
(* "records" is a function from the records of the message store to        *)
(*     [initial |-> its initial write, newest |-> its newest message]      *)
(* Grants and requests are writes with the further fields scope,           *)
(* conditions, expires; a scope is [interface, method, protocol, context,  *)
(* path], None where unset.  A context is a sequence of record IDs.        *)
(***************************************************************************)
EXTENDS ProtocolRules, FiniteSets

CONSTANT PermissionsUri

RequestPath == <<"request">>
GrantPath == <<"grant">>
RevocationPath == <<"grant", "revocation">>

Rule(who, of, can) == [who |-> who, of |-> of, role |-> None, can |-> can]

PermissionRules(actions) ==
    [role |-> FALSE, min |-> 0, max |-> 10000, tags |-> NoTags, actions |-> actions]

PermissionsDefinition ==
    [protocol  |-> PermissionsUri,
     types     |-> [name \in {"request", "grant", "revocation"} |-> {"json"}],
     structure |-> [path \in {RequestPath, GrantPath, RevocationPath} |->
        PermissionRules(<<
            CASE path = RequestPath -> Rule("anyone", None, {"create"})
              [] path = GrantPath -> Rule("recipient", GrantPath, {"read", "query"})
              [] path = RevocationPath -> Rule("anyone", None, {"read"}) >>)]]

----------------------------------------------------------------------------
\* Creating permission records: they carry the protocol they are about as a tag,
\* which is how they are found by it.

IsPermission(m) == m.method = "Write" /\ m.protocol = PermissionsUri

ProtocolTag(scope) ==
    IF scope.protocol = None THEN <<>> ELSE [protocol |-> scope.protocol]

AsPermission(m, path, tags) ==
    [m EXCEPT !.protocol = PermissionsUri, !.path = path, !.tags = tags,
              !.format = "json"]

CreateRequest(m) == AsPermission(m, RequestPath, ProtocolTag(m.scope))
CreateGrant(m) == AsPermission(m, GrantPath, ProtocolTag(m.scope))

CreateRevocation(m, grant) ==
    [AsPermission(m, RevocationPath, ProtocolTag(grant.scope))
        EXCEPT !.parent = grant.record, !.context = <<grant.record, m.record>>]

TaggedProtocol(m) == IF "protocol" \in DOMAIN m.tags THEN m.tags.protocol ELSE None

\* What is required of a permission record beyond its JSON schema.
ValidPermission(m) ==
    m.path \in {RequestPath, GrantPath} =>
        /\ m.scope.protocol # None => TaggedProtocol(m) = m.scope.protocol
        /\ m.scope.interface = "Records" => m.scope.context = None \/ m.scope.path = None

----------------------------------------------------------------------------
\* Looking permission records up.

IsLive(records, r) == r \in DOMAIN records /\ records[r].newest.method = "Write"

\* The grant of that record ID, None when it is not there or is no grant.
FetchGrant(records, id) ==
    IF IsLive(records, id) /\ records[id].newest.path = GrantPath
    THEN records[id].newest ELSE None

\* The newest messages of the grant's revocations.  A delete of a revocation is
\* indexed with the properties of the record and is among them.
Revocations(records, id) ==
    {records[r].newest : r \in {q \in DOMAIN records :
        records[q].initial.parent = id /\ records[q].initial.path = RevocationPath}}

\* The scope of the grant, of the request, or of the grant revoked.  It is None when
\* the grant is not found, and for a write that is no longer the newest: what is
\* kept of it has no data.
ScopeOf(records, m) ==
    LET grant == IF m.path = RevocationPath THEN FetchGrant(records, m.parent)
                 ELSE IF m = records[m.record].newest THEN m ELSE None
    IN  IF grant = None THEN None ELSE grant.scope

----------------------------------------------------------------------------
\* What a grant allows.

\* The latest revocation decides.
NotRevokedBad(records, m, grant) ==
    LET revocations == Revocations(records, grant.record)
    IN  revocations # {} => \E v \in revocations : v.ts > m.ts

\* The oldest revocation decides: every one of them must be later than the message.
NotRevoked(records, m, grant) ==
    \A v \in Revocations(records, grant.record) : v.ts > m.ts

\* performBaseValidation
GrantApplies(records, m, grant, grantor, grantee) ==
    /\ grant.recipient = grantee /\ grant.author = grantor
    /\ grant.created <= m.ts /\ m.ts < grant.expires
    /\ NotRevoked(records, m, grant)
    /\ m.interface = grant.scope.interface /\ m.method = grant.scope.method

\* The record is in the protocol, the context and at the path of the scope.
InScope(w, scope) ==
    /\ scope.protocol = w.protocol
    /\ scope.context # None => w.context # None /\ StartsWith(scope.context, w.context)
    /\ scope.path # None => scope.path = w.path

ConditionsMet(w, conditions) ==
    /\ conditions = "required" => w.published
    /\ conditions = "prohibited" => ~w.published

SameProtocol(scope, protocol) == scope.protocol # None => scope.protocol = protocol

\* A message read is in the scope when its record is of the protocol, or is a
\* permission about it, or when it configures it.  For a delete that is looked up
\* in the newest write of the record: after a delete the only one is the initial.
MessageInScope(records, m, scope) ==
    \/ scope.protocol = None
    \/ m.interface = "Protocols" /\ m.protocol = scope.protocol
    \/ /\ m.interface = "Records"
       /\ LET w == IF m.method = "Write" THEN m ELSE records[m.record].initial
          IN  \/ w.protocol = scope.protocol
              \/ /\ w.protocol = PermissionsUri
                 /\ ScopeOf(records, w) # None
                 /\ ScopeOf(records, w).protocol = scope.protocol

\* The scope of the grant, for each kind of message; "target" is the message that
\* a read or a delete is about.
AllowsWrite(m, grant) == InScope(m, grant.scope) /\ ConditionsMet(m, grant.conditions)

AllowsDelete(target, grant) == SameProtocol(grant.scope, target.protocol)

AllowsQuery(m, grant) == SameProtocol(grant.scope, m.protocol)

ScopeAllows(records, m, target, grant) ==
    CASE m.method = "Write" -> AllowsWrite(m, grant)
      [] m.method = "Delete" -> AllowsDelete(target, grant)
      [] m.interface = "Records" /\ m.method = "Read" -> InScope(target, grant.scope)
      [] m.interface = "Messages" /\ m.method = "Read" ->
            MessageInScope(records, target, grant.scope)
      [] OTHER -> AllowsQuery(m, grant)

GrantAllows(records, m, target, grant, grantor, grantee) ==
    /\ GrantApplies(records, m, grant, grantor, grantee)
    /\ ScopeAllows(records, m, target, grant)

\* The tag of a revocation is not compared with the grant.
RevocationTaggedBad(m, grant) == TRUE

\* The protocol tag of a revocation is that of the grant it revokes.
RevocationTagged(m, grant) == TaggedProtocol(m) = grant.scope.protocol

----------------------------------------------------------------------------
\* Messages found by a protocol: Messages.convertFilters asks for the messages of
\* the protocol and for the permission records tagged with it.

FoundByProtocol(records, m, protocol) ==
    \/ m.interface = "Protocols" /\ m.protocol = protocol
    \/ /\ m.interface = "Records"
       /\ LET w == IF m.method = "Write" THEN m ELSE records[m.record].initial
          IN  \/ w.protocol = protocol
              \/ IsPermission(m) /\ TaggedProtocol(m) = protocol
=============================================================================
