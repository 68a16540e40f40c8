----------------------------- MODULE ProtocolRules -----------------------------
(***************************************************************************)
(* Protocol definitions: which ones a ProtocolsConfigure may carry         *)
(* (interfaces/protocols-configure.ts), and what their rule sets say of a  *)
(* message (the parts of core/protocol-authorization.ts that read no       *)
(* store).                                                                 *)
(*                                                                         *)
(* A protocol path is a sequence of type names.  A definition is a record  *)
(*     protocol   its URI                                                  *)
(*     types      for each declared type the formats its records may have: *)
(*                a format stands for a pair of schema and data format     *)
(*     structure  the rule set at every path of the tree                   *)
(* and a rule set a record                                                 *)
(*     role       records at this path are roles                           *)
(*     min, max   bounds of the data size; max may be NoLimit              *)
(*     tags       NoTags, or which tags are required and allowed           *)
(*     actions    the action rules [who, of, role, can], None where unset  *)
(* A contextId is a sequence of segments, the record IDs from the root to  *)
(* the record; in a request its last segment may be cut short.             *)
(***************************************************************************)
EXTENDS Integers, Sequences, SequencesExt

CONSTANTS
    None,       \* an undefined property
    MaxDepth,   \* levels of records in a protocol
    Abbreviates \* pairs <<x, y>> where segment x is a proper beginning of y

NoTags == [required |-> {}, allowed |-> {}, open |-> TRUE]
NoLimit == -1

TypeName(path) == Last(path)

\* As strings, the context starts with the prefix: segment by segment, but for the
\* last segment of the prefix, which need not be whole.
StartsWith(prefix, context) ==
    /\ Len(prefix) <= Len(context)
    /\ \A i \in DOMAIN prefix :
        \/ prefix[i] = context[i]
        \/ i = Len(prefix) /\ <<prefix[i], context[i]>> \in Abbreviates

RuleSetAt(path, definition) ==
    IF path \in DOMAIN definition.structure THEN definition.structure[path] ELSE None

----------------------------------------------------------------------------
\* Which definitions may be configured.

IsRole(path, definition) == definition.structure[path].role

BelowRole(path, definition) ==
    \E other \in DOMAIN definition.structure :
        IsStrictPrefix(other, path) /\ IsRole(other, definition)

\* The walk that gathers the roles does not look below a role.
RolePaths(definition) ==
    {path \in DOMAIN definition.structure :
        IsRole(path, definition) /\ ~BelowRole(path, definition)}

\* The depth of every path the walk enters is limited.
DepthAllowed(definition) ==
    \A path \in DOMAIN definition.structure :
        IsRole(path, definition) \/ BelowRole(path, definition)
            \/ Len(path) <= MaxDepth

ReadActions == {"read", "query", "subscribe"}
CoActions == {"co-update", "co-delete", "co-prune"}

\* A role rule need not have all of the read actions.
ValidRuleBad(rule, roles) ==
    /\ rule.role # None => rule.role \in roles
    /\ rule.who = "anyone" => rule.of = None
    /\ rule.who = "recipient" /\ rule.of = None => rule.can \subseteq CoActions
    /\ rule.who = "author" => rule.of # None
    /\ rule.can \cap {"update", "delete"} # {} => "create" \in rule.can

ValidRule(rule, roles) ==
    /\ rule.role # None =>
        /\ rule.role \in roles
        /\ rule.can \cap ReadActions # {} => ReadActions \subseteq rule.can
    /\ rule.who = "anyone" => rule.of = None
    /\ rule.who = "recipient" /\ rule.of = None => rule.can \subseteq CoActions
    /\ rule.who = "author" => rule.of # None
    /\ rule.can \cap {"update", "delete"} # {} => "create" \in rule.can

SameActor(rule, other) ==
    IF rule.who # None THEN rule.who = other.who /\ rule.of = other.of
    ELSE rule.role = other.role

ValidRuleSet(ruleSet, roles) ==
    /\ ruleSet.max # NoLimit => ruleSet.min <= ruleSet.max
    /\ \A i \in DOMAIN ruleSet.actions :
        /\ ValidRule(ruleSet.actions[i], roles)
        /\ \A j \in DOMAIN ruleSet.actions :
            i < j => ~SameActor(ruleSet.actions[i], ruleSet.actions[j])

ValidDefinition(definition) ==
    /\ DepthAllowed(definition)
    /\ \A path \in DOMAIN definition.structure :
        /\ TypeName(path) \in DOMAIN definition.types
        /\ ValidRuleSet(definition.structure[path], RolePaths(definition))

----------------------------------------------------------------------------
\* What a definition says of a write.

TypeAllowed(m, definition) ==
    /\ TypeName(m.path) \in DOMAIN definition.types
    /\ m.format \in definition.types[TypeName(m.path)]

SizeAllowed(m, ruleSet) ==
    /\ ruleSet.min <= m.size
    /\ ruleSet.max # NoLimit => m.size <= ruleSet.max

TagsAllowed(m, ruleSet) ==
    /\ ruleSet.tags.required \subseteq DOMAIN m.tags
    /\ ~ruleSet.tags.open => DOMAIN m.tags \subseteq ruleSet.tags.allowed

----------------------------------------------------------------------------
\* Which messages the action rules allow.

\* What a rule must allow for the message to be authorized; the writer of the
\* record's initial write may also use the rules for the author's own records.
ActionsSought(m, initial) ==
    LET own(mine, any) == IF m.author = initial.author THEN {mine, any} ELSE {any}
    IN  CASE m.method = "Delete" ->
                IF m.prune THEN own("prune", "co-prune") ELSE own("delete", "co-delete")
          [] m.method = "Write" ->
                IF m.initial THEN {"create"} ELSE own("update", "co-update")
          [] m.method = "Query" -> {"query"}
          [] m.method = "Subscribe" -> {"subscribe"}
          [] OTHER -> {"read"}

\* The caller wrote, or received, the record at the rule's path in the chain.
CheckActor(author, rule, chain) ==
    \E ancestor \in ToSet(chain) :
        /\ ancestor.path = rule.of
        /\ author = IF rule.who = "recipient" THEN ancestor.recipient
                    ELSE ancestor.author

\* The record a recipient rule without "of" is about.
IsRecipient(m, chain) ==
    LET record == IF m.method = "Write" THEN m ELSE Last(chain)
    IN  record.recipient = m.author

RuleAllows(rule, m, chain) ==
    \/ rule.who = "anyone"
    \/ /\ m.author # None
       /\ IF m.role # None THEN rule.role = m.role
          ELSE IF rule.who = "recipient" /\ rule.of = None THEN IsRecipient(m, chain)
          ELSE CheckActor(m.author, rule, chain)

ActionAllowed(ruleSet, m, actions, chain) ==
    \E rule \in ToSet(ruleSet.actions) :
        rule.can \cap actions # {} /\ RuleAllows(rule, m, chain)
=============================================================================
