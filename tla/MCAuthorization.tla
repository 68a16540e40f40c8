---------------------------- MODULE MCAuthorization ----------------------------
(***************************************************************************)
(* Small worlds for Authorization: a chat protocol with threads,           *)
(* participants (a role within a thread) and posts, or posts with readers  *)
(* (a role within a post); its owner alice, and bob, carol and dave;       *)
(* grants, revocations and requests.                                       *)
(***************************************************************************)
EXTENDS AuthorizationProps, TLC

Chat == "chat"
Thread == <<"thread">>
Participant == <<"thread", "participant">>
Post == <<"thread", "post">>
Reader == <<"thread", "post", "reader">>

RoleRule(can) == [who |-> None, of |-> None, role |-> Participant, can |-> can]

RuleSet(isRole, rules) ==
    [role |-> isRole, min |-> 0, max |-> 2, tags |-> NoTags, actions |-> rules]

Definition(onThread, onParticipant, onPost) ==
    [protocol |-> Chat,
     types |-> [name \in {"thread", "participant", "post"} |-> {"text"}],
     structure |-> Thread :> RuleSet(FALSE, onThread)
                @@ Participant :> RuleSet(TRUE, onParticipant)
                @@ Post :> [RuleSet(FALSE, onPost) EXCEPT
                    !.tags = [required |-> {}, allowed |-> {"mood"}, open |-> FALSE]]]

Open == <<Rule("anyone", None, {"create", "read"}), Rule("author", Thread, {"co-prune"})>>
Inviting == <<Rule("author", Thread, {"create", "co-delete"})>>

\* Participants do everything; a recipient may correct its post.
First == Definition(Open, Inviting,
    <<RoleRule({"create", "update", "delete", "co-delete"} \cup ReadActions),
      Rule("recipient", None, {"co-update", "co-delete"}),
      Rule("author", Thread, {"read", "co-delete"})>>)

\* Participants only read; the recipient of the thread writes.
Second == Definition(Open, Inviting,
    <<RoleRule(ReadActions),
      Rule("recipient", Thread, {"create", "update"}),
      Rule("author", Thread, {"read", "co-update"})>>)

\* Not valid: participants may query what they may not read.
Unreadable == Definition(Open, Inviting, <<RoleRule({"create", "query"})>>)

\* A role below the posts.
Deep ==
    [protocol |-> Chat,
     types |-> [name \in {"thread", "post", "reader"} |-> {"text"}],
     structure |-> Thread :> RuleSet(FALSE, Open)
                @@ Post :> RuleSet(FALSE,
                    <<[RoleRule(ReadActions) EXCEPT !.role = Reader],
                      Rule("anyone", None, {"create"})>>)
                @@ Reader :> RuleSet(TRUE, <<Rule("author", Post, {"create", "co-delete"})>>)]

----------------------------------------------------------------------------
Blank ==
    [cid |-> 0, interface |-> "Records", method |-> "Write", author |-> "alice",
     signer |-> None, owner |-> None, delegated |-> None, ts |-> 1, created |-> 1,
     record |-> None, initial |-> TRUE, protocol |-> Chat, path |-> Thread,
     parent |-> None, context |-> None, recipient |-> None, role |-> None,
     grant |-> None, format |-> "text", size |-> 1, tags |-> <<>>,
     published |-> FALSE, prune |-> FALSE, asked |-> None, definition |-> None,
     scope |-> None, conditions |-> None, expires |-> 0]

At0(cid, author, ts) == [Blank EXCEPT !.cid = cid, !.author = author, !.ts = ts,
                                      !.created = ts]

Root(m, id) == [m EXCEPT !.record = id, !.context = <<id>>]

Under(m, path, parent, id) ==
    [m EXCEPT !.record = id, !.path = path, !.parent = parent.record,
              !.context = Append(parent.context, id)]

To(m, recipient) == [m EXCEPT !.recipient = recipient]
InRole(m) == [m EXCEPT !.role = Participant]
By(m, g) == [m EXCEPT !.grant = g.record]
Again(m, cid, author, ts) ==
    [m EXCEPT !.cid = cid, !.author = author, !.ts = ts, !.initial = FALSE,
              !.role = None, !.grant = None]

\* Requests that are no writes.
Ask(cid, author, ts, method, w) ==
    [At0(cid, author, ts) EXCEPT !.method = method, !.record = w.record,
        !.initial = FALSE, !.path = w.path, !.context = w.context]

ConfigureOf(cid, author, ts, definition) ==
    [At0(cid, author, ts) EXCEPT !.interface = "Protocols", !.method = "Configure",
        !.definition = definition, !.initial = FALSE]

Scope(interface, method, context, path) ==
    [interface |-> interface, method |-> method, protocol |-> Chat,
     context |-> context, path |-> path]

Granted(cid, id, scope, conditions) ==
    CreateGrant([Root(To(At0(cid, "alice", 2), "bob"), id) EXCEPT
        !.scope = scope, !.conditions = conditions, !.expires = 8])

----------------------------------------------------------------------------
c1 == ConfigureOf(101, "alice", 1, First)
c2 == ConfigureOf(102, "alice", 5, Second)
c3 == ConfigureOf(103, "alice", 6, Unreadable)
c4 == ConfigureOf(105, "alice", 1, Deep)

thread == Root(To(At0(1, "carol", 1), "dave"), "t")
member == To(Under(At0(2, "carol", 2), Participant, thread, "m"), "bob")
member2 == To(Under(At0(3, "carol", 3), Participant, thread, "m2"), "bob")
post == InRole(To(Under(At0(4, "bob", 3), Post, thread, "p"), "dave"))
aside == [Under(At0(5, "dave", 6), Post, thread, "d") EXCEPT !.tags = [mood |-> "glad"]]
wrong == [post EXCEPT !.cid = 6, !.record = "x", !.context = <<"t", "x">>, !.size = 3]

thread2 == Root(To(At0(7, "carol", 1), "dave"), "u")
post2 == Under(At0(8, "dave", 3), Post, thread2, "v")
reader == To(Under(At0(9, "bob", 4), Reader, post, "e"), "dave")

leave == Ask(11, "carol", 4, "Delete", member)
prune == [Ask(12, "carol", 6, "Delete", thread) EXCEPT !.prune = TRUE]
read == InRole(Ask(13, "bob", 5, "Read", post))
query == InRole([Ask(14, "bob", 5, "Query", post) EXCEPT !.record = None,
                    !.context = <<"t">>])
subscribe == [query EXCEPT !.cid = 15, !.method = "Subscribe"]
\* Contexts cut short: within a record ID, or above where the role is held.
partial == [query EXCEPT !.cid = 61, !.context = <<"?">>]
partialSubscribe == [partial EXCEPT !.cid = 62, !.method = "Subscribe"]
partly == [query EXCEPT !.cid = 63, !.context = <<"t", "?">>]
elsewhere == [query EXCEPT !.cid = 64, !.context = <<"u">>]
readElsewhere == InRole(Ask(65, "bob", 5, "Read", post2))
asReader == [query EXCEPT !.cid = 66, !.author = "dave", !.role = Reader,
                          !.context = <<"t", "p">>]
asReaderShort == [asReader EXCEPT !.cid = 67, !.context = <<"t">>]
dismiss == Ask(68, "bob", 6, "Delete", reader)

correct == Again(post, 16, "dave", 6)
amend == InRole(Again(post, 17, "bob", 7))
withdraw == Ask(18, "dave", 8, "Delete", post)
survey == Ask(57, "carol", 5, "Read", post)
peek == [Ask(19, None, 5, "Read", thread) EXCEPT !.author = None]

writing == Granted(21, "gw", Scope("Records", "Write", None, Post), "prohibited")
reading == Granted(22, "gr", Scope("Records", "Read", <<"t">>, None), None)
syncing == Granted(23, "gm", Scope("Messages", "Read", None, None), None)
listing == Granted(24, "gq", Scope("Messages", "Query", None, None), None)
setting == Granted(25, "gc", Scope("Protocols", "Configure", None, None), None)
acting == Granted(26, "gd", Scope("Records", "Delete", None, None), None)
watching == Granted(28, "gs", Scope("Messages", "Subscribe", None, None), None)
looking == Granted(29, "gp", Scope("Protocols", "Query", None, None), None)
petition == CreateRequest([Root(At0(27, "bob", 3), "q") EXCEPT
                !.scope = Scope("Records", "Read", None, None)])

Revoke(cid, ts, id, g) == CreateRevocation(Root(At0(cid, "alice", ts), id), g)
revoke4 == Revoke(31, 4, "r4", writing)
revoke6 == Revoke(32, 6, "r6", writing)
untagged == [Revoke(33, 6, "r0", reading) EXCEPT !.tags = <<>>]
revokeRead == Revoke(34, 4, "rr", reading)
revokeAct == Revoke(35, 4, "ra", acting)
revokeSync == Revoke(36, 6, "rs", syncing)

granted == By([Under(At0(41, "bob", 5), Post, thread, "w") EXCEPT !.role = None], writing)
shown == [granted EXCEPT !.cid = 42, !.record = "s", !.context = <<"t", "s">>,
            !.published = TRUE, !.ts = 3]
readBy == By(Ask(43, "bob", 5, "Read", member2), reading)
sync == By([Ask(44, "bob", 5, "Read", thread) EXCEPT !.interface = "Messages",
                !.record = None, !.asked = revokeSync.cid], syncing)
syncPost == [sync EXCEPT !.cid = 45, !.asked = post.cid]
list == By([Ask(46, "bob", 5, "Query", thread) EXCEPT !.interface = "Messages",
                !.record = None], listing)
watch == [By(list, watching) EXCEPT !.cid = 53, !.method = "Subscribe"]
lookup == By([Ask(54, "bob", 5, "Query", thread) EXCEPT !.interface = "Protocols",
                !.record = None], looking)
lookupAll == [lookup EXCEPT !.cid = 55, !.protocol = None]
setup == By(ConfigureOf(104, "bob", 7, Second), setting)
setupForAlice == [ConfigureOf(106, "alice", 8, Second) EXCEPT !.signer = "bob",
                    !.delegated = setting]
revokeSet == Revoke(38, 6, "rc", setting)
forAlice == [Ask(47, "alice", 5, "Delete", post) EXCEPT !.signer = "bob",
                !.delegated = acting]
dropGrant == Ask(48, "alice", 7, "Delete", writing)
dropRevocation == Ask(49, "alice", 7, "Delete", revoke4)
retained == [Under(At0(50, "eve", 4), Post, thread, "k") EXCEPT !.owner = "alice"]
foreign == [retained EXCEPT !.cid = 51, !.record = "f", !.context = <<"t", "f">>,
                            !.owner = "carol"]

MCConfigure == {c1, c2, c3, c4, setup, setupForAlice}
MCRoles == {query, partial, partly, elsewhere, asReader, asReaderShort}

\* "?" is a beginning that the IDs of records have in common.
MCAbbreviates == {"?"} \X {"t", "u", "m", "p", "v", "e"}

Entries(set) == [r \in {m.record : m \in set} |->
                    LET m == CHOOSE x \in set : x.record = r
                    IN  [initial |-> m, newest |-> m]]

World(stored, defined, sent, stops) ==
    [records |-> Entries(stored), configures |-> defined, sent |-> sent, stops |-> stops]

MCScenario == {
    \* grants and their revocations, in either order
    World({thread, writing}, {c1}, {granted, revoke4, revoke6}, 0),
    World({thread, writing, revoke4}, {c1}, {granted, shown, dropRevocation}, 0),
    World({thread, member2, reading}, {c1}, {readBy, revokeRead, untagged}, 0),
    World({thread, post, syncing, listing}, {c1}, {sync, syncPost, list, revokeSync}, 0),
    World({watching, looking}, {c1}, {watch, lookup, lookupAll,
                                       [lookup EXCEPT !.cid = 56, !.grant = None]}, 0),
    World({looking}, {c1}, {lookup, Revoke(37, 4, "rp", looking)}, 0),
    World({thread, post, acting}, {c1}, {forAlice, revokeAct, petition}, 0),
    World({thread, writing}, {c1}, {granted, dropGrant, retained}, 0),
    \* roles that come and go
    World({thread, member}, {c1}, {post, leave, read}, 0),
    World({thread, member, post}, {c1}, {query, subscribe, leave, wrong}, 0),
    World({thread}, {c1}, {member, member2, leave}, 0),
    World({thread, thread2, member, post, post2}, {c1}, {partial, partly, elsewhere}, 0),
    World({thread, thread2, member, post2}, {c1}, {partialSubscribe, readElsewhere, leave}, 0),
    World({thread, post, reader}, {c4}, {asReader, asReaderShort, dismiss}, 0),
    \* authors and recipients
    World({thread, member, post}, {c1}, {correct, withdraw, survey}, 0),
    World({thread, member, post}, {c1}, {prune, amend, correct}, 0),
    World({thread, member, post}, {c1}, {prune, amend, leave}, 0),
    \* definitions that change
    World({thread, member}, {c1}, {c2, post}, 0),
    World({thread}, {c1}, {c2, aside}, 1),
    World({thread, member, post}, {c1, c2}, {c3, query, peek, foreign}, 0),
    World({setting}, {c1}, {c2, setup, c3}, 1),
    World({setting}, {c1}, {setupForAlice, revokeSet}, 0),
    World({}, {}, {c1, c2, setup}, 1) }

MCMessage ==
    UNION {{s.records[r].initial : r \in DOMAIN s.records} \cup s.sent : s \in MCScenario}
        \ MCConfigure
=============================================================================
