-------------------------------- MODULE MCPages --------------------------------
(***************************************************************************)
(* Instances of RecordsPages: seven messages, and requests of the owner,   *)
(* of another and of an anonymous caller.                                  *)
(***************************************************************************)
EXTENDS RecordsPages, TLC

Write(by, for, created, context) ==
    [method |-> {"Write"}, isLatestBaseState |-> {TRUE}, published |-> {FALSE},
     author |-> {by}, recipient |-> {for}, dateCreated |-> {created},
     contextId |-> {context}, schema |-> {"s"}]

PublishedWrite(by, for, created, context, published) ==
    [Write(by, for, created, context) EXCEPT !.published = {TRUE}]
        @@ [datePublished |-> {published}]

\* A delete has properties of the initial write, but is neither published nor not.
DeleteBy(by, for, created, context) ==
    [p \in DOMAIN Write(by, for, created, context) \ {"published"} |->
        IF p = "method" THEN {"Delete"} ELSE Write(by, for, created, context)[p]]

InPath(keys) == keys @@ [protocolPath |-> {"p"}]

Items == {
    [cid |-> 1, keys |-> PublishedWrite("owner", "owner", 2, 10, 5)],
    [cid |-> 2, keys |-> PublishedWrite("alice", "owner", 1, 11, 4)],
    [cid |-> 3, keys |-> Write("alice", "owner", 2, 11)],
    [cid |-> 4, keys |-> InPath(Write("owner", "alice", 3, 20))],
    [cid |-> 5, keys |-> InPath(Write("owner", "owner", 1, 20))],
    [cid |-> 6, keys |-> [Write("owner", "owner", 2, 20)
                            EXCEPT !.isLatestBaseState = {FALSE}]],
    [cid |-> 7, keys |-> DeleteBy("alice", "owner", 2, 11)]}

Asks(author, filter, sort, descending) ==
    [author |-> author, filter |-> filter, sort |-> sort,
     descending |-> descending, role |-> FALSE]

Nothing == [p \in {} |-> {}]

Filterings == {
    Nothing,
    [schema |-> {"s"}],
    [contextId |-> 10],
    [contextId |-> 20, author |-> {"owner", "alice"}],
    [published |-> {FALSE}],
    [published |-> {FALSE}, author |-> {"owner"}, recipient |-> {"owner"}],
    [author |-> {"alice"}, recipient |-> {}],
    [dateCreated |-> [from |-> 1, to |-> 3]],
    [datePublished |-> [from |-> 5]]}

Requests ==
    {Asks(author, filter, "dateCreated", FALSE) :
        author \in {"owner", "alice", "anonymous"}, filter \in Filterings}
    \cup {Asks(author, filter, "dateCreated", TRUE) :
        author \in {"owner", "alice"}, filter \in {Nothing, [schema |-> {"s"}]}}
    \cup {Asks(author, filter, "datePublished", FALSE) :
        author \in {"owner", "anonymous"},
        filter \in {Nothing, [schema |-> {"s"}], [published |-> {FALSE}]}}
    \cup {[Asks("alice", [protocolPath |-> {"p"}], "dateCreated", FALSE)
            EXCEPT !.role = TRUE]}

\* A stranger asks for the unpublished records of the owner for the owner, and
\* there are only unpublished ones, none of them by or for it.
NoBranchRequests ==
    {Asks("bob", [published |-> {FALSE}, author |-> {"owner"},
                  recipient |-> {"owner"}], "dateCreated", FALSE)}

UnpublishedItems ==
    {i \in Items : i.keys.author = {"owner"} /\ i.keys.isLatestBaseState = {TRUE}
                        /\ i.keys.published = {FALSE}}

\* Others may also sort by the date of publication.
SortedRequests == {Asks("alice", [schema |-> {"s"}], "datePublished", FALSE)}
=============================================================================
