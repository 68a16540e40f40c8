----------------------------- MODULE RecordsPages -----------------------------
(***************************************************************************)
(* RecordsQuery and RecordsSubscribe for the owner of the DWN, for others  *)
(* and for anonymous callers: which filters a request becomes, how a       *)
(* caller gets its pages while messages are put into the index and         *)
(* deleted from it, and which of the messages put a subscriber hears of.   *)
(***************************************************************************)
EXTENDS IndexQuery, Sequences, SequencesExt

CONSTANTS
    Item,         \* index entries of messages
    Request,      \* what callers may ask, see Requests below
    Owner,        \* the tenant
    Anonymous,    \* a caller that signs nothing
    Limit,        \* items per page
    MaxChanges    \* bound on the changes of the index while a caller pages

(* A request is a record of
     author      the caller
     filter      a filter before its conversion: sets of accepted values, for
                 dates a record with "from", "to" or both, for a context its ID
     sort        "dateCreated" or "datePublished"
     descending  the direction
     role        the caller invokes a role that lets it read what it asks for *)

ASSUME RecordsPagesAssumption ==
    /\ \A i, j \in Item : i.cid = j.cid => i = j
    /\ Limit \in Nat \ {0} /\ MaxChanges \in Nat

\* What constructIndexes makes of a write and of a delete.  Only of a published
\* write is there a date of publication.
ASSUME ItemAssumption ==
    \A i \in Item :
        /\ i.cid \in Int
        /\ {"method", "isLatestBaseState", "author", "dateCreated"} \subseteq DOMAIN i.keys
        /\ i.keys.method \in {{"Write"}, {"Delete"}}
        /\ i.keys.isLatestBaseState \in {{TRUE}, {FALSE}}
        /\ "published" \in DOMAIN i.keys <=> i.keys.method = {"Write"}
        /\ "published" \in DOMAIN i.keys => i.keys.published \in {{TRUE}, {FALSE}}
        /\ "datePublished" \in DOMAIN i.keys <=>
                "published" \in DOMAIN i.keys /\ i.keys.published = {TRUE}
        /\ \A p \in {"author", "recipient"} \cap DOMAIN i.keys :
                \E did \in i.keys[p] : i.keys[p] = {did} /\ did # Anonymous
        /\ \A p \in {"dateCreated", "datePublished", "messageTimestamp", "contextId"}
                    \cap DOMAIN i.keys :
                \E v \in i.keys[p] : i.keys[p] = {v} /\ v \in Int

\* What the schema of a filter allows, and the parsing of a request.
ASSUME RequestAssumption ==
    \A r \in Request :
        /\ r.sort \in {"dateCreated", "datePublished"} /\ r.descending \in BOOLEAN
        /\ r.role \in BOOLEAN /\ (r.role => r.author # Anonymous)
        /\ {"method", "isLatestBaseState"} \cap DOMAIN r.filter = {}
        /\ "published" \in DOMAIN r.filter => r.filter.published \in {{TRUE}, {FALSE}}
        /\ {"published", "datePublished"} \subseteq DOMAIN r.filter => r.filter.published = {TRUE}
        /\ "contextId" \in DOMAIN r.filter => r.filter.contextId \in Int
        /\ \A p \in {"dateCreated", "datePublished", "messageTimestamp"} \cap DOMAIN r.filter :
                /\ DOMAIN r.filter[p] \in {{"from"}, {"to"}, {"from", "to"}}
                /\ \A end \in DOMAIN r.filter[p] : r.filter[p][end] \in Int

VARIABLES
    index,        \* the items of the message store
    changes,      \* changes of the index since the first page was asked for
    \* the caller
    step,         \* what it waits for
    request,      \* what it asked
    cursor,       \* of the last page
    todo,         \* filters still to be searched with, for the page in progress
    matches,      \* what the searches found
    returned,     \* all it was given, page after page
    heard,        \* what its subscription passed on to it
    \* history
    lasting,      \* items in the index since the first page was asked for
    offered       \* messages put since it subscribed

page == <<cursor, todo, matches>>
events == <<heard, offered>>
vars == <<index, changes, step, request, page, returned, lasting, events>>

----------------------------------------------------------------------------
\* The filters of a request.

\* A context stands for all its descendants: IDs between it and the next one.
ContextWidth == 10

Convert(p, asked) ==
    CASE p \in {"dateCreated", "datePublished", "messageTimestamp"} ->
            Between(RangeOf(asked))
      [] p = "contextId" ->
            Between([gte |-> asked, lt |-> asked + ContextWidth])
      [] OTHER -> OneOf(asked)

\* The filter with one property set, whatever it asked of it.
Setting(p, values, filter) ==
    [q \in DOMAIN filter \cup {p} |-> IF q = p THEN OneOf(values) ELSE filter[q]]

\* Records.convertFilter: no author or no recipient means any.
ConvertFilter(filter, sort) ==
    LET kept == {p \in DOMAIN filter :
                    p \in {"author", "recipient"} => filter[p] # {}}
        converted == [p \in kept |-> Convert(p, filter[p])]
    IN  IF "datePublished" \in DOMAIN filter \/ sort = "datePublished"
        THEN Setting("published", {TRUE}, converted)
        ELSE converted

LatestWrites(filter) ==
    Setting("method", {"Write"}, Setting("isLatestBaseState", {TRUE}, filter))

OwnerFilter(r) == LatestWrites(ConvertFilter(r.filter, r.sort))

\* Only writes are listened to.
EventFilterBad(r) == Setting("method", {"Write"}, ConvertFilter(r.filter, "dateCreated"))

\* A subscription has no sort; it is for deletes, too.
EventFilter(r) ==
    Setting("method", {"Write", "Delete"}, ConvertFilter(r.filter, "dateCreated"))

PublishedFilter(base) == Setting("published", {TRUE}, base)

\* Unpublished records: by a role, by the caller, for the caller.
RoleFilter(base) == Setting("published", {FALSE}, base)

AuthorFilter(r, base) == Setting("author", {r.author}, RoleFilter(base))

\* The filter's recipients are kept although some are not the caller.
RecipientFilterBad(r, base) == RoleFilter(base)

RecipientFilter(r, base) == Setting("recipient", {r.author}, RoleFilter(base))

IncludesPublished(filter) ==
    \/ "datePublished" \in DOMAIN filter
    \/ "published" \in DOMAIN filter => filter.published # {FALSE}

IncludesUnpublished(filter) ==
    IF {"datePublished", "published"} \cap DOMAIN filter = {} THEN TRUE
    ELSE "published" \in DOMAIN filter /\ filter.published = {FALSE}

\* The caller may be among those the filter asks for.
Admits(filter, p, caller) ==
    p \in DOMAIN filter => filter[p] = {} \/ caller \in filter[p]

When(condition, filter) == IF condition THEN {filter} ELSE {}

\* Published records; and unpublished ones by a role, by the caller, for it.
NonOwnerFilters(r, base) ==
    LET unpublished == IncludesUnpublished(r.filter)
    IN  When(IncludesPublished(r.filter), PublishedFilter(base))
        \cup When(unpublished /\ Admits(r.filter, "author", r.author),
                  AuthorFilter(r, base))
        \cup When(unpublished /\ r.role, RoleFilter(base))
        \cup When(unpublished /\ Admits(r.filter, "recipient", r.author),
                  RecipientFilter(r, base))

FiltersOver(r, base) ==
    IF r.author = Owner THEN {base}
    ELSE IF r.author = Anonymous THEN {PublishedFilter(base)}
    ELSE NonOwnerFilters(r, base)

Filters(r) == FiltersOver(r, OwnerFilter(r))
SubscriptionFilters(r) == FiltersOver(r, EventFilter(r))

\* Refused before any filter is built: a sort by a date that only published
\* records have, for unpublished ones; a role without the path it is for; an
\* anonymous request for unpublished records.
SubscriptionRefused(r) ==
    \/ r.role /\ "protocolPath" \notin DOMAIN r.filter
    \/ r.author = Anonymous /\ ~IncludesPublished(r.filter)

Refused(r) ==
    \/ "published" \in DOMAIN r.filter /\ r.filter.published = {FALSE}
        /\ r.sort = "datePublished"
    \/ SubscriptionRefused(r)

\* Where no branch applies nothing is refused: no filters at all match every item.
NoFilter == [p \in {} |-> OneOf({})]

Searched(r) == IF Filters(r) = {} THEN {NoFilter} ELSE Filters(r)

----------------------------------------------------------------------------
Init ==
    /\ index \in SUBSET Item /\ IsFiniteSet(index) /\ changes = 0
    /\ step = "idle" /\ request \in Request
    /\ cursor = NoCursor /\ todo = {} /\ matches = {} /\ returned = <<>>
    /\ lasting = {} /\ heard = {} /\ offered = {}

\* Messages are emitted, except for the initial writes put back by a clean-up.
IsEmitted(i) == i.keys.isLatestBaseState = {TRUE}

Emit(i) ==
    IF step = "subscribed" /\ IsEmitted(i)
    THEN /\ offered' = offered \cup {i}
         /\ heard' = heard \cup
                {j \in {i} : MatchAnyFilter(j.keys, SubscriptionFilters(request))}
    ELSE UNCHANGED events

\* The index changes under the caller's eyes, and its subscription hears of it;
\* any index may be there at first, so that changes count from then on only.
Changing == changes < MaxChanges /\ step \in {"query", "search", "subscribed"}

Put(i) ==
    /\ Changing
    /\ i \notin index
    /\ index' = index \cup {i}
    /\ changes' = changes + 1
    /\ Emit(i)
    /\ UNCHANGED <<step, request, page, returned, lasting>>

Delete(i) ==
    /\ Changing
    /\ i \in index
    /\ index' = index \ {i}
    /\ lasting' = lasting \ {i}
    /\ changes' = changes + 1
    /\ UNCHANGED <<step, request, page, returned, events>>

\* The caller asks for its first page.
Ask ==
    /\ step = "idle"
    /\ lasting' = index
    /\ step' = IF Refused(request) THEN "refused" ELSE "query"
    /\ UNCHANGED <<index, changes, request, page, returned, events>>

\* Or it subscribes.
Subscribe ==
    /\ step = "idle"
    /\ step' = IF SubscriptionRefused(request) THEN "refused" ELSE "subscribed"
    /\ UNCHANGED <<index, changes, request, page, returned, lasting, events>>

\* The cursor is that of the further result.
ReplyBad(results) ==
    LET more == Len(results) > Limit
        items == IF more THEN Front(results) ELSE results
    IN  /\ returned' = returned \o items
        /\ cursor' = IF more THEN SortKey(Last(results), request.sort) ELSE NoCursor
        /\ step' = IF more THEN "query" ELSE "done"

\* A page is taken out of one more result than it may hold, whose presence says
\* that there are further pages; the cursor is that of the last item returned.  A
\* delete on the page has no initial write to be attached, and the query throws.
Reply(results) ==
    LET more == Len(results) > Limit
        items == IF more THEN Front(results) ELSE results
    IN  IF \A i \in ToSet(items) : i.keys.method = {"Write"}
        THEN /\ returned' = returned \o items
             /\ cursor' = IF more THEN SortKey(Last(items), request.sort) ELSE NoCursor
             /\ step' = IF more THEN "query" ELSE "done"
        ELSE step' = "failed" /\ UNCHANGED <<cursor, returned>>

\* The page is read off the index of the sort property.
ScanPage ==
    /\ step = "query" /\ ~InMemory(Filters(request), cursor)
    /\ Reply(IteratorPage(index, Filters(request), request.sort,
                          request.descending, cursor, Limit + 1))
    /\ UNCHANGED <<index, changes, request, todo, matches, lasting, events>>

\* The whole filter is lost for the property it is searched by.
StartSearchBad ==
    /\ step = "query" /\ InMemory(Filters(request), cursor)
    /\ todo' = {[p \in {SearchProperty(f)} |-> f[p]] : f \in Filters(request)}
    /\ matches' = {}
    /\ step' = "search"
    /\ UNCHANGED <<index, changes, request, cursor, returned, lasting, events>>

\* The page is searched for, with one filter after the other; each sees the
\* index of its time.
StartSearch ==
    /\ step = "query" /\ InMemory(Filters(request), cursor)
    /\ todo' = Searched(request)
    /\ matches' = {}
    /\ step' = "search"
    /\ UNCHANGED <<index, changes, request, cursor, returned, lasting, events>>

SearchOne(f) ==
    /\ step = "search"
    /\ todo' = todo \ {f}
    /\ matches' = matches \cup Search(index, f, request.sort)
    /\ UNCHANGED <<index, changes, step, request, cursor, returned, lasting, events>>

EndSearch ==
    /\ step = "search" /\ todo = {}
    /\ Reply(InMemoryPage(matches, request.sort, request.descending, cursor,
                          Limit + 1))
    /\ matches' = {}
    /\ UNCHANGED <<index, changes, request, todo, lasting, events>>

Next ==
    \/ \E i \in Item : Put(i) \/ Delete(i)
    \/ Ask \/ Subscribe \/ ScanPage \/ StartSearch \/ EndSearch
    \/ \E f \in todo : SearchOne(f)

Spec == Init /\ [][Next]_vars

----------------------------------------------------------------------------
PageTypeOK ==
    /\ index \subseteq Item /\ lasting \subseteq index
    /\ changes \in 0 .. MaxChanges
    /\ step \in {"idle", "query", "search", "done", "failed", "refused", "subscribed"}
    /\ request \in Request
    /\ cursor = NoCursor \/ \E i \in Item : request.sort \in DOMAIN i.keys
                                /\ cursor = SortKey(i, request.sort)
    /\ matches \subseteq Item /\ todo \subseteq Searched(request)
    /\ ToSet(returned) \subseteq Item
    /\ heard \subseteq offered /\ offered \subseteq Item

\* Who may read a record, as RecordsRead has it.
MayRead(i, r) ==
    \/ r.author = Owner \/ r.role
    \/ i.keys.published = {TRUE}
    \/ r.author \in i.keys.author
    \/ "recipient" \in DOMAIN i.keys /\ r.author \in i.keys.recipient

\* What the caller's filter means.
Meets(i, p, asked) ==
    CASE p \in {"author", "recipient"} -> asked = {} \/ i.keys[p] \cap asked # {}
      [] p \in {"dateCreated", "datePublished", "messageTimestamp"} ->
            \E v \in i.keys[p] :
                /\ "from" \in DOMAIN asked => asked.from <= v
                /\ "to" \in DOMAIN asked => v < asked.to
      [] p = "contextId" ->
            \E v \in i.keys[p] : v \in asked .. asked + ContextWidth - 1
      [] OTHER -> i.keys[p] \cap asked # {}

MeetsAll(i, filter) ==
    \A p \in DOMAIN filter :
        \/ p \in {"author", "recipient"} /\ filter[p] = {}
        \/ p \in DOMAIN i.keys /\ Meets(i, p, filter[p])

IsAsked(i, r) ==
    /\ i.keys.method = {"Write"} /\ i.keys.isLatestBaseState = {TRUE}
    /\ r.sort \in DOMAIN i.keys
    /\ MeetsAll(i, r.filter)

\* A query returns only records the caller could also read one by one, and only
\* those asked for: the filters of the branches and the rule of RecordsRead are
\* written down twice.  (records-query.ts:144-170, records-read.ts:158-183)
OnlyReadable ==
    \A i \in ToSet(returned) : IsAsked(i, request) /\ MayRead(i, request)

\* It does so for every request to which one of the branches applies; for the
\* others see StartSearch.
OnlyReadableByBranch == Filters(request) # {} => OnlyReadable

\* A subscriber to which a branch applies hears of nothing that it does not ask
\* for, of exactly those writes that it also may read, and the owner of all the
\* deletes it asks for.  Nothing is said of the deletes that others should hear
\* of.  (records-subscribe.ts:90-196, interfaces/records-delete.ts:81-100)
HeardAsAsked ==
    SubscriptionFilters(request) # {} =>
        /\ \A i \in heard : MeetsAll(i, request.filter)
        /\ \A i \in offered : i.keys.method = {"Write"} \/ request.author = Owner =>
                (i \in heard <=> MeetsAll(i, request.filter) /\ MayRead(i, request))

\* A caller that follows the cursors to the end gets every such record that was
\* there all the time, whichever way each page was found and whatever was put or
\* deleted meanwhile.  (index-level.ts:241-471, message-store-level.ts:95-107)
PagesComplete ==
    step = "done" =>
        \A i \in lasting : IsAsked(i, request) /\ MayRead(i, request) =>
            i \in ToSet(returned)

\* Its pages are in order from first to last, and no item comes twice.
\* (index-level.ts:560-589)
PagesOrdered ==
    \A k \in 1 .. Len(returned) - 1 :
        Precedes(SortKey(returned[k], request.sort),
                 SortKey(returned[k + 1], request.sort), request.descending)
=============================================================================
