------------------------------ MODULE IndexQuery ------------------------------
(***************************************************************************)
(* How IndexLevel answers a query: the filters, the choice between the     *)
(* scan of the sorted index and the search that is sorted and cut in       *)
(* memory, cursors and limits.                                             *)
(*                                                                         *)
(* An item is a record [cid, keys]; keys maps each indexed property to the *)
(* set of its values (one, or the elements of an array).  A filter maps    *)
(* properties to [oneOf |-> values] or [range |-> bounds].  The encoding   *)
(* of values keeps the order of those that are sorted or searched by       *)
(* range, so a value stands for its encoding.                              *)
(***************************************************************************)
EXTENDS Integers, FiniteSets
LOCAL INSTANCE Sequences

NoCursor == <<>>

OneOf(values) == [oneOf |-> values]
Between(bounds) == [range |-> bounds]
IsRange(criterion) == "range" \in DOMAIN criterion

----------------------------------------------------------------------------
\* Filters.

InRange(bounds, v) ==
    /\ "lt" \in DOMAIN bounds => v < bounds.lt
    /\ "lte" \in DOMAIN bounds => v <= bounds.lte
    /\ "gt" \in DOMAIN bounds => v > bounds.gt
    /\ "gte" \in DOMAIN bounds => v >= bounds.gte

MatchValue(criterion, v) ==
    IF IsRange(criterion) THEN InRange(criterion.range, v)
    ELSE v \in criterion.oneOf

\* A property that is not indexed matches nothing.
MatchFilter(keys, filter) ==
    \A p \in DOMAIN filter :
        p \in DOMAIN keys /\ \E v \in keys[p] : MatchValue(filter[p], v)

MatchAnyFilter(keys, filters) ==
    filters = {} \/ \E f \in filters : MatchFilter(keys, f)

\* From {from, to} to a range: from is included, to is not.
RangeOf(criterion) ==
    CASE DOMAIN criterion = {"from", "to"} ->
            [gte |-> criterion.from, lt |-> criterion.to]
      [] DOMAIN criterion = {"to"} -> [lt |-> criterion.to]
      [] DOMAIN criterion = {"from"} -> [gte |-> criterion.from]

----------------------------------------------------------------------------
\* Searching: one property of the filter selects candidates, and the whole
\* filter is then applied to them.

\* The properties to search by, the best one first.
Selective == <<"recordId", "attester", "parentId", "recipient", "contextId",
               "protocolPath", "schema", "protocol">>

SearchProperty(filter) ==
    LET chosen == {k \in DOMAIN Selective : Selective[k] \in DOMAIN filter}
    IN  IF Cardinality(DOMAIN filter) = 1 THEN CHOOSE p \in DOMAIN filter : TRUE
        ELSE IF chosen # {}
             THEN Selective[CHOOSE k \in chosen : \A l \in chosen : k <= l]
             ELSE CHOOSE p \in DOMAIN filter \ {"author"} : TRUE

ItemsWith(index, p) == {i \in index : p \in DOMAIN i.keys}

ExactMatches(index, p, v) == {i \in ItemsWith(index, p) : v \in i.keys[p]}

\* The keys of the partition are a value and a CID: with a bound of a value alone,
\* what equals an upper bound lies beyond it and is fetched by itself.
RangeMatches(index, p, bounds) ==
    LET scanned == [b \in DOMAIN bounds \ {"lte"} |-> bounds[b]]
        upTo(v) == "lte" \in DOMAIN bounds => v < bounds.lte
    IN  {i \in ItemsWith(index, p) :
            \E v \in i.keys[p] : InRange(scanned, v) /\ upTo(v)}
        \cup IF "lte" \in DOMAIN bounds
             THEN ExactMatches(index, p, bounds.lte) ELSE {}

Candidates(index, filter, sort) ==
    IF DOMAIN filter = {} THEN ItemsWith(index, sort)
    ELSE LET p == SearchProperty(filter)
         IN  IF IsRange(filter[p]) THEN RangeMatches(index, p, filter[p].range)
             ELSE UNION {ExactMatches(index, p, v) : v \in filter[p].oneOf}

\* What a search with one filter finds.
Search(index, filter, sort) ==
    {i \in Candidates(index, filter, sort) : MatchFilter(i.keys, filter)}

\* A search without a cursor is done in memory if the filter has a property that
\* leaves few items; with a cursor, only for a single record.
IsFilterConcise(filter, cursor) ==
    \/ "recordId" \in DOMAIN filter
    \/ /\ cursor = NoCursor
       /\ DOMAIN filter \cap {"protocolPath", "contextId", "parentId", "schema"} # {}

InMemory(filters, cursor) == \A f \in filters : IsFilterConcise(f, cursor)

----------------------------------------------------------------------------
\* Sorting and cutting.

SortKey(item, sort) == <<CHOOSE v \in item.keys[sort] : TRUE, item.cid>>

Less(a, b) == a[1] < b[1] \/ (a[1] = b[1] /\ a[2] < b[2])

\* The order of a query's items.
Precedes(a, b, descending) == IF descending THEN Less(b, a) ELSE Less(a, b)

\* The k-th item is the one with k - 1 before it.
Sorted(items, sort, descending) ==
    LET before(i) == {j \in items :
                        Precedes(SortKey(j, sort), SortKey(i, sort), descending)}
    IN  [k \in 1 .. Cardinality(items) |->
            CHOOSE i \in items : Cardinality(before(i)) = k - 1]

\* The cursor's own item comes again.
AfterCursorBad(items, sort, descending, cursor) ==
    {i \in items : cursor = NoCursor
                    \/ ~Precedes(SortKey(i, sort), cursor, descending)}

\* The items after a cursor, which is the sort key of an item.
AfterCursor(items, sort, descending, cursor) ==
    {i \in items : cursor = NoCursor
                    \/ Precedes(cursor, SortKey(i, sort), descending)}

\* At most limit items of a sorted query.
PageOf(items, sort, descending, cursor, limit) ==
    LET s == Sorted(AfterCursor(items, sort, descending, cursor), sort, descending)
    IN  SubSeq(s, 1, IF Len(s) < limit THEN Len(s) ELSE limit)

\* The items that lack the sort property are not in the index that is scanned ...
IteratorPage(index, filters, sort, descending, cursor, limit) ==
    PageOf({i \in ItemsWith(index, sort) : MatchAnyFilter(i.keys, filters)},
           sort, descending, cursor, limit)

\* ... but one of them among the matches of a search ends it without a result.
InMemoryPage(matches, sort, descending, cursor, limit) ==
    IF matches \subseteq ItemsWith(matches, sort)
    THEN PageOf(matches, sort, descending, cursor, limit) ELSE <<>>
=============================================================================
