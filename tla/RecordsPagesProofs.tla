-------------------------- MODULE RecordsPagesProofs --------------------------
(***************************************************************************)
(* What a caller of RecordsQuery gets on its pages, and hears of by        *)
(* RecordsSubscribe, for any messages, requests and changes of the index.  *)
(***************************************************************************)
EXTENDS RecordsPages, FiniteSetTheorems, TLAPS

----------------------------------------------------------------------------
\* Filters: what the branches of a request say together is what the request asks
\* for, of the records the caller may read.

MatchProperty(keys, p, criterion) ==
    p \in DOMAIN keys /\ \E v \in keys[p] : MatchValue(criterion, v)

Has(keys, p, values) == p \in DOMAIN keys /\ keys[p] \cap values # {}

MatchOthers(set, keys, filter) ==
    \A q \in DOMAIN filter \ set : MatchProperty(keys, q, filter[q])

LEMMA MatchIs ==
    ASSUME NEW keys, NEW filter
    PROVE  MatchFilter(keys, filter) <=> MatchOthers({}, keys, filter)
BY DEF MatchFilter, MatchOthers, MatchProperty

LEMMA SettingMatches ==
    ASSUME NEW keys, NEW p, NEW values, NEW filter, NEW set
    PROVE  MatchOthers(set, keys, Setting(p, values, filter)) <=>
                (p \in set \/ Has(keys, p, values)) /\ MatchOthers(set \cup {p}, keys, filter)
<1>1. \A v : MatchValue(OneOf(values), v) <=> v \in values
  BY DEF MatchValue, OneOf, IsRange
<1>2. PICK s : s = Setting(p, values, filter)
  OBVIOUS
<1>3. /\ DOMAIN s = DOMAIN filter \cup {p} /\ s[p] = OneOf(values)
      /\ \A q \in DOMAIN filter : q # p => s[q] = filter[q]
  BY <1>2 DEF Setting
<1>4. MatchProperty(keys, p, OneOf(values)) <=> Has(keys, p, values)
  BY <1>1 DEF MatchProperty, Has
<1> QED  BY <1>2, <1>3, <1>4 DEF MatchOthers

\* A property of the request that is kept, before and after its conversion.
Asking(i, p, asked) ==
    \/ p \in {"author", "recipient"} /\ asked = {}
    \/ p \in DOMAIN i.keys /\ Meets(i, p, asked)

Kept(p, asked) == p \in {"author", "recipient"} => asked # {}

LEMMA RangeMeets ==
    ASSUME NEW asked, DOMAIN asked \in {{"from"}, {"to"}, {"from", "to"}},
           \A end \in DOMAIN asked : asked[end] \in Int, NEW v \in Int
    PROVE  InRange(RangeOf(asked), v) <=>
                /\ "from" \in DOMAIN asked => asked.from <= v
                /\ "to" \in DOMAIN asked => v < asked.to
<1>1. CASE DOMAIN asked = {"from"}
  <2>1. RangeOf(asked) = [gte |-> asked.from]
    BY <1>1 DEF RangeOf
  <2> QED  BY <1>1, <2>1 DEF InRange
<1>2. CASE DOMAIN asked = {"to"}
  <2>1. RangeOf(asked) = [lt |-> asked.to]
    BY <1>2 DEF RangeOf
  <2> QED  BY <1>2, <2>1 DEF InRange
<1>3. CASE DOMAIN asked = {"from", "to"}
  <2>1. RangeOf(asked) = [gte |-> asked.from, lt |-> asked.to]
    BY <1>3 DEF RangeOf
  <2> QED  BY <1>3, <2>1 DEF InRange
<1> QED  BY <1>1, <1>2, <1>3

LEMMA IntValues ==
    ASSUME NEW i \in Item, NEW p \in DOMAIN i.keys,
           p \in {"dateCreated", "datePublished", "messageTimestamp", "contextId"}
    PROVE  \E v : i.keys[p] = {v} /\ v \in Int
<1>1. \A q \in {"dateCreated", "datePublished", "messageTimestamp", "contextId"}
            \cap DOMAIN i.keys :
        \E v \in i.keys[q] : i.keys[q] = {v} /\ v \in Int
  BY ItemAssumption
<1> QED  BY <1>1

LEMMA ConvertMeets ==
    ASSUME NEW r \in Request, NEW i \in Item, NEW p \in DOMAIN r.filter,
           Kept(p, r.filter[p])
    PROVE  MatchProperty(i.keys, p, Convert(p, r.filter[p])) <=> Asking(i, p, r.filter[p])
<1>1. PICK asked, keys : asked = r.filter[p] /\ keys = i.keys
  OBVIOUS
<1>2. CASE p \in {"dateCreated", "datePublished", "messageTimestamp"}
  <2>1. /\ DOMAIN asked \in {{"from"}, {"to"}, {"from", "to"}}
        /\ \A end \in DOMAIN asked : asked[end] \in Int
    BY <1>1, <1>2, RequestAssumption
  <2>2. p \in DOMAIN keys => \A v \in keys[p] : v \in Int
    BY <1>1, <1>2, IntValues
  <2>3. Convert(p, asked) = Between(RangeOf(asked))
    BY <1>2 DEF Convert
  <2>4. \A v : MatchValue(Between(RangeOf(asked)), v) <=> InRange(RangeOf(asked), v)
    BY DEF MatchValue, Between, IsRange
  <2>5. MatchProperty(keys, p, Convert(p, asked)) <=>
            p \in DOMAIN keys /\ \E v \in keys[p] : InRange(RangeOf(asked), v)
    BY <2>3, <2>4 DEF MatchProperty
  <2>6. ASSUME p \in DOMAIN keys
        PROVE  Meets(i, p, asked) <=> \E v \in keys[p] : InRange(RangeOf(asked), v)
    <3>1. Meets(i, p, asked) <=>
            \E v \in keys[p] : /\ "from" \in DOMAIN asked => asked.from <= v
                               /\ "to" \in DOMAIN asked => v < asked.to
      BY <1>1, <1>2 DEF Meets
    <3> QED  BY <2>1, <2>2, <2>6, <3>1, RangeMeets
  <2> QED  BY <1>1, <1>2, <2>5, <2>6 DEF Asking
<1>3. CASE p = "contextId"
  <2>1. asked \in Int
    BY <1>1, <1>3, RequestAssumption
  <2>2. p \in DOMAIN keys => \A v \in keys[p] : v \in Int
    BY <1>1, <1>3, IntValues
  <2>3. Convert(p, asked) = Between([gte |-> asked, lt |-> asked + ContextWidth])
    BY <1>3 DEF Convert
  <2>4. \A v \in Int : MatchValue(Convert(p, asked), v) <=> v \in asked .. asked + ContextWidth - 1
    BY <2>1, <2>3 DEF MatchValue, Between, IsRange, InRange, ContextWidth
  <2> QED  BY <1>1, <1>3, <2>2, <2>4 DEF MatchProperty, Asking, Meets
<1>4. CASE p \notin {"dateCreated", "datePublished", "messageTimestamp", "contextId"}
  <2>1. Convert(p, asked) = OneOf(asked)
    BY <1>4 DEF Convert
  <2>2. \A v : MatchValue(OneOf(asked), v) <=> v \in asked
    BY DEF MatchValue, OneOf, IsRange
  <2>3. MatchProperty(keys, p, Convert(p, asked)) <=> p \in DOMAIN keys /\ keys[p] \cap asked # {}
    BY <2>1, <2>2 DEF MatchProperty
  <2>4. Meets(i, p, asked) <=> keys[p] \cap asked # {}
    BY <1>1, <1>4 DEF Meets, Kept
  <2> QED  BY <1>1, <2>3, <2>4 DEF Asking, Kept
<1> QED  BY <1>2, <1>3, <1>4

\* Some property of the request is only for published records.
OfPublished(r, sort) == "datePublished" \in DOMAIN r.filter \/ sort = "datePublished"

\* What the converted filter says of the properties that no branch sets.
Others(set, i, r) ==
    \A p \in DOMAIN r.filter \ set : Asking(i, p, r.filter[p])

LEMMA ConvertedMatches ==
    ASSUME NEW r \in Request, NEW i \in Item, NEW sort, NEW set
    PROVE  MatchOthers(set, i.keys, ConvertFilter(r.filter, sort)) <=>
                IF OfPublished(r, sort)
                THEN /\ "published" \in set \/ Has(i.keys, "published", {TRUE})
                     /\ Others(set \cup {"published"}, i, r)
                ELSE Others(set, i, r)
<1> DEFINE kept == {p \in DOMAIN r.filter : Kept(p, r.filter[p])}
           converted == [p \in kept |-> Convert(p, r.filter[p])]
           filter == ConvertFilter(r.filter, sort)
<1>1. kept = {p \in DOMAIN r.filter : p \in {"author", "recipient"} => r.filter[p] # {}}
  BY DEF Kept
<1>2. filter = IF OfPublished(r, sort) THEN Setting("published", {TRUE}, converted)
               ELSE converted
  BY <1>1 DEF ConvertFilter, OfPublished
<1>3. \A q \in kept : MatchProperty(i.keys, q, Convert(q, r.filter[q]))
                          <=> Asking(i, q, r.filter[q])
  BY ConvertMeets
<1>4. \A q \in DOMAIN r.filter \ kept : Asking(i, q, r.filter[q])
  BY DEF Asking, Kept
<1>5. ASSUME NEW skip PROVE MatchOthers(skip, i.keys, converted) <=> Others(skip, i, r)
  BY <1>3, <1>4 DEF MatchOthers, Others
<1> HIDE DEF converted, filter
<1>6. CASE ~OfPublished(r, sort)
  BY <1>2, <1>5, <1>6 DEF filter
<1>7. CASE OfPublished(r, sort)
  BY <1>2, <1>5, <1>7, SettingMatches DEF filter
<1> QED  BY <1>6, <1>7

\* The two bases that the branches add to.
BaseOf(kind, r) == IF kind = "query" THEN OwnerFilter(r) ELSE EventFilter(r)

IsLatestWrite(i) == i.keys.method = {"Write"} /\ i.keys.isLatestBaseState = {TRUE}

Fits(kind, i) == kind = "query" => IsLatestWrite(i)

LEMMA ItemIs ==
    ASSUME NEW i \in Item
    PROVE  /\ \A m : Has(i.keys, "method", {m}) <=> i.keys.method = {m}
           /\ Has(i.keys, "method", {"Write", "Delete"})
           /\ Has(i.keys, "isLatestBaseState", {TRUE}) <=> i.keys.isLatestBaseState = {TRUE}
           /\ \A b : Has(i.keys, "published", {b}) <=>
                    i.keys.method = {"Write"} /\ i.keys.published = {b}
           /\ i.keys.method = {"Write"} => i.keys.published \in {{TRUE}, {FALSE}}
<1>1. /\ {"method", "isLatestBaseState"} \subseteq DOMAIN i.keys
      /\ i.keys.method \in {{"Write"}, {"Delete"}}
      /\ i.keys.isLatestBaseState \in {{TRUE}, {FALSE}}
      /\ "published" \in DOMAIN i.keys <=> i.keys.method = {"Write"}
      /\ "published" \in DOMAIN i.keys => i.keys.published \in {{TRUE}, {FALSE}}
  BY ItemAssumption
<1>2. PICK m, l, b : m = i.keys.method /\ l = i.keys.isLatestBaseState /\ b = i.keys.published
  OBVIOUS
<1> QED  BY <1>1, <1>2 DEF Has

LEMMA BaseMatches ==
    ASSUME NEW kind \in {"query", "events"}, NEW r \in Request, NEW i \in Item, NEW set,
           {"method", "isLatestBaseState"} \cap set = {}
    PROVE  MatchOthers(set, i.keys, BaseOf(kind, r)) <=>
                /\ Fits(kind, i)
                /\ IF OfPublished(r, IF kind = "query" THEN r.sort ELSE "dateCreated")
                   THEN /\ "published" \in set \/ Has(i.keys, "published", {TRUE})
                        /\ Others(set \cup {"published"}, i, r)
                   ELSE Others(set, i, r)
<1>1. {"method", "isLatestBaseState"} \cap DOMAIN r.filter = {}
  BY RequestAssumption
<1>2. \A skip : /\ Others(skip \cup {"method"}, i, r) <=> Others(skip, i, r)
                /\ Others(skip \cup {"isLatestBaseState"}, i, r) <=> Others(skip, i, r)
  BY <1>1 DEF Others
<1>0. "method" \notin set /\ "isLatestBaseState" \notin set \cup {"method"}
  OBVIOUS
<1>5. /\ Has(i.keys, "method", {"Write"}) <=> i.keys.method = {"Write"}
      /\ Has(i.keys, "method", {"Write", "Delete"})
      /\ Has(i.keys, "isLatestBaseState", {TRUE}) <=> i.keys.isLatestBaseState = {TRUE}
  BY ItemIs
<1>3. CASE kind = "events"
  <2> DEFINE filter == ConvertFilter(r.filter, "dateCreated")
  <2>1. MatchOthers(set, i.keys, EventFilter(r)) <=>
            MatchOthers(set \cup {"method"}, i.keys, filter)
    BY <1>0, <1>5, SettingMatches DEF EventFilter
  <2>2. Others((set \cup {"method"}) \cup {"published"}, i, r)
            <=> Others(set \cup {"published"}, i, r)
    BY <1>1 DEF Others
  <2>3. "published" \in set \cup {"method"} <=> "published" \in set
    OBVIOUS
  <2> HIDE DEF filter
  <2>4. MatchOthers(set \cup {"method"}, i.keys, filter) <=>
            IF OfPublished(r, "dateCreated")
            THEN /\ "published" \in set \/ Has(i.keys, "published", {TRUE})
                 /\ Others(set \cup {"published"}, i, r)
            ELSE Others(set, i, r)
    BY <1>2, <2>2, <2>3, ConvertedMatches DEF filter
  <2> QED  BY <1>3, <2>1, <2>4 DEF BaseOf, Fits
<1>4. CASE kind = "query"
  <2> DEFINE filter == ConvertFilter(r.filter, r.sort)
             all == (set \cup {"method"}) \cup {"isLatestBaseState"}
  <2>1. MatchOthers(set, i.keys, OwnerFilter(r)) <=>
            /\ i.keys.method = {"Write"}
            /\ MatchOthers(set \cup {"method"}, i.keys,
                           Setting("isLatestBaseState", {TRUE}, filter))
    BY <1>0, <1>5, SettingMatches DEF OwnerFilter, LatestWrites
  <2>2. MatchOthers(set \cup {"method"}, i.keys, Setting("isLatestBaseState", {TRUE}, filter))
            <=> i.keys.isLatestBaseState = {TRUE} /\ MatchOthers(all, i.keys, filter)
    <3> HIDE DEF filter
    <3>1. MatchOthers(set \cup {"method"}, i.keys, Setting("isLatestBaseState", {TRUE}, filter))
            <=> /\ \/ "isLatestBaseState" \in set \cup {"method"}
                   \/ Has(i.keys, "isLatestBaseState", {TRUE})
                /\ MatchOthers(all, i.keys, filter)
      BY SettingMatches
    <3>2. "isLatestBaseState" \notin set \cup {"method"}
      BY <1>0
    <3> HIDE DEF all
    <3> QED  BY <1>5, <3>1, <3>2
  <2>3. /\ Others(all, i, r) <=> Others(set, i, r)
        /\ Others(all \cup {"published"}, i, r) <=> Others(set \cup {"published"}, i, r)
        /\ "published" \in all <=> "published" \in set
    BY <1>1 DEF Others
  <2> HIDE DEF all, filter
  <2>4. MatchOthers(all, i.keys, filter) <=>
            IF OfPublished(r, r.sort)
            THEN /\ "published" \in set \/ Has(i.keys, "published", {TRUE})
                 /\ Others(set \cup {"published"}, i, r)
            ELSE Others(set, i, r)
    BY <2>3, ConvertedMatches DEF filter
  <2> QED  BY <1>4, <2>1, <2>2, <2>4 DEF BaseOf, Fits, IsLatestWrite
<1> QED  BY <1>3, <1>4

\* What the branch of published, of unpublished, of the caller's own and of the
\* records for it find.
LEMMA BranchMatches ==
    ASSUME NEW kind \in {"query", "events"}, NEW r \in Request, NEW i \in Item
    PROVE  LET base == BaseOf(kind, r)
               public == i.keys.method = {"Write"} /\ i.keys.published = {TRUE}
               private == i.keys.method = {"Write"} /\ i.keys.published = {FALSE}
           IN  /\ MatchFilter(i.keys, PublishedFilter(base)) <=>
                    Fits(kind, i) /\ public /\ Others({"published"}, i, r)
               /\ MatchFilter(i.keys, RoleFilter(base)) <=>
                    Fits(kind, i) /\ private /\ Others({"published"}, i, r)
               /\ MatchFilter(i.keys, AuthorFilter(r, base)) <=>
                    /\ Fits(kind, i) /\ private /\ Has(i.keys, "author", {r.author})
                    /\ Others({"author", "published"}, i, r)
               /\ MatchFilter(i.keys, RecipientFilter(r, base)) <=>
                    /\ Fits(kind, i) /\ private /\ Has(i.keys, "recipient", {r.author})
                    /\ Others({"recipient", "published"}, i, r)
<1> DEFINE base == BaseOf(kind, r)
<1>1. ASSUME NEW set, "published" \in set, {"method", "isLatestBaseState"} \cap set = {}
      PROVE  MatchOthers(set, i.keys, base) <=> Fits(kind, i) /\ Others(set, i, r)
  <2>1. set \cup {"published"} = set
    BY <1>1
  <2> QED  BY <1>1, <2>1, BaseMatches
<1> HIDE DEF base
<1>2. ASSUME NEW b
      PROVE  MatchFilter(i.keys, Setting("published", {b}, base)) <=>
                /\ Fits(kind, i) /\ i.keys.method = {"Write"} /\ i.keys.published = {b}
                /\ Others({"published"}, i, r)
  <2>1. MatchFilter(i.keys, Setting("published", {b}, base)) <=>
            Has(i.keys, "published", {b}) /\ MatchOthers({"published"}, i.keys, base)
    <3>1. {} \cup {"published"} = {"published"}
      OBVIOUS
    <3> QED  BY <3>1, SettingMatches, MatchIs
  <2> QED  BY <2>1, <1>1, ItemIs
<1>3. ASSUME NEW p, p \in {"author", "recipient"}
      PROVE  MatchFilter(i.keys, Setting(p, {r.author}, RoleFilter(base))) <=>
                /\ Fits(kind, i) /\ i.keys.method = {"Write"} /\ i.keys.published = {FALSE}
                /\ Has(i.keys, p, {r.author}) /\ Others({p, "published"}, i, r)
  <2>1. MatchFilter(i.keys, Setting(p, {r.author}, RoleFilter(base))) <=>
            Has(i.keys, p, {r.author}) /\ MatchOthers({p}, i.keys, RoleFilter(base))
    <3>1. {} \cup {p} = {p}
      OBVIOUS
    <3> QED  BY <3>1, SettingMatches, MatchIs
  <2>2. MatchOthers({p}, i.keys, RoleFilter(base)) <=>
            Has(i.keys, "published", {FALSE}) /\ MatchOthers({p, "published"}, i.keys, base)
    <3>1. {p} \cup {"published"} = {p, "published"} /\ "published" \notin {p}
      BY <1>3
    <3> QED  BY <3>1, SettingMatches DEF RoleFilter
  <2>3. MatchOthers({p, "published"}, i.keys, base)
            <=> Fits(kind, i) /\ Others({p, "published"}, i, r)
    BY <1>1, <1>3
  <2> QED  BY <2>1, <2>2, <2>3, ItemIs
<1>4. /\ MatchFilter(i.keys, PublishedFilter(base)) <=>
            /\ Fits(kind, i) /\ i.keys.method = {"Write"} /\ i.keys.published = {TRUE}
            /\ Others({"published"}, i, r)
      /\ MatchFilter(i.keys, RoleFilter(base)) <=>
            /\ Fits(kind, i) /\ i.keys.method = {"Write"} /\ i.keys.published = {FALSE}
            /\ Others({"published"}, i, r)
  BY <1>2 DEF PublishedFilter, RoleFilter
<1>5. /\ MatchFilter(i.keys, AuthorFilter(r, base)) <=>
            /\ Fits(kind, i) /\ i.keys.method = {"Write"} /\ i.keys.published = {FALSE}
            /\ Has(i.keys, "author", {r.author}) /\ Others({"author", "published"}, i, r)
      /\ MatchFilter(i.keys, RecipientFilter(r, base)) <=>
            /\ Fits(kind, i) /\ i.keys.method = {"Write"} /\ i.keys.published = {FALSE}
            /\ Has(i.keys, "recipient", {r.author}) /\ Others({"recipient", "published"}, i, r)
  BY <1>3 DEF AuthorFilter, RecipientFilter
<1> QED  BY <1>4, <1>5 DEF base

LEMMA MeetsAllIs ==
    ASSUME NEW i, NEW r, NEW set
    PROVE  MeetsAll(i, r.filter) <=>
                /\ Others(set, i, r)
                /\ \A p \in DOMAIN r.filter \cap set : Asking(i, p, r.filter[p])
BY DEF MeetsAll, Others, Asking

LEMMA MeetsPublication ==
    ASSUME NEW i, NEW r
    PROVE  MeetsAll(i, r.filter) <=>
            /\ Others({"published"}, i, r)
            /\ "published" \in DOMAIN r.filter => Asking(i, "published", r.filter["published"])
<1>1. MeetsAll(i, r.filter) <=>
        /\ Others({"published"}, i, r)
        /\ \A p \in DOMAIN r.filter \cap {"published"} : Asking(i, p, r.filter[p])
  BY MeetsAllIs
<1>2. (\A p \in DOMAIN r.filter \cap {"published"} : Asking(i, p, r.filter[p]))
        <=> ("published" \in DOMAIN r.filter => Asking(i, "published", r.filter["published"]))
  BY Zenon
<1> QED  BY <1>1, <1>2

\* What the filter asks of publication and of persons.
LEMMA PersonMeets ==
    ASSUME NEW i \in Item, NEW p \in {"author", "recipient"} \cap DOMAIN i.keys, NEW did
    PROVE  /\ Has(i.keys, p, {did}) <=> did \in i.keys[p]
           /\ did \in i.keys[p] => i.keys[p] = {did} /\ did # Anonymous
           /\ \A asked : Asking(i, p, asked) <=> asked = {} \/ i.keys[p] \cap asked # {}
<1>1. \A q \in {"author", "recipient"} \cap DOMAIN i.keys :
            \E d \in i.keys[q] : i.keys[q] = {d} /\ d # Anonymous
  BY ItemAssumption
<1>2. PICK d : i.keys[p] = {d} /\ d # Anonymous
  BY <1>1
<1>3. \A asked : Meets(i, p, asked) <=> asked = {} \/ i.keys[p] \cap asked # {}
  BY DEF Meets
<1> QED  BY <1>2, <1>3 DEF Has, Asking

LEMMA PublicationMeets ==
    ASSUME NEW r \in Request, NEW i \in Item
    PROVE  /\ "published" \in DOMAIN r.filter => r.filter["published"] \in {{TRUE}, {FALSE}}
           /\ {"published", "datePublished"} \subseteq DOMAIN r.filter
                => r.filter["published"] = {TRUE}
           /\ \A asked : Asking(i, "published", asked) <=>
                    i.keys.method = {"Write"} /\ i.keys.published \cap asked # {}
           /\ "datePublished" \in DOMAIN i.keys <=>
                    i.keys.method = {"Write"} /\ i.keys.published = {TRUE}
           /\ \A asked : Asking(i, "datePublished", asked) => "datePublished" \in DOMAIN i.keys
<1>1. /\ "published" \in DOMAIN r.filter => r.filter["published"] \in {{TRUE}, {FALSE}}
      /\ {"published", "datePublished"} \subseteq DOMAIN r.filter
            => r.filter["published"] = {TRUE}
  BY RequestAssumption
<1>2. /\ "published" \in DOMAIN i.keys <=> i.keys.method = {"Write"}
      /\ "datePublished" \in DOMAIN i.keys <=>
            "published" \in DOMAIN i.keys /\ i.keys.published = {TRUE}
  BY ItemAssumption
<1>3. \A asked : Meets(i, "published", asked) <=> i.keys["published"] \cap asked # {}
  BY DEF Meets
<1>4. i.keys["published"] = i.keys.published
  OBVIOUS
<1> QED  BY <1>1, <1>2, <1>3, <1>4 DEF Asking

\* The branches of one who is not the owner find what it asks for and may read.
LEMMA NonOwnerFinds ==
    ASSUME NEW kind \in {"query", "events"}, NEW r \in Request, NEW i \in Item,
           r.author # Owner, ~SubscriptionRefused(r)
    PROVE  (\E f \in FiltersOver(r, BaseOf(kind, r)) : MatchFilter(i.keys, f)) <=>
                Fits(kind, i) /\ MeetsAll(i, r.filter) /\ i.keys.method = {"Write"}
                    /\ MayRead(i, r)
<1> DEFINE base == BaseOf(kind, r)
           keys == i.keys
           filter == r.filter
           Finds == \E f \in FiltersOver(r, base) : MatchFilter(keys, f)
<1>0. /\ r.role => r.author # Anonymous
      /\ r.author = Anonymous => IncludesPublished(filter)
  BY RequestAssumption DEF SubscriptionRefused
<1>1. FiltersOver(r, base) =
        IF r.author = Anonymous THEN {PublishedFilter(base)} ELSE NonOwnerFilters(r, base)
  BY DEF FiltersOver
<1>2. MeetsAll(i, filter) <=>
        Others({"published"}, i, r)
            /\ ("published" \in DOMAIN filter => Asking(i, "published", filter["published"]))
  BY MeetsPublication
<1>3. ASSUME NEW p, p \in {"author", "recipient"}
      PROVE  Others({"published"}, i, r) <=>
                Others({p, "published"}, i, r)
                    /\ (p \in DOMAIN filter => Asking(i, p, filter[p]))
  BY <1>3 DEF Others
<1>4. "author" \in DOMAIN keys
  BY ItemAssumption
<1>5. ASSUME NEW p, p \in {"author", "recipient"}, Has(keys, p, {r.author}),
             Admits(filter, p, r.author)
      PROVE  p \in DOMAIN filter => Asking(i, p, filter[p])
  <2>1. p \in {"author", "recipient"} \cap DOMAIN keys
    BY <1>5 DEF Has
  <2> QED  BY <1>5, <2>1, PersonMeets DEF Admits
<1>6. ASSUME keys.method = {"Write"}, keys.published = {TRUE}
      PROVE  MeetsAll(i, filter) <=> IncludesPublished(filter) /\ Others({"published"}, i, r)
  <2>1. CASE "published" \notin DOMAIN filter
    BY <1>2, <2>1 DEF IncludesPublished
  <2>2. CASE "published" \in DOMAIN filter
    <3>1. PICK asked : asked = filter["published"]
      OBVIOUS
    <3>2. asked \in {{TRUE}, {FALSE}} /\ ("datePublished" \in DOMAIN filter => asked = {TRUE})
      BY <2>2, <3>1, PublicationMeets
    <3>3. Asking(i, "published", asked) <=> asked = {TRUE}
      <4>1. Asking(i, "published", asked) <=> keys.published \cap asked # {}
        BY <1>6, PublicationMeets
      <4>2. {TRUE} \cap {TRUE} # {} /\ {TRUE} \cap {FALSE} = {}
        OBVIOUS
      <4>3. CASE asked = {TRUE}
        BY <1>6, <4>1, <4>2, <4>3
      <4>4. CASE asked = {FALSE}
        <5>1. asked # {TRUE}
          BY <4>4
        <5> QED  BY <1>6, <4>1, <4>2, <4>4, <5>1
      <4> QED  BY <3>2, <4>3, <4>4
    <3>4. IncludesPublished(filter) <=> asked = {TRUE}
      BY <2>2, <3>1, <3>2 DEF IncludesPublished
    <3> QED  BY <1>2, <2>2, <3>1, <3>3, <3>4
  <2> QED  BY <2>1, <2>2
<1>7. ASSUME keys.method = {"Write"}, keys.published = {FALSE}
      PROVE  MeetsAll(i, filter) <=> IncludesUnpublished(filter) /\ Others({"published"}, i, r)
  <2>1. Others({"published"}, i, r) => "datePublished" \notin DOMAIN filter
    BY <1>7, PublicationMeets DEF Others
  <2>2. "published" \in DOMAIN filter => filter["published"] \in {{TRUE}, {FALSE}}
    BY PublicationMeets
  <2>3. Asking(i, "published", filter["published"]) <=>
            keys.published \cap filter["published"] # {}
    BY <1>7, PublicationMeets
  <2>4. CASE "published" \in DOMAIN filter /\ filter["published"] = {FALSE}
    <3>1. Asking(i, "published", filter["published"])
      BY <1>7, <2>3, <2>4
    <3> QED  BY <1>2, <2>1, <2>4, <3>1 DEF IncludesUnpublished
  <2>5. CASE "published" \in DOMAIN filter /\ filter["published"] # {FALSE}
    <3>1. filter["published"] = {TRUE} /\ keys.published \cap filter["published"] = {}
      BY <1>7, <2>2, <2>5
    <3>2. ~Asking(i, "published", filter["published"])
      BY <2>3, <3>1
    <3> QED  BY <1>2, <2>5, <3>2 DEF IncludesUnpublished
  <2>6. CASE "published" \notin DOMAIN filter
    BY <1>2, <2>1, <2>6 DEF IncludesUnpublished
  <2> QED  BY <2>4, <2>5, <2>6
<1>b. /\ MatchFilter(keys, PublishedFilter(base)) <=>
            Fits(kind, i) /\ (keys.method = {"Write"} /\ keys.published = {TRUE})
                /\ Others({"published"}, i, r)
      /\ MatchFilter(keys, RoleFilter(base)) <=>
            Fits(kind, i) /\ (keys.method = {"Write"} /\ keys.published = {FALSE})
                /\ Others({"published"}, i, r)
      /\ MatchFilter(keys, AuthorFilter(r, base)) <=>
            /\ Fits(kind, i) /\ (keys.method = {"Write"} /\ keys.published = {FALSE})
            /\ Has(keys, "author", {r.author}) /\ Others({"author", "published"}, i, r)
      /\ MatchFilter(keys, RecipientFilter(r, base)) <=>
            /\ Fits(kind, i) /\ (keys.method = {"Write"} /\ keys.published = {FALSE})
            /\ Has(keys, "recipient", {r.author}) /\ Others({"recipient", "published"}, i, r)
  BY BranchMatches
<1> HIDE DEF base
<1>8. ASSUME NEW f \in FiltersOver(r, base), MatchFilter(keys, f)
      PROVE  Fits(kind, i) /\ MeetsAll(i, filter) /\ keys.method = {"Write"} /\ MayRead(i, r)
  <2>1. CASE f = PublishedFilter(base) /\ IncludesPublished(filter)
    BY <1>8, <2>1, <1>b, <1>6 DEF MayRead
  <2>2. CASE f = RoleFilter(base) /\ IncludesUnpublished(filter) /\ r.role
    BY <1>8, <2>2, <1>b, <1>7 DEF MayRead
  <2>3. CASE f = AuthorFilter(r, base) /\ IncludesUnpublished(filter)
                /\ Admits(filter, "author", r.author)
    <3>1. r.author \in keys.author
      BY <1>8, <2>3, <1>b, <1>4, PersonMeets
    <3> QED  BY <1>8, <2>3, <1>b, <1>3, <1>5, <1>7, <3>1 DEF MayRead
  <2>4. CASE f = RecipientFilter(r, base) /\ IncludesUnpublished(filter)
                /\ Admits(filter, "recipient", r.author)
    <3>1. "recipient" \in DOMAIN keys
      BY <1>8, <2>4, <1>b DEF Has
    <3>2. r.author \in keys.recipient
      BY <1>8, <2>4, <1>b, <3>1, PersonMeets
    <3> QED  BY <1>8, <2>4, <1>b, <1>3, <1>5, <1>7, <3>1, <3>2 DEF MayRead
  <2> QED  BY <1>0, <1>1, <1>8, <2>1, <2>2, <2>3, <2>4 DEF NonOwnerFilters, When
<1>9. ASSUME Fits(kind, i), MeetsAll(i, filter), keys.method = {"Write"}, MayRead(i, r)
      PROVE  \E f \in FiltersOver(r, base) : MatchFilter(keys, f)
  <2>1. CASE keys.published = {TRUE}
    <3>1. PublishedFilter(base) \in FiltersOver(r, base)
      BY <1>1, <1>6, <1>9, <2>1 DEF NonOwnerFilters, When
    <3> QED  BY <1>6, <1>9, <1>b, <2>1, <3>1
  <2>2. CASE keys.published = {FALSE}
    <3>1. Others({"published"}, i, r) /\ IncludesUnpublished(filter)
      BY <1>7, <1>9, <2>2
    <3>2. CASE r.role
      <4>1. RoleFilter(base) \in FiltersOver(r, base)
        BY <1>0, <1>1, <3>1, <3>2 DEF NonOwnerFilters, When
      <4> QED  BY <1>9, <1>b, <2>2, <3>1, <4>1
    <3>3. CASE r.author \in keys.author
      <4>1. r.author # Anonymous /\ Has(keys, "author", {r.author})
        BY <1>4, <3>3, PersonMeets
      <4>2. Others({"author", "published"}, i, r)
            /\ ("author" \in DOMAIN filter => Asking(i, "author", filter["author"]))
        BY <1>3, <3>1
      <4>3. Admits(filter, "author", r.author)
        <5>1. PICK asked : asked = filter["author"]
          OBVIOUS
        <5>2. "author" \in DOMAIN filter => asked = {} \/ keys["author"] \cap asked # {}
          BY <1>4, <3>3, <4>2, <5>1, PersonMeets
        <5>3. keys["author"] = {r.author}
          BY <1>4, <3>3, PersonMeets
        <5> QED  BY <5>1, <5>2, <5>3 DEF Admits
      <4>4. AuthorFilter(r, base) \in FiltersOver(r, base)
        BY <1>1, <3>1, <4>1, <4>3 DEF NonOwnerFilters, When
      <4> QED  BY <1>9, <1>b, <2>2, <4>1, <4>2, <4>4
    <3>4. CASE "recipient" \in DOMAIN keys /\ r.author \in keys.recipient
      <4>1. r.author # Anonymous /\ Has(keys, "recipient", {r.author})
        BY <3>4, PersonMeets
      <4>2. Others({"recipient", "published"}, i, r)
            /\ ("recipient" \in DOMAIN filter => Asking(i, "recipient", filter["recipient"]))
        BY <1>3, <3>1
      <4>3. Admits(filter, "recipient", r.author)
        <5>1. PICK asked : asked = filter["recipient"]
          OBVIOUS
        <5>2. "recipient" \in DOMAIN filter => asked = {} \/ keys["recipient"] \cap asked # {}
          BY <3>4, <4>2, <5>1, PersonMeets
        <5>3. keys["recipient"] = {r.author}
          BY <3>4, PersonMeets
        <5> QED  BY <5>1, <5>2, <5>3 DEF Admits
      <4>4. RecipientFilter(r, base) \in FiltersOver(r, base)
        BY <1>1, <3>1, <4>1, <4>3 DEF NonOwnerFilters, When
      <4> QED  BY <1>9, <1>b, <2>2, <4>1, <4>2, <4>4
    <3> QED  BY <1>9, <2>2, <3>2, <3>3, <3>4 DEF MayRead
  <2> QED  BY <1>9, <2>1, <2>2, ItemIs
<1> QED  BY <1>8, <1>9 DEF base

LEMMA OwnerFinds ==
    ASSUME NEW kind \in {"query", "events"}, NEW r \in Request, NEW i \in Item,
           r.author = Owner, kind = "query" => ~Refused(r) /\ r.sort \in DOMAIN i.keys
    PROVE  (\E f \in FiltersOver(r, BaseOf(kind, r)) : MatchFilter(i.keys, f)) <=>
                Fits(kind, i) /\ MeetsAll(i, r.filter)
<1>1. PICK sort : sort = IF kind = "query" THEN r.sort ELSE "dateCreated"
  OBVIOUS
<1>2. (\E f \in FiltersOver(r, BaseOf(kind, r)) : MatchFilter(i.keys, f)) <=>
            MatchOthers({}, i.keys, BaseOf(kind, r))
  BY MatchIs DEF FiltersOver
<1>3. MatchOthers({}, i.keys, BaseOf(kind, r)) <=>
            /\ Fits(kind, i)
            /\ IF OfPublished(r, sort)
               THEN Has(i.keys, "published", {TRUE}) /\ Others({"published"}, i, r)
               ELSE Others({}, i, r)
  <2>1. {} \cup {"published"} = {"published"}
    OBVIOUS
  <2> QED  BY <1>1, <2>1, BaseMatches
<1>4. CASE ~OfPublished(r, sort)
  BY <1>2, <1>3, <1>4, MeetsAllIs
<1>5. CASE OfPublished(r, sort)
  <2>1. MeetsAll(i, r.filter) <=>
            Others({"published"}, i, r)
            /\ ("published" \in DOMAIN r.filter => Asking(i, "published", r.filter["published"]))
    BY MeetsPublication
  <2>2. "published" \in DOMAIN r.filter => r.filter["published"] = {TRUE}
    BY <1>1, <1>5, PublicationMeets DEF OfPublished, Refused
  <2>3. Has(i.keys, "published", {TRUE}) <=>
            i.keys.method = {"Write"} /\ i.keys.published = {TRUE}
    BY ItemIs
  <2>4. Others({"published"}, i, r) /\ "datePublished" \in DOMAIN r.filter
            => i.keys.method = {"Write"} /\ i.keys.published = {TRUE}
    BY PublicationMeets DEF Others
  <2>5. sort = "datePublished" => i.keys.method = {"Write"} /\ i.keys.published = {TRUE}
    BY <1>1, PublicationMeets
  <2>6. Others({"published"}, i, r) => Has(i.keys, "published", {TRUE})
    BY <1>5, <2>3, <2>4, <2>5 DEF OfPublished
  <2> QED  BY <1>2, <1>3, <1>5, <2>1, <2>2, <2>3, <2>6, PublicationMeets
<1> QED  BY <1>4, <1>5

\* What a query finds, and what a subscription passes on.
LEMMA QueryFinds ==
    ASSUME NEW r \in Request, ~Refused(r), NEW i \in Item, r.sort \in DOMAIN i.keys
    PROVE  (\E f \in Filters(r) : MatchFilter(i.keys, f)) <=> IsAsked(i, r) /\ MayRead(i, r)
<1>1. Filters(r) = FiltersOver(r, BaseOf("query", r)) /\ ~SubscriptionRefused(r)
  BY DEF Filters, BaseOf, Refused
<1>2. IsAsked(i, r) <=> Fits("query", i) /\ MeetsAll(i, r.filter)
  BY DEF IsAsked, Fits, IsLatestWrite
<1>3. CASE r.author = Owner
  BY <1>1, <1>2, <1>3, OwnerFinds DEF MayRead
<1>4. CASE r.author # Owner
  BY <1>1, <1>2, <1>4, NonOwnerFinds DEF Fits, IsLatestWrite
<1> QED  BY <1>3, <1>4

LEMMA SubscriptionFinds ==
    ASSUME NEW r \in Request, ~SubscriptionRefused(r), NEW i \in Item,
           SubscriptionFilters(r) # {}
    PROVE  MatchAnyFilter(i.keys, SubscriptionFilters(r)) <=>
                /\ MeetsAll(i, r.filter)
                /\ IF i.keys.method = {"Write"} THEN MayRead(i, r) ELSE r.author = Owner
<1>1. SubscriptionFilters(r) = FiltersOver(r, BaseOf("events", r)) /\ Fits("events", i)
  BY DEF SubscriptionFilters, BaseOf, Fits
<1>2. CASE r.author = Owner
  BY <1>1, <1>2, OwnerFinds DEF MatchAnyFilter, MayRead
<1>3. CASE r.author # Owner
  BY <1>1, <1>3, NonOwnerFinds DEF MatchAnyFilter
<1> QED  BY <1>2, <1>3

----------------------------------------------------------------------------
\* Sorting and cutting.

Key == Int \X Int

LEMMA PrecedesOrder ==
    ASSUME NEW descending \in BOOLEAN, NEW a \in Key, NEW b \in Key, NEW c \in Key
    PROVE  /\ ~Precedes(a, a, descending)
           /\ Precedes(a, b, descending) /\ Precedes(b, c, descending)
                => Precedes(a, c, descending)
           /\ a = b \/ Precedes(a, b, descending) \/ Precedes(b, a, descending)
<1>1. /\ ~Less(a, a)
      /\ Less(a, b) /\ Less(b, c) => Less(a, c)
      /\ Less(c, b) /\ Less(b, a) => Less(c, a)
      /\ a = b \/ Less(a, b) \/ Less(b, a)
  BY DEF Less, Key
<1>2. \A d, e : Precedes(d, e, TRUE) <=> Less(e, d)
  BY DEF Precedes
<1>3. \A d, e : Precedes(d, e, FALSE) <=> Less(d, e)
  BY DEF Precedes
<1>4. CASE descending = TRUE
  BY <1>1, <1>2, <1>4, Zenon
<1>5. CASE descending = FALSE
  BY <1>1, <1>3, <1>5, Zenon
<1> QED  BY <1>4, <1>5

Dates == {"dateCreated", "datePublished"}

LEMMA SortKeyIs ==
    ASSUME NEW i \in Item, NEW j \in Item, NEW sort \in Dates,
           sort \in DOMAIN i.keys
    PROVE  /\ SortKey(i, sort) \in Key
           /\ SortKey(i, sort) = SortKey(j, sort) => i = j
<1>1. PICK v : i.keys[sort] = {v} /\ v \in Int
  BY IntValues DEF Dates
<1>2. PICK w \in Int : w = CHOOSE x \in i.keys[sort] : TRUE
  BY <1>1
<1>3. i.cid \in Int
  BY ItemAssumption
<1>4. SortKey(i, sort) \in Key
  <2>1. SortKey(i, sort) = <<CHOOSE x \in i.keys[sort] : TRUE, i.cid>>
    BY DEF SortKey
  <2>2. PICK c \in Int : c = i.cid
    BY <1>3
  <2>3. SortKey(i, sort) = <<w, c>>
    BY <1>2, <2>1, <2>2
  <2> QED  BY <2>3 DEF Key
<1>5. SortKey(i, sort) = SortKey(j, sort) => i.cid = j.cid
  BY DEF SortKey
<1> QED  BY <1>4, <1>5, RecordsPagesAssumption

\* In a finite strict order every rank is taken, and by one element.
LEMMA Ranks ==
    ASSUME NEW S, IsFiniteSet(S), NEW R,
           \A i \in S : <<i, i>> \notin R,
           \A i, j, k \in S : <<i, j>> \in R /\ <<j, k>> \in R => <<i, k>> \in R,
           \A i, j \in S : i = j \/ <<i, j>> \in R \/ <<j, i>> \in R
    PROVE  LET rank(i) == Cardinality({j \in S : <<j, i>> \in R})
           IN  /\ Cardinality(S) \in Nat
               /\ \A k \in 1 .. Cardinality(S) : \E i \in S : rank(i) = k - 1
               /\ \A i \in S : rank(i) \in 0 .. Cardinality(S) - 1
               /\ \A i, j \in S : <<i, j>> \in R <=> rank(i) < rank(j)
<1> DEFINE before(i) == {j \in S : <<j, i>> \in R}
           rank(i) == Cardinality(before(i))
           n == Cardinality(S)
<1>1. n \in Nat
  BY FS_CardinalityType
<1>2. \A i \in S : IsFiniteSet(before(i)) /\ rank(i) \in Nat
  <2> TAKE i \in S
  <2>1. IsFiniteSet(before(i))
    BY FS_Subset
  <2> QED  BY <2>1, FS_CardinalityType
<1>3. ASSUME NEW i \in S PROVE rank(i) \in 0 .. n - 1
  <2>1. IsFiniteSet(S \ {i}) /\ Cardinality(S \ {i}) = n - 1
    BY FS_RemoveElement
  <2>2. before(i) \in SUBSET (S \ {i})
    OBVIOUS
  <2>3. Cardinality(before(i)) <= Cardinality(S \ {i})
    BY <2>1, <2>2, FS_Subset
  <2> QED  BY <1>1, <1>2, <2>1, <2>3
<1>4. ASSUME NEW i \in S, NEW j \in S, <<i, j>> \in R PROVE rank(i) < rank(j)
  <2>1. i \notin before(i) /\ before(i) \cup {i} \in SUBSET before(j)
    BY <1>4
  <2>2. IsFiniteSet(before(i) \cup {i}) /\ Cardinality(before(i) \cup {i}) = rank(i) + 1
    BY <1>2, <2>1, FS_AddElement
  <2>3. Cardinality(before(i) \cup {i}) <= Cardinality(before(j))
    BY <1>2, <2>1, FS_Subset
  <2> QED  BY <1>2, <2>2, <2>3
<1>5. \A i, j \in S : <<i, j>> \in R <=> rank(i) < rank(j)
  <2> HIDE DEF rank
  <2> TAKE i, j \in S
  <2>1. rank(i) \in Nat /\ rank(j) \in Nat
    BY <1>2 DEF rank
  <2>2. CASE i = j
    BY <2>1, <2>2
  <2>3. CASE <<i, j>> \in R
    BY <1>4, <2>3
  <2>4. CASE <<j, i>> \in R
    BY <1>4, <2>1, <2>4
  <2> QED  BY <2>2, <2>3, <2>4
<1>6. \A k \in 1 .. n : \E i \in S : rank(i) = k - 1
  <2> DEFINE f == [i \in S |-> rank(i)]
             T == 0 .. n - 1
  <2> HIDE DEF rank
  <2>1. IsFiniteSet(T) /\ Cardinality(T) = n
    <3>1. 0 \in Int /\ n - 1 \in Int
      BY <1>1
    <3>2. IsFiniteSet(T) /\ Cardinality(T) = IF 0 > n - 1 THEN 0 ELSE (n - 1) - 0 + 1
      BY <3>1, FS_Interval
    <3> QED  BY <1>1, <3>2
  <2>2. f \in [S -> T]
    BY <1>3
  <2>3. \A i, j \in S : f[i] = f[j] => i = j
    <3> TAKE i, j \in S
    <3>1. rank(i) = rank(j) => ~(rank(i) < rank(j)) /\ ~(rank(j) < rank(i))
      BY <1>2 DEF rank
    <3> QED  BY <1>5, <3>1
  <2>4. f \in Injection(S, T)
    BY <2>2, <2>3 DEF Injection, IsInjective
  <2>5. f \in Surjection(S, T)
    BY <2>1, <2>4, FS_Injection
  <2>6. \A t \in T : \E i \in S : f[i] = t
    BY <2>5 DEF Surjection
  <2> QED  BY <1>1, <2>6
<1> QED  BY <1>1, <1>3, <1>5, <1>6

\* What is sorted and may be found: all have the property sorted by.
Sortable(S, sort) == S \subseteq Item /\ \A i \in S : sort \in DOMAIN i.keys

Comes(i, j, sort, descending) ==
    Precedes(SortKey(i, sort), SortKey(j, sort), descending)

LEMMA ComesOrder ==
    ASSUME NEW sort \in Dates, NEW descending \in BOOLEAN, NEW S, Sortable(S, sort)
    PROVE  /\ \A i \in S : ~Comes(i, i, sort, descending)
           /\ \A i, j, k \in S : Comes(i, j, sort, descending) /\ Comes(j, k, sort, descending)
                => Comes(i, k, sort, descending)
           /\ \A i, j \in S : i = j \/ Comes(i, j, sort, descending)
                                    \/ Comes(j, i, sort, descending)
<1>1. \A i \in S : SortKey(i, sort) \in Key
  BY SortKeyIs DEF Sortable
<1>2. \A i, j \in S : SortKey(i, sort) = SortKey(j, sort) => i = j
  BY SortKeyIs DEF Sortable
<1> QED  BY <1>1, <1>2, PrecedesOrder DEF Comes

\* All of a set in order.
Listing(s, S, sort, descending) ==
    /\ s \in Seq(S) /\ Len(s) = Cardinality(S)
    /\ \A k, l \in 1 .. Len(s) : k < l => Comes(s[k], s[l], sort, descending)
    /\ \A i \in S : \E k \in 1 .. Len(s) : s[k] = i

LEMMA SortedIs ==
    ASSUME NEW sort \in Dates, NEW descending \in BOOLEAN, NEW S, Sortable(S, sort),
           IsFiniteSet(S), NEW s, s = Sorted(S, sort, descending)
    PROVE  Listing(s, S, sort, descending)
<1> DEFINE R == {x \in S \X S : Comes(x[1], x[2], sort, descending)}
           rank(i) == Cardinality({j \in S : <<j, i>> \in R})
           n == Cardinality(S)
<1>0. \A i, j \in S : <<i, j>> \in R <=> Comes(i, j, sort, descending)
  OBVIOUS
<1>1. \A i \in S : rank(i) = Cardinality({j \in S : Comes(j, i, sort, descending)})
  <2> TAKE i \in S
  <2>1. {j \in S : <<j, i>> \in R} = {j \in S : Comes(j, i, sort, descending)}
    BY <1>0
  <2> QED  BY <2>1
<1> HIDE DEF R
<1>2. /\ n \in Nat
      /\ \A k \in 1 .. n : \E i \in S : rank(i) = k - 1
      /\ \A i \in S : rank(i) \in 0 .. n - 1
      /\ \A i, j \in S : <<i, j>> \in R <=> rank(i) < rank(j)
  <2>1. /\ \A i \in S : <<i, i>> \notin R
        /\ \A i, j, k \in S : <<i, j>> \in R /\ <<j, k>> \in R => <<i, k>> \in R
        /\ \A i, j \in S : i = j \/ <<i, j>> \in R \/ <<j, i>> \in R
    BY <1>0, ComesOrder
  <2> QED  BY <2>1, Ranks
<1> HIDE DEF rank
<1>3. \A i, j \in S : i = j <=> rank(i) = rank(j)
  <2>1. \A i, j \in S : i = j \/ rank(i) < rank(j) \/ rank(j) < rank(i)
    BY <1>0, <1>2, ComesOrder
  <2> QED  BY <1>2, <2>1
<1>4. s = [k \in 1 .. n |-> CHOOSE i \in S : rank(i) = k - 1]
  <2>1. \A k : (CHOOSE i \in S : rank(i) = k - 1) =
            CHOOSE i \in S : Cardinality({j \in S : Comes(j, i, sort, descending)}) = k - 1
    BY <1>1
  <2>2. s = [k \in 1 .. n |->
                CHOOSE i \in S : Cardinality({j \in S : Comes(j, i, sort, descending)}) = k - 1]
    BY DEF Sorted, Comes
  <2> QED  BY <2>1, <2>2
<1>5. ASSUME NEW k \in 1 .. n PROVE s[k] \in S /\ rank(s[k]) = k - 1
  BY <1>2, <1>4
<1>6. s \in Seq(S) /\ Len(s) = n /\ DOMAIN s = 1 .. n
  <2>1. s \in [1 .. n -> S]
    BY <1>4, <1>5
  <2> QED  BY <1>2, <2>1
<1>7. \A k, l \in 1 .. n : k < l => Comes(s[k], s[l], sort, descending)
  <2> TAKE k, l \in 1 .. n
  <2>1. s[k] \in S /\ s[l] \in S /\ (k < l => rank(s[k]) < rank(s[l]))
    BY <1>2, <1>5
  <2> QED  BY <1>0, <1>2, <2>1
<1>8. \A i \in S : \E k \in 1 .. n : s[k] = i
  <2> TAKE i \in S
  <2>1. rank(i) + 1 \in 1 .. n
    BY <1>2
  <2>2. s[rank(i) + 1] = i
    BY <1>2, <1>3, <1>5, <2>1
  <2> QED  BY <2>1, <2>2
<1> QED  BY <1>6, <1>7, <1>8 DEF Listing

----------------------------------------------------------------------------
\* Searching: the candidates that a property of a filter selects are enough.

\* The filters of a request ask for a method, and no range of theirs has an end
\* that belongs to it.
HalfOpen(criterion) == IsRange(criterion) => "lte" \notin DOMAIN criterion.range

AllHalfOpen(f) == \A p \in DOMAIN f : HalfOpen(f[p])

LEMMA SettingShape ==
    ASSUME NEW p, NEW values, NEW filter, AllHalfOpen(filter)
    PROVE  /\ AllHalfOpen(Setting(p, values, filter))
           /\ DOMAIN Setting(p, values, filter) = DOMAIN filter \cup {p}
<1>1. PICK s : s = Setting(p, values, filter)
  OBVIOUS
<1>2. /\ DOMAIN s = DOMAIN filter \cup {p} /\ s[p] = OneOf(values)
      /\ \A q \in DOMAIN filter : q # p => s[q] = filter[q]
  BY <1>1 DEF Setting
<1>3. HalfOpen(OneOf(values))
  BY DEF HalfOpen, OneOf, IsRange
<1> QED  BY <1>1, <1>2, <1>3 DEF AllHalfOpen

LEMMA ConvertShape ==
    ASSUME NEW r \in Request, NEW sort
    PROVE  AllHalfOpen(ConvertFilter(r.filter, sort))
<1> DEFINE kept == {p \in DOMAIN r.filter :
                        p \in {"author", "recipient"} => r.filter[p] # {}}
           converted == [p \in kept |-> Convert(p, r.filter[p])]
<1>1. ASSUME NEW p \in DOMAIN r.filter PROVE HalfOpen(Convert(p, r.filter[p]))
  <2>1. PICK asked : asked = r.filter[p]
    OBVIOUS
  <2>2. CASE p \in {"dateCreated", "datePublished", "messageTimestamp"}
    <3>1. DOMAIN asked \in {{"from"}, {"to"}, {"from", "to"}}
      BY <2>1, <2>2, RequestAssumption
    <3>2. PICK bounds : bounds = RangeOf(asked)
      OBVIOUS
    <3>3. "lte" \notin DOMAIN bounds
      <4>1. CASE DOMAIN asked = {"from"}
        BY <3>2, <4>1 DEF RangeOf
      <4>2. CASE DOMAIN asked = {"to"}
        BY <3>2, <4>2 DEF RangeOf
      <4>3. CASE DOMAIN asked = {"from", "to"}
        BY <3>2, <4>3 DEF RangeOf
      <4> QED  BY <3>1, <4>1, <4>2, <4>3
    <3>4. Convert(p, asked) = [range |-> bounds]
      BY <2>2, <3>2 DEF Convert, Between
    <3> QED  BY <2>1, <3>3, <3>4 DEF HalfOpen
  <2>3. CASE p = "contextId"
    <3>1. Convert(p, asked) = [range |-> [gte |-> asked, lt |-> asked + ContextWidth]]
      BY <2>3 DEF Convert, Between
    <3> QED  BY <2>1, <3>1 DEF HalfOpen
  <2>4. CASE p \notin {"dateCreated", "datePublished", "messageTimestamp", "contextId"}
    <3>1. Convert(p, asked) = [oneOf |-> asked]
      BY <2>4 DEF Convert, OneOf
    <3> QED  BY <2>1, <3>1 DEF HalfOpen, IsRange
  <2> QED  BY <2>2, <2>3, <2>4
<1>2. AllHalfOpen(converted)
  BY <1>1 DEF AllHalfOpen
<1>3. AllHalfOpen(Setting("published", {TRUE}, converted))
  BY <1>2, SettingShape
<1> QED  BY <1>2, <1>3 DEF ConvertFilter

LEMMA FilterShape ==
    ASSUME NEW r \in Request, NEW f \in Filters(r)
    PROVE  AllHalfOpen(f) /\ "method" \in DOMAIN f
<1> DEFINE Good(g) == AllHalfOpen(g) /\ "method" \in DOMAIN g
           base == OwnerFilter(r)
<1>1. ASSUME NEW p, NEW values, NEW g, Good(g) PROVE Good(Setting(p, values, g))
  <2>1. PICK s : s = Setting(p, values, g)
    OBVIOUS
  <2>2. AllHalfOpen(s) /\ DOMAIN s = DOMAIN g \cup {p}
    BY <1>1, <2>1, SettingShape, Zenon
  <2> QED  BY <1>1, <2>1, <2>2
<1>2. Good(base)
  <2>1. PICK c : c = ConvertFilter(r.filter, r.sort)
    OBVIOUS
  <2>2. PICK d : d = Setting("isLatestBaseState", {TRUE}, c)
    OBVIOUS
  <2>3. AllHalfOpen(d)
    BY <2>1, <2>2, ConvertShape, SettingShape
  <2>4. base = Setting("method", {"Write"}, d)
    BY <2>1, <2>2 DEF OwnerFilter, LatestWrites
  <2>5. PICK s : s = Setting("method", {"Write"}, d)
    OBVIOUS
  <2>6. AllHalfOpen(s) /\ DOMAIN s = DOMAIN d \cup {"method"}
    BY <2>3, <2>5, SettingShape, Zenon
  <2> QED  BY <2>4, <2>5, <2>6
<1>3. PICK b : b = base
  OBVIOUS
<1>4. Good(b) /\ f \in FiltersOver(r, b)
  BY <1>2, <1>3 DEF Filters
<1> HIDE DEF Good, base
<1>5. Good(PublishedFilter(b)) /\ Good(RoleFilter(b))
  BY <1>1, <1>4 DEF PublishedFilter, RoleFilter
<1>6. Good(AuthorFilter(r, b)) /\ Good(RecipientFilter(r, b))
  BY <1>1, <1>5 DEF AuthorFilter, RecipientFilter
<1>7. f \in {b, PublishedFilter(b), RoleFilter(b), AuthorFilter(r, b), RecipientFilter(r, b)}
  BY <1>4 DEF FiltersOver, NonOwnerFilters, When
<1>8. Good(f)
  BY <1>4, <1>5, <1>6, <1>7
<1> QED  BY <1>8 DEF Good

LEMMA SearchPropertyIs ==
    ASSUME NEW f, "method" \in DOMAIN f
    PROVE  SearchProperty(f) \in DOMAIN f
<1> DEFINE chosen == {k \in DOMAIN Selective : Selective[k] \in DOMAIN f}
<1>1. (CHOOSE p \in DOMAIN f : TRUE) \in DOMAIN f
  OBVIOUS
<1>2. (CHOOSE p \in DOMAIN f \ {"author"} : TRUE) \in DOMAIN f
  OBVIOUS
<1>3. ASSUME chosen # {} PROVE \E k \in chosen : \A l \in chosen : k <= l
  <2>1. DOMAIN Selective = 1 .. 8
    BY DEF Selective
  <2>2. \A C \in SUBSET (1 .. 8) : C # {} => \E k \in C : \A l \in C : k <= l
    <3> TAKE C \in SUBSET (1 .. 8)
    <3>1. CASE 1 \in C
      BY <3>1
    <3>2. CASE 1 \notin C /\ 2 \in C
      BY <3>2
    <3>3. CASE 1 \notin C /\ 2 \notin C /\ 3 \in C
      BY <3>3
    <3>4. CASE 1 \notin C /\ 2 \notin C /\ 3 \notin C /\ 4 \in C
      BY <3>4
    <3>5. CASE {1, 2, 3, 4} \cap C = {} /\ 5 \in C
      <4>1. C \subseteq 5 .. 8
        BY <3>5
      <4> QED  BY <3>5, <4>1
    <3>6. CASE {1, 2, 3, 4, 5} \cap C = {} /\ C # {}
      <4>1. \A k \in C : k \in Int /\ (k = 6 \/ k = 7 \/ k = 8)
        BY <3>6
      <4>2. CASE 6 \in C
        BY <4>1, <4>2
      <4>3. CASE 6 \notin C /\ 7 \in C
        BY <4>1, <4>3
      <4>4. CASE 6 \notin C /\ 7 \notin C
        <5>1. PICK k : k \in C
          BY <3>6
        <5> QED  BY <4>1, <4>4, <5>1
      <4> QED  BY <4>2, <4>3, <4>4
    <3> QED  BY <3>1, <3>2, <3>3, <3>4, <3>5, <3>6
  <2>3. chosen \in SUBSET (1 .. 8)
    BY <2>1
  <2> QED  BY <1>3, <2>2, <2>3
<1>4. ASSUME chosen # {}
      PROVE  Selective[CHOOSE k \in chosen : \A l \in chosen : k <= l] \in DOMAIN f
  BY <1>3, <1>4
<1> QED  BY <1>1, <1>2, <1>4 DEF SearchProperty

\* A search finds all that match and have the property it sorts by.
LEMMA SearchFinds ==
    ASSUME NEW r \in Request, NEW S, NEW i \in S, NEW f \in Searched(r),
           r.sort \in DOMAIN i.keys
    PROVE  i \in Search(S, f, r.sort) <=> MatchFilter(i.keys, f)
<1>1. ASSUME MatchFilter(i.keys, f), f \in Filters(r) PROVE i \in Candidates(S, f, r.sort)
  <2>1. AllHalfOpen(f) /\ "method" \in DOMAIN f
    BY <1>1, FilterShape
  <2>2. PICK p : p = SearchProperty(f) /\ p \in DOMAIN f
    BY <2>1, SearchPropertyIs
  <2>3. PICK v \in i.keys[p] : p \in DOMAIN i.keys /\ MatchValue(f[p], v)
    BY <1>1, <2>2 DEF MatchFilter
  <2>4. i \in ItemsWith(S, p)
    BY <2>3 DEF ItemsWith
  <2>5. CASE IsRange(f[p])
    <3>1. PICK bounds : bounds = f[p].range
      OBVIOUS
    <3>2. "lte" \notin DOMAIN bounds /\ InRange(bounds, v)
      BY <2>1, <2>2, <2>3, <2>5, <3>1 DEF AllHalfOpen, HalfOpen, MatchValue
    <3>3. PICK scanned : scanned = [b \in DOMAIN bounds \ {"lte"} |-> bounds[b]]
      OBVIOUS
    <3>4. InRange(scanned, v)
      BY <3>2, <3>3 DEF InRange
    <3>5. i \in RangeMatches(S, p, bounds)
      BY <2>3, <2>4, <3>2, <3>3, <3>4 DEF RangeMatches
    <3> QED  BY <2>2, <2>5, <3>1, <3>5 DEF Candidates
  <2>6. CASE ~IsRange(f[p])
    <3>1. v \in f[p].oneOf
      BY <2>3, <2>6 DEF MatchValue
    <3>2. i \in ExactMatches(S, p, v)
      BY <2>3, <2>4 DEF ExactMatches
    <3>3. Candidates(S, f, r.sort) = UNION {ExactMatches(S, p, w) : w \in f[p].oneOf}
      BY <2>2, <2>6 DEF Candidates
    <3> QED  BY <3>1, <3>2, <3>3
  <2> QED  BY <2>5, <2>6
<1>2. CASE f = NoFilter
  <2>1. DOMAIN f = {}
    BY <1>2 DEF NoFilter
  <2>2. i \in Candidates(S, f, r.sort)
    BY <2>1 DEF Candidates, ItemsWith
  <2> QED  BY <2>1, <2>2 DEF Search, MatchFilter
<1>3. CASE f \in Filters(r)
  BY <1>1, <1>3 DEF Search
<1> QED  BY <1>2, <1>3 DEF Searched

LEMMA SearchSubset ==
    ASSUME NEW r, NEW S, NEW f
    PROVE  Search(S, f, r.sort) \subseteq S
<1>1. \A p : ItemsWith(S, p) \subseteq S
  BY DEF ItemsWith
<1>2. \A p, v : ExactMatches(S, p, v) \subseteq S
  BY <1>1 DEF ExactMatches
<1>3. \A p, b : RangeMatches(S, p, b) \subseteq S
  BY <1>1, <1>2 DEF RangeMatches
<1>4. Candidates(S, f, r.sort) \subseteq S
  BY <1>1, <1>2, <1>3 DEF Candidates
<1> QED  BY <1>4 DEF Search

----------------------------------------------------------------------------
\* Pages.

LEMMA Cut ==
    ASSUME NEW T, NEW s \in Seq(T), NEW n \in Nat, n <= Len(s)
    PROVE  /\ SubSeq(s, 1, n) \in Seq(T) /\ Len(SubSeq(s, 1, n)) = n
           /\ \A k \in 1 .. n : SubSeq(s, 1, n)[k] = s[k] /\ s[k] \in T
<1>1. \A k \in 1 .. n : k \in 1 .. Len(s) /\ s[k] \in T
  OBVIOUS
<1>2. Len(SubSeq(s, 1, n)) = n
  OBVIOUS
<1>3. \A k \in 1 .. n : SubSeq(s, 1, n)[k] = s[k]
  BY <1>1
<1>4. SubSeq(s, 1, n) \in Seq(T)
  BY <1>1
<1> QED  BY <1>1, <1>2, <1>3, <1>4

LEMMA PageIs ==
    ASSUME NEW sort \in Dates, NEW descending \in BOOLEAN, NEW S, Sortable(S, sort),
           IsFiniteSet(S), NEW cursor_, NEW limit \in Nat \ {0},
           NEW results, results = PageOf(S, sort, descending, cursor_, limit)
    PROVE  LET T == AfterCursor(S, sort, descending, cursor_)
           IN  /\ results \in Seq(T) /\ Len(results) <= limit
               /\ \A k, l \in 1 .. Len(results) : k < l =>
                        Comes(results[k], results[l], sort, descending)
               /\ \A i \in T : \/ \E k \in 1 .. Len(results) : results[k] = i
                               \/ /\ Len(results) = limit
                                  /\ Comes(results[limit], i, sort, descending)
<1> DEFINE T == AfterCursor(S, sort, descending, cursor_)
<1>1. T \subseteq S
  BY DEF AfterCursor
<1>2. Sortable(T, sort) /\ IsFiniteSet(T)
  BY <1>1, FS_Subset DEF Sortable
<1>3. PICK s : s = Sorted(T, sort, descending)
  OBVIOUS
<1> HIDE DEF T
<1>4. /\ s \in Seq(T) /\ Len(s) \in Nat
      /\ \A k, l \in 1 .. Len(s) : k < l => Comes(s[k], s[l], sort, descending)
      /\ \A i \in T : \E k \in 1 .. Len(s) : s[k] = i
  <2>1. Listing(s, T, sort, descending)
    BY <1>2, <1>3, SortedIs
  <2> QED  BY <2>1 DEF Listing
<1>5. PICK n : n = IF Len(s) < limit THEN Len(s) ELSE limit
  OBVIOUS
<1>6. n \in Nat /\ n <= Len(s) /\ n <= limit /\ (n < limit => n = Len(s))
  BY <1>4, <1>5
<1>7. results = SubSeq(s, 1, n)
  BY <1>3, <1>5 DEF PageOf, T
<1>8. /\ results \in Seq(T) /\ Len(results) = n
      /\ \A k \in 1 .. n : results[k] = s[k]
  BY <1>4, <1>6, <1>7, Cut
<1>9. \A k, l \in 1 .. n : k < l => Comes(results[k], results[l], sort, descending)
  <2> TAKE k, l \in 1 .. n
  <2>1. k \in 1 .. Len(s) /\ l \in 1 .. Len(s)
    BY <1>4, <1>6
  <2> QED  BY <1>4, <1>8, <2>1
<1>10. ASSUME NEW i \in T
       PROVE  \/ \E k \in 1 .. n : results[k] = i
              \/ n = limit /\ Comes(results[limit], i, sort, descending)
  <2>1. PICK k \in 1 .. Len(s) : s[k] = i
    BY <1>4
  <2>2. CASE k <= n
    BY <1>6, <1>8, <2>1, <2>2
  <2>3. CASE n < k
    <3>1. n = limit /\ limit \in 1 .. n /\ limit \in 1 .. Len(s) /\ limit < k
      BY <1>4, <1>6, <2>1, <2>3, SMTT(20)
    <3>2. Comes(s[limit], s[k], sort, descending)
      BY <1>4, <2>1, <3>1
    <3> QED  BY <1>8, <2>1, <3>1, <3>2
  <2> QED  BY <1>6, <2>1, <2>2, <2>3
<1> QED  BY <1>6, <1>8, <1>9, <1>10 DEF T

\* What a caller has been given, in order, and where its cursor stands.
Follows(i, j, r) == Comes(i, j, r.sort, r.descending)

InOrder(given, r) ==
    \A k \in 1 .. Len(given) - 1 : Follows(given[k], given[k + 1], r)

IsAt(at, given, r) ==
    IF at = NoCursor THEN given = <<>>
    ELSE given # <<>> /\ at = SortKey(given[Len(given)], r.sort)

After(S, at, r) == AfterCursor(S, r.sort, r.descending, at)

Given(i, given) == \E k \in 1 .. Len(given) : given[k] = i

\* What all the pages so far are, with the next one, made of results.
Extends(all, given, at, S, results, next, r) ==
    /\ all \in Seq(Item) /\ InOrder(all, r)
    /\ \A k \in 1 .. Len(all) : Given(all[k], given) \/ all[k] \in S
    /\ \A i : Given(i, given) => Given(i, all)
    /\ Len(results) > Limit => IsAt(next, all, r)
    /\ Len(results) > Limit =>
         \E i \in Item : r.sort \in DOMAIN i.keys /\ next = SortKey(i, r.sort)
    /\ \A i \in After(S, at, r) :
         \/ Given(i, all)
         \/ /\ Len(results) > Limit
            /\ Precedes(next, SortKey(i, r.sort), r.descending)

LEMMA NextPage ==
    ASSUME NEW r \in Request, NEW S, Sortable(S, r.sort), IsFiniteSet(S),
           NEW given \in Seq(Item), NEW at, IsAt(at, given, r), InOrder(given, r),
           NEW results, results = PageOf(S, r.sort, r.descending, at, Limit + 1),
           NEW items, items = IF Len(results) > Limit THEN Front(results) ELSE results,
           NEW all, all = given \o items,
           NEW next, next = SortKey(Last(items), r.sort)
    PROVE  Extends(all, given, at, S, results, next, r)
<1> DEFINE more == Len(results) > Limit
           T == After(S, at, r)
<1>1. r.sort \in Dates /\ r.descending \in BOOLEAN /\ Limit \in Nat \ {0}
  BY RequestAssumption, RecordsPagesAssumption DEF Dates
<1>2. /\ results \in Seq(T) /\ Len(results) <= Limit + 1
      /\ \A k, l \in 1 .. Len(results) : k < l => Follows(results[k], results[l], r)
      /\ \A i \in T : \/ \E k \in 1 .. Len(results) : results[k] = i
                      \/ Len(results) = Limit + 1 /\ Follows(results[Limit + 1], i, r)
  <2>1. PICK limit \in Nat \ {0} : limit = Limit + 1
    BY <1>1
  <2>2. PICK sort \in Dates : sort = r.sort
    BY <1>1
  <2>3. PICK descending \in BOOLEAN : descending = r.descending
    BY <1>1
  <2>4. results = PageOf(S, sort, descending, at, limit) /\ Sortable(S, sort)
    BY <2>1, <2>2, <2>3
  <2>5. PICK U : U = AfterCursor(S, sort, descending, at)
    OBVIOUS
  <2>6. /\ results \in Seq(U) /\ Len(results) <= limit
        /\ \A k, l \in 1 .. Len(results) : k < l =>
                Comes(results[k], results[l], sort, descending)
        /\ \A i \in U : \/ \E k \in 1 .. Len(results) : results[k] = i
                        \/ /\ Len(results) = limit
                           /\ Comes(results[limit], i, sort, descending)
    BY <2>4, <2>5, PageIs
  <2>7. U = T
    BY <2>2, <2>3, <2>5 DEF After
  <2>8. \A i, j : Follows(i, j, r) <=> Comes(i, j, sort, descending)
    BY <2>2, <2>3 DEF Follows
  <2> HIDE DEF T
  <2> QED  BY <2>1, <2>6, <2>7, <2>8
<1>3. T \subseteq S /\ Sortable(T, r.sort) /\ T \subseteq Item
  BY DEF After, AfterCursor, Sortable
<1> HIDE DEF T
<1>4. PICK n \in Nat : n = IF Len(results) > Limit THEN Limit ELSE Len(results)
  BY <1>1, <1>2
<1>5. /\ items \in Seq(T) /\ Len(items) = n /\ n <= Len(results)
      /\ \A k \in 1 .. n : items[k] = results[k] /\ items[k] \in T
  <2>1. CASE more
    <3>1. n = Limit /\ Len(results) = Limit + 1 /\ items = SubSeq(results, 1, Limit)
      BY <1>1, <1>2, <1>4, <2>1 DEF Front
    <3>2. n \in Nat /\ n <= Len(results) /\ items = SubSeq(results, 1, n)
      BY <1>1, <3>1
    <3>3. /\ items \in Seq(T) /\ Len(items) = n
          /\ \A k \in 1 .. n : items[k] = results[k]
      <4>1. results \in Seq(T)
        BY <1>2
      <4>2. PICK c : c = SubSeq(results, 1, n)
        OBVIOUS
      <4>3. c \in Seq(T) /\ Len(c) = n /\ \A k \in 1 .. n : c[k] = results[k]
        BY <3>2, <4>1, <4>2, Cut, Zenon
      <4> QED  BY <3>2, <4>2, <4>3
    <3>4. \A k \in 1 .. n : items[k] \in T
      BY <3>3
    <3> QED  BY <3>2, <3>3, <3>4
  <2>2. CASE ~more
    BY <1>2, <1>4, <2>2
  <2> QED  BY <2>1, <2>2
<1>6. PICK m \in Nat : m = Len(given)
  OBVIOUS
<1>7. /\ all \in Seq(Item) /\ Len(all) = m + n
      /\ \A k \in 1 .. m : all[k] = given[k]
      /\ \A k \in 1 .. n : all[m + k] = items[k]
      /\ \A k \in 1 .. m + n : k <= m \/ k - m \in 1 .. n
  <2>1. items \in Seq(Item)
    BY <1>3, <1>5
  <2>2. all \in Seq(Item) /\ Len(all) = m + n
    <3>1. PICK c \in Seq(Item) : c = items
      BY <2>1
    <3>2. Len(c) = n /\ all = given \o c
      BY <1>5, <3>1
    <3>3. Len(given \o c) = Len(given) + Len(c) /\ given \o c \in Seq(Item)
      OBVIOUS
    <3> QED  BY <1>6, <3>2, <3>3
  <2>3. \A k \in 1 .. m : all[k] = given[k]
    BY <1>5, <1>6, <2>1
  <2>4. ASSUME NEW k \in 1 .. n PROVE all[m + k] = items[k]
    <3>1. PICK l \in Nat : l = m + k /\ l \in 1 .. m + n /\ m < l /\ l - m = k
      <4>1. m \in Nat /\ n \in Nat /\ k \in Nat /\ 1 <= k /\ k <= n
        BY <1>4, <1>6
      <4>2. m + k \in Nat /\ m + k \in 1 .. m + n /\ m < m + k /\ (m + k) - m = k
        BY <4>1
      <4> QED  BY <4>2
    <3>2. all[l] = items[l - m]
      BY <1>5, <1>6, <2>1, <3>1
    <3> QED  BY <3>1, <3>2
  <2>5. \A k \in 1 .. m + n : k <= m \/ k - m \in 1 .. n
    OBVIOUS
  <2> QED  BY <2>2, <2>3, <2>4, <2>5
<1>8. InOrder(all, r)
  <2>0. Len(all) - 1 = m + n - 1
    <3>1. Len(all) = m + n
      BY <1>7, Zenon
    <3> QED  BY <3>1
  <2> SUFFICES ASSUME NEW k \in 1 .. m + n - 1 PROVE Follows(all[k], all[k + 1], r)
    <3> HIDE DEF Follows
    <3> QED  BY <2>0 DEF InOrder
  <2>1. CASE k < m
    <3>1. k \in 1 .. m /\ k + 1 \in 1 .. m /\ k \in 1 .. Len(given) - 1
      BY <1>6, <2>1
    <3> QED  BY <1>7, <3>1 DEF InOrder
  <2>2. CASE k = m
    <3>1. 1 \in 1 .. n /\ all[k] = given[m] /\ all[k + 1] = items[1] /\ items[1] \in T
      <4>1. 1 \in 1 .. n /\ k \in 1 .. m /\ k + 1 = m + 1
        BY <2>2
      <4>2. all[m + 1] = items[1]
        BY <1>7, <4>1
      <4> QED  BY <1>5, <1>7, <2>2, <4>1, <4>2
    <3>2. at # NoCursor /\ at = SortKey(given[m], r.sort)
      BY <1>6, <2>2 DEF IsAt
    <3> QED  BY <3>1, <3>2 DEF T, After, AfterCursor, Follows, Comes
  <2>3. CASE m < k
    <3>0. k \in Nat /\ 1 <= k /\ k <= m + n - 1
      BY <1>4, <1>6
    <3>1. PICK l \in 1 .. n : l = k - m /\ l + 1 \in 1 .. n
      <4>1. m \in Nat /\ n \in Nat /\ m + 1 <= k
        BY <1>4, <1>6, <2>3, <3>0
      <4>2. k - m \in 1 .. n /\ (k - m) + 1 \in 1 .. n
        BY <3>0, <4>1
      <4> QED  BY <4>2
    <3>2. all[k] = results[l] /\ all[k + 1] = results[l + 1]
      <4>1. m + l = k /\ m + (l + 1) = k + 1
        BY <3>1
      <4>2. all[m + l] = items[l] /\ all[m + (l + 1)] = items[l + 1]
        BY <1>7, <3>1
      <4>3. items[l] = results[l] /\ items[l + 1] = results[l + 1]
        BY <1>5, <3>1
      <4> QED  BY <4>1, <4>2, <4>3
    <3>3. l \in 1 .. Len(results) /\ l + 1 \in 1 .. Len(results) /\ l < l + 1
      BY <1>2, <1>5, <3>1
    <3> QED  BY <1>2, <3>2, <3>3
  <2>4. k < m \/ k = m \/ m < k
    BY <1>4, <1>6
  <2> QED  BY <2>1, <2>2, <2>3, <2>4
<1>9. \A k \in 1 .. Len(all) : Given(all[k], given) \/ all[k] \in S
  <2> TAKE k \in 1 .. Len(all)
  <2>1. CASE k <= m
    BY <1>6, <1>7, <2>1 DEF Given
  <2>2. CASE m < k
    <3>1. PICK l \in 1 .. n : l = k - m
      BY <1>7, <2>2
    <3>2. all[k] = items[l]
      <4>1. m + l = k
        BY <3>1
      <4> QED  BY <1>7, <3>1, <4>1
    <3> QED  BY <1>3, <1>5, <3>1, <3>2
  <2> QED  BY <1>7, <2>1, <2>2
<1>10. \A i : Given(i, given) => Given(i, all)
  <2>1. \A l \in 1 .. Len(given) : l \in 1 .. Len(all) /\ all[l] = given[l]
    BY <1>6, <1>7
  <2> QED  BY <2>1 DEF Given
<1>11. ASSUME more
       PROVE  /\ n = Limit /\ Len(results) = Limit + 1 /\ Last(items) = results[Limit]
              /\ Last(items) = all[Len(all)] /\ Last(items) \in T
  <2>1. n = Limit /\ Len(results) = Limit + 1 /\ n \in 1 .. n
    BY <1>1, <1>2, <1>4, <1>11
  <2>2. Last(items) = items[n]
    BY <1>5 DEF Last
  <2> QED  BY <1>5, <1>7, <2>1, <2>2
<1>12. ASSUME more PROVE IsAt(next, all, r)
  <2>1. next # NoCursor
    BY DEF SortKey, NoCursor
  <2>2. all # <<>>
    BY <1>1, <1>7, <1>11, <1>12
  <2> QED  BY <1>11, <1>12, <2>1, <2>2 DEF IsAt
<1>13. ASSUME more
       PROVE  \E i \in Item : r.sort \in DOMAIN i.keys /\ next = SortKey(i, r.sort)
  BY <1>3, <1>11, <1>13 DEF Sortable
<1>14. ASSUME NEW i \in T
       PROVE  \/ Given(i, all)
              \/ more /\ Precedes(next, SortKey(i, r.sort), r.descending)
  <2>1. CASE \E k \in 1 .. n : results[k] = i
    <3>1. PICK k \in 1 .. n : results[k] = i
      BY <2>1
    <3>2. m + k \in 1 .. Len(all) /\ all[m + k] = i
      BY <1>5, <1>7, <3>1
    <3> QED  BY <3>2 DEF Given
  <2>2. CASE ~\E k \in 1 .. n : results[k] = i
    <3>1. more
      BY <1>1, <1>2, <1>4, <2>2
    <3>2. n = Limit /\ Len(results) = Limit + 1 /\ Last(items) = results[Limit]
      BY <1>11, <3>1
    <3>3. /\ Limit \in 1 .. Len(results) /\ Limit + 1 \in 1 .. Len(results)
          /\ Limit < Limit + 1
      BY <1>1, <3>2
    <3>4. Follows(results[Limit], results[Limit + 1], r)
      BY <1>2, <3>3
    <3>5. results[Limit] \in T /\ results[Limit + 1] \in T
      BY <1>2, <3>3
    <3>6. results[Limit + 1] = i \/ Follows(results[Limit + 1], i, r)
      <4>1. \A k \in 1 .. Len(results) : k \in 1 .. n \/ k = Limit + 1
        BY <1>1, <3>2
      <4> QED  BY <1>2, <2>2, <4>1
    <3>7. Follows(results[Limit], i, r)
      BY <1>1, <1>3, <3>4, <3>5, <3>6, ComesOrder DEF Follows
    <3> QED  BY <3>1, <3>2, <3>7 DEF Follows, Comes
  <2> QED  BY <2>1, <2>2
<1> QED  BY <1>7, <1>8, <1>9, <1>10, <1>12, <1>13, <1>14 DEF T, Extends

----------------------------------------------------------------------------
\* The caller.

\* Not everybody who sorts by the date of publication asks for unpublished
\* records, too: a search then ends without a result.
SortIndexed ==
    \A r \in Request : r.sort = "datePublished" =>
        \/ r.author \in {Owner, Anonymous} \/ Refused(r)
        \/ ~IncludesUnpublished(r.filter)

Matching(i, r) == i \in Item /\ \E f \in Searched(r) : MatchFilter(i.keys, f)

Found(i, r) == Matching(i, r) /\ r.sort \in DOMAIN i.keys

\* Without any filter, every item matches.
LEMMA NoFilterFinds ==
    ASSUME NEW r, NEW i \in Item
    PROVE  /\ Matching(i, r) <=> MatchAnyFilter(i.keys, Filters(r))
           /\ Filters(r) # {} =>
                (Matching(i, r) <=> \E f \in Filters(r) : MatchFilter(i.keys, f))
<1>1. MatchFilter(i.keys, NoFilter)
  BY DEF MatchFilter, NoFilter
<1> QED  BY <1>1 DEF Matching, Searched, MatchAnyFilter

LEMMA SortedFinds ==
    ASSUME NEW r \in Request, ~Refused(r), SortIndexed, NEW i, Matching(i, r)
    PROVE  Found(i, r)
<1>2. r.sort \in Dates
  BY RequestAssumption DEF Dates
<1>3. CASE r.sort = "dateCreated"
  BY <1>3, ItemAssumption DEF Found, Matching
<1>4. CASE r.sort = "datePublished"
  <2>0. Filters(r) # {}
    <3>1. "published" \in DOMAIN r.filter => r.filter.published # {FALSE}
      BY <1>4 DEF Refused
    <3>2. IncludesPublished(r.filter)
      BY <3>1 DEF IncludesPublished
    <3> QED  BY <3>2 DEF Filters, FiltersOver, NonOwnerFilters, When
  <2>p. PICK f \in Filters(r) : i \in Item /\ MatchFilter(i.keys, f)
    BY <2>0, NoFilterFinds DEF Matching
  <2>1. SUFFICES Has(i.keys, "published", {TRUE})
    <3>1. i.keys.method = {"Write"} /\ i.keys.published = {TRUE}
      BY <2>p, <2>1, ItemIs
    <3> QED  BY <2>p, <1>4, <3>1, PublicationMeets DEF Found
  <2>2. PICK base : base = BaseOf("query", r)
    OBVIOUS
  <2>3. f \in FiltersOver(r, base)
    BY <2>p, <2>2 DEF Filters, BaseOf
  <2>4. CASE r.author = Owner
    <3>1. MatchOthers({}, i.keys, BaseOf("query", r))
      BY <2>p, <2>2, <2>3, <2>4, MatchIs DEF FiltersOver
    <3>2. OfPublished(r, r.sort)
      BY <1>4 DEF OfPublished
    <3>3. PICK sort : sort = r.sort
      OBVIOUS
    <3>4. MatchOthers({}, i.keys, BaseOf("query", r)) <=>
            /\ Fits("query", i)
            /\ IF OfPublished(r, sort)
               THEN Has(i.keys, "published", {TRUE}) /\ Others({"published"}, i, r)
               ELSE Others({}, i, r)
      <4>1. {} \cup {"published"} = {"published"}
        OBVIOUS
      <4> QED  BY <2>p, <3>3, <4>1, BaseMatches
    <3> QED  BY <3>1, <3>2, <3>3, <3>4
  <2>5. CASE r.author # Owner
    <3>1. f = PublishedFilter(base)
      <4>1. CASE r.author = Anonymous
        BY <2>3, <2>5, <4>1 DEF FiltersOver
      <4>2. CASE r.author # Anonymous
        <5>1. ~IncludesUnpublished(r.filter)
          BY <1>4, <2>5, <4>2 DEF SortIndexed
        <5> QED  BY <2>3, <2>5, <4>2, <5>1 DEF FiltersOver, NonOwnerFilters, When
      <4> QED  BY <4>1, <4>2
    <3>2. i.keys.method = {"Write"} /\ i.keys.published = {TRUE}
      BY <2>p, <2>2, <3>1, BranchMatches
    <3> QED  BY <2>p, <3>2, ItemIs
  <2> QED  BY <2>4, <2>5
<1> QED  BY <1>2, <1>3, <1>4 DEF Dates

\* What is given to a caller: it is found, in order, and what the cursor stands
\* for is the last of it.
GivenOK(given, r) ==
    /\ given \in Seq(Item) /\ InOrder(given, r)
    /\ \A k \in 1 .. Len(given) : Found(given[k], r)

PagingOK ==
    /\ step \in {"query", "search", "done", "failed"} => ~Refused(request)
    /\ step \in {"query", "search"} => IsAt(cursor, returned, request)
    /\ step \notin {"query", "search", "done", "failed"} => cursor = NoCursor /\ returned = <<>>

SearchingOK ==
    /\ IsFiniteSet(index) /\ IsFiniteSet(matches)
    /\ \A i \in matches : Matching(i, request)

PagesInv ==
    /\ PageTypeOK /\ GivenOK(returned, request) /\ PagingOK /\ SearchingOK
    /\ step = "subscribed" => ~SubscriptionRefused(request)
    /\ HeardAsAsked

LEMMA EmptyPage ==
    ASSUME NEW r \in Request, NEW at
    PROVE  PageOf({}, r.sort, r.descending, at, Limit + 1) = <<>>
<1>1. PICK sort \in Dates, descending \in BOOLEAN, limit \in Nat \ {0} :
        sort = r.sort /\ descending = r.descending /\ limit = Limit + 1
  <2>1. r.sort \in Dates /\ r.descending \in BOOLEAN /\ Limit + 1 \in Nat \ {0}
    <3>1. Limit \in Nat
      BY RecordsPagesAssumption
    <3>2. r.sort \in Dates /\ r.descending \in BOOLEAN
      BY RequestAssumption DEF Dates
    <3> QED  BY <3>1, <3>2
  <2> QED  BY <2>1
<1>2. PICK results : results = PageOf({}, sort, descending, at, limit)
  OBVIOUS
<1>3. Sortable({}, sort) /\ IsFiniteSet({})
  BY FS_EmptySet DEF Sortable
<1>4. results \in Seq(AfterCursor({}, sort, descending, at))
  BY <1>2, <1>3, PageIs
<1>5. AfterCursor({}, sort, descending, at) = {}
  BY DEF AfterCursor
<1>6. results \in Seq({})
  BY <1>4, <1>5
<1>7. results = <<>>
  <2>1. Len(results) \in Nat /\ \A k \in 1 .. Len(results) : results[k] \in {}
    BY <1>6
  <2>2. Len(results) = 0
    BY <2>1
  <2> QED  BY <1>6, <2>2
<1> QED  BY <1>1, <1>2, <1>7

\* A page of what was found.
LEMMA ReplyGives ==
    ASSUME PagesInv, step \in {"query", "search"}, NEW S, IsFiniteSet(S),
           \A i \in S : Found(i, request),
           NEW results,
           results = PageOf(S, request.sort, request.descending, cursor, Limit + 1),
           Reply(results)
    PROVE  /\ GivenOK(returned', request) /\ step' \in {"query", "done", "failed"}
           /\ step' = "query" => IsAt(cursor', returned', request)
           /\ cursor' = NoCursor \/ \E i \in Item : request.sort \in DOMAIN i.keys
                                        /\ cursor' = SortKey(i, request.sort)
           /\ \A i : Given(i, returned) => Given(i, returned')
           /\ \A i \in After(S, cursor, request) :
                \/ Given(i, returned') \/ step' = "failed"
                \/ /\ step' = "query"
                   /\ Precedes(cursor', SortKey(i, request.sort), request.descending)
<1>0. CASE step' = "failed" /\ UNCHANGED <<cursor, returned>>
  BY <1>0 DEF PagesInv, PageTypeOK
<1>1. PICK r \in Request : r = request
  BY DEF PagesInv, PageTypeOK
<1>2. PICK given \in Seq(Item) : given = returned
  BY DEF PagesInv, GivenOK
<1>3. PICK at : at = cursor
  OBVIOUS
<1>4. PICK items : items = IF Len(results) > Limit THEN Front(results) ELSE results
  OBVIOUS
<1>5. PICK all : all = given \o items
  OBVIOUS
<1>10. PICK next : next = SortKey(Last(items), r.sort)
  OBVIOUS
<1>6. \/ step' = "failed" /\ UNCHANGED <<cursor, returned>>
      \/ /\ returned' = all
         /\ cursor' = (IF Len(results) > Limit THEN next ELSE NoCursor)
         /\ step' = IF Len(results) > Limit THEN "query" ELSE "done"
  BY <1>1, <1>2, <1>4, <1>5, <1>10 DEF Reply
<1>7. /\ Sortable(S, r.sort) /\ IsAt(at, given, r) /\ InOrder(given, r)
      /\ results = PageOf(S, r.sort, r.descending, at, Limit + 1)
  BY <1>1, <1>2, <1>3 DEF Sortable, Found, Matching, PagesInv, PagingOK, GivenOK
<1>8. Extends(all, given, at, S, results, next, r)
  BY <1>4, <1>5, <1>7, <1>10, NextPage
<1>9. GivenOK(all, r)
  <2>1. \A k \in 1 .. Len(given) : Found(given[k], r)
    BY <1>1, <1>2 DEF PagesInv, GivenOK
  <2>2. \A k \in 1 .. Len(all) : Found(all[k], r)
    BY <1>1, <1>8, <2>1 DEF Given, Extends
  <2> QED  BY <1>8, <2>2 DEF GivenOK, Extends
<1> QED  BY <1>0, <1>1, <1>2, <1>3, <1>6, <1>8, <1>9 DEF Extends

\* The items that a scan of the index comes to.
LEMMA ScanFinds ==
    ASSUME NEW r \in Request, ~Refused(r), NEW I, I \subseteq Item, IsFiniteSet(I),
           NEW S, S = {i \in ItemsWith(I, r.sort) : MatchAnyFilter(i.keys, Filters(r))}
    PROVE  IsFiniteSet(S) /\ \A i : i \in S <=> i \in I /\ Found(i, r)
<1>1. S \subseteq I
  BY DEF ItemsWith
<1>2. IsFiniteSet(S)
  BY <1>1, FS_Subset
<1>3. \A i : i \in S <=> i \in I /\ Found(i, r)
  BY NoFilterFinds DEF ItemsWith, Found, Matching
<1> QED  BY <1>2, <1>3

LEMMA GivenItems ==
    ASSUME NEW given, NEW r, GivenOK(given, r)
    PROVE  ToSet(given) \subseteq Item
BY DEF GivenOK, ToSet

\* Every action keeps the invariant.
LEMMA PagesStep ==
    ASSUME PagesInv, [Next]_vars
    PROVE  PagesInv'
<1>1. PICK r \in Request : r = request
  BY DEF PagesInv, PageTypeOK
<1> USE DEF page, events
<1>2. request' = request
  BY DEF Next, vars, Put, Delete, Ask, Subscribe, ScanPage, StartSearch, SearchOne, EndSearch, Emit
<1>3. CASE \E i \in Item : Put(i)
  <2>1. PICK i \in Item : Put(i)
    BY <1>3
  <2>2. /\ index' = index \cup {i} /\ changes' = changes + 1 /\ changes < MaxChanges
        /\ UNCHANGED <<step, request, cursor, todo, matches, returned, lasting>>
    BY <2>1 DEF Put, Changing
  <2>3. IsFiniteSet(index')
    BY <2>2, FS_AddElement DEF PagesInv, SearchingOK
  <2>4. SearchingOK'
    BY <2>2, <2>3 DEF PagesInv, SearchingOK
  <2>5. GivenOK(returned', request') /\ PagingOK'
    BY <2>2 DEF PagesInv, PagingOK
  <2>6. /\ heard' \subseteq offered' /\ offered' \subseteq Item
        /\ HeardAsAsked'
    <3>1. CASE UNCHANGED <<heard, offered>>
      BY <2>2, <3>1 DEF PagesInv, PageTypeOK, HeardAsAsked
    <3>2. CASE step = "subscribed" /\ IsEmitted(i)
      <4>1. /\ offered' = offered \cup {i}
            /\ heard' = heard \cup
                    {j \in {i} : MatchAnyFilter(j.keys, SubscriptionFilters(request))}
        BY <2>1, <3>2 DEF Put, Emit
      <4>2. ASSUME SubscriptionFilters(request) # {}
            PROVE  /\ \A j \in heard' : MeetsAll(j, request.filter)
                   /\ \A j \in offered' : j.keys.method = {"Write"} \/ request.author = Owner =>
                        (j \in heard' <=> MeetsAll(j, request.filter) /\ MayRead(j, request))
        <5> DEFINE Matches(j) == MatchAnyFilter(j.keys, SubscriptionFilters(request))
        <5>1. Matches(i) <=> /\ MeetsAll(i, request.filter)
                             /\ IF i.keys.method = {"Write"} THEN MayRead(i, request)
                                ELSE request.author = Owner
          BY <1>1, <3>2, <4>2, SubscriptionFinds DEF PagesInv
        <5>2. request.author = Owner => MayRead(i, request)
          BY DEF MayRead
        <5>3. heard' = heard \cup {j \in {i} : Matches(j)}
          BY <4>1
        <5> HIDE DEF Matches
        <5>4. /\ \A j \in heard : MeetsAll(j, request.filter)
              /\ \A j \in offered : j.keys.method = {"Write"} \/ request.author = Owner =>
                    (j \in heard <=> MeetsAll(j, request.filter) /\ MayRead(j, request))
          BY <4>2 DEF PagesInv, HeardAsAsked
        <5>5. \A j : j \in heard' <=> j \in heard \/ (j = i /\ Matches(i))
          BY <5>3
        <5>6. ASSUME NEW j \in heard' PROVE MeetsAll(j, request.filter)
          BY <5>1, <5>4, <5>5, <5>6
        <5>7. ASSUME NEW j \in offered', j.keys.method = {"Write"} \/ request.author = Owner
              PROVE  j \in heard' <=> MeetsAll(j, request.filter) /\ MayRead(j, request)
          <6>1. CASE j = i /\ Matches(i)
            BY <5>1, <5>2, <5>5, <5>7, <6>1
          <6>2. CASE j # i /\ j \in offered
            BY <5>4, <5>5, <5>7, <6>2
          <6>3. CASE j = i /\ ~Matches(i)
            <7>1. ~(MeetsAll(i, request.filter) /\ MayRead(i, request))
              BY <5>1, <5>2, <5>7, <6>3
            <7>2. j \in heard' => j \in offered /\ j \in heard
              BY <5>5, <6>3 DEF PagesInv, PageTypeOK
            <7> QED  BY <5>4, <5>7, <6>3, <7>1, <7>2
          <6> QED  BY <4>1, <6>1, <6>2, <6>3
        <5> QED  BY <5>6, <5>7
      <4>3. heard' \subseteq offered' /\ offered' \subseteq Item
        BY <4>1 DEF PagesInv, PageTypeOK
      <4> QED  BY <2>2, <4>2, <4>3 DEF HeardAsAsked
    <3> QED  BY <2>1, <3>1, <3>2 DEF Put, Emit
  <2>7. PageTypeOK'
    BY <2>2, <2>6, RecordsPagesAssumption DEF PagesInv, PageTypeOK
  <2> QED  BY <2>2, <2>4, <2>5, <2>6, <2>7 DEF PagesInv
<1>4. CASE \E i \in Item : Delete(i)
  <2>1. PICK i \in Item : Delete(i)
    BY <1>4
  <2>2. /\ index' = index \ {i} /\ lasting' = lasting \ {i}
        /\ changes' = changes + 1 /\ changes < MaxChanges
        /\ UNCHANGED <<step, request, cursor, todo, matches, returned, heard, offered>>
    BY <2>1 DEF Delete, Changing
  <2>3. IsFiniteSet(index')
    BY <2>2, FS_RemoveElement DEF PagesInv, SearchingOK
  <2>4. SearchingOK'
    BY <2>2, <2>3 DEF PagesInv, SearchingOK
  <2>5. GivenOK(returned', request') /\ PagingOK' /\ HeardAsAsked'
    BY <2>2 DEF PagesInv, PagingOK, HeardAsAsked
  <2>6. PageTypeOK'
    BY <2>2, RecordsPagesAssumption DEF PagesInv, PageTypeOK
  <2> QED  BY <2>2, <2>4, <2>5, <2>6 DEF PagesInv
<1>5. CASE Ask
  <2>1. /\ step = "idle" /\ lasting' = index
        /\ step' = IF Refused(request) THEN "refused" ELSE "query"
        /\ UNCHANGED <<index, changes, request, cursor, todo, matches, returned, heard, offered>>
    BY <1>5 DEF Ask
  <2>2. GivenOK(returned', request') /\ SearchingOK' /\ HeardAsAsked'
    BY <2>1 DEF PagesInv, SearchingOK, HeardAsAsked
  <2>3. PagingOK'
    BY <2>1 DEF PagesInv, PagingOK, IsAt
  <2>4. PageTypeOK'
    BY <2>1 DEF PagesInv, PageTypeOK
  <2> QED  BY <2>1, <2>2, <2>3, <2>4 DEF PagesInv
<1>6. CASE Subscribe
  <2>1. /\ step = "idle"
        /\ step' = IF SubscriptionRefused(request) THEN "refused" ELSE "subscribed"
        /\ UNCHANGED <<index, changes, request, cursor, todo, matches, returned, lasting,
                       heard, offered>>
    BY <1>6 DEF Subscribe
  <2>2. GivenOK(returned', request') /\ SearchingOK' /\ HeardAsAsked'
    BY <2>1 DEF PagesInv, SearchingOK, HeardAsAsked
  <2>3. PagingOK'
    BY <2>1 DEF PagesInv, PagingOK
  <2>4. PageTypeOK'
    BY <2>1 DEF PagesInv, PageTypeOK
  <2> QED  BY <2>1, <2>2, <2>3, <2>4 DEF PagesInv
<1>7. CASE ScanPage
  <2>1. /\ step = "query"
        /\ Reply(IteratorPage(index, Filters(request), request.sort,
                              request.descending, cursor, Limit + 1))
        /\ UNCHANGED <<index, changes, request, todo, matches, lasting, heard, offered>>
    BY <1>7 DEF ScanPage
  <2>2. PICK S : S = {i \in ItemsWith(index, request.sort) :
                        MatchAnyFilter(i.keys, Filters(request))}
    OBVIOUS
  <2>3. IsFiniteSet(S) /\ \A i \in S : Found(i, request)
    BY <1>1, <2>1, <2>2, ScanFinds DEF PagesInv, PagingOK, SearchingOK, PageTypeOK
  <2>4. PICK results : results = PageOf(S, request.sort, request.descending, cursor, Limit + 1)
    OBVIOUS
  <2>5. Reply(results)
    BY <2>1, <2>2, <2>4 DEF IteratorPage
  <2>6. /\ GivenOK(returned', request) /\ step' \in {"query", "done", "failed"}
        /\ step' = "query" => IsAt(cursor', returned', request)
        /\ cursor' = NoCursor \/ \E i \in Item : request.sort \in DOMAIN i.keys
                                    /\ cursor' = SortKey(i, request.sort)
    BY <2>1, <2>3, <2>4, <2>5, ReplyGives
  <2>7. PagingOK'
    BY <2>1, <2>6 DEF PagesInv, PagingOK
  <2>8. SearchingOK' /\ HeardAsAsked'
    BY <2>1 DEF PagesInv, SearchingOK, HeardAsAsked
  <2>9. PageTypeOK'
    BY <2>1, <2>6, GivenItems DEF PagesInv, PageTypeOK
  <2> QED  BY <2>1, <2>6, <2>7, <2>8, <2>9 DEF PagesInv
<1>8. CASE StartSearch
  <2>1. /\ step = "query" /\ todo' = Searched(request) /\ matches' = {} /\ step' = "search"
        /\ UNCHANGED <<index, changes, request, cursor, returned, lasting, heard, offered>>
    BY <1>8 DEF StartSearch
  <2>2. GivenOK(returned', request') /\ PagingOK' /\ HeardAsAsked'
    BY <2>1 DEF PagesInv, PagingOK, HeardAsAsked
  <2>3. SearchingOK'
    BY <2>1, FS_EmptySet DEF PagesInv, SearchingOK
  <2>4. PageTypeOK'
    BY <2>1 DEF PagesInv, PageTypeOK
  <2> QED  BY <2>1, <2>2, <2>3, <2>4 DEF PagesInv
<1>9. CASE \E f \in todo : SearchOne(f)
  <2>1. PICK f \in todo : SearchOne(f)
    BY <1>9
  <2>2. /\ step = "search" /\ todo' = todo \ {f}
        /\ matches' = matches \cup Search(index, f, request.sort)
        /\ UNCHANGED <<index, changes, step, request, cursor, returned, lasting,
                       heard, offered>>
    BY <2>1 DEF SearchOne
  <2>3. PICK found : found = Search(index, f, request.sort)
    OBVIOUS
  <2>4. found \subseteq index /\ \A i \in found : MatchFilter(i.keys, f)
    BY <1>1, <2>3, SearchSubset DEF Search
  <2>5. IsFiniteSet(found)
    BY <2>4, FS_Subset DEF PagesInv, SearchingOK
  <2>6. IsFiniteSet(matches \cup found)
    BY <2>5, FS_Union DEF PagesInv, SearchingOK
  <2>7. \A i \in found : Matching(i, request)
    BY <2>4 DEF Matching, PagesInv, PageTypeOK
  <2>8. SearchingOK'
    BY <2>2, <2>3, <2>6, <2>7 DEF PagesInv, SearchingOK
  <2>9. GivenOK(returned', request') /\ PagingOK' /\ HeardAsAsked'
    BY <2>2 DEF PagesInv, PagingOK, HeardAsAsked
  <2>10. PageTypeOK'
    BY <2>2, <2>3, <2>4 DEF PagesInv, PageTypeOK
  <2> QED  BY <2>2, <2>8, <2>9, <2>10 DEF PagesInv
<1>10. CASE EndSearch
  <2>1. /\ step = "search" /\ matches' = {}
        /\ Reply(InMemoryPage(matches, request.sort, request.descending, cursor, Limit + 1))
        /\ UNCHANGED <<index, changes, request, todo, lasting, heard, offered>>
    BY <1>10 DEF EndSearch
  <2>2. PICK S : S = IF matches \subseteq ItemsWith(matches, request.sort)
                     THEN matches ELSE {}
    OBVIOUS
  <2>3. IsFiniteSet(S) /\ \A i \in S : Found(i, request)
    BY <2>2, FS_EmptySet DEF PagesInv, SearchingOK, ItemsWith, Found
  <2>4. PICK results : results = PageOf(S, request.sort, request.descending, cursor, Limit + 1)
    OBVIOUS
  <2>5. Reply(results)
    BY <1>1, <2>1, <2>2, <2>4, EmptyPage DEF InMemoryPage
  <2>6. /\ GivenOK(returned', request) /\ step' \in {"query", "done", "failed"}
        /\ step' = "query" => IsAt(cursor', returned', request)
        /\ cursor' = NoCursor \/ \E i \in Item : request.sort \in DOMAIN i.keys
                                    /\ cursor' = SortKey(i, request.sort)
    BY <2>1, <2>3, <2>4, <2>5, ReplyGives
  <2>7. PagingOK'
    BY <2>1, <2>6 DEF PagesInv, PagingOK
  <2>8. SearchingOK' /\ HeardAsAsked'
    BY <2>1, FS_EmptySet DEF PagesInv, SearchingOK, HeardAsAsked
  <2>9. PageTypeOK'
    BY <2>1, <2>6, GivenItems DEF PagesInv, PageTypeOK
  <2> QED  BY <2>1, <2>6, <2>7, <2>8, <2>9 DEF PagesInv
<1>11. CASE UNCHANGED vars
  <2>1. UNCHANGED <<index, changes, step, request, cursor, todo, matches, returned,
                    lasting, heard, offered>>
    BY <1>11 DEF vars
  <2> QED  BY <2>1 DEF PagesInv, PageTypeOK, PagingOK, SearchingOK, HeardAsAsked
<1> QED  BY <1>3, <1>4, <1>5, <1>6, <1>7, <1>8, <1>9, <1>10, <1>11 DEF Next

----------------------------------------------------------------------------
\* What was there all the time is not missed: it is given already, or the cursor
\* is still before it; and the searches for a page find it by one of its filters.
Ahead(i, at, r) == at = NoCursor \/ Precedes(at, SortKey(i, r.sort), r.descending)

CompleteInv ==
    \A i \in lasting : Found(i, request) =>
        /\ step = "done" => Given(i, returned)
        /\ step \in {"query", "search"} =>
                Given(i, returned) \/ Ahead(i, cursor, request)
        /\ step = "search" =>
                \A f \in Searched(request) \ todo : MatchFilter(i.keys, f) => i \in matches

LEMMA CompleteStep ==
    ASSUME SortIndexed, PagesInv, CompleteInv, [Next]_vars
    PROVE  CompleteInv'
<1>1. PICK r \in Request : r = request
  BY DEF PagesInv, PageTypeOK
<1> USE DEF page, events
<1>2. CASE \E i \in Item : Put(i)
  <2>1. UNCHANGED <<step, request, cursor, todo, matches, returned, lasting>>
    BY <1>2 DEF Put
  <2> QED  BY <2>1 DEF CompleteInv
<1>3. CASE \E i \in Item : Delete(i)
  <2>1. PICK i \in Item : Delete(i)
    BY <1>3
  <2>2. lasting' \subseteq lasting
        /\ UNCHANGED <<step, request, cursor, todo, matches, returned>>
    BY <2>1 DEF Delete
  <2> QED  BY <2>2 DEF CompleteInv
<1>4. CASE Ask
  <2>1. /\ step = "idle" /\ step' \in {"refused", "query"}
        /\ UNCHANGED <<request, cursor, returned>>
    BY <1>4 DEF Ask
  <2>2. cursor' = NoCursor
    BY <2>1 DEF PagesInv, PagingOK
  <2> QED  BY <2>1, <2>2 DEF CompleteInv, Ahead
<1>5. CASE Subscribe
  <2>1. step' \in {"refused", "subscribed"}
    BY <1>5 DEF Subscribe
  <2> QED  BY <2>1 DEF CompleteInv
<1>6. ASSUME NEW S, step \in {"query", "search"}, IsFiniteSet(S),
             \A i \in S : Found(i, request),
             \A i \in lasting : Found(i, request) => i \in S,
             NEW results,
             results = PageOf(S, request.sort, request.descending, cursor, Limit + 1),
             Reply(results), UNCHANGED <<request, lasting>>
      PROVE  CompleteInv'
  <2>1. /\ step' \in {"query", "done", "failed"}
        /\ \A i : Given(i, returned) => Given(i, returned')
        /\ \A i \in After(S, cursor, request) :
                \/ Given(i, returned') \/ step' = "failed"
                \/ /\ step' = "query"
                   /\ Precedes(cursor', SortKey(i, request.sort), request.descending)
    BY <1>6, ReplyGives
  <2>2. ASSUME NEW i \in lasting, Found(i, request)
        PROVE  \/ Given(i, returned') \/ step' = "failed"
               \/ step' = "query" /\ Ahead(i, cursor', request)
    <3>1. Given(i, returned) \/ Ahead(i, cursor, request)
      BY <1>6, <2>2 DEF CompleteInv
    <3>2. CASE Given(i, returned)
      BY <2>1, <3>2
    <3>3. CASE Ahead(i, cursor, request)
      <4>1. i \in After(S, cursor, request)
        BY <1>6, <2>2, <3>3 DEF After, AfterCursor, Ahead
      <4> QED  BY <2>1, <4>1 DEF Ahead
    <3> QED  BY <3>1, <3>2, <3>3
  <2> QED  BY <1>6, <2>1, <2>2 DEF CompleteInv
<1>7. CASE ScanPage
  <2>1. /\ step = "query" /\ UNCHANGED <<request, lasting>>
        /\ Reply(IteratorPage(index, Filters(request), request.sort,
                              request.descending, cursor, Limit + 1))
    BY <1>7 DEF ScanPage
  <2>2. PICK S : S = {i \in ItemsWith(index, request.sort) :
                        MatchAnyFilter(i.keys, Filters(request))}
    OBVIOUS
  <2>3. IsFiniteSet(S) /\ \A i : i \in S <=> i \in index /\ Found(i, request)
    <3>1. ~Refused(r) /\ index \subseteq Item /\ IsFiniteSet(index)
      BY <1>1, <2>1 DEF PagesInv, PagingOK, SearchingOK, PageTypeOK
    <3>2. S = {i \in ItemsWith(index, r.sort) : MatchAnyFilter(i.keys, Filters(r))}
      BY <1>1, <2>2
    <3>3. IsFiniteSet(S) /\ \A i : i \in S <=> i \in index /\ Found(i, r)
      <4>1. PICK I : I = index
        OBVIOUS
      <4>2. IsFiniteSet(S) /\ \A i : i \in S <=> i \in I /\ Found(i, r)
        BY <3>1, <3>2, <4>1, ScanFinds
      <4> QED  BY <4>1, <4>2
    <3> QED  BY <1>1, <3>3
  <2>4. PICK results : results = PageOf(S, request.sort, request.descending, cursor, Limit + 1)
    OBVIOUS
  <2>5. Reply(results)
    BY <2>1, <2>2, <2>4 DEF IteratorPage
  <2>6. \A i \in lasting : Found(i, request) => i \in S
    BY <2>3 DEF PagesInv, PageTypeOK
  <2> QED  BY <1>6, <2>1, <2>3, <2>4, <2>5, <2>6
<1>8. CASE StartSearch
  <2>1. /\ step = "query" /\ step' = "search" /\ todo' = Searched(request)
        /\ UNCHANGED <<request, cursor, returned, lasting>>
    BY <1>8 DEF StartSearch
  <2> QED  BY <2>1 DEF CompleteInv
<1>9. CASE \E f \in todo : SearchOne(f)
  <2>1. PICK f \in todo : SearchOne(f)
    BY <1>9
  <2>2. /\ step = "search" /\ todo' = todo \ {f}
        /\ matches' = matches \cup Search(index, f, request.sort)
        /\ UNCHANGED <<step, request, cursor, returned, lasting>>
    BY <2>1 DEF SearchOne
  <2>3. ASSUME NEW i \in lasting, Found(i, request), MatchFilter(i.keys, f)
        PROVE  i \in matches'
    <3>1. i \in index /\ f \in Searched(request) /\ request.sort \in DOMAIN i.keys
      BY <2>1, <2>3 DEF PagesInv, PageTypeOK, Found
    <3>2. i \in Search(index, f, request.sort)
      BY <1>1, <2>3, <3>1, SearchFinds
    <3> QED  BY <2>2, <3>2
  <2>4. ASSUME NEW i \in lasting, Found(i, request),
               NEW g \in Searched(request) \ (todo \ {f}), MatchFilter(i.keys, g)
        PROVE  i \in matches'
    <3>1. CASE g = f
      BY <2>3, <2>4, <3>1
    <3>2. CASE g # f
      <4>1. i \in matches
        BY <2>2, <2>4, <3>2 DEF CompleteInv
      <4> QED  BY <2>2, <4>1
    <3> QED  BY <3>1, <3>2
  <2>5. \A i \in lasting : Found(i, request) =>
            Given(i, returned) \/ Ahead(i, cursor, request)
    BY <2>2 DEF CompleteInv
  <2> QED  BY <2>2, <2>4, <2>5 DEF CompleteInv
<1>10. CASE EndSearch
  <2>1. /\ step = "search" /\ todo = {} /\ UNCHANGED <<request, lasting>>
        /\ Reply(InMemoryPage(matches, request.sort, request.descending, cursor, Limit + 1))
    BY <1>10 DEF EndSearch
  <2>2. \A i \in matches : Found(i, request)
    BY <1>1, <2>1, SortedFinds DEF PagesInv, PagingOK, SearchingOK
  <2>3. matches \subseteq ItemsWith(matches, request.sort)
    BY <2>2 DEF Found, ItemsWith
  <2>4. PICK results :
            results = PageOf(matches, request.sort, request.descending, cursor, Limit + 1)
    OBVIOUS
  <2>5. Reply(results)
    BY <2>1, <2>3, <2>4 DEF InMemoryPage
  <2>6. \A i \in lasting : Found(i, request) => i \in matches
    BY <2>1 DEF CompleteInv, Found, Matching
  <2>7. IsFiniteSet(matches)
    BY DEF PagesInv, SearchingOK
  <2> QED  BY <1>6, <2>1, <2>2, <2>4, <2>5, <2>6, <2>7
<1>11. CASE UNCHANGED vars
  <2>1. UNCHANGED <<step, request, cursor, todo, matches, returned, lasting>>
    BY <1>11 DEF vars
  <2> QED  BY <2>1 DEF CompleteInv
<1> QED  BY <1>2, <1>3, <1>4, <1>5, <1>7, <1>8, <1>9, <1>10, <1>11 DEF Next

----------------------------------------------------------------------------
LEMMA InitPages == Init => PagesInv /\ CompleteInv
<1> SUFFICES ASSUME Init PROVE PagesInv /\ CompleteInv
  OBVIOUS
<1>1. PageTypeOK
  BY RecordsPagesAssumption DEF Init, PageTypeOK, ToSet
<1>2. GivenOK(returned, request)
  BY DEF Init, GivenOK, InOrder
<1>3. PagingOK /\ SearchingOK
  BY FS_EmptySet DEF Init, PagingOK, SearchingOK
<1>4. HeardAsAsked /\ CompleteInv
  BY DEF Init, HeardAsAsked, CompleteInv
<1> QED  BY <1>1, <1>2, <1>3, <1>4 DEF Init, PagesInv

\* The inductive invariant: what is given is found by the filters, in order, and
\* the cursor stands for the last of it, whichever way a page is made and however
\* the index changes between two pages.  (index-level.ts:241-471)
THEOREM PagesInvAlways == Spec => []PagesInv
<1>1. Init => PagesInv
  BY InitPages
<1>2. PagesInv /\ [Next]_vars => PagesInv'
  BY PagesStep
<1> QED  BY <1>1, <1>2, PTL DEF Spec

\* The cursor is nothing or the sort key of an item, and neither the searches of a
\* page nor what is given ever hold more than items.  (index-level.ts:241-471)
THEOREM PageTypesCorrect == Spec => []PageTypeOK
<1>1. PagesInv => PageTypeOK
  BY DEF PagesInv
<1> QED  BY <1>1, PagesInvAlways, PTL

\* Whatever a query returns to which a branch applies is asked for, and what
\* RecordsRead would let the caller read: for any filters, callers, orders and
\* changes of the index.  (records-query.ts:144-170, records-read.ts:158-183)
THEOREM OnlyReadableByBranchAlways == Spec => []OnlyReadableByBranch
<1>1. PagesInv => OnlyReadableByBranch
  <2> SUFFICES ASSUME PagesInv, Filters(request) # {}, NEW i \in ToSet(returned)
               PROVE  IsAsked(i, request) /\ MayRead(i, request)
    BY DEF OnlyReadableByBranch, OnlyReadable
  <2>1. PICK k \in 1 .. Len(returned) : i = returned[k]
    BY DEF PagesInv, GivenOK, ToSet
  <2>2. Found(i, request) /\ i \in Item /\ request \in Request
    BY <2>1 DEF PagesInv, GivenOK, PageTypeOK, Found, Matching
  <2>3. returned # <<>>
    BY <2>1
  <2>4. ~Refused(request)
    BY <2>3 DEF PagesInv, PagingOK
  <2>5. \E f \in Filters(request) : MatchFilter(i.keys, f)
    BY <2>2, NoFilterFinds DEF Found
  <2> QED  BY <2>2, <2>4, <2>5, QueryFinds DEF Found
<1> QED  BY <1>1, PagesInvAlways, PTL

\* A subscriber hears of what it asks for and may read, and of nothing else; the
\* filters of its subscription say the same as its request and the rule of who
\* may read.  (records-subscribe.ts:90-196)
THEOREM HeardAsAskedAlways == Spec => []HeardAsAsked
<1>1. PagesInv => HeardAsAsked
  BY DEF PagesInv
<1> QED  BY <1>1, PagesInvAlways, PTL

\* All the pages one after the other are in strict order: nothing is given twice.
\* (index-level.ts:560-589)
THEOREM PagesOrderedAlways == Spec => []PagesOrdered
<1>1. PagesInv => PagesOrdered
  BY DEF PagesInv, GivenOK, InOrder, Follows, Comes, PagesOrdered
<1> QED  BY <1>1, PagesInvAlways, PTL

\* Nothing that was there all the time is missed, unless another than the owner
\* sorts by the date of publication and asks for unpublished records, too.
\* (index-level.ts:241-471, message-store-level.ts:95-107)
THEOREM PagesCompleteAlways == SortIndexed /\ Spec => []PagesComplete
<1> SUFFICES ASSUME SortIndexed PROVE Spec => []PagesComplete
  OBVIOUS
<1>1. Init => CompleteInv
  BY InitPages
<1>2. PagesInv /\ CompleteInv /\ [Next]_vars => CompleteInv'
  BY CompleteStep
<1>3. PagesInv /\ CompleteInv => PagesComplete
  <2> SUFFICES ASSUME PagesInv, CompleteInv, step = "done",
                      NEW i \in lasting, IsAsked(i, request), MayRead(i, request)
               PROVE  i \in ToSet(returned)
    BY DEF PagesComplete
  <2>1. i \in Item /\ request \in Request /\ ~Refused(request)
    BY DEF PagesInv, PageTypeOK, PagingOK
  <2>2. Found(i, request)
    BY <2>1, QueryFinds, NoFilterFinds DEF IsAsked, Found
  <2>3. Given(i, returned) /\ returned \in Seq(Item)
    BY <2>2 DEF CompleteInv, PagesInv, GivenOK
  <2> QED  BY <2>3 DEF Given, ToSet
<1> QED  BY <1>1, <1>2, <1>3, PagesInvAlways, PTL DEF Spec
=============================================================================
