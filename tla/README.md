# A verification project for the DWN SDK

The repository implements a Decentralized Web Node (DWN): a message store per
tenant with signed messages, records that live as a sequence of messages,
protocols and permission grants that say who may do what, and events for
subscribers.  All paths below are relative to `src/src/`.

## Inventory

| Component | State | Operations | Talks to |
|---|---|---|---|
| `dwn.ts` | the stores, the method handlers | `open` (resumes tasks), `close`, `processMessage` | every handler, the task manager |
| Records write path: `handlers/records-write.ts`, `handlers/records-delete.ts`, `store/storage-controller.ts` | none of its own; works on a copy of the record's messages (`existingMessages`) | write, delete, prune, purge of descendants, clean-up of older messages | all stores, the event stream |
| Message store, data store: `store/message-store-level.ts`, `store/data-store-level.ts`, `store/index-level.ts` | blocks, index entries, data blocks | put, get, query, delete | LevelDB |
| Resumable tasks: `core/resumable-task-manager.ts`, `store/resumable-task-store-level.ts` | tasks with a timeout and a retry count; an extension timer per running task | register, run, extend, grab, delete, resume | storage controller |
| Event log and stream: `event-log/` | logged messages by index; listeners | append, query, delete; emit, subscribe, close | handlers of both query sides |
| Queries and subscriptions: `handlers/records-query.ts`, `records-read.ts`, `records-subscribe.ts`, `messages-*.ts` | subscriptions | query, read, subscribe | stores, event stream |
| Protocols: `handlers/protocols-configure.ts`, `core/protocol-authorization.ts` | protocol definitions (messages of the message store) | configure, query; authorize write, read, query, subscribe, delete | message store |
| Permissions: `protocols/permissions.ts`, `core/*-grant-authorization.ts` | grants, requests and revocations (records of a core protocol) | fetch a grant, authorize by a grant | message store |
| Messages: `interfaces/`, `core/message.ts`, `utils/records.ts` | none | construct, parse, validate, compare, index | |
| Cryptography and encodings: `jose/`, `utils/` | none | sign, verify, derive keys, encrypt, encode | libraries |

The process is one event loop.  Handlers are async functions without locks: at
every `await` of a store operation another handler, or a resumed task, may run.
The stores are separate databases; no operation spans two of them, and a
message is a block and a set of index entries written one after the other.
What is hard in this code follows from that:

* **Interleaving.**  A handler queries a record once and then decides, stores,
  and deletes on the strength of that copy.
* **Stops.**  The process may stop between any two store operations; only
  deletes are registered as resumable tasks.
* **Order.**  A record is its newest message; age is the message timestamp
  with ties broken by CID, and messages arrive in any order.
* **Shared data.**  Several messages of a record may reference the same data,
  which is stored once, and initial writes may come without data.
* **Trees.**  Records have parents; a prune purges all descendants, recursively.

What makes the write path correct: no accepted newest state is lost; deletes
are final; message store, data store and event log agree; the immutable
properties of a record never change; chains of ancestors can always be built;
subscribers see what becomes queryable, in order; requests and `open()` end.

## Modules

| Module | What it is |
|---|---|
| `DwnMessages` | the messages of one tenant and their order |
| `RecordsDwn` | the state machine of the records write path, with the stores, the delete task, `open()` and stops of the process |
| `RecordHistory` | the abstract specification: what a client may rely on |
| `RecordsProps` | type invariant, properties, the inductive invariant, the refinement mapping |
| `MCRecords` | the instances TLC checks |
| `RecordsSafety` | what holds whatever runs side by side: type correctness, the safety theorems |
| `RecordsSerial` | what holds with one handler at a time until the first stop: the stores at rest, the prune, the implementation of `RecordHistory` |
| `RecordsStops` | what holds with one handler at a time wherever the process stops: deletes are final, a reply leaves nothing behind, the newest write has its data; what a stop leaves where nothing is pruned |
| `RecordsReaders`, `MCReaders` | read requests beside the write path |
| `RecordsReadersProofs` | reads never go back in time and hide what is deleted, beside one handler, without a stop or over one |
| `EventFeed`, `MCEventFeed` | event log, event stream, and the clients that query and subscribe |
| `IndexQuery` | filters, the two ways to answer a query, cursors and limits, as operators |
| `RecordsPages`, `MCPages` | a caller that pages through `RecordsQuery` while the index changes |
| `RecordsPagesProofs` | what a caller gets is readable, in order and complete; what it hears is what it asked for |
| `EventFeedProofs` | type correctness and safety of the event feed |
| `ResumableTasks` | the task store with a clock, and processes that run, extend and resume tasks |
| `ResumableTasksProofs` | its types, that no task is lost, that running tasks are held, that `open()` resumes what is left over |
| `ProtocolRules` | which protocol definitions are valid, and what their rule sets allow |
| `PermissionGrants` | permission records, and what a grant allows |
| `ProtocolsConfigure` | the handlers that configure protocols, with their clean-up and stops |
| `Authorization` | all handlers up to the point where they act, beside those of `ProtocolsConfigure` |
| `AuthorizationProofs` | no definition is lost, a handler alone settles which is in force; grants and rules honoured, records placed under their parents, roles given once, queries and reads agree, types |
| `AuthorizationProps`, `MCAuthorization` | what authorization promises; the small worlds TLC checks |

`RecordsReaders` extends `RecordsDwn`; `Authorization` extends `ProtocolsConfigure`
and `PermissionGrants`, which both extend `ProtocolRules`; `RecordsPages` extends
`IndexQuery`.  `RecordsDwn` has what storing a message consists of and takes
authorization to refuse anything; `Authorization` has what it consists of and
takes storing for one step.

### How `RecordsDwn` corresponds to the code

The stores: `blocks` and `indexed` are the two halves of the message store
(`message-store-level.ts`), `latest` the messages indexed with
`isLatestBaseState`, `encoded` those stored with `encodedData`; `data` is the
data store, `events` the event log, `tasks` the resumable task store.  They
survive a stop.  `pc`, `req`, `stream`, `existing`, `todo`, `cur`, `plan` and
`reply` are the local variables of the handler invocations, and `opening` and
`resuming` those of `resumeTasksAndWaitForCompletion`.

An action is the code between two awaits of a store operation:

* a write (`records-write.ts`): `Receive`, `CheckParent` (the query for the
  parent record), `Scan` and `WriteFetch` (the query for the record and the
  decisions that follow it), `DataPut`/`Unwind`/`DataGet`
  (`processMessageWithDataStream`, `processMessageWithoutDataStream`),
  `PutBlock`, `PutIndex`, `AppendEvent`, the clean-up, `Reply`;
* a delete (`records-delete.ts`, `storage-controller.ts:43`): `Receive`,
  `Scan`, `DeleteFetch`, `Register`, then the task: `Scan`, `PerformFetch`,
  `PutBlock`, `PutIndex`, `AppendEvent`, for a prune the purge, the clean-up,
  `Complete`, `Reply`;
* the purge (`storage-controller.ts:116-190`): `plan` holds the calls of the
  recursion that are still to be made;
* the clean-up (`storage-controller.ts:192-240`): per older message `CleanData`,
  `CleanBlock`, `CleanIndex`, for the initial write `RestoreBlock` and
  `RestoreIndex`, then `CleanEvents`;
* `Grab` and `Resume` are `open()`; `Crash` is a stop at any point.

### How `RecordsReaders` corresponds to the code

It extends the write path: its `RNext` is a step of `RecordsDwn`, or of a reader,
or a stop that ends the readers too.  `AskRecords` and `AskMessage` are the first
scan of `records-read.ts`, `records-query.ts` (asked for no record in particular)
and the get of `messages-read.ts`; `Get` reads one block of a query's result;
`CheckRead`, `ReadData`, `CheckQuery`, `ReadMessage` are the branches on the
result, `ScanInitial` and `GetInitial` the query for the initial write, `Return`
the reply.  `acked`, `shown`, `floor` and `shownData` are history: what callers
know when they ask, and whose data they get.

### How `EventFeed` corresponds to the code

`entries` and `lookup` are the two parts of the index of `event-log-level.ts` an
append writes in one batch; `clock` is the ULID factory.  `Receive`, `Put`,
`Append`, `Emit` are the end of `records-write.ts`; `Supersede`, `LookUp`,
`Delete` the clean-up of one older message and of its event, where the reverse
lookup is read before the batch that deletes.  `Subscribe`, `Unsubscribe` and
`Close` are `event-emitter-stream.ts`, `Query` is `messages-query.ts`.  A client
keeps the cursor of its last reply, what pages gave it and what it heard.

### How `IndexQuery` and `RecordsPages` correspond to the code

`IndexQuery` is `utils/filter.ts` and the query side of `index-level.ts`:
`MatchFilter`, `SearchProperty` (`reduceFilter`), `Search`
(`executeSingleFilterQuery`), `InMemory` (`shouldQueryWithInMemoryPaging`),
`IteratorPage`, `InMemoryPage`.  In `RecordsPages`, `Filters` is what
`records-query.ts` makes of a request, for each kind of caller; `ScanPage`, or
`StartSearch`, `SearchOne` for each filter and `EndSearch`, produce one page, and
`Reply` is the cutting of `message-store-level.ts`.  `Put` and `Delete` change the
index by any item, which is more than the write path does.  `Subscribe` and
`SubscriptionFilters` are `records-subscribe.ts`; `Emit` passes each message put
on to a subscription whose filters match, as `heard`.

### How `ResumableTasks` corresponds to the code

`store` is the database of `resumable-task-store-level.ts`, a timeout per task;
`run`, `timer` and `attempt` are the invocations of
`runWithAutomaticTimeoutExtension` with their `setInterval`; `mode`, `seen` and
`batch` the local state of `resumeTasksAndWaitForCompletion` and of the iterator
of `grab`, which sees the store as it was when it began.  `Run` is `run`
(register and start), `Fire` the timer with the get of `extend`, `Extend` its
put, `Succeed`, `Fail` and `Complete` the end of the handler and the delete of
the task, `Open` to `Opened` are `open()`.  `Tick` lets one period of
`timeoutExtensionFrequencyInSeconds` pass; a task is held for two.

### How the modules of authorization correspond to the code

`ProtocolRules` is the validation in `interfaces/protocols-configure.ts` and the
part of `core/protocol-authorization.ts` that reads no store.  `PermissionGrants`
is `protocols/permissions.ts`, the four `core/*-grant-authorization.ts` and the
filters by protocol of `utils/messages.ts`.

`ProtocolsConfigure` has one action per await of
`handlers/protocols-configure.ts`: `ReceiveConfigure` (parse), `AuthorizeConfigure`
or `RefuseConfigure`, `FindConfigures` (the query and the choice of the newest),
`PutConfigure`, `AppendConfigure`, `DeleteOlder` for each message and
`OlderDeleted`, `DeleteConfigureEvents`.

In `Authorization` an action is what a handler does between two queries of the
message store.  A write passes `CheckDefinition`, `CheckParent`, `CheckRuleSet`
(`validateReferentialIntegrity`); a read or a delete `Find`s its record; then all
of them `CheckDelegate` (an embedded grant) and `Authorize`, which accepts,
refuses, or goes on by a grant (`LookUpGrant`, `CheckGrant`) or by the rules of
the protocol (`BuildChain`, `FetchDefinition`, `CheckRole`, `CheckRules`);
writes and deletes end in `StoreWrite` and `StoreDelete`.  The part of
`ProtocolsConfigure` is conjoined step by step: `ConfigureHandle` decides its
authorization by `MayConfigure`.  `records` has for each record its initial
write and its newest message, which is what the queries of authorization find.
`views` is history: the states of the stores since a request arrived.

Operators whose name ends in `Bad` or `Worse` are faulty variants of the
definition that follows them.  Nothing uses them: they document which mistake in
the code each property would catch.

### Abstractions

* One tenant: stores are partitioned by tenant and no operation crosses tenants.
* A message is a record with the fields the handlers compare.  Message CIDs are
  ranks; a record ID is the hash of its initial write, so there is one initial
  write per record.
* In `RecordsDwn`, authentication, schema, protocol and grant checks other than
  that of the parent are one step, `Refuse`, that may refuse anything.
* The parent check is one step: its query reads index and block together.
* An index write, and its deletion, is one LevelDB batch and therefore atomic.
* The children of a purged record are handled in any order (the code has the
  order of the query); the messages of one record, which the code deletes in
  parallel, are deleted one after the other in any order.
* A stream that does not match its `dataCid` is stored under its own root,
  where no message looks; only the unwinding touches the named data.
* In `RecordsDwn` the clock of the task store is abstracted, `Grab` returns any
  set of tasks, and a failed task may be retried before the others of its round
  have ended; `ResumableTasks` has the clock and the rounds, and tasks that are
  just IDs.
* In `ResumableTasks` a period is long for a timer or a step of the store: the
  clock waits for a timer that is due, an extension under way and a grab.
  Processes open one at a time, since the iterator of a grab excludes nobody
  (`types/resumable-task-store.ts:18-24` leaves that to other stores).
* Queries of the write path read index and blocks in one step; those of the
  readers read the index first and then the blocks one by one.
* Filters other than by record, type and latest state are left out of the readers;
  in `EventFeed` a filter is the set of messages it matches.
* In `IndexQuery` a value stands for its encoding: what is sorted or searched by
  range is dates and context IDs, whose encoding keeps the order.
* `RecordsPages` leaves the blocks out.  A request of a non-owner to which no branch
  of filters applies becomes a query without filters, which `index-level.ts:381`
  takes for a query of everything: it is searched with the empty filter (`Searched`).
* A handler of `EventFeed` supersedes at most one message, and a client starts
  anew whenever its subscription begins or ends.
* The post-processing of revocations is left out.  It looks for the messages that
  used the grant by `permissionGrantId`, which no message is indexed with.
* In `Authorization`, storing a message is one step, and so is reading a chain of
  ancestors, or a grant's revocations together with what precedes them; a
  configure reads grant and revocations in one step.
* Definitions have types with formats (a schema with a data format), tags that
  are there or not, sizes, roles and action rules; tag values, schema URLs and
  encryption are left out.  A context ID is the sequence of its segments; the code
  compares prefixes of strings, so the last segment of the prefix may be cut short
  (`StartsWith`, with `Abbreviates` for the pairs of which one begins the other).
  The context of a query or a subscription may be any such sequence.
* An embedded grant is one the tenant gave: the revocations of others' grants are
  not on this DWN.  In the worlds of the run a role is at the root or one or two levels
  below it; the modules and the proofs have roles at any level.  Initial writes
  come with data, and a delete is judged by the record's initial write, whose
  protocol, path and recipient an update cannot change.
* `CheckDelegate`, `Authorize`, `LookUpGrant` and `CheckGrant` stand for the same few
  lines in the handlers of several methods; `PROJECT.json` maps each to one of
  them.  The delegate of an owner who signs another's write is left out.
* The index reads its reverse lookup before the batch that deletes an entry; in
  `RecordsDwn` that is one step, in `EventFeed` it is two.
* An error that escapes the handlers of `RecordsDwn` counts as the answer 500.
* In `EventFeed` only an open stream is subscribed to.  In `ResumableTasks` two
  requests of one process for the same task, which share the one entry of its
  store, are not told apart.

## Runs

| Run | Bounds | Shows |
|---|---|---|
| `records_serial` | three records in a chain, 11 messages, one invocation at a time, no stop | stores agree at rest, chains complete, events in order, every request answered, `RecordHistory` implemented |
| `records_race` | one record, 4 messages, two invocations, one stop, good and bad streams | no clean-up loses the newest state; the inductive invariant of the proofs |
| `records_prune_cut` | two records, one stop | finding: a resumed prune leaves descendants |
| `records_bad_stream` | one record | finding: a refused write deletes the data of the latest one |
| `readers` | two records, 7 messages, one handler, one stop anywhere; one reader, two requests | deletes are final, the newest state keeps its data, the next write cleans up after the stop; reads never go back in time; nothing gives out data after an acknowledged delete |
| `readers_no_initial` | the same | finding: a query during an update throws for want of the initial write |
| `event_feed` | three messages, two handlers, two clients, four watermarks, one restart | subscribers hear what is logged; subscribe and then query misses nothing |
| `pages` | six writes and a delete, 38 requests of three callers, one item per page, two changes of the index | pages complete, in order, without repetition; callers to whom a branch of the filters applies get what they asked for and may read, and nothing else; subscribers hear the writes they asked for and may read |
| `pages_no_branch` | two unpublished writes, one request, one change | finding: a query to which no branch applies returns everything |
| `pages_sorted` | one request, one change | finding: a query sorted by publication comes back empty |
| `tasks` | two processes, two tasks, batches of one, four periods, three requests, one failure, one stop | no task lost, running tasks held, `open()` resumes all that was timed out and returns |
| `authorization` | 23 worlds of a few records, two handlers of each kind, up to four requests, one stop | grants, rules and roles decide as those who gave them mean; definitions settle; queries in place and grants agree with reads |

The bounds are small but hold the interesting cases: two messages with the same
timestamp, an older and a newer message sharing data with the newest, an initial
write with and without data, small and large data, a write that changes the
parent, deletes and prunes at two levels, a grandchild.  A stop may come at each
of the awaits.  The properties checked with one invocation at a time do not hold
for concurrent handlers of one record: two handlers that both queried before
either stored leave both messages in place, until the next write.
`NewestSurvives` and `StoreInv` are what remains true in every interleaving.

`readers` asks two things of one state machine: what a stop leaves of the stores, and
what reads see beside a handler and over a stop.  Where nothing has been read all
seven messages of the record and its child come, a prune among them; once a read was
asked for, `ReadScope` keeps to the messages of one record (`ReadMessages`: its initial
write, an update, a delete), so that the properties of the stores and those of the
reads need one run and it stays small.

`pages` starts from every subset of the messages; they include ties of the sort
date, unpublished messages by, for and not for the caller, and one that is not
the latest of its record.  A page of one item makes every boundary a page
boundary.

`EventFeed` lets the same message be in two handlers at once, with or without a
match of the filter, and has an initial write without data, which is logged but
not emitted.  Four watermarks for three messages leave room for one retry.

`tasks` has batches of one so that two tasks need two batches, and a fourth period
so that a task that its process left can time out and be grabbed by the other.

Each world of `authorization` (`MCScenario`) is a question: two revocations of
one grant in either order; a revocation deleted; a grant deleted while it is
used; a role taken while it is used, or given twice; a thread pruned under its
posts; a definition replaced between the two times a write reads it; two
configurations and a stop.  All requests of a world arrive in any order and are
handled two at a time, so that each may come between any two steps of another.
Most definitions have two levels, which is what the code tells apart (a role at
the root, a role in a context); one has a role below the posts.  There are two
threads with a post each, and a role held in one of them.  Queries and subscriptions name
the thread of the role, the other thread, a beginning that the IDs of all threads have in
common, or, for the role below the posts, only the thread; the last two are accepted,
and what they return is what `InPlace` excepts.

**Fairness.**  `FairSpec` of `RecordsDwn` has weak fairness for each invocation's
next step, for taking up a grabbed task and for `Grab`: the event loop does not
forget a pending promise, and `open()` loops.  That of `ResumableTasks` has the
same for each process, for the timers, and for each handler to succeed in the
end, which a bounded number of failures (`MaxFailures`) delays.  Requests, stops,
openings and the clock have no fairness.

## Proofs

`RecordsSafety` proves type correctness (`TypeCorrect`) and `StoreSafe`, that `StoreInv` is an
invariant, and from it `NewestSurvivesAlways` and `ImmutableKeptAlways`, for any messages, records,
invocations and number of stops, from the constants' assumptions
`MessageAssumption` and `RecordsDwnAssumption` (records have one initial write,
CIDs are unique).

`NewestSurvives` is not inductive by itself: a handler deletes on the strength of a
copy, so what the copy holds must be related to what is stored.  `StoreInv` adds
that an invocation past its put works for a message already accepted (`AfterPut`),
that what it will delete is older than that message (`Cleaning`) or belongs to
a purged record (`Purging`), and that a message whose index entry is about to be
written has its block or is overtaken by a newer one that is whole.  Steps fall
into those that add to the stores (lemma `Adds`), those that delete one older or
purged message (`Removes`), and those that leave the stores alone (`Quiet`,
`Frame`); a step of one invocation disturbs no other (`Others`).

`RecordsSerial` proves what a careful reader of the storage controller takes for
granted, for any records, messages and depth of descendants: `RecordsTidy`,
`EventsMatch`, `DataMatch`, `ChainComplete`, `LatestEmitted`, `PruneComplete`,
`EmittedInOrder`, and `ImplementsHistory`.  Each has the hypotheses `Serial(p)`, one
invocation at a time (`Procs = {p}`) and no stream with other data than its message says,
and `MaxCrashes = 0`, no stop.  Without them some of these are false, as the runs `records_race`,
`records_prune_cut` and `records_bad_stream` show.  What they rest on is
`SerialInv`, which holds until the first stop (`UntilStop`), and so always where there is none
(`SerialAlways`).  It has four parts:

* `AtRest`, for every record but the one in hand and the one being purged: block,
  index entry and event go together; there are only the initial write and the newest
  message; the data store has what the latest write says, and all that was emitted is
  stored or superseded.
* `InHand`, for the record of the message in hand: which of the messages found
  before, and of the message itself, has its block, index entry, event and data, as a
  function of the label (`HasBlock`, `HasIndex`, `HasEvent`), and that the message may follow
  what was found (`Follows`): this is what the checks of the handlers leave true
  until the message is stored, as no other handler comes in between.
* `Forest`: parents exist, no set of records is its own ancestor, nothing stored is
  below a purged record or, once a prune is done, below the pruned one.  `Vanishing` is
  the one record whose purge has begun.
* `PlanInv`: what the recursion of `purgeRecordDescendants` still has to do, kept as
  the list `plan` of calls.  Every record to be purged is listed once, after
  the records below it, with all its messages; and whatever is stored below a record of
  the list, or the pruned one, is in a call before it (`Covers`).  That an
  expanded group keeps this (`SerialGroup`) is the induction over the tree, done once per
  step rather than over data.

`MessageAssumption` says that a delete names no data, as its schema does, which
`DataMatch` needs.  In the refinement a record is its newest message
(`NewestState`) and is gone from the moment its purge begins; the put of an index entry
is `TakeWrite` or `TakeDelete`, the first step of the purge of a record `Vanish`, and
every other step is not seen.  That the purged record is below the pruned one
(`BelowRoot`) follows from `PlanInv` and from the forest having a top.

`RecordsReadersProofs` proves `ReadIsFresh` and `DeletedStaysHidden` for any messages and any
number of requests at once, under `Serial(p)` too, and without stops; what is known until the
first stop is `ReadersUntilStop`.  A read looks
into the index and only then gets the blocks, one by one, while the handler goes on, so neither is
about the stores at one time.  `ReadersInv` joins `SerialInv` with what a request in progress knows
(`FreshInv`, which asks of the handler only that the stores fit, `StoresFit`, and that what is behind an
accepted message never comes back, `GoesForward`):

* Whatever was acknowledged or returned is current (`Current`): what the index still has of older
  messages of its record has lost its block for good, since only initial writes are put back
  and those are no longer the latest state.  `NoneComesBack` and `CurrentStays` say that no step of the
  handler undoes this; `AcknowledgedIs`, that it is so when the reply is sent.
* `ReadInv`: a request has found, of each record, whatever could be got below a message it has
  found.  So if it is left with a single message, nothing older could have been got, and what it
  returns is current at that moment, although its scan is long past (`RequestReturns`).  An older
  initial write that is still the latest state in the index is no exception: it comes attached to
  what is returned, so its block was there and the request would have got it.
* `Hidden`: an acknowledged delete leaves neither a write that is the latest state nor data, and no write may
  follow it.  A message with its data encoded in it is the latest state, or the one being put
  (`StoresInv`), so `NoHiddenData` covers the reads by CID, which do not look into the index.
* What a request gives out is the data of the copy it read, not of the store as it is: `gotEncoded` holds
  the messages it got with their data, and `HeldIsStored` says that these were stored so.

The same two hold over a stop: `ReadIsFreshBesideStop` and `DeletedStaysHiddenBesideStop`, for at most
one stop and where no delete prunes (`NoPrunes`), again for any messages and requests; the run
`readers`, whose reads come where there is a stop and no prune, is a small instance of this.  `SerialInv` is lost with the stop, so
`StopReadersInv` rests on `UnprunedInv` of `RecordsStops` instead, and an acknowledged delete is no longer
`Hidden` but `Silent`: index entries of its record may have stayed, but no write of it is to come, no encoded
data and no block but the one of the initial write is left, and the data of the initial write is gone.
`HidesInv` carries this over to what a request has in hand.  With two stops `ReadIsFresh` is false, see below.
With one stop and a prune neither is proved: a prune that is cut short leaves records below a deleted
one, some of them with half of their messages, of which `UnprunedInv` says nothing.

`RecordsStops` asks what is left of this where the process stops.  A stop leaves blocks without
index entries and the reverse, data no message names, older writes beside newer ones; so it cannot
say what the stores hold, only what a handler knows of them.

* For any number of stops, and any streams, with one handler at a time (`Alone(p)`): `AloneInv` says
  that a write that has looked at its record has found what is stored of it, all older than itself and
  not ending in a delete (`WriteFound`), and that while it cleans up, what is stored beside it is still to
  be cleaned or is the initial write without its data (`WriteCleans`).  From this follow
  `CleanOnReplyAlways` and `DeleteFinalAlways`: a step that changes what is stored of a record
  (`StoredStep`) is the put of a message, which a delete as the newest message refuses, or the clean-up of
  one that is overtaken (`CleanedIsOld`).
* For at most one stop, with sound streams: `NewestHasDataAlways`.  The danger is a delete that open() takes
  up again, for its clean-up takes the data of older writes and does not ask whether a newer write has the same
  data.  `OneStopInv` says that it never gets to: a delete that is resumed, or in hand, is newer than all
  writes its record ever had (`Final`), as before the stop there was one handler with at most one task, and what is
  resumed after it comes before anything else (`TasksInv`).  A write, in turn, keeps the data it shares
  (`HeldStep`, `DataStays`).  With two stops the property is false, see below.
* For at most one stop and no delete that prunes: `UnprunedInv`, which is what readers can go by.  A stop may
  leave an index entry without a block or a block without an entry, but what was taken in and has encoded data,
  or is no initial write and has its block, has its entry too (`UnprunedStores`): the code deletes
  the block before the entry.  A message that is stored beside what was found has found all there was
  (`Meets`) and is newer than all that was ever taken in (`Leads`); while it cleans up, what else is of the latest
  state is to be cleaned or has lost its block for good (`Leaves`); and when it is acknowledged only the
  initial write is left beside it (`Cleaned`).

`EventFeedProofs` proves type correctness of the feed and, from the inductive
invariant `FeedInv`, `HeardIsLogged` and `SyncComplete`, for any messages,
filters, handlers, clients, restarts and watermarks.  `SyncComplete` is not
inductive alone: that a page of a client that just subscribed is the whole log
needs its cursor to be still at the start, and that a listener is there as long
as the stream is open; that emitted messages are logged needs what the handler
did a step before.

`ResumableTasksProofs` proves `NoTaskLost` and `RunningHeld` with the types, for any
processes, tasks, batches, failures, stops and without an end of time.
`RunningHeld` needs the timer: `AtWork` says that a first run has its timer set
within a period, and that until it is due its task is held for two periods more;
`Grabbed` carries this over from the grab to the start of the batch.  An attempt fails when
its handler throws or when the delete of its task does (`Fail`); `Counted`, that
failures are counted in numbers, is what the limit on them needs.
`OpenResumesAll` proves `ResumedOnOpen` from `ResumeInv`: while a process opens, each
task that was timed out when it began is completed, or in its batch, or still
timed out in the store, so that the empty grab that ends `open()` leaves none.

`AuthorizationProofs` begins with the handlers that configure protocols, and proves from
`NewestInv` that no definition is lost without a newer one: what a handler deletes is older than something that was
stored once, and by induction that is still there or outlived.  `SettledInv`
adds what a handler without another beside it knows at each of its steps, from
which `DefinitionSettled` follows when it replies, although earlier races left
several definitions.  `ConfigureImplemented` shows that `Authorization`, where
these handlers run beside all others and their authorization is decided, implements
`ProtocolsConfigure`, so that both hold there (`DefinitionsSafe`).

It goes on with `GrantHonoured`, `PlacedOnce`, `RulesHonoured`, `QueryInPlaceReadable` and
`AuthTypeOK` for any messages, worlds, handlers and stops.  A handler decides on what it read at
several times while the stores change, so `AuthInv` says for each label what it knows
(`Knowledge`): not of the stores as they are, but that there was a state since its request arrived,
one of `views`, in which the parent was in place (`Founded`), the role was free (`Assigned`), a
grant was there and allowed the request (`Permitted`); and where there was only one such state, that
what was refused was refused rightly (`Denied`).  What was so in one of the states seen stays so
(`SeenMore`), so no handler disturbs another.  The code finds the double of a role by a prefix of
context IDs, the promise speaks of the same parent: that these agree (`SamePlace`) is an induction up
the ancestors, done by the least number at which two contexts differ.

`RulesHonoured` takes a second layer, `RulesInv`, with what the handlers that go by rules know
(`Ruling`): the chain was built from the ancestors of one time (`Walked`), the definition was in force
at another (`Ruled`), the role was held at a third (`InRole`).  `RuleAllowed` and `RuleDenied` put
them together, and the decision of the code, which walks a chain of messages from the root
and compares prefixes of strings, agrees with the promise, which speaks of the records a context
names (`DecisionIs`, one lemma with a direction for what is accepted, which needs whole
record IDs, and one for what is refused, which does not), by lemmas about one state of the stores alone: the context of a
stored record is the line of its ancestors (`StoredLine`, `ChainIs`), the roles found by prefix are
the roles held there (`HeldIs`), whom a rule names on the chain is whom it names among the
records (`NamedIs`), and a definition that passed validation has at each path what its rules speak of
(`DefinitionProper`, kept by `ConfiguresValid`).  `QueryInPlaceReadable` needs only the present
state of `RulesInv`: a role held in a part of a context is held below it (`HeldBelow`).  `TypesInv` adds
to it that a chain goes from a root to the record, each write the parent of the next (`LinkedUp`).

The attempts showed what the runs had been too small for, and `RulesHonoured`, `QueryInPlaceReadable`,
the types and the model say now what is true: the record that is written may come or go between the
walk up its ancestors and the rules, so the two may be of different times; an update is judged
only if it agrees with its initial write; the definition of the permissions protocol is built in and no
configuration replaces it; and what anyone may query need not be readable in a role.

A query may name a context cut short: within a record ID, or above the place of its role.  The code
looks the role up by that prefix, finds it wherever it is held below, and the query returns
the records of all contexts that begin so, while a read of one of them looks for the role in its own context
and is refused.  A comment says that this does not happen
(`core/protocol-authorization.ts:526`, "contextId segment count is never shorter than the role path count"),
but `contextId` in the schema of a filter (`json-schemas/interface-methods/records-filter.json:37`) is any
string.  The model has such queries and accepts them; that a query returns only what can be
read is then false, and true where the context is in place.  So `InPlace` and `Whole` are
antecedents of `QueryInPlaceReadable` and, for what is accepted by a role, of `RulesHonoured`, not assumptions.
What is assumed is only that no record ID is a beginning of another (`WholeAssumption`).

The proofs rest on `RequestAssumption`, what a parsed message leaves no doubt of, on `NoneAssumption`,
that the model's value for "absent" is no path and no set of rules, and on `ScenarioAssumption`, that
what is stored at first is as the handlers leave it (`RecordsOK`).  One conjunct of the first is the senders' and not the code's: the context ID of a record at the root is its record ID.
`validateIntegrity` (`interfaces/records-write.ts:617`) checks it of initial writes;
`RecordsWrite.sign` makes it so for updates, but no handler compares the context ID of an
update with that of the initial write, since `verifyEqualityOfImmutableProperties` compares
descriptors.  Below the root it needs no assumption: `validateReferentialIntegrity` checks it.

`RecordsPagesProofs` proves all of what the run `pages` checks, for any items, requests, size of a
page and changes of the index, in three parts.

* Filters: `QueryFinds` and `SubscriptionFinds` say that the filters of all branches together match
  what the request asks for and the caller may read.  Each filter is a base with some properties set,
  so `SettingMatches` and `BranchMatches` reduce them to the properties of the request that no branch
  sets; `NonOwnerFinds` then compares the four branches with `MayRead`.
* Index: `SearchFinds`, that the property chosen to search by loses no match; `SortedIs`, that a
  sorted sequence holds all items in order; `NextPage`, that a page goes on where the cursor stands
  and that what it leaves out comes after it.  The sequence is defined by ranks, the k-th item being
  the one with k - 1 before it, so that `Ranks` is a matter of counting a finite strict order
  and takes no induction.
* Caller: `PagesInv` says that all that was given is found by the filters and in order, and that the
  cursor stands for the last of it.  `CompleteInv` says that what lasts is given already or
  ahead of the cursor, and, while a page is searched for, that what the filters searched so far match
  is among the matches.

`OnlyReadableByBranch` has as antecedent that the owner asks or that some branch applies
(`NoFilter` is the contrary), for `NoFilterFinds` says that otherwise everything is found; the run
`pages_no_branch` shows it.  `HeardAsAsked` speaks of subscriptions with filters, of writes,
and, for the owner, of deletes; what others should hear of deletes it leaves open (see Findings).

`PagesComplete` is proved under `SortIndexed`: only the owner and anonymous callers sort by the date of
publication, or else they do not ask for unpublished records.  Without it the property fails, which is
what the run `pages_sorted` shows.  The proofs use `ItemAssumption`, what `constructIndexes` of writes
and deletes puts into the index, and `RequestAssumption`, what the schema of a filter and the parsing
of a request leave; TLC evaluates them on the runs of pages.

Only model-checked: `ScopedMessagesFound`, which depends on the scopes that updates of grants may have
and holds for those of the worlds of the run; and liveness, which the prover does not reach.

`NewestSurvives` and `StoreInv` excuse records that were purged under a pruned
ancestor: there losing everything is the point.

## Findings

Five runs end in a violation, each of a promise of the code's own comments:
a prune that a stop leaves half done; a refused write that deletes accepted data;
a query that throws during an update; a query that comes back empty because one
of its matches is not published; a query of a non-owner that gets everything because no
branch of filters applies to it.  `PROJECT.json` quotes the lines.

The models also show limits that no run is spent on:

* a write that queried its record before a concurrent delete was stored is
  accepted after it (`handlers/records-write.ts:99`);
* two stops may leave a delete task whose record has lost its initial write; it
  throws in every round, and `open()` retries it forever
  (`store/storage-controller.ts:219`, `core/resumable-task-manager.ts:97`);
* a delete that was registered before a stop and is not yet timed out when the DWN opens again may
  be resumed after a second stop, and then is stored beside a newer write that was acknowledged
  meanwhile, for `performRecordsDelete` does not compare ages: a read answers that there are several,
  or returns the delete (`store/storage-controller.ts:43`, `core/resumable-task-manager.ts:79`);
  and its clean-up takes the data of an older write although the newest one has the same data, which
  the comment at `store/storage-controller.ts:106` says is kept: `NewestHasData` fails;
* a delete that one stop cuts before its clean-up leaves the old write in the latest state, so that a
  write below the deleted record is accepted: `ImplementsHistory` needs that there is no stop;
* an extension that read its task before the delete puts it back: a completed
  task may run once more, and its handler must bear that;
* after a race or a stop the older of two definitions is in force until the next
  configuration of the protocol (`core/protocol-authorization.ts:274`);
* two overlapping writes may give one recipient the same role twice, and a write
  that overlaps the prune of its parent becomes an orphan;
* a revocation that the tenant deletes counts from the time of its delete on,
  since the delete is indexed like the revocation;
* deletes of permission records carry no protocol tag: one who may read them by a
  grant does not find them by querying for the protocol;
* a query by role whose context is cut short finds records of contexts in which the role is not
  held (`core/protocol-authorization.ts:526`, see Proofs);
* subscribers other than the owner hear of no delete, although the filters name the method
  (`handlers/records-subscribe.ts:152`); a test calls it a bug
  (`tests/handlers/records-subscribe.spec.ts:503`);
* a non-owner's subscription to which no branch of filters applies has no filters, and
  every event matches.

No property excludes the last three of these, nor the lost initial write, the endless retry, the role
given twice and the orphan: they would not hold.  The hazards that name these lines say so.

## Not modelled, and the plan

Not modelled because a state machine tells nothing about it: JOSE, keys, encryption,
JSON schemas, CIDs and other encodings, DID resolution, LevelDB itself.

Also not modelled: what follows an accepted revocation (see Abstractions); values of
tags and their schemas; the tenant gate; the tests' `clear()`; several tenants;
the in-memory caches of DID documents.

What remains of the plan: what a prune leaves that a stop cuts short, which is a matter of
which descendants are still found, and the readers beside it; no run checks those either.
