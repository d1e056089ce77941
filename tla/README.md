# Specifications of the cladbe Postgres server

This directory holds TLA+ models of the live-query server in this repository, the TLC
configurations that check them on small instances, and proofs checked by TLAPS. Every
definition is translated from the source under `src/packages`; `PROJECT.json` maps each
to its lines. `gw/` below abbreviates `src/packages/cladbe-ws-gateway/src/`.

## The system

```
 clients ==WebSocket==> ws-gateway ==Kafka RPC==> postgres_rpc worker --> postgres_manager --> Postgres
                          ^   |  |                                                              |
                          |   |  +--qmeta, seed--> Kafka --> Streams (external) <--WAL----------+
                          |   +--diff lists--> KeyDB             |
                          +---------page diffs, row events-------+
 server: Hono HTTP routes over postgres_manager, grown and shrunk by an autoscaler (scale.js)
```

A client subscribes to a query. The gateway publishes the query (qmeta), notes the highest
LSN it has heard of as a *fence*, starts holding diffs back, fetches a snapshot over RPC,
sends it, flushes what it held back and replays what KeyDB kept. From then on page diffs
from Kafka are fanned out to every session subscribed. A Streams application outside the
repository turns commits into page diffs and row events.

### Components, their state and what is hard about them

| component | state | operations | hard part | what makes it correct |
|---|---|---|---|---|
| live queries (`gw/ws/subscribe.ts`, `delivery.ts`, `ws/io.ts`, `ws/handlers.ts`, `state.ts`, `lsn.ts`) | sessions, `subs`, `subToSessions`, `subStates`, `sendQueue`, `_slow`, `SLOW_SOCKETS`, `LAST_SEEN_LSN` | open, message, drain, close, subscribe, unsubscribe, deliver | handlers run between the awaits of `handleSubscribe`; two executions for one key; sockets that refuse frames; messages consumed twice | nothing skipped that the snapshot lacks; a snapshot first; cursors only advance; the registry is its own inverse; queues are bounded and drained in order |
| flow control (`gw/kafka.ts`, timer in `gw/main.ts`) | `paused`, assignment, partitions paused in librdkafka, `SLOW_SOCKETS` | pauseAll, resumeAll, tick, rebalance | rebalances between ticks; a count kept by two send paths | pauses are neither forgotten nor permanent |
| HotCache (`gw/keydb.ts`) | per key a snapshot and a bounded diff list | addDiff, diffsAfter, range, setSnapshot | the lists outlive the process that wrote them | replay gets every diff after the fence that is still kept |
| snapshot fetching (`gw/main.ts` 58-94) | none | getSnapshot with one retry | the retry asks something else | rows answer the query that was asked |
| SQL RPC (`gw/rpc/sql-rpc.ts`, `postgres_rpc/src/rpc`) | pending table and timers; consumer offsets; produce retries | call, reply, timeout, stop; dispatch, produceSafe | late and duplicate replies, requests written twice, offsets committed early, full queues | each call settles once; an ok reply means it was executed |
| snapshot reads (`postgres_manager/src/helpers/postgress_manager.ts`) | one transaction | getData | WAL position against visibility | no commit at or below the returned LSN is missing from the rows |
| keyset paging, filters (`postgres_manager/src/helpers`) | none (pure) | applyKeysetCursor, processFilters | composite keys, equal rows; nested AND/OR | pages partition the table; the SQL means the tree |
| row calls (`gw/ws/rpc.ts`, handlers of `worker.ts`, `models/requests.ts`) | the tables | get, add, update, delete, exists | late and repeated requests; keys chosen by the client | what was confirmed holds; a deletion reaches the named rows of its company only |
| autoscaler (`packages/server/scale.js`) | instance count | scale round | none: as configured no round changes anything | bounds on instances |
| HTTP server, codecs, aggregation, table creation, wiring | none | | | left out: stateless, field by field |

`PROJECT.json` lists the components with their status, and the hazards, each at its line
with the properties that address it.

## Modules

| module | what it is |
|---|---|
| `LiveFeed` | the promise: one live query on one connection, with sockets, queues, caches and coroutines left out |
| `LiveQuery` | the gateway process in detail |
| `MCLiveQuery` | `LiveQuery` with symmetry sets for TLC |
| `LiveQueryClaims` | what comments say of it and the code does not do |
| `SlowSockets` | the accounting of slow sockets alone |
| `FlowControl` | `SlowSockets` composed with the consumer's pause logic, the timer and rebalances |
| `FlowControlClaims` | what comments say of it and the code does not do |
| `RpcCall` | the promise of the SQL RPC to a caller, with topics, offsets, timers and retries left out |
| `SqlRpc` | client, request topic, worker and replies |
| `QueryTree` | pure operators: filter trees in their JSON, codec, FlatBuffers and SQL forms, orders and cursors |
| `DataQuery` | one client paging through a table that others change: GET_DATA end to end, with `getSnapshot`'s retry |
| `DataQueryClaims` | what comments say of it and the code does not do |
| `RowCalls` | the other methods of the RPC: from the message to the statement and back |
| `MCDataQuery`, `MCRowCalls` | queries, tables, commits and messages for TLC |
| `LiveQueryProofs`, `LiveQueryRefinement`, `LiveQueryOrderProofs`, `LiveQueryReachProofs`, `FlowControlProofs`, `SqlRpcProofs`, `RowCallsProofs`, `DataQueryProofs` | theorems |

`LiveQuery` implements both `LiveFeed` (`Feed == INSTANCE LiveFeed WITH ...`) and
`SlowSockets` (`Account == INSTANCE SlowSockets`); `FlowControl` extends `SlowSockets`, so
what it shows of the consumer does not depend on why sockets refuse frames. `SqlRpc`
implements `RpcCall` (`Promise == INSTANCE RpcCall`). The RPC is cut in three: `SqlRpc` has
how calls travel and nothing of what they say; `DataQuery` and `RowCalls` have what they
say and do, and take of their travels what `RpcCall` leaves open: a request is run at any
time after its call or never, perhaps again, and an answer may be lost.

### How LiveQuery corresponds to the code

JavaScript runs a handler without interruption to its next `await`, so each action is one
such segment:

| action | code |
|---|---|
| `OpenSession`, `Drain`, `Close` | `open`, `drain`, `close` in `ws/handlers.ts` |
| `Subscribe` | `handleSubscribe` up to the snapshot request: `addSub`, ack, qmeta, fence, new `SubState` |
| `SnapshotArrives` / `SnapshotFails` | the snapshot is sent / the `catch` block |
| `RangeArrives` | the range index is sent, the buffer flushed, buffering cleared |
| `ReplayArrives` | the KeyDB diffs after the fence are sent |
| `Unsubscribe` | `handleUnsubscribe` |
| `ConsumeDiff`, `ConsumeRow` | `onMessage` in `main.ts` with `deliverBinaryLSN`, and the row-event loop |
| `Commit`, `Rewind` | external: a commit with its CDC messages; consumption from an earlier offset after a rebalance |

`task[t]` holds the locals of the t-th execution of `handleSubscribe`. Its fields `sent`,
`asked`, `snap`, `since`, `floor` and the variables `found`, `wire` and `overflowed` are
history: they record what happened for the properties and no guard reads them.

A behaviour is the life of one gateway process, from any start: the first, or one after a
crash or a stop. Sessions, subscriptions, queues and `LAST_SEEN_LSN` begin empty and at 0
(`state.ts`, `lsn.ts` 11). What outlives a process begins with whatever earlier ones left
(`Leftovers`): the database, the topics, the offsets of the consumer group, anywhere in
them (`start`), and KeyDB's diff lists (`keydb.ts` 60-61), any diffs of the key, in any
order and also twice (`found`). So after a restart the lists may hold diffs above
`LAST_SEEN_LSN`, and then
- a subscribe with a fence of 0 is sent them by the replay, which moves its cursor above
  `LAST_SEEN_LSN`;
- if the client asks again, the fence is again below them and they are sent once more;
- a diff that is consumed below such a cursor is skipped. It was committed before the
  process started, so the snapshot has it.

The properties say exactly this: `NothingFromTheFuture` and `LiveFeed` except positions
that were found, `DiffsAdvance` a found diff that was sent before the client asked again
with a fence below it (`AskedAgain`), and `LiveDiffsReach` speaks of diffs above those
found (`Later`). That the second sending contradicts a comment is the claim
`ClaimFenceAvoidsDuplicates`. The end of the process is not an action: it ends every
session with it, and what the next one starts from is one of the starts.

Abstractions:
- LSNs are numbers counting commits; rows, diffs and queries have no content. A diff is its
  key and LSN. One tenant.
- A snapshot reflects any commit between its request and its arrival. That a snapshot is
  not older than its request is an assumption on the SQL service here. The promise of
  `RpcCall`, which `SqlRpc` keeps, is what it rests on: an answer describes the database
  at a moment between the call and the answer (`KeepsPromise` below).
- `resumeFromVersion` is a position the client can have been told of, so at most `wal`.
- A buffer is sorted before use and repetitions are skipped by the cursor test, so it is a
  set of LSNs. The flush calls `deliverBinaryLSN` while `buffering` is still set: each diff
  goes to KeyDB once more and back into the buffer, which is then dropped. The model does
  exactly that, and the claims below show what follows.
- KeyDB writes are fire-and-forget and expire: replay may see any part of the list.
- A socket that refuses a frame refuses the rest of that segment, and one segment announces
  an overflow at most once. `send` is taken as the code takes it: true is accepted, false
  refused. (uWebSockets.js really returns 0 for "buffered" and 2 for "dropped"; the code's
  reading is modelled, the library's is not.)
- Acks, range indices and row events go through the queues and are not recorded on `wire`.
  The raw channel (welcome, broadcast, status) bypasses the queues and is left out; replies
  to `ping`, RPC and unknown messages behave like the ack.
- `Headerless` covers a message whose `lsn` header is absent or unreadable.
- A session closes once and its id is never reused (`randomUUID`).

Constants that bound the model: `MaxLsn` (commits), `MaxEarlier` (those before the process
starts), `MaxRewinds`, and the number of
`Sessions`, `Keys` and `Attempts`. `MaxQueue` and `MaxDiffs` are configuration of the code
(`MAX_QUEUE`, `HOTCACHE_MAX_DIFFS`; `safeSend` writes 1000, the default, in place of the
former).

### FlowControl

`Tick` is the 250 ms timer; `PauseAll` and `ResumeAll` are the methods of `GatewayConsumer`
with their early returns. `held` is what librdkafka holds paused. `Rebalance` assigns any
set of partitions; a partition loses its pause when it is revoked, and one that stays may
or may not keep it (an assumption about librdkafka that covers its eager and cooperative
protocols).

### SqlRpc

| action | code |
|---|---|
| `Call`, `Refuse` | a method of `SqlRpcClient` down to `sendViaCodec`, which hands the request to the producer / `handleRpc` answers an unknown method, or the encoder or the producer throws |
| `Arrive` | the producer writes the request to the topic, at any later time or never, and perhaps again: it reports nothing back (`dr_cb: false`) and is not idempotent (`sql-rpc.ts` 57-62), so a send that librdkafka tries again may leave a second copy |
| `Timeout`, `OnData`, `Stop` | the ten-second timer, `onData`, `stop`: each with the `rpcResult` frame of `handleRpc` that follows in the same microtask queue |
| `Close` | `close` of the gateway: results for the session are dropped |
| `Receive` | librdkafka's data event: the message goes to the handler, which is not awaited |
| `Execute` | the handler up to its reply: decode, statement, encode |
| `Produce`, `ProduceFails`, `Retry` | `produceSafe`: done, a full queue or another error, the timer of the retry |
| `AutoCommit` | librdkafka's timer: the position is committed, whatever became of the requests |
| `Rewind` | the worker crashes, or the group is rebalanced, and reading goes on at the committed offset or, without one, at the end (`auto.offset.reset: latest`) |

The database is a version number that every change raises; `asked`, `seen`, `changed` and
`effects` date calls and answers by it and are history. A reply stays in `replies`: it may
be read late, twice or never, which covers the reply topic's own offsets and repeated sends
of the worker's producer. `MaxResends` bounds the further copies of one request. One topic, one
partition and one worker; one gateway, whose reply topic is its own. A write may change a
row and still answer an error, when the connection breaks after the statement. `retryable`
errors have no code of their own in the client.

### DataQuery and QueryTree

`QueryTree` holds the pure part. A tree maps the names of its nodes to them, and a wrapper
lists the names of its children; it has this shape in every form, and only the operators
and values of its leaves change (`MapLeaves`): `Plain` (`taggedToPlain`), `FbValue` (the codec's
`encodeFilterValue`), `ReadValue` and `ReadOp` (the worker), `ToStreams` (the gateway's
builders, for the query that goes to Streams). `Where` is `processFilters` as knex joins
what it is given; `Meant` says what the tree means, and `Supported` which trees
`processFilters` gets right. `AfterCursor` is `applyKeysetCursor`; `Before` and `Sorted`
are ORDER BY with the default order of NULLs in Postgres.

| action | code |
|---|---|
| `Ask` | `handleRpc` for GET_DATA or `getSnapshot`, the typed method, the codec, `handleGetData`; for a subscriber also the query that is published |
| `Lose`, `Deliver` | the call fails, and `getSnapshot` tries once more without the query / the reply is decoded and, for a subscriber, unpacked when it is an array |
| `NextPage` | external: the client sends the cursor it was given with the same query |
| `Begin`, `ReadLsn`, `Select`, `SelectFails` | the repeatable-read transaction of `getData`: its first statement fixes the snapshot and then reads the LSN, the second selects |
| `LogCommit`, `Show` | external: a commit gets its LSN, and becomes visible later, not always in the same order |

Values are integers or NULL, in numeric, text (`TextColumns`) and date columns
(`DateColumns`). The worker makes a text of each value of a cursor with `String(value)`
(`TextOf`), and Postgres reads it back as a value of the column or refuses it (`Readable`):
- the text of a number or of a text compares as the value it was made from;
- the text `"null"` is refused for a number, and is a text like any other for a text column
  (`NullText` says where it sorts), so the next page goes on from there;
- a `Date` becomes JavaScript's `String(date)`, which Postgres refuses.

`getData` adds the LSN to every cursor. It is no sort key, so the cursor of an empty page,
of a query without order, or of a reply that was not unpacked, has no key:
`applyKeysetCursor` ignores it and a client that goes on with it gets the first page again.
`NextPage` does so (`GoesOn`), and the pages the client has (`got`) count from there.

`StreamsQuery` is the query that is published, with tree, order, cursor and limit, and also
without a tree. A sort that is none of the six names is `DESC_DEFAULT` in it (`StreamsSort`)
and ascending in the snapshot's request (`CodecSort`).

Left out: the value of the LSN in a cursor, which nothing compares; columns of other kinds
(jsonb, arrays), whose text Postgres may read or refuse; cursors that a client makes up (its
first query has none). Which text matches a pattern
(startsWith, contains, regex and their kin) is a constant relation, `Matches`, about which
nothing is assumed. Modifiers are left out, as `wrapperToCodec` drops them. Limits are naturals (the wrapping of
`asU32` is left out). knex omits groups without conditions and keeps `LIMIT 0`. The
gateway drops the `strict_after` of a client, and so does the model.

### RowCalls

A call is its message, and a request is run by `Run` (the handler's statement and the reply
to it, or an error when the connection breaks after the statement), `RunNoTable` or
`RunFails`. `Arguments` is what `handleRpc` reads from a message, `Request` the typed
method with the fields its FlatBuffers table has, `Statement` the worker's handler with the
SQL of the Postgres manager, and `Data` what `onData` makes of the payload. The full name
of a table is the pair of company and name. `row_json` and `updates_json` that arrive as
text are passed on unparsed and fail in the database, since the branches of `ws/rpc.ts`
that would parse them are behind an `||` or `??` that never falls through; an empty update
is refused by knex. The result of an aggregation is a placeholder
(`encodeAggPlaceholder`), and CREATE_TABLE is not implemented in the worker.

Things met on the way that no comment contradicts clearly enough for a claim: a row that is
missing is answered `{}`, not null; DELETE_ROW also demands that the row's `companyId`
column holds the company; a GET_DATA message with `limit` and `offset` but no filter loses
its offset (`ws/rpc.ts` 59-72).

## Runs

All runs set `CHECK_DEADLOCK FALSE`: the process serves finitely many sessions, attempts
and commits in a bounded instance, so it may really come to rest.

| run | instance | shows |
|---|---|---|
| `LiveQueryOverlap` | 1 session, 1 key, 2 attempts, 2 commits, 1 of them perhaps earlier | `SnapshotCoversFence`: what the fence skips is in the snapshot. `SnapshotFirst`: no diff before a snapshot. `DiffsAdvance`: nothing sent twice or backwards but a kept diff to a client that asks again. `ImplementsLiveFeed`. |
| `LiveQueryRegistry` | 2 sessions, 2 keys, 2 attempts, 1 commit | `RegistryConsistent` while coroutines of ended subscriptions still run |
| `LiveQueryCongestion` | 1 session, 1 attempt, 2 commits, 1 of them perhaps earlier, sockets refuse, queue of 2 | `TypeOK` (queues bounded); `LiveDiffsReach`: a live subscriber misses no diff unless its queue overflowed; `ImplementsSlowSockets`: both send paths, draining and closing account for slow sockets as the abstract module says |
| `LiveQueryRedelivery` | 1 session, 2 attempts, 1 commit, perhaps earlier, 1 rewind, headerless messages | `NothingFromTheFuture`: no position runs ahead of the log, or of the watermark except what KeyDB kept; `DiffsAdvance` |
| `LiveQuerySync` | 1 session, 2 attempts, 1 commit, perhaps earlier, 1 rewind, fair | `SyncEnds`: buffering ends unless a snapshot failed |
| `FlowControl` | 3 sessions, 2 partitions, threshold 1, fair | `TypeOK`, `SlowCountBounds`, `NoForgottenPause`, `LowCountResumes`, `HighCountPauses` |
| `SqlRpc` | 2 calls, a read and a deletion, 1 session, 2 deliveries, 1 rewind, 1 retry, fair | `PendingArmed`: table, timers and unsettled promises agree, and a result is sent once. `RepeatsExplained`: how often a request takes effect. `CallsSettle`, `RepliesEnd`. `ImplementsRpcCall`. |
| `SqlRpcResends` | 1 deletion that may be in the topic twice, 4 deliveries, 1 rewind | `RepeatsExplained` with repeated sends |
| `DataQuery` | 2 tables of 3 rows, 173 queries of either caller, 2 of 3 commits, 4 pages | `PageExact`: a page is what the JSON asks for. `PagesAdvance`, `NothingSkipped`: pages neither repeat nor leave out, unless one ends in a NULL text. `VisibleCovered`: the LSN is not older than the rows. `SameForStreams`: the diffs' query, with its order and cursor, is the snapshot's. `ArrayMeansFiltered`: the unfiltered rows of the retry are never taken for an answer. |
| `RowCalls` | 3 calls of 19 messages, 2 tables of 2 companies, 1 repeat | `ReadYourWrites`, `DeletedStaysGone`, `RepeatsChangeNothing`, `DeletesOwnRows` |

Why the bounds are enough to be of interest: the hazards concern one subscription and at
most one competitor (a second attempt for the same key, a second session on the key, a
second key of the session), and two commits suffice for one diff below and one above a
fence, a queued and a direct diff; one commit and one rewind give a first and a repeated
delivery of it, in the middle of either attempt; one earlier commit gives KeyDB lists above the
watermark, of up to two entries where `MaxDiffs` is 2. The slow count with several sessions is
the subject of `FlowControl` and of the theorem `RefinesSlowSockets`. The threshold of 1 with three sessions leaves room for counts
below, at and above it. Two attempts with refusing sockets *and* two commits together are
beyond TLC here; the theorems below cover that combination for the invariants they prove.

In `SqlRpc` two calls suffice for one that overtakes the other or takes its reply, two
deliveries for a request that is run twice, one rewind for each way of losing or repeating
it, and one retry for a reply that is overtaken while it waits. A second copy of a request
needs only one call, since calls meet in nothing but the database's version; with two copies
and a rewind the four deliveries run each copy twice. In `DataQuery` the queries
have every leaf operator, each pair of a leaf and a group inside a group, empty groups,
orders of one and two keys in both directions with NULLs, in numeric, text and date columns,
an unknown sort, ties in the first key, and limits that make two pages of three rows; the commits add, remove and move a row. In
`RowCalls` three calls are a writer, a competitor or a second write, and a reader.

### Claims the code does not keep

Each definition of `LiveQueryClaims`, `FlowControlClaims` and `DataQueryClaims` is one statement of a comment,
and has a configuration `Claim*.cfg` under which TLC finds a counterexample. The two
marked *, one of live queries and one of flow control, are listed runs, and `findings` in
`PROJECT.json` quotes them. The others are kept to be run by hand
(`tlc -config ClaimX.cfg LiveQueryClaims`, or `FlowControlClaims` for
`ClaimPausesAllAssigned` and `DataQueryClaims` for the last five of the table).

| configuration | comment | what the code does |
|---|---|---|
| `ClaimFenceAvoidsDuplicates` | `lsn.ts` 7-8 | after a restart the watermark is 0 and KeyDB has diffs above it: two subscribes of one client are sent the same diff |
| `ClaimDiffsFollowSnapshot` | `lsn.ts` 6-8 | the fence precedes the snapshot, so diffs the snapshot contains are sent again |
| `ClaimBufferedDiffsReach` * | `subscribe.ts` 22 | the flush re-buffers and drops the diffs it should send |
| `ClaimHeldUntilSnapshot` | `delivery.ts` 31-32 | an older execution unblocks the `SubState` of a newer one |
| `ClaimBufferingIsTemporary` | `delivery.ts` 31-32 | after a failed snapshot diffs are buffered for ever |
| `ClaimSlowCountExact` | `delivery.ts` 11 | a slow session that closes stays counted |
| `ClaimQueuedMeansSlow` | `io.ts` 11-12 | drain clears the flag and may leave frames queued |
| `ClaimDiffsInOrder` | `lsn.ts` 7-8 | direct diffs overtake queued ones, and queued ones are replayed |
| `ClaimOverflowAnnounced` | `delivery.ts` 35 | the notice goes to the socket that is refusing |
| `ClaimQueryKept` | `query-control-producer.ts` 8-10 | one unsubscribe clears the query of all |
| `ClaimPressureSubsides` * | `kafka.ts` 96 | enough slow sessions that closed keep the consumer paused |
| `ClaimPausesAllAssigned` | `kafka.ts` 86 | partitions assigned while paused keep flowing |
| `ClaimOrMeansOr` | `models/filters/filters.ts` 3 | the leaves of an OR group are joined by AND; an OR group after other filters overrides them |
| `ClaimZeroLimitMeansAll` | `worker.ts` 502 | the 0 of an absent limit is kept, and selects nothing |
| `ClaimCursorTextSafe` | `worker.ts` 143 | after a NULL text the next page goes on from the text `"null"` and shows rows again |
| `ClaimSortsAgree` | `sql-rpc.ts` 248 | an unknown sort is descending for Streams and ascending for the snapshot |
| `ClaimFenceResumesSafely` | `postgress_manager.ts` 79 | a commit that is logged before the LSN is read and visible after the snapshot is neither in the rows nor above the LSN |

`SnapshotFirst` and `DiffsAdvance` are checked where no socket refuses frames; with refusals
the corresponding claim (`DiffsInOrder`) fails. `SyncEnds` is `BufferingIsTemporary` with
the failure case excepted.

### Fairness

`FairSpec` of `LiveQuery` is weak fairness of each attempt's next segment: the SQL client
rejects a call after ten seconds, and KeyDB commands return or fail, so every await ends.
Nothing is assumed of clients, sockets, commits or Kafka. `FairSpec` of `FlowControl` is
weak fairness of the interval timer. Sessions closing, sockets draining and rebalances are
not assumed. `FairSpec` of `SqlRpc` is weak fairness of each call's timer and of the
worker's steps after a statement (the produce call and its retry timer); nothing is assumed
of statements, of Kafka, of replies or of commits. `DataQuery` and `RowCalls` state no
liveness.

## Theorems

TLAPS checks these for every value of the constants, from the assumptions that the modules
name alone: `ConstantsAssumption`, `SessionsAssumption`, `ThresholdAssumption`,
`BoundsAssumption`, `DatabasesAssumption`, and `PagesAssumption`, `ValuesAssumption`,
`TablesAssumption` and `QueriesAssumption` of `DataQuery` (finite sessions, naturals where
numbers are meant, the text "null" a value and `lsn` the name of no column, initial tables
whose rows have all columns and unique ids, queries of the form the gateway reads and
without a cursor at first). TLC evaluates them in every run.

- `LiveQueryProofs`. `Invariant`: `Spec => []IInv`, where `IInv` is the types, the queue
  bound and three groups of bounds: `LogBounds` (KeyDB's lists are below `LAST_SEEN_LSN` or
  were found there, both below `wal`), `SubBounds` (cursors below `wal`, buffers below
  `LAST_SEEN_LSN`) and
  `TaskBounds` (fence <= LSN at request <= ... <= snapshot LSN). `SnapshotCoversFence`
  alone is not inductive: the fence comes from `LAST_SEEN_LSN`, so its bound by `wal` must
  be carried through delivery, flush and replay, which read the buffers and KeyDB. From
  `IInv` follow `TypeCorrect`, `FenceSafe` and `PositionsSafe`. One lemma per action; the
  send path (`EmitType`, `EnqueueType`) and the flush and replay have lemmas of their own.
  `RegistrySafe`: `Spec => []RegistryConsistent`, inductive together with the types of
  `IInv`.
- `LiveQueryRefinement`. `RefinesLiveFeed` and `RefinesSlowSockets`: initial states map to
  initial states and each step, under `IInv`, to a step or a stutter. For `LiveFeed` each
  action is shown to do one of four things to each subscription (`FeedMoves`), which are
  the actions of the abstract specification; for `SlowSockets` the key fact is that only
  open sockets are ever written to.
- `LiveQueryOrderProofs`, for sockets that refuse no frames (`Refusals = FALSE`, the
  condition under which the two properties are stated). `SnapshotsFirst` and `DiffsInOrder`
  follow from `OrderInv`: the queues are empty, whoever may send diffs of a query has sent
  its snapshot (`Sources`, where `RegistryConsistent` gives that a subscriber is open), and
  no diff sent is above the cursor (`Passed`), but a kept one to a client that has asked
  again. Each step is shown to send its diffs above
  the cursor and to raise the cursor to the last (`DiffsFollow`), and `FeedMoves` of the
  refinement says that a cursor otherwise stays, or starts at or above `LAST_SEEN_LSN`,
  which by `IInv` is above all that was sent and was not kept.
- `LiveQueryReachProofs`, for messages that carry their LSN (`Headerless = FALSE`: without
  the header a diff counts as LSN 0 and is skipped) and sockets that may refuse any frame.
  `LiveReach` follows from `TopicInv` (LSNs ascend in a topic; those consumed are at or below
  `LAST_SEEN_LSN`) and `ReachInv`, which speaks of all that consumption has taken of a key
  (`Consumed`: KeyDB's list without what was found there, the part of the topic consumed
  since the process started, and every buffer). While an
  execution of `handleSubscribe` synchronises, its subscription has passed or holds all of
  it (`Held`), so the flush leaves the cursor above all of it; from then on whatever the
  cursor or consumption has passed was handed over (`Reaches`). The property itself is not
  inductive: after a rewind a diff that is consumed again is skipped because of the cursor,
  and the replay raises the cursor to a diff it found in KeyDB, so both must be known not
  to have run ahead of what was sent. `NextHands` is the send path: a segment, a drain and
  the close of another session take nothing back unless the queue overflows.
- `FlowControlProofs`. `CountBounded` (`Accounting => []SlowCountBounds`, so by
  `RefinesSlowSockets` the bound holds of the gateway), and for the composition
  `FlowInvariant` and from it `FlowTyped`, `FlowCountBounded` and `NeverForgotten`.

- `SqlRpcProofs`. `Types`; `PendingHolds`, inductive with the types, since every way of
  settling is one operator (`SettlePending`); `KeepsPromise`: the refinement of `RpcCall`
  under `IInv`, which adds `Linked` to the two: every request, job and reply is that of a
  call that was made, and a finished job or a reply is dated between the call and the
  present. Without it a reply could answer a call before it was made. `Ages` says what no
  step takes back, and one lemma (`LinkedKept`) carries `Linked` over all steps but `Call`.
  `RepeatsBounded` has two arguments of its own. `Budget` counts: effects, running
  executions and copies of the request still ahead of the position are together at most the
  copies times one more than the rewinds; a hand-over moves one unit from "ahead" to
  "running", an execution from there to "effects", a copy that arrives adds one to both
  sides, and a rewind brings back at most every copy. `Account` holds while there was no
  rewind, of each call that is in the topic once: a running execution is all there is of it,
  and finished jobs, replies and answers tell what was done.

- `RowCallsProofs`, the safety of `RowCalls` for all messages and contents. Lemmas say what
  each statement does to a table (ids stay unique, a statement that is run again at once
  changes nothing) and that a table changes only by a run of a writer of it. `Types`;
  `DeletesOwn` follows step by step. `RepeatsHarmless` needs `LoneDone`: once a lone
  client's request was confirmed, running it again would change nothing. `WritesAreRead`
  needs `AddedStays` (the row is in the table) and `ReadsAdded` (so every later result is
  that row), `DeletedStays` needs `GoneStays` and `ReadsGone`; that other writers cannot
  run again comes of `CallInv`: what is in `after` was answered, so it has run.

- `DataQueryProofs`: every invariant of `DataQuery`, for all tables, trees, orders, commits
  and numbers of pages.

  Pure part. `TreeBack`: what the worker reads from the buffers is the tree the gateway made
  of the JSON, `FromWire(ToWire(ToCodec(t))) = ToCodec(t)`, whenever the codec takes the
  tree. It is false of values alone, since a timestamp becomes a number and an empty list
  one of strings; it is true of the plain values (`ReadBack`). `WhereIsMeant`: on
  `Supported` trees the WHERE is true of the rows the tree means. `Joined` is the
  left-to-right joining of AND and OR, and `RunsJoin` says of it that it is the conjunction
  if nothing but the first condition may start an alternative, and the disjunction if every
  one does. The functions that are recursive over a tree (`Empty`, `Where`, `Meant`) are
  defined by their equations, and those of the tree and of its converted form are the same
  equations, hence the same function, whatever its shape; a proof by induction over trees,
  which is out of reach here, is not needed.

  Orders. `Before` is asymmetric, total if `id` is a key, and `BeforeSplits`: what is before
  r is before q or q is before r, by the first key in which they differ (`FirstDiffering`).
  `AfterIsBefore`: what `applyKeysetCursor` lets through comes after the cursor's row.
  `BeforeIsAfter`: it lets through all of that, where keys are not NULL. `NoKeyAll`: a
  cursor without a key lets everything through. `AskedKeys`: the order Postgres is asked
  for has the client's fields, and its sorts where they are known. `CursorMade` says what a
  cursor has: the LSN, and the last row's keys with NULL texts made "null". `SelectedRows`
  says what LIMIT and OFFSET leave of the rows.

  `Invariance`: `Spec => []Inv`. The properties are not inductive by themselves: they speak
  of a reply, and nothing of them remains when the client goes on to the next page. `Inv` has
  `DbInv` (ids stay unique, for which pending commits may not add an id that the table or
  another one has), `CallInv` (the request is the client's own on the first attempt and a
  plain one otherwise), `SnapInv` (a snapshot has the steady rows, and no commit above the
  LSN), `ReplyInv` (the reply is one of the results of the SELECT), and two that carry over
  from page to page: `GotInv`, the cursor is not before a row the client has, and `SeenInv`,
  it is before each steady, matching row the client has not, both while no page had a NULL
  in a text key. They are kept by `NextPage` because the cursor is the last row of a page
  that is `Sorted`, or has no key, and then the client has nothing of the pages that start
  over. TLC checks `Inv` on the
  instance of the run as well. From it follow `Types`, `PagesExact`, `PagesForward`,
  `NoneSkipped`, `LsnCovers`, `StreamsSame` and `ArrayFiltered`.

Only model-checked: `SyncEnds`, `LowCountResumes`, `HighCountPauses`, `CallsSettle` and
`RepliesEnd`, since liveness under fairness is outside what the prover does. Every
invariant, action property and refinement of a run is a theorem.

## Plan

Done: `LiveQuery` with `LiveFeed`, `FlowControl` with `SlowSockets`, `SqlRpc` with
`RpcCall`, `DataQuery` with `QueryTree` (the snapshot fence, keyset paging, filters and
`getSnapshot` of the first plan, which turned out to be one path), `RowCalls`.

Left: pages whose keys may be NULL, about which `PageExact` and `NothingSkipped` say
nothing (for text columns `ClaimCursorTextSafe` shows what happens), and several gateways on
one consumer group.

## Not modelled

- `setSnapshot`, `getSnapshot` and `clear` of HotCache, `json-spec.ts`, `fb_decode.ts` and
  `fb_maps.ts`: nothing that runs calls them.
- The autoscaler: `APP_NAME` names no app of `ecosystem.config.js` and `/health` sends no
  `requestCount`, so as configured no round changes anything.
- Several gateways: with the default `KAFKA_GROUP` they would share the page diffs, which
  is a matter of deployment that the code does not decide.
- HTTP routes, table creation and aggregation text, configuration: they keep no state and
  run no steps that could interleave.
