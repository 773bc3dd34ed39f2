# Verification of the UbiQ server and its linear clients

UbiQ is a fork of the NATS server with a layer for *linear events*: events that
are delivered to one subscriber, with helper clients in five languages. This
directory holds TLA+ models of the parts of that code where goroutines,
connections and servers interleave, the TLC runs that check them on small
instances, and TLAPS proofs of the properties that matter most for every
instance. Paths are relative to the repository (`server/...`, `clients/...`).

## 1. Inventory

| Component | State it keeps | Operations | Talks to | Hard part | Correct when |
|---|---|---|---|---|---|
| intra-process queue (`server/ipqueue.go`) | slice, read position, size, one-slot channel, pool of arrays | `push`, `pop`, `popOne`, `recycle`, `drain` | every other subsystem hands work over through one | the signal is sent after the unlock; arrays are reused | nothing lost, repeated, reordered; nobody sleeps on work |
| route interest (`server/route.go`, `server/client.go`) | `acc.rm` (count per key), `acc.lqws` (last weight sent), `c.subs`, the subscriptions of each route | `processSubEx`, `processUnsub`, `unsubscribe`, `closeConnection`, `updateRouteSubscriptionMap`, `addRoute`, `sendSubsToRoute`, `processRemoteSub/Unsub` | routes of the cluster, gateways, leaf nodes | three critical sections per update, run by many goroutines | a peer knows the interest and weight of the account |
| message delivery (`server/client.go`, `server/route.go`) | sublist, interest of routes, outbound queues | `processInboundClientMsg`, `processMsgResults`, `deliverMsg`, `processInboundRoutedMsg` | clients, routes, gateways, leaf nodes | interest is out of date while a message is under way | one member per queue group, one copy per plain subscriber, nobody forgotten |
| linear events in the server (`server/client.go`) | a header, a flag of `processMsgResults` | two early exits | as above | the flag does not travel | one subscriber gets the event |
| helper clients (`clients/go`, `rust`, `ts-js`, `zig`, `gleam`) | outbox entries with attempts; the payload of a received message with its TTL timer; managed queue life cycle | `EnqueueLinear`, `Flush`; `Access`, `Destroy`; `StartLinearQueue` | the server, a DLQ subject | failures in the middle of a flush, dropped futures, timers | an entry leaves the outbox with its publish or its dead letter; a payload is read once |
| server life cycle, QUIC listener (`server/server.go`, `server/quic.go`) | listeners, `s.done`, `grWG`, `ldm` | `Start`, `Shutdown`, `lameDuckMode`, `startQuicServer`, `closeQuicServer` | all accept loops | shutdown during start | shutdown ends, and no listener outlives it |
| Raft (`server/raft.go`) | term, vote, log, commit, applied, peers, snapshots, catch-up state | `processVoteRequest`, `processAppendEntry`, `trackResponse`, `applyCommit`, `InstallSnapshot`, ... | JetStream meta layer, streams, consumers | lost and reordered messages, crashes, failed writes | one leader per term, committed entries are never lost |
| JetStream consumers (`server/consumer.go`, the consumer store in `filestore.go`) | `pending`, `rdc`, `rdq`, ack floors, `pendingDeliveries`, waiting requests, the store | `getNextMsg`, `deliverMsg`, `processAckMsg`, `processNak`, `progressUpdate`, `checkPending`, `purge`, `applyConsumerEntries`, `setLeader` | streams, Raft | acks race redelivery, removals and leader changes; memory and store are updated apart | a message is pending, acknowledged or given up, and the next leader knows which |
| JetStream streams and cluster layer (`server/stream.go`, `jetstream_cluster.go`, `jetstream_batching.go`) | `clseq`, `clfs`, `ddmap`/`ddarr`, `inflight`, the open batch, snapshots, assignments | `processClusteredInboundMsg`, batch commit, `applyStreamEntries`, `processSnapshot`, leader change | stores, Raft, API | messages are checked before they are committed and stored after; a leader change cuts a batch short | replicas agree, batches are all or nothing, ids are stored once |
| stores (`server/filestore.go`, `memstore.go`, `dirstore.go`) | blocks, tombstones, `index.db` | store, skip, remove, erase, purge, compact, sync, recover | disk | a crash between two steps on files; an index that is out of date | what was stored is found again, what was removed stays away |
| subject index and data structures (`server/sublist.go`, `avl`, `gsl`, `stree`, `thw`) | tries, sets, wheels | insert, remove, match | everything | caches | match agrees with the definition |
| accounts, leaf nodes, gateways, MQTT, WebSocket, authentication, configuration, parser, monitoring, logging, dashboard | see `PROJECT.json` | | | | |

`PROJECT.json` lists every component with its status and the reason where it is
not modelled, and the hazards of this code at the lines where they bite.

## 2. Modules

### `IpQueue` - the intra-process queue

A section under `q.Lock()` is one action. `push` is `PushAppend` (or
`PushRefused`, at a limit) followed, if it found the queue empty, by
`PushSignal`; a consumer is `Receive` (its `case <-q.ch`) followed by `Pop`,
`PopOne` or `PopNothing`, and after `Pop` by `Recycle`; `Drain` may happen at any
time. The backing arrays are objects: `mem[b]` is what array `b` holds, `qbuf`
the array of `q.elts`, `pool` those in the `sync.Pool` (from which the collector
may take any), `batch` what a consumer got. An entry is its producer and number.
`appended` and `taken` are histories. Capacity (`q.mrs`) is a free choice.

### `RouteInterest` - what a peer knows of an account's interest

One key (plain or queue: `isq`) and one remote server. The goroutines are the
read loop of each subscriber, the goroutine that closes its connection, and
publishers whose delivery reaches an auto-unsubscribe limit. All of them run
`updateRouteSubscriptionMap` as the code does: `UpdateMap` (under `acc.mu`),
`GatherRoutes` (under `s.mu`), `SendPlain` or `SendQueue` (under the route's
lock; for queues with `acc.sqmu`, reading the count again and comparing it with
`acc.lqws`). `AddRoute` is `addRoute` with `sendSubsToRoute`, `CloseRoute` the
loss of the connection with `removeRemoteSubs`, `RemoteProcess` the remote
server's `processRemoteSub` and `processRemoteUnsub`. `raced` records whether one
of the two windows the code leaves open was hit: an update of a plain key that
found another between its count and its sending, or a route registered while a
queue update was there.

### `MsgRouting` - a message and its subscribers in a cluster

A full mesh of servers. A route is a FIFO stream of `RS+`, `RS-` and `RMSG`, so a
message and the news that would have changed its way overtake nothing, and a
server acts on interest that is gone. `PublishEvent`, `PublishLinearToPlain` and
`PublishLinear` are `processInboundClientMsg` with `processMsgResults`: the loop
over plain subscriptions, one candidate for every queue group (a client message
takes the first of a random start that can take it, a routed message local
members first), the collection of route targets, the early exits of a linear
event, and the no-responders answer. `ProcessRoutedMsg` is
`processInboundRoutedMsg`. A subscription may be in the sublist with its
connection closed (`"dead"`), which is how a delivery fails. How `RS+` and `RS-`
come about is `RouteInterest`; here they are sent with the change they announce. The
initial state is that of a cluster whose routes have exchanged the subscriptions
(`sendSubsToRoute`), so that all servers know of those that are there.

### `Outbox`, `OutboxClients` - the outboxes of the helper clients

`Outbox` is the promise of `docs/linear-nats-architecture.md`: an entry leaves
when its publish succeeds, or with its dead letter after the configured number of
failures. `OutboxClients` has the four implementations of `flush`, which differ in
control: Go compacts its slice in place and may return half way, Rust pops and
awaits, TypeScript throws at the first failure, Zig goes on. Publishes and dead
letters fail at will. `Queued`, `Accepted` and `Dead` map its state to `Outbox`.

### `Raft` - one replication group

A server runs one goroutine (`run`, `runAsFollower`, `runAsCandidate`,
`runAsLeader`) that takes a message or a timer and handles it under `n.Lock`, so a
handler is one action; `runCatchup` is a goroutine of its own, one action per
entry. The state is that of `type raft`: `state`, `term`, `vote`, the file
`tav.idx` (`tav`), the log (`wal`; an entry is its term, with the term of the
leader that sent it and the commit it carried, which the replay after a crash
uses), `commit`, `acks`, `initializing`, the counted `votes` and `emptyVotes`, the
catchup a follower waits for and the `progress` of those a leader runs.

| Actions | Code |
|---|---|
| `SwitchToCandidate`, `CatchupStalled` | election timer, `switchToCandidate`, `requestVote` |
| `RejectVoteRequest`, `ProcessVoteRequest` | `processVoteRequest` |
| `CountVote`, `HigherTermVote`, `IgnoreVote` | the vote cases of the three loops, `wonElection`, `switchToLeader` |
| `Propose`, `SendHeartbeat`, `LostQuorum` | the cases of `runAsLeader` |
| `ProcessSuccess`, `CatchupFollower`, `HigherTermResponse`, `IgnoreResponse` | `processAppendEntryResponse`, `trackResponse`, `tryCommit`, `catchupFollower` |
| `RunCatchup` | `runCatchup` |
| `RejectAppendEntry`, `IgnoreCatchupEntry`, `AwaitCatchup`, `AlreadyCommitted`, `TruncateConflict`, `MissingEntries`, `AcceptEntry` | the ways through `processAppendEntry`, in the order of its tests |
| `Restart` | `initRaftNode`: `readTermVote` and the replay of the log |

Append entries of one server to another are FIFO (`link`): they leave through one
send queue and arrive in one `ipQueue`. The code needs that: a heartbeat truncates
what follows its place in the log, so one that came after a later entry would
remove an entry that was acked. Requests, votes and responses are a set (`msgs`),
as a `select` reads their queues in any order. Any message may be lost. A message
that is being handled does not count towards `MaxMsgs`, so it can always be
answered.

Simplifications, each allowing more or the same: timers fire at will; a committed
entry counts as applied; `n.leader` is not kept, so the write of `tav.idx` that a
changed leader causes is a choice; a server restarts as one of a recovered group
(`cfg.Recovering`). Simplifications that leave behaviour out: crashes happen
between handlers, not within one; at most one catchup goroutine per peer, a new
one replacing the old; no snapshots, membership changes, leader transfer,
observers, pauses or failed writes.

### `ConsumerStore`, `Consumer` - a JetStream consumer

`ConsumerStore` has the operations of `consumerFileStore` as functions on a state:
`UpdateDelivered`, `UpdateAcks`, `UpdateStarting`, `ResetStore`, `Update`. `Consumer` is the leader
with its two replicas, the stream's messages, and one client.

A section under `o.mu` is one action. `DeliverNext`, `Redeliver`,
`RedeliverTooOften`, `RedeliverRemoved` and `ReachEnd` are the ways through
`getNextMsg` in an iteration of `loopAndGatherMsgs`, each with `deliverMsg` and,
where that fails, `PutBack`. `ProcessAck`, `ProcessNak`, `ProcessNakDelay` and
`ProgressUpdate` are `processAck` and what it calls; `AckWaitOver` is the timer
with `checkPending`; `RemoveMsg` and `Purge` are the stream's, which reach the
consumer through `decStreamPending` (a goroutine: `ProcessTerm`) and `purge`;
`AckMsg` is `stream.ackMsg` with `needAck`; `CheckAckFloor` and
`CheckStateForInterestStream` are the periodic repairs. `ApplyConsumerEntry` is
`applyConsumerEntries` on both replicas, `LeaderChange` `setLeader` on both sides,
`Restart` the recovery of an unreplicated consumer, after a `Flush` or without.

A step works on a record (`Work`): the state in memory, and the store operations it
asks for. `Store` carries those out: an unreplicated consumer at once, with the disk
following at a `Flush`; a replicated one appends them to `phead`, as proposals, and
a message is sent only when the update that records its delivery was applied
(`o.pd`). On a leader change any prefix of the proposals survives, which is what
`Raft` promises. `held` is all that is on the way: a message in `o.outq`, at the
client, or its ack in `ackMsgs`; losing it is never taking it out. There is no
clock: what is pending may expire at any time. Counts of deliveries are modulo
`Width`, as they are unsigned.

### `StreamGroup` - a replicated stream

The log is shared, with a committed prefix (`Commit` is external: the quorum of
`Raft`); a leader change cuts an uncommitted suffix off. `Publish`,
`PublishRefused` and `PublishBatch` are `processClusteredInboundMsg` and the commit
of an atomic batch: the checks of `checkMsgHeadersPreClusteredProposal` against what is
stored and what is noted as in flight, the staging of a batch's changes (`CheckBatch`,
`CommitDiff`), and the sequence `clseq`. `ApplyMsg`, `AfterMsg`, `ApplyBatchMsg`,
`ApplyBatch` and `ApplyEmpty` are `applyStreamEntries`: a message is stored
(`ApplyMsg`) before what was noted for it is cleared (`AfterMsg`), and publishers come
in between. A batch that is cut short is refused when the next entry that does not
belong to it is applied, and counted in `clfs`. `LeaderChange` is the group's,
`ProcessLeaderChange` the stream's, which comes later. `Snapshot`, `Restart` (with
any number of messages beyond the snapshot in the store) and `Catchup` are
`stateSnapshot`, the recovery, and `processSnapshot` with `processCatchupMsg`.

`MsgDeleteRequest` and `StreamPurgeRequest` propose removals, a purge with the last
sequence of the leader; `ApplyRemoval` carries them out (`RemovedBy`, `PurgeEx`). `gone`
is what is removed: `store` keeps the message of every sequence, so that replicas can
be compared. Nobody looks whether what a request is about is there: the leader proposes a
purge of an empty stream and a delete of a sequence to come. A restart finds the removals
since its snapshot on disk or not (`Restart`) and applies them again, to a store that may
have what was stored after them. `replay` is what the group had committed at the restart;
`isRecovering` of the code is over earlier, when the entries are applied that the replica's own
log knew to be committed (`server/raft.go:2374`), so while `replay` lasts `ApplyRemoval` takes
both answers. A
follower that catches up gets the leader's store as it is now, later removals
included; `ahead` says up to which entry it then has more removed than it has applied.

### `FileStore` - the file store of a stream

An operation runs under `fs.mu`, so it is one action (so is `SyncBlock`, although
`syncBlocks` releases the locks between its reads, the compaction and the removal of the
block, `server/filestore.go:7661-7765`: the first sequence and the deletes it compacts with
may be old, but tombstones written since are in blocks that it does not compact). It computes the new blocks in
memory and the list of its steps on files (`todo`: create, append, rewrite by rename,
remove, and the moves of a purge). `Do` carries out all of them, or a prefix, after
which the process is down; `Recover` is `newFileStoreWithCreated`, which also may crash
half way. `index.db` is written apart: `WriteFullState` takes the state,
`WriteIndex` writes it later, whole or cut short. `Recover` takes the index when it
is current (`PriorState`: the last record of its last block, the block files that
exist) or rebuilds from blocks and tombstones (`FromBlocks`, `CarryOutTombs`). A
crash is one of the process: what was written stays. Records have one size, so
`blocksize` counts them; messages are flushed as they are stored. `goal` and `hist`
are histories: what must and may be found, the last sequence given out, and what
had lost its tombstone.

### How they fit together

`Consumer` and `StreamGroup` stand on what `Raft` shows (a committed prefix that all
share); `Consumer` on the stream's store (`msgs`, which `FileStore` keeps over a crash) and
on the operations of `ConsumerStore`; every queue between them is an `IpQueue`.
`MsgRouting` takes the news that `RouteInterest` sends.

`MCx` modules give the constants of the runs. The theorems are in `IpQueueProofs`,
`RouteInterestProofs`, `MsgRoutingProofs`, `OutboxProofs`, `RaftProofs` (elections,
then logs, then acknowledgements), `ConsumerProofs` and `StreamGroupProofs`, whose
invariants are in `StreamGroupInv`; `Folding` has what the last two need to know about folds.

## 3. Runs

| Run | Instance | Shows |
|---|---|---|
| `ipqueue` | 2 pushers with 2 entries each, 2 consumers, 3 arrays, length limit 3, size limit 4; 224k states | `NoLostWakeup`, `Fifo`, `BatchIntact`, `CountersAgree`, `EventuallyTaken` |
| `route_interest` | 2 subscribers (one may break, one may auto-unsubscribe), 1 publisher, 2 route connections, plain and queue; 949k states | `InterestAgrees`, `InterestLearned` |
| `msg_routing` | 3 servers, a plain subscriber that may come late, a group whose 2 members may leave, a second group; all placements up to symmetry; one message; 219k states | `AtMostOnce` (`GroupOnce` and `PlainOnceDirect`), `StableServed`, `LinearStaysLocal`, `NoRespondersTrue`, `MessagesSettle` |
| `linear_once` | 3 servers, 2 plain subscribers | **violated**: `LinearOnce` |
| `outbox` | 4 clients, 3 entries, DLQ after 2 attempts, 3 failures per entry; 50k states | `SentOnce` (`NothingLost` and `PublishedOnce`), `OrderKept`, refinement of `Outbox` (`FollowsOutbox`) |
| `raft` | 3 servers, file logs of 2 entries, 2 terms, 1 message in flight, 1 crash, 1 catchup; 664k states up to symmetry | `OneLeaderPerTerm` with its inductive invariant `ElectionInv`, `LogMatching`, `CommitsAgree`, `NoCommitConflict` |
| `raft_catchup` | 3 servers, 1 term, 2 messages in flight, 2 catchups; 1.06M states | `AcksStored` |
| `consumer` | 9 consumers (push and pull, replicated and not, explicit and all, limits and work queue), 1 or 2 messages, MaxDeliver 2, 1 to 3 faults; 1.24M states | `NothingForgotten`, `AckFloorRight` (`FloorsSound`, `FloorNotStuck`), `DeliveriesBounded`, `WorkQueueKept`, `LeadersKnow` (`SentKnown`, `StoreAgrees`), `RedeliveryDue` (`QueuedIsPending`, `TimerArmed`) |
| `consumer_fail` | an unreplicated push consumer, one message, a failed delivery | **violated**: `FailedNotCounted` |
| `stream` | 2 replicas, 10 streams with logs of 5 to 7 entries, batches of 2, deletes and purges, 1 or 2 faults; 1.4M states up to symmetry | `GroupAgrees` (`SequencesMatch`, `StoresAgree`), `BatchAtomic`, `LiveAgree` (`RemovalsAgree`, `DedupeOnce`, `LimitKept`, unless a removal is committed that is not `Repeatable`), `AckedStored`, `ChecksStillHold` (`ExpectedSeqKept`, `ExpectedSubjectKept`), `ProposalsTracked` (`InflightExact`) |
| `filestore` | 13 stores with blocks of 1 to 3 records, 3 to 5 messages, up to 3 removals, 1 or 2 crashes; 187k states | `NothingLost`, `NothingComesBack`, `LastRemembered`, `BlocksAgree` (`CountsAgree`, `LimitHolds`) |
| `filestore_comes_back` | blocks of 2, 4 messages, 3 removals, 1 crash | **violated**: `NothingComesBackAtAll` |

Where the table names parts in parentheses, the property is their conjunction, with
`TypeOK` of the modules that have no proof of it.

Why the bounds are enough. *Queue*: two producers and two consumers are needed
for a signal that is overtaken and for two batches out at once; a third array is
needed for both batches and the queue to have one; the limits are reached with
entries of different sizes. *Interest*: an overtaking needs two goroutines and a
transition in each direction; two connections allow an update gathered for one
to be sent when the other is up. *Routing*: the second hop and the way back need
three servers and a group with two members on different ones; messages do not
influence each other (a server keeps no state about them), so one is enough.
*Outbox*: three entries give a first, a middle and a last one. *Raft*: two terms
and two entries give a log that is ahead, one that is behind and one that
conflicts; one crash is where a vote can be forgotten. With one message in flight
servers still hear different things, because every broadcast loses the copies
that do not fit. What needs more in flight, an entry of an abandoned catchup that
arrives after a newer one, is within one term, and is what `raft_catchup` has two
messages and two inboxes for. Three terms, two crashes and longer logs are beyond
TLC in the time a run may take; for `OneLeaderPerTerm` and `LogMatching` the proofs
cover them, and for `AcksStored` those without crashes. In the same way the proofs of
`RedeliveryDue`, `GroupAgrees`, `BatchAtomic` and `AckedStored` cover every consumer and
every stream, where the runs list a few.
*Consumer*: two messages give an ack out of order and a floor that must wait for
the lower one; MaxDeliver 2 gives a first delivery, a redelivery and a giving up;
two proposals in flight are a delivery and the ack that follows it. Each
configuration names the kinds of fault that are to meet, which keeps every
combination of few kinds in reach where all of them together are not. Two
replicas, because a leader change only needs the next one; three changes bring a
leader back. *Stream*: logs of 5 to 7 entries hold the empty entries of two leaders,
a batch cut short and a message after it, a whole batch with a retry, or a message,
its removal and another after it. *File store*: blocks of two records fill with a message and a tombstone, so four messages
with three removals spread over three or more blocks, and a removal in the first
may have its tombstone in any later one; with blocks of three a rewrite has
something to keep.

What the violations show, with the lines they contradict, is under `findings` in
`PROJECT.json`:
- *a linear event for several*: remote servers fan it out;
- *a message given up that was never sent*: when the sending of a first delivery fails,
  `didNotDeliver` calls `decDeliveryCount`, which takes one from a count that is not
  there; the unsigned count wraps, and when the ack wait of the message is over it is
  taken for one that was delivered too often;
- *a removed message that comes back*: a block is removed with the tombstone of a
  message that is still in the file of an earlier block, because tombstones below
  the first sequence of the store are not counted; a rebuild finds the message.

The models reach other states in which the code does not keep what a passing property
says. The premise of the property excludes them, in most cases through a history variable:
- `raced` (`RouteInterest`): client 1 unsubscribes a subject (1 to 0), client 2
  subscribes it (0 to 1), and the `RS-` is sent after the `RS+`. Queue subscriptions
  are protected by the second look at the count, plain ones not. And a connection
  that closes between the insertion of its subscription and its count leaves an
  entry in `acc.rm`;
- `forwarded` (`MsgRouting`): a message whose queue member was just lost is sent back
  for the group, and the plain subscriptions there are served again;
- `dropped` (`OutboxClients`): a Rust `flush` dropped at an await loses its entry;
- `rebuilt` (`OutboxClients`): a Go `flush` that returns half way leaves its slice with
  entries that were sent;
- `faults` (`Consumer`, through `Calm`): each property names the kinds of fault
  after which the code does not keep it, with the reason in its comment;
- `hist.back`, `hist.unmarked` (`FileStore`): section 5;
- `RemovalsRepeatable` (`StreamGroup`, in `LiveAgree`): a removal is committed that removes
  something else when it is applied again: section 5.

Other cases are in no instance, so that the runs say nothing of them: keeping purges with
restarts in `StreamGroup`, and combinations of an index with rewrites in `FileStore`
(section 5), and memory logs in `Raft`.

The runs of `Raft` have file logs. With a memory log a server acks an entry, restarts
empty and is elected by its own vote and that of a server that is still initializing;
the old leader commits with the ack that was on its way, and the commit is
contradicted: neither `CommitsAgree` nor `AcksStored` holds then.

Deadlock is checked for the queue. The other systems may come to rest: all
subscribers gone and no route left, the message delivered, all entries sent, the
terms and log places of the instance used up, the messages and faults of a consumer,
stream or store spent.

Fairness. *Queue*: `PushSignal` (a goroutine past its unlock runs on) and the
consumer loops; not new pushes and not drains. *Interest*: updates that have
begun, the reading of a route, and the reconnecting to routes that the server
does by itself. *Routing*: the read loops of routes, and the goroutine that
closes a connection reaching its subscriptions; not the publishing, nor any
particular choice of a queue member. `Raft`, `Consumer`, `StreamGroup` and
`FileStore` state safety only and assume no fairness; that a consumer redelivers
rests on its timer, and that is the invariant `TimerArmed`.

## 4. Proofs

`IpQueueProofs` proves `TypeOK`, `NoLostWakeup`, `Fifo`, `BatchIntact` and
`CountersAgree` of the queue for all sets of goroutines and arrays, all limits, all
sizes of entries and any number of pushes. Assumed: producers and consumers are
disjoint, consumers are finitely many, `Nil` is no array, limits and sizes are
naturals. `Fifo` and `BatchIntact` are not inductive alone: a recycled array that is
not empty breaks `Fifo` two steps later, and an array with two owners breaks
`BatchIntact`. The inductive invariant `QueueInv` adds `ArraysOwned`: pooled arrays
are empty and not the queue's, a batch's array is nobody else's, the read position is
within the slice. `NoLostWakeup` needs no strengthening: the step that makes the
queue non-empty leaves a pusher that must signal, and every step that consumes a
token leaves a consumer about to pop or an empty queue. `CountersAgree` is about sums
(the sizes in the queue, the lengths of the batches under way). What a sum is changed
by when one summand changes is proved through the cardinality of a set of units, one
for each unit of each summand (`SumIsCount`). The induction this takes is written out
as a least counterexample (`LeastNumber`), since the library's induction theorems have
an operator parameter that the provers cannot instantiate.

`RouteInterestProofs` proves `TypeOK` and `InterestAgrees` for any number of
subscribers, publishers, messages and route connections. The inductive invariant
is `InterestInv`. For a queue key it
says that `acc.lqws` is the last weight sent on an unraced route, that it is there
only while the key is, and that it equals the count when no update is in flight;
for a plain key, that an unraced update is alone in flight and carries the sign
the count still has. `ConnInv` ties goroutines to the connection they gathered.

`MsgRoutingProofs` proves the four safety properties of `MsgRouting` (`AtMostOnce`,
`StableServed`, `LinearStaysLocal`, `NoRespondersTrue`) for every mesh, every
placement of subscribers, any number of messages and any comings and goings. Assumed:
subscriptions are finitely many and no servers, groups are not `Plain`, every
subscription is plain or of one group. None of the four is inductive, as none says
what is on the routes. `RoutingInv` follows a message: for each queue group what is left of
it is in one place, a copy on one route or one member that has it (`Tokens`); a
server has one copy coming to it and its plain subscribers do not have the message
yet, unless it was sent on (`PlainCopies`); a message that was not published, or was
answered with "no responders", is nowhere (`Unpublished`, `Untold`); one that stayed
local has left nothing behind (`Local`); and whoever was known and stayed has a copy
on its way or was reached (`Stays`). The hard step is `ProcessRoutedMsg`, which takes a
copy, may serve the group it names, or send it on for the group alone.

`OutboxProofs` proves `SentOnce`, `OrderKept` and `FollowsOutbox` of the four clients
for any number of entries, attempts and failures. Assumed: the languages are those
four and the bounds are naturals, at least one attempt. `FollowsOutbox` is the
refinement: the initial outbox is empty, and each step of a client is a step of
`Outbox` or changes nothing that shows. All of it is about `Contents`, the entries
that are still to be sent, which during a Go flush are those already moved to the
front of the slice and those not yet read. `OutboxInv` adds where a flush is
(`FlushShape`), that only numbers that were given out are there (`Numbered`), and that
what is queued was not sent (`UnsentQueued`).

`RaftProofs` proves `TypeOK`, `ElectionInv` and `OneLeaderPerTerm` for any finite
group of at least two servers, all bounds, and both kinds of log. Assumed:
`Server` is finite with more than one member, `NoVote` is none of them.
`OneLeaderPerTerm` is not inductive: nothing in it says where votes come from.
`ElectionInv` follows a vote from the file to the count. `BallotWritten`: `tav.idx`
is up to date, or behind in a term that a catchup entry brought and in which there
is no vote yet. `VoteKept`: a vote on its way or counted is in its giver's file, or
the file is in a later term; this is what a crash may not break. `VoteOnce`: no
server's vote shows for two candidates of a term. `LeaderElected`: a candidate has
its own vote, and a leader those of a majority, empty votes included (lemma
`WinningMajority`: the rule that elects with empty votes counts a server in both
sets twice, but as the candidate is in one only, the servers are still a majority). Two majorities share a server, whose
vote `VoteOnce` gives to one candidate. Most actions send no vote and only lower
what shows (`QuietStep`); the others add the vote of one server that has just
written it (`OneNewVote`).

The second part of `RaftProofs` proves `LogMatching` from the same assumptions, crashes
and memory logs included. `LogMatching` is not inductive, because it says nothing of what is on
its way. `LogInv` speaks of *links*: an entry of term `t` at index `i` follows one of
term `u`, in a log or in an append entry. Such a link is made only by the leader of
`t` (`Sends`); every other step, a catchup, a truncation, a restart, only moves
links about or drops them (`QuietLog`). `OnePredecessor`: a term and an index
determine the term before. It is kept because a leader is ahead of every entry of its
term (`LeaderAhead`), so a link it makes is at an index where its term has none; and
because a term that was elected cannot be elected again, not even after its leader and
its votes are gone: `TermsElected` keeps, for every term of which there is an entry, a
majority that has voted on file or is past that term. Going back from the
index where two logs agree, each link gives the next agreement (`LinksMatch`, from the
greatest index below it at which they would differ).

The third part proves `AcksStored` for any group, any number of terms, lost messages
and catchups, until a server restarts: `restarts = 0` is a premise of both theorems.
Like the run `raft_catchup`, the proof is about truncation and not about crashes: with
a memory log a restart does lose what was acked, and with a file log a term that a
catchup brought is not on file, so a restarted server may be in an earlier term than
the log it truncated was about; that case is neither proved nor refuted here.
`processAppendEntry` truncates at every append entry it takes, so
`AckInv` is about where append entries point. The new ones of a leader
come in the order of its log and point past what was acked (`InOrder`, which needs
the FIFO order of a link); those of the catchup a peer waits for begin at or after
the end of its log when it asked, and it acks nothing while it waits
(`CatchupAfterAcks`); what a leader sends in its term is what it has (`OwnEntries`),
so an entry that conflicts is not one that was acked (`AckedByBoth`); and whoever
sends in a term was elected in it (`Heard`, `Jobs`, `Answers`), so in a leader's term
all of that comes from the leader. Actions are not treated one by one for each of
the nine parts: `ShapeStep` shows once for every action where the new value of each
part of the state can come from (`Shape`), and the invariant follows from that.

`Folding` is about folds with any operator: `Op` is a constant of the module, and a
module that folds takes the lemmas by `INSTANCE Folding WITH Op <- ...`. `FoldLeft` and
`MapThenFoldSet` of the community modules are `CHOOSE`s of a recursive function on sets
of indices; the lemmas say that it exists, that the greatest index is taken last, and
that what holds at the start and is kept by each step holds at the end (`FoldKeeps`), by
a least counterexample over sets instead of an induction over a predicate.

`ConsumerProofs` proves `RedeliveryDue` for every consumer of every configuration (push
and pull, replicated or not, `AckAll` or explicit, any limits), any number of messages,
and every kind of fault in any number: unlike most properties of `Consumer` it has no
`Calm` premise. Assumed: the shape of a configuration, and that counts of deliveries are
modulo at least 2. `RedeliveryDue` says that only what is pending is queued for
redelivery, once, and that the timer runs while anything is pending. It is about the
leader's memory, but a new leader builds that from its store, a store is what the
proposals made of it, and proposals and stores also come from a disk that may be behind.
`DueInv` therefore types all of these: counts, floors, pending deliveries (`KeptDue`),
and what is on its way (`TrafficDue`); `Leaders` is the set of leader states that have
the property. Each operation on a store and on a leader gets a lemma that it stays in
these sets, each fold of them (`Dropping`, `ExpireAll`, `AcksOf`) one from `Folding`.

`StreamGroupProofs` proves `GroupAgrees`, `BatchAtomic`, `AckedStored`,
`ProposalsTracked` and `ChecksStillHold` for any group,
any log length, any batches, any removals, and any number of
leader changes, restarts, snapshots and catchups. Assumed: replicas are finitely many and
at least one, and the shape of a configuration; batches are not empty, and a log may have
the entry of the first election. What is external, that committed entries stay and only a suffix that is not committed is cut
off, is in the model (`Commit`, `LeaderChange`). The idea is that a replica's state is a
function of the log and of how far it has applied it. For a log, `Size(l, i)` is how many
messages its first `i` entries store, `Refused(l, i)` how many messages of batches cut
short they refuse, `Open(l, i)` how many wait for the rest of their batch; `Proposed` is
their sum. `GroupInv` has these parts:
- `LogOK`: batches are in one piece or cut short by the empty entry of a new leader, and
  the sequence that an entry carries is `Proposed` of the log before it;
- `StoreOK` and `RunOK`: a store holds the messages of the log under the numbers of
  `Size`; `clfs` and the batch in memory are `Refused` and `BatchAt` of what was
  applied; after a restart the store may be ahead of it, up to `replay`;
- `SnapOK`: a snapshot is the same at the index it was taken at, where no batch is open;
- `IdsOK`: an id that is noted with a sequence is that of the message there;
- `LeaderOK`: `clseq`, with which the leader numbers the next proposal, is `Proposed`
  of the whole log; a leader that has not given out a number yet counts from the
  entry of its own election;
- `AckOK` and `AckHeld`: an answer names a message of the committed log, which the leader
  has, or has once it has applied what it found.

With this, `errLastSeqMismatch` cannot be met, because the sequence of an entry and that
of the replica that applies it are the same function of the log; two stores are two
prefixes of one sequence; a batch in a store is a committed one. None of these is
inductive alone. `CommitAll`, the storing of a whole batch, skips the messages that a
restart had left in the store, so the fold over them is described by how many are
skipped.

Four invariants stand on `GroupInv`:
- `ExpectInv`, for `ExpectedSeqKept`: a message of the log that expects a last sequence
  names its own number less what is refused before it (`CheckedSeq`), and nothing
  is refused after the first entry of the leader (`NoneCut`), so that what the leader
  compared with when it proposed is what a replica finds when it stores;
- `TrackInv`, for `InflightExact`: what the leader has noted for a subject is how many
  entries of the log after `SnapshotIndex` have it, and one for the entry that is
  stored but not cleared yet (`post`). A batch is noted as a whole when it is proposed,
  through the staged diff, and taken out one by one when it is committed. It needs that
  a replica that does not lead has noted nothing, and that no empty entry follows
  the leader's own;
- `ShapeInv`, for `TypeOK`: what is removed is in the store, also after a restart or a
  catchup, since a snapshot only names removals below the sequence it reaches;
- `SubjectInv`, for `ExpectedSubjectKept` (of streams without removals, as the property
  says): in the store that the whole log makes, whose beginning is that of every replica,
  each message that expects the last sequence of a subject follows it. The leader found
  that sequence among what it has applied, and by `TrackInv` nothing of the subject in
  flight; within a batch, by the staged diff, nothing of it before in the batch.

Model-checked and not proved:
- the liveness properties `EventuallyTaken`, `InterestLearned` and `MessagesSettle`:
  fairness and `ENABLED` are beyond the prover;
- `CommitsAgree` and `NoCommitConflict` of `Raft`: they need that a later leader has
  every committed entry, which rests on votes and acks that are no longer anywhere in the
  state, so on a history of both. It is false for memory logs (section 3), so the
  invariant would have to follow every log over a crash;
- `NothingForgotten`, `AckFloorRight`, `DeliveriesBounded`, `WorkQueueKept` and
  `LeadersKnow` of `Consumer`: each holds for the kinds of fault and the configurations
  that its comment and section 5 name, and relates memory, stores and proposals that are
  not applied yet, so that the invariant has to say what every suffix of the proposals
  makes of every store;
- `LiveAgree` of `StreamGroup`: it holds until a removal is committed that is not
  repeatable (section 5); the invariant has to say which removals a restart finds on
  disk, and which ones a follower has ahead of its log after a catchup;
- `NothingLost`, `NothingComesBack`, `LastRemembered` and `BlocksAgree` of `FileStore`:
  they are about what a rebuild makes of every prefix of the steps on files that an
  operation has left, and hold for stores whose configuration avoids what section 5
  lists; the theorems would have to assume the lists.

## 5. Not modelled

Leaf nodes, gateways, service imports, subject mappings and message tracing in
`MsgRouting` and `RouteInterest`; permissions; accounts that move between pooled
and dedicated routes; slow consumers. Two subscriptions of one client, or on
different keys, do not interact in the modelled code except in
`clearAccountSubs`, which batches queue subscriptions of one key. Payloads,
headers, subjects and encodings are abstracted away. In `Raft`: what section 2
names, and with it the upper layers that a leader change or an apply calls. The
remaining components
and the reasons are in `PROJECT.json`.

`Consumer`: flow control, priority groups, filters, `AckNone`, backoff, inactive
thresholds, snapshots of the consumer's state, rate limits and replay. What its properties
leave out because the code behaves otherwise there:
- with `AckAll`, the removal of a pending message from the stream acknowledges all
  below it, and an ack of a redelivered lower message moves the floor by the new
  delivery; memory and store then differ;
- a purge clears the counts of redeliveries, with them what was given up;
- with MaxDeliver 1 the store has no record of what was given up;
- `setLeader(false)` leaves the proposals of `o.phead` in place
  (`server/consumer.go:2874`), so that a leader that comes back proposes them again;
- `writeStoreState` of a replicated consumer writes the leader's store only
  (`server/consumer.go:3368`).

The last step of `checkAckFloor` (`server/consumer.go:5078`) sets floors that are 50 or more
behind the stream, and is beyond the bounds.

`StreamGroup`: rollups, counters, fast batches, schedules, TTLs,
transforms, mirrors and sources, the window of duplicates, assignments, the API. An
expected last message id is compared when the entry is applied; the error is not among those
the loop tolerates, so the replica stops with a write error
(`server/jetstream_cluster.go:4494`): the model has this (`halted` is `"werr"`).
`lmsgId` is not set by a catchup, nor by a restart when the last message was deleted.
Each entry of the log is a committed entry of its own: the skipping of a batch that is cut by
the end of one while the replica recovers, and the place within it where a batch began
(`skipBatchIfRecovering`, `entryStart`; `server/jetstream_cluster.go:3900-3916`, `3957-3970`,
`4272-4302`), are dropped. `Snapshot` waits until `replay` is applied, where `doSnapshot` waits for the
end of `isRecovering`, which may be earlier; what is applied then is the same log.
A purge beyond the next sequence, which moves the last sequence of the store, is not modelled.

Some removals make replicas differ in the code. Until one of them is committed, `LiveAgree`
holds; its premise `RemovalsRepeatable` names them:
- a purge of an empty stream. `server/jetstream_cluster.go:4149` says of purges without a
  sequence: "fill in with leader stamped last sequence to protect ourselves on replay
  during server start". The purge of an empty stream is stamped with sequence 1
  (`4151`), which `PurgeEx` takes for no bound (`server/filestore.go:9725`, `9831`). It does
  nothing at first; a replica that restarts without a later snapshot applies it again and
  loses what was stored since, which the other replicas keep. The model does this (the
  instance `Removals`): without the premise TLC finds `RemovalsAgree` violated by a purge,
  a message and a restart. A purge that is asked for with sequence 1 does the same;
- a delete of a sequence that is still to come, which is proposed all the same
  (`server/jetstream_cluster.go:9042`; the instance `RemovedIds`). Two replicas then differ
  in the same way, and a retry of the id that was lost is stored again;
- a purge that keeps a number of messages, together with a restart or a catchup: it is
  skipped when it is applied again (`4156`), whether or not it was on disk, which leaves the
  replica with more than the limit, and after a catchup it counts what is left of the
  leader's store. No instance has this combination.

`FileStore`: subjects and what is kept by them, truncation, ages, TTLs, schedules,
encryption, compression, asynchronous flushes, failed writes, crashes of the operating
system; `memstore.go` and `dirstore.go`. What its properties leave out because the code
behaves otherwise there:
- sequences that go back (`hist.back`): when everything was removed and the tombstones
  are spread over several blocks, a rebuild may start from a lower last sequence
  (`server/filestore.go:2427`, `6513`); a rewrite that drops the deleted tail of a block (`6030`) and a crash in
  `eraseMsg` between the overwriting and the tombstone (`5789`) can have the same effect.
  `LastRemembered` states what does hold: a last sequence that `index.db` had is kept;
- the exact `FirstSeq` after a rebuild or a compaction: readers skip what is not there;
- an index from before that is taken for current: when the same tombstone is the
  last record twice, or a compaction has rewritten the head of a block before
  `index.db` was removed (`10430`). The instances do not combine an index with these;
- an erased message with a current index and a crash: the counts of the index
  include it.

`IpQueue`, `RouteInterest`, `MsgRouting`, `OutboxClients`, `Raft` (elections, logs and
acks), `Consumer` (what is due for redelivery) and `StreamGroup` (sequences, batches,
answers, what is in flight, and the checks against it) have proofs for all instances; everything else above about `Consumer` and
`StreamGroup`, and all about `FileStore`, is about the instances of the runs.
The greater part of the repository is configuration, authentication, protocol
adapters, monitoring and the JetStream API: validation and formatting with little
state of its own, where a model would only repeat the code.

## 6. Plan

1. `Consumer`: `FloorsSound` and `StoreAgrees` for consumers with explicit acks, from
   the types that `DueInv` has.
2. `AcksStored` over restarts with file logs; `CommitsAgree` with a history of votes
   and acks; `LiveAgree` of `StreamGroup`, with the removals that are on disk.
3. `Raft`: snapshots with compaction (`InstallSnapshot`, catchup by snapshot),
   membership changes, and a crash between the write of the log and the answer.
4. `StreamGroup`: rollups and the window of duplicates; `FileStore`:
   truncation and messages by subject.
5. `ServerLifecycle`: start, shutdown and lame duck mode with the QUIC listener;
   linear messages (`Access`, `Destroy`, TTL) next to `OutboxClients`; leaf nodes in
   `MsgRouting`. The project keeps to a dozen runs, so each of these would take the
   place of a run whose question a proof has answered.
