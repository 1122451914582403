# webook in TLA+

Specifications, model-checking runs and proofs for the Go services under
`webook/` (paths below are relative to `src/webook/` unless they start with
another directory of `src/`). webook is a publishing platform: a core
(`internal`) in front of gRPC services (`relation`, `feed`, `interaction`,
`comment`, `tag`, `search`, `chat`), a `worker` that consumes Kafka events and
runs scheduled jobs, a `migrator` that moves tables between stores while they
are in use, and `pkg`, the libraries they share. What can go wrong in it is
mostly what happens *between* processes: locks that expire, caches that lag
behind the database, events delivered twice or not at all, rows that two
transactions change, a switch flipped while writes are under way.

Section 1 is the inventory, section 2 the modules, section 3 the runs, section 4
the proofs, section 5 what is left out and what was met on the way, section 6
what could come next. `PROJECT.json` lists every component, the hazards at their
lines, the runs, the mutants that show each property can fail, and the source
lines each definition translates.

## 1. Inventory

| component | state it keeps | operations | what is hard | what makes it correct | model |
|---|---|---|---|---|---|
| **redislock** `pkg/redislock` | Redis: hash token→count with a TTL, fence counter, list and sorted set of a fair queue, a pub/sub channel; process: handle, `stop`, watchdog | `TryLock`, `Lock`, `Unlock`, `ForceUnlock`, `Refresh`, watchdog, fair queue, `FenceAccepted` | leases that expire under a holder, lost answers, late requests, suspended processes, clocks that differ, missed wake-ups | one owner; a lost lock is reported in bounded time; writes in the order of tenures; first in, first out; nobody waits for ever | `LockServer`, `RedisLock`, `FencedLock`, `BlockingAcquire` |
| **switching**, **migratorsdk** `migrator/service/switching`, `internal/migratorsdk` | Redis: stage, gray percentage, proposal; `task.status` | `SetStage`, `Rollback`, `SetGray`, propose, approve; `Write`, `ChooseSide` | read-decide-SET by several operators; a stage read before and used after a switch; one of two writes failing; the incremental engine, which goes on writing NEW | stages in order; two persons for `DST_ONLY`; OLD loses no acknowledged write before it, NEW none that it answers for | `Stages`, `Cutover` |
| **incremental engine** `migrator/service/incr`, canal source, MySQL sink | checkpoint per partition, `task.status`; channels, batches, cursor | `Run`, `Pause`, dispatch, flush, checkpoint | crashes between apply and checkpoint; partitions of different speed; replays | nothing skipped; the target ends as a copy | `IncrSync` |
| **full engine** `migrator/service/full` | shards and their batches | `Run`, abort, planning, scans, flushes | rows written behind the scan, or by the incremental engine ahead of it | a finished task has copied every quiet row, and the two engines together everything | `FullCopy` |
| **verify, repair** `migrator/service/verify` | `validate_log` | verification by two scans, `Repair` with three strategies | a repair applies an old snapshot; fails half-way | a row that differs stays in the log until it is equal | `Repair` |
| **relation** `relation` | follow and block edges, counters, counter cache | `Follow`, `Unfollow`, `Block`, `Unblock`, `GetStats` | checks outside the transaction; two requests about one couple; cache refilled with old counters | it behaves as a graph changed in single steps; counters equal degrees | `RelationService`, `FollowGraph` |
| **feed** `feed`, worker consumers | inbox, followed big accounts, `built` flag, outbox in Redis | fan-out, removal, invalidation, rebuild, `ListFeed` | rebuilds racing fan-outs and invalidations; expiry; lost and repeated events; authors who cross the threshold | no outbox is partial; an inbox forgets who is no longer followed; feeds catch up | `Feed` |
| **read counts** `pkg/saramax`, worker, `interaction` | claim, batch, marks, committed offset, counter | consume, handle, mark, commit | crash between transaction and commit; failed or unparseable messages | counted once per life of the worker; nothing forgotten | `ReadCounts` |
| **interaction** `interaction` | likes, collects, counters, two caches | like, cancel, collect, read count, find | two clicks of one user; refill racing a change | counters equal records; caches wrong only in a race | `Interaction` |
| **comment** `comment` | comments, floors, `reply_cnt`, cached total | create, reply, delete, count | overlapping replies and deletions; row locks of foreign keys | `reply_cnt` exact; total wrong only in a race | `Comments` |
| **chat**, **streamer** `chat`, `pkg/streamer` | messages, generating flag, cancel slot, Redis stream | `SendMessage`, generation, stop, resume | seven ways to end; a browser that breaks off and returns | no event twice, out of order or missing without a reason; the reply is saved before a reader is told it is over | `ChatStream` |
| **ranking** `internal/service/ranking*`, `worker/job`, `pkg/cronx` | daily boards in Redis, snapshots in the database | recompute, boost, archive | late increments, dates from the clock, clearing beside replacing | boards show the counts in the end; yesterday is archived | `Ranking` |
| **pool** `pkg/pool` | queue, `closed`, `done` | `Submit` with four policies, `Shutdown`, `ShutdownNow` | a submission racing the drain | an accepted task runs; submitters return | `Pool` |
| replay, tasks, other pipelines, storage and web of the migrator | tasks, dead letters, audit log | CRUD, HTTP, Mongo, ES, ClickHouse, Kafka | conversion | — | — |
| tag, search `tag` `search` | bindings, index documents | CRUD, sync from events | unlocked read in `SyncByBiz` | the index follows the rows | — |
| rest of the core `internal` | users, codes, caches of articles, SMS failover | handlers, services, repositories | cache refill after invalidation | — | — |
| circuitbreaker, grpcx, ratelimit, llm, embedding | failure counts, windows, current provider | `Allow`, pick, limit, call | half-open, equal timestamps | one trial; at most N per window | — |
| other packages, generated API, front end, deployment | — | middleware, configuration, UI | — | no protocol of their own | — |

How they interact: requests reach `internal`, which calls the services over gRPC
and publishes events to Kafka; `worker` turns events into calls to `interaction`
and `feed` and runs the ranking jobs under a `redislock`; `feed` asks `relation`
and the articles when it rebuilds. The migrator and the application share no
call: the switching service writes the stage to Redis, the SDK in the
application reads it, and both sides write NEW: the SDK what the application writes, the
incremental engine what OLD's binlog holds, and no switch stops the engine.

## 2. Modules

| module | models |
|---|---|
| `LockServer` | the lock key in Redis: `acquire.lua`, `fence.lua`, `release.lua`, `refresh.lua`, expiry; each script is one step, as Redis runs it |
| `RedisLock` | handles and watchdogs against that key (`client.go`, `lock.go`) |
| `FencedLease` / `FencedLock` | abstract: writes follow the order of tenures / the lock with a resource that applies `FenceAccepted`, and the refinement `Promise` |
| `BlockingAcquire` | `blockingAcquire`: subscribe, try, sleep, wake, plain or fair; `fair_acquire.lua`, `fair_cancel.lua` |
| `Stages`, `Cutover` | what a stage allows; operators, dual writers, readers and the incremental engine around one row of two tables |
| `Replica` | abstract: a target whose rows move forward only and never past the source, but for rows whose deletion is under way; `IncrSync` and `FullCopy` implement it |
| `IncrSync` | binlog, partitions, batches, checkpoints, target table |
| `RowStore`, `FullCopy`, `Repair` | a table for sources and sinks; the full engine in a table in use; verification and repair |
| `FollowGraph` / `RelationService` | abstract: edges, blocks and counters changed in single steps / the requests statement by statement, with row and gap locks, and the refinement |
| `Feed` | articles and edges, their events, consumers, inboxes, outboxes, rebuilds, readers |
| `ReadCounts` | a partition of `interaction_events`, the batch consumer, the counter |
| `MarkBook` / `Interaction` | abstract: a mark turns with its tally, in one step / the transactions and caches of the interaction service, and the refinement |
| `Threads` / `Comments` | abstract: floors of one level, each shown with the number of its replies / the transactions of the comment service and its cached total, and the refinement |
| `ChatStream`, `Ranking`, `Pool` | the components of those names |
| `*Proofs` | theorems (section 4); `CounterProofs` is about `ReadCounts`, `Interaction`, `Comments` and `Ranking`, `SocialProofs` about `RelationService` and `Feed`, `MigratorProofs` about `IncrSync`, `FullCopy` and `Repair` |
| `MC*` | instances for TLC: values a `.cfg` cannot write, and sums of independent parts |

Five abstract specifications have detailed ones that implement them
(`PromiseKept`, `ImplementsGraph`, `ImplementsBook`, `ImplementsThreads`, and
`IncrImplementsReplica` and `CopyImplementsReplica` of one). For tables the
mapping takes the rows as they are after each commit: the earlier statements of
a transaction, its rollback, caches and queues map to stutters, and a commit to
one abstract step. `Threads` derives the number shown with a floor from the rows,
where the code maintains `reply_cnt`: that the two agree at every step is what
the refinement says.

**Lock.** `hash` and `pttl` are the Redis key; `pc`, `fence`, `stop`, `lost` the
handle; `wd`, `answer`, `since`, `ticker`, `due`, `callAge` the watchdog of
`lock.go:134-170`; `request` is the call of the holder itself (`Refresh`, or the
release of `Unlock`), which holds `innerMu` from `CallSend` to `CallEnds` and makes
the watchdog wait (`wd = "waiting"`). A request is sent, may run, and its answer may
be lost; a request whose client has given up may still run (`late`). `Pause` and `Resume`
suspend a process. `BlockingAcquire` keeps the two structures of the fair queue
(`queue`, `qts`), the release channel (a SUBSCRIBE on its way, `asking`; in force,
`subscribed`; a message in a caller's channel, `message`), and each
caller's poll timer and remaining wait; `Skew` puts a caller's clock ahead.

**Cutover.** `stage`, `gray`, `propose` are the Redis keys, `status` the column.
A switching call is a record in `call`, each of its commands a step that can
fail. A writer has read the stage and has one or two table writes to make.
`binlog` is OLD's log of the row and `applied` the engine's position in it: `Apply`
puts the next value over whatever NEW has, as the sink does in tables without a
`version` column, `Restart` takes the engine back. A failing Redis is a write that
takes the stage for `SRC_ONLY` (`StageSeen`) and a read that goes to OLD
(`ChooseBlind`). Histories (`issued`, `before`, `routed`, `outcome`, `exposed`,
`approvers`) say which writes ended before which began, by which stage they went,
and which of those made to NEW alone the engine was not done with. One row is
modelled: the SDK decides row by row, and `gray` stands for the comparison with
the row's hash.

What NEW holds is a matter of order. An acknowledged dual write is in NEW, but
until the engine has been past it the engine may put an older value back over it.
`InNew` therefore says when NEW answers for a write: the engine has been past it,
or it was made to NEW alone when the engine had nothing left. `LosesNothing` and, for reads
of NEW, `ReadsLatest` speak of these writes; `RollbackSafe` and reads of OLD of
every acknowledged one.

**Incremental engine.** `binlog` is the sequence of row changes, each with the
end position of its statement, as canal reports it. `Apply` and `SaveCheckpoint`
are two steps: a crash can fall between the transaction and the checkpoint row.
The sink deletes first, then upserts.

**Full copy and repair.** A row's content is the number of the change that wrote
it, so that newer and older can be told apart. `FullCopy` scans each shard with
keyset pages while the source changes and the incremental engine applies its
changes in order. `Repair` holds two snapshots per logged row and writes them,
without a version, when an operator asks.

**Statements and locks.** `RelationService`, `Interaction` and `Comments` model
transactions alike: a step for each statement that reads or waits, row locks
(and gap locks where `SELECT FOR UPDATE` finds no row) as conditions on the
other requests, and the writes at the commit, for nobody sees them earlier. Two
transactions that wait for each other end by a rollback, as any of them may.

**Feed.** Rows and the events about them, the offset of the consumer, inboxes
with their `built` flag, outboxes; a rebuild is several steps (followees, split
at the threshold, outboxes, save), as is a fan-out. Incidents (an event lost
before Kafka, a failing call, a worker that restarts and redelivers) are counted
by `MaxIncidents`. A caching failure that is only logged is a step that does
nothing.

**Read counts.** `fetched`, `readBatch`, `markedTo` and `committed` are the
session of sarama; a restart falls back to `committed`. A failed batch, and one
overtaken by the mark of a message that does not parse, are histories.

**Chat.** One conversation. `gen` is per `SendMessage`: the model's stream, tool
rounds, and how it ends; `events` the Redis stream, `tab` the browser and its
`pollStream`, which goes on after an id the browser sends, or, for "$", after the
event that is newest when each XREAD runs, until one arrives. An error is
published in one step and its reply saved in the next, as in the code.

**Ranking.** A board is abstracted to the number of reads it shows; `job` and
`archive` are runs in progress, `night` says that it is not yet ten past
midnight.

**Pool.** `tasks` is the channel, `fate` what becomes of each task; the two
`select`s of a worker are two steps.

## 3. Runs

A sum (`MCMigratorChat`, `MCRefinements`, `MCConsumers`, `MCLeasesFeeds`, `MCFairJobs`) explores
independent parts side by side: `focus` says which one moves. The parts share no
variable, so every behaviour of the sum is one of a single part with the others
standing still; its states are the union of theirs, and each property is checked
on the part it speaks of. Fairness is stated for a part while it is the one that
moves, and `FeedCatchesUp` is `FeedConverges` of `Feed` under the same condition.

| run | parts and instance | what it shows |
|---|---|---|
| `leases_feeds` | two handles, one watched whose caller also refreshes and one with a fixed lease and a suspendable process, leases of three ticks, lost and late requests (29 k states); three people, one author, two articles, threshold two, two incidents (47 k) | `OneOwner`, `NoSilentLoss`, `LossNoticedInTime`, `LeaseReclaimed`, `WatchdogEnds`; `OutboxNeverPartial`, `InboxForgets`, `FeedCatchesUp` |
| `fair_jobs` | three callers: one try, one with a `WaitTime`, one whose clock is ahead, fair over a lossy network or plain over a reliable one (68 k states); two boards over two days (41 k) | `FirstInFirstOut`, `KeepsPlace`, `NoStarvation`, `NoLostWakeup`; `RecomputeHeals` |
| `migrator_chat` | cutover: one console, two persons, two writers, a reader, two writes, the incremental engine, a Redis that may fail (1.30 M states); repair: two rows, two requests (538 k); chat: two generations (834 k) | `LosesNothing`, `RollbackSafe`, `ReadsLatest`, `TwoPersons`, `InOrder`; `FoundOut`; `ResumeInOrder`, `SavedBeforeTold` |
| `consumers` | two rows on two partitions, batches of two, three changes; three events in batches of two and a restart; one worker, a queue of one, three tasks, every policy | `NothingLost`, `IncrImplementsReplica`, `CatchesUp`; `CountedOncePerLife`, `EveryReadHandled`; `DrainedWhenClosed`, `AtMostOneMore`, `SubmissionsEnd` |
| `refinements` | relation: two users, two requests (59 k states); interaction: two calls of one user (219 k); fenced lock: three acquisitions (303 k); comments: two callers, three comments (62 k); copy: three rows, two shards, three changes (89 k) | `ImplementsGraph`, `StaleOnlyInRace`; `ImplementsBook`, `CachedRight`; `PromiseKept`; `ImplementsThreads`, `CommentsCounted`; `CopyKeepsUp`, `CopyImplementsReplica` |

The type invariants are theorems (section 4); the runs check two of them again,
`CutoverTypeOK` and `WaitTypeOK`, which also bound timers and pending calls.
Seven runs each exhibit a disagreement between the code and what is said of it:

| run | what the code does | what is said of it |
|---|---|---|
| `reentrant_fence` | a re-entrant acquisition with fencing gets token 0 | "`>0`" with WithFencing, `pkg/redislock/redislock.go:53` |
| `fair_shared` | of two fair waiters with one ownerId, one that gives up removes the other from the queue | FIFO, `pkg/redislock/options.go:55` |
| `rollback_race` | a rollback that read `DST_FIRST` overwrites a `DST_ONLY` set in between; OLD lacks writes acknowledged since | a rollback is safe, `DST_ONLY` a point of no return, `migrator/domain/switch.go:42-44` |
| `replay_regress` | without a `version` column a replay takes a fast partition's row back, and its guarded checkpoint lets the next restart skip the newer change | replay is safe, `migrator/service/incr/incr.go:21-22` |
| `batch_order` | an upsert and a later delete of one row in one batch leave the row in the target | order per row is kept, `migrator/service/incr/incr.go:14` |
| `follow_across_block` | a Follow that has passed the check of blocks inserts its edge after the Block has cut what it found | the cascade of the block undoes the follow, `relation/service/relation.go:44` |
| `archive_today` | the archive of 00:10 gets today's date: yesterday is never copied, and today's boards are cleared | 00:10 archives yesterday, `src/prd/ranking/PRD.md:130` |

**Bounds.** Two or three processes of each kind are what the races need: one
that holds stale knowledge, one that changes what it knew, and where order
matters a third. Leases are three ticks long (`Interval = 1`): a refresh may be
served, fail or wait for `innerMu` before, at and after the end of the lease. Time is finite (`pttl` counts down, `since` saturates past the
last instant that a property tells apart). `MaxWrites = 2`: a loss is one write
replaced by an older one. `MaxChanges = 3`: one change for a slow partition, two
for a row of a fast one. `MaxIncidents = 2`: one event to lose or repeat and one
change that hides it. `MaxTopic = 3` with batches of two: one full batch and one
that only the ticker hands over. `MaxPK = 3` in two shards with pages and flushes
of two: shards of different sizes, a full page and a partial one. `LastDay = 2`:
one midnight. `MaxRequests = 2` for repairs, from tables that lack the first
row at either side, have it, or (the target) have it equal; the source has the
second row, and the target lacks it, has it, or is ahead of the source. `MaxComments
= 3`: a floor and two replies. Stages, gray changes, proposals, crashes of the
engine, clicks, blocks and cache expiries are not bounded; `MaxReads = 2` bounds
what a batch of reads adds. Symmetry is used in `migrator_chat`, `rollback_race`
(writers, persons and generations, which nothing tells apart) and `refinements` (the
two requests of each service, two of the three acquisitions), which have no
liveness property.

**Fairness**, always of steps the code's scheduler or a timer takes by itself:

* lock: time passes, a running goroutine runs, a call made under `innerMu` returns
  by its context's deadline and the next to wait gets it, a suspended process resumes; strong fairness for
  `DogStop`, since Go's `select` picks among ready branches at random.
* fair queue: running callers run and a holder releases in the end; nobody has
  to come, come back or cancel.
* incremental engine: the goroutines of a run are scheduled and the flush ticker
  fires; `CatchesUp` speaks only of behaviours in which a run is left alone.
* read counts: the worker runs and sarama commits its marks periodically.
* pool: goroutines run and tasks end; strong fairness for `Enqueue`, since Go
  serves blocked senders in order.
* feed: the worker consumes, an invalidation that began ends, readers read on;
  strong fairness for the expiry of an inbox and an outbox: a key that exists
  again and again must meet its TTL, the one means by which the code heals what
  a lost event or a failed call left behind.
* ranking: jobs are started again and again and end; replacing a board does not
  fail for ever. Neither the calendar nor boosts or archives are owed anything.

**Deadlock** is checked except in `leases_feeds`, `consumers`, `refinements` and
`migrator_chat`, whose parts rightly stop: bounded topics, copies and conversations
come to an end, and a pool that has shut down stands still.

## 4. Proofs

Checked by `tlapm` for every value of the constants, under the `ASSUME`s of the
modules, which say only that sets are finite or not empty, sizes positive and
special values apart. A theorem that assumes more states it (`ASSUME ... PROVE`),
and the table says why.

Locks:

| theorem | what, under which assumption |
|---|---|
| `LockProofs!TypeCorrect`, `OneOwnerAlways` | every step keeps the key, deletes it, recounts one owner's holds or creates it from nothing (`KeyStep`); only creation brings in a token |
| `…!NoSilentLossAlways` | needs more than itself: a watchdog is told to stop only by a caller that has given the handle up (`StopMeansLeft`), and only an acquisition starts one (`IdleHasNoDog`) |
| `…!LossNoticedInTimeAlways` | `AllTimely` bounds `since` at each place of the watchdog's loop: waiting for a tick, with a tick buffered, `callAge` ticks into a call, or as long in the wait for `innerMu` unless its context is over, when it fails at once (`DogTooLate`) |
| `LockProofs!FencedTypeCorrect`, `WritesInTenureOrder` | `FencedLock` implements `FencedLease`, for any sharing of tokens. `FenceInv`: the fence counter counts tenures, a handle's token is 0 or the number of its tenure, the largest accepted token is the last writer's. Needs `Fencing` |
| `BlockingAcquireProofs!WaitTypeCorrect` | `WaitShape`: no token is queued twice, `qts` has a deadline exactly for who is queued, timers and remaining waits stay in their bounds |
| `…!NoWakeupIsLost` | whoever polls has sent its SUBSCRIBE before it tried (`Subscribed`), and only a successful attempt ends a release's freedom (`FreedIsFree`). A release that comes before the SUBSCRIBE is the one window it leaves |
| `…!FirstInIsFirstOut`, `WaitersKeepTheirPlace` | `LineInv`: whoever polls is queued in Redis with a deadline two intervals beyond its next poll, and who begins has none (`Placed`), and the queue keeps the order of the callers' arrival (`SameOrder`). Two assumptions. `TokensApart`: tokens are fresh uuids unless callers share an `ownerId`, and `fair_shared` shows what sharing does. `ClocksClose`: no clock is `2 * Retry` ahead of another; a deadline of three heartbeats is renewed each `Retry`, so that is the margin a live head has |

Migrator:

| theorem | what, under which assumption |
|---|---|
| `CutoverProofs!CutoverTypeCorrect`, `TwoPersonsAlways` | no assumption. A call past the review carries two names, and only such a call stores `DST_ONLY` |
| `…!NewLosesNothing` | no assumption: operators may overlap, Redis may fail, the engine may lag and replay. `LogInOrder`: the binlog never holds a write after one that had begun later than its end, so what the engine applies is not older than what it has been past; `AloneSafe`: what it has left is not older than a write to NEW alone that found it caught up; `UnderWay`, `PastEnded`: a value in a writer's hand is not older than any write |
| `…!StagesInOrder` | assumes one operator call at a time (`OneConsole`); `rollback_race` shows why |
| `…!RollbackIsSafe`, `ReadsAreLatest` | assume one operator call at a time. `OldHeld`: OLD is never older than an acknowledged write that went by another stage than `DST_ONLY`; `RoutedInOrder`: none goes by `DST_ONLY` before the stage is that; a read in progress (`ReadSound`) on its way to OLD has to know of such writes only |
| `MigratorProofs!IncrTypeCorrect` | `Within`: a worker that has flushed holds a change whose position it can save, a cursor stays inside the binlog. No assumption on checkpoints or statements |
| `…!NothingIsLost` | assumes saved checkpoints (`Seeded`) and that no two rows of a statement share a partition (`Unsplit`). `AllInHand`: what a worker holds is its own and the batch is older than the queue; `AllToCome`: what is not applied lies beyond its own partition's checkpoint, and in a run ahead of the cursor or in hand; `EndsApart`: a position lies between its change and the next of the partition |
| `…!CaughtUpIsMirrored` | the same two, and a `version` column (`replay_regress` shows why). `AsApplied`: what the target holds of a row never deleted is the newest change applied to it, whatever was replayed; `NothingIsLost` then says that all have been, once a run has caught up |
| `…!IncrIsAReplica` | `IncrSync` implements `Replica`, with a `version` column, whatever the checkpoints and statements are. `AsApplied` bounds what the target holds by the source's last change (`MirrorIsNotAhead`); the source follows the binlog (`SourceFollowsBinlog`), and a batch moves a row forward or not at all (`ApplyFollows`) |
| `…!OneAtATimeIsMirrored` | one partition, batches and statements of one row, saved checkpoints, with or without a `version` column. A run then takes and applies the changes in the order of the binlog (`TakenInTurn`), and a row is as the source has it unless its last change is still to be done, waiting or beyond the checkpoint (`YetToDo`, `LastApplied`). A replay does no harm, deletions included, since it reaches the last change again before the run has caught up. `batch_order` and `replay_regress` show that longer batches and a second partition do harm |
| `…!CopyTypeCorrect`, `CopyKeepsUpAlways` | `CopyInv` says where a row can be while the target lacks it. Every value on the way was once in the source (`NothingAhead`), and of a row that exists nothing in the target, on the relay or held is newer than the source (`NothingNewer`); the last change of a streamed row is on the relay or, with versions, in the target (`StreamedKeepUp`); what a shard holds of a row that stood still is what the source has (`HeldIsFresh`); such a row is copied, held, or still ahead of its shard's scan (`NothingMissed`) |
| `…!CopyIsAReplica` | `FullCopy` implements `Replica`, with a `version` column. From `CopyInv`: an edit moves the source (`EditMoves`), the relay and a flush move the target forward or not at all (`RelayFollows`, `FlushFollows`). A row is loose while it is absent at the source or a deletion of it is on the relay |
| `…!RepairTypeCorrect`, `DifferencesAreFoundOut` | `ScansSee`: in a verification of quiet tables the scans have read what the tables hold, as far as they have come, but for target rows a repair has made equal meanwhile; `MarksAreEarned`: what a repair is about to mark is equal |

Services:

| theorem | what, under which assumption |
|---|---|
| `SocialProofs!RelTypeCorrect`, `CountersExactAlways`, `RelationImplementsGraph` | `LocksExclude` (two requests hold no lock that excludes the other), `ReadsLocked` and `ReadsHold` (what a request has read under its lock is still so) make a commit one step of the abstract graph |
| `…!StaleOnlyInRaceAlways` | `RaceInv`: the property with `LockInv`, which makes a commit's change of the counters known, and `OnlyViewed` (only counters somebody views are read and cached) |
| `…!FeedTypeCorrect` | `FeedShape`, without a bound on people or articles |
| `…!InboxForgetsAlways` | `InboxAccounted` says of every inbox, built or not, what the property says of a built one: an article of somebody its owner does not follow has an invalidation on its way, or came by a race or after a lost event (`spoilt`) |
| `…!OutboxNeverPartialAlways` | `FanoutCovers`: the article a fan-out is at is in the outbox already, or need not be (no outbox, not published, recorded as unfanned), or is announced again |
| `PoolProofs!PoolTypeCorrect`, `DrainedWhenClosedAlways`, `AtMostOneMoreAlways` | `EachOnce` (a task is in one place), `LeftEmpty` (a worker that leaves after a drain has seen the queue empty), `PickedOnce` (who has picked up a task after `ShutdownNow` does not come back for another) |
| `CounterProofs!ReadsTypeCorrect`, `ReadsCountedOncePerLife` | what is fetched is in the batch or done, and what is marked is done, that is counted, failed or overtaken (`MarkedDone`); an offset in the batch or ahead of the claim has been counted in earlier lives only (`OncePerLife`) |
| `…!MarksAreCounted` | a call about to flip knows whether the mark is set (`OldIsTrue`), because nobody else flips for that user, unless both hold the gap of a missing row (`OneFlips`), where neither gets past |
| `…!InteractionImplementsBook` | `Interaction` implements `MarkBook`, from the same invariant: a call that flips under its lock finds the mark the way it read it (`FlipTurns`) |
| `…!CachesAreRight` | with the type invariant of `Interaction`. `MarksCached` and `OwnCached`: a cache that differs from the rows has a call on its way to clear it, or a refill or a failed DEL has spoilt it; `ReadsCached`: cached reads, and those about to be cached, with the reads that were owed to the cache when they were read, stay below the stored ones plus the reads the cache has heard of before (`early`) |
| `…!CommentTypeCorrect`, `CommentsAreCounted` | no two deletions lower for one reply (`OneLowers`), a request's comment and floor still are what it read where it relies on them (`Knows`), floors have one level (`Floors`) |
| `…!CommentsImplementThreads` | `Comments` implements `Threads`, from the same invariant: each commit writes a comment, deletes a reply or fells a floor (`AddIsWritten`, `LowerIsDeleted`, `FellIsDeleted`), and `reply_cnt` is the number of replies before and after it (`ShownAsCounted`) |
| `…!RankTypeCorrect` | a board shows a read at most twice, which bounds it (`ShownTwice`): no run of the job or the archive is of a day ahead of today (`RunsAreOfThePast`), and nothing is shown for days to come (`FutureIsBlank`) |
| `ChatProofs!ChatTypeCorrect`, `ResumesInOrder` | `InOrder`: what has arrived rises (`Rising`), a read from "$" waits behind it (`Asks`), and until the stream expires every event up to the last one has arrived or is one that such a connection skipped |
| `…!SavedBeforeToldAlways` | `SavedInv` follows a generation to its end: from its first read to its end the flag is up (`FlagUp`), overlapping calls are known as such (`OverlapsKnown`), a call that reads has its message (`Placeholders`), only calls that have begun write events (`Owners`), from the last write on what was read is saved (`KeptSaved`), and a browser that was told of the end has events only of calls that are over (`ToldEnded`) |

Every invariant, every action property and every refinement of the passing runs
is stated by one of these theorems. `TypeCorrect`, `RelTypeCorrect` and the other
type theorems, `CountersExactAlways`, `MarksAreCounted`, `CaughtUpIsMirrored` and
`OneAtATimeIsMirrored` state what no passing run lists by name: the first few
carry the rest, the counters are part of the refinements, and of the last two TLC
shows the counterexamples beside their assumptions. A theorem about a component
speaks of it alone; the sums of the runs add only that the parts share no
variable. Only
model-checked are the liveness properties (`LeaseReclaimed`, `WatchdogEnds`,
`NoStarvation`, `RecomputeHeals`, `CatchesUp`, `EveryReadHandled`,
`SubmissionsEnd`, `FeedCatchesUp`): the provers have neither fairness nor
`ENABLED`. What a recursive definition computes for every input is out of reach
too: no prover here can use the library's induction theorems. No module declares
a `RECURSIVE` operator.

## 5. What is left out, and what was met on the way

*Lock.* Redis is one node that forgets nothing but what expires. `ForceUnlock` is
in `RedisLock`, not in `BlockingAcquire`: it publishes nothing
(`lock.go:70-77`), and waiters learn of it from their timers. The bound of
`LossNoticedInTime` is the watchdog's own: `Refresh` and `Unlock` hold `innerMu` for
a whole network call under the caller's deadline, `doRefresh` waits for it outside
its timeout (`lock.go:91-94`), and so long `onLost` comes later; the property
therefore leaves out the watchdog that waits. One goroutine uses a handle at a
time. A plain lock can starve a waiter. A refresh answered after `Unlock` can renew the key of a
re-entrant holder (`lock.go:145` against `src/prd/redislock/WALKTHROUGH.md:220`).
`FenceAccepted` refuses the second write of one holder (`fence.go:31`): the
abstract lease grants one write per tenure. `Subscribe` sends its command on
a connection of its own and waits for no answer (`pubsub.go:18`): the first attempt
may be served before it, and a release in between is missed, against the comment
of `pubsub.go:8-9`. `NoLostWakeup` shows that nothing else is, and the poll timer
ends such a sleep after `retryInterval` at most. The fair queue stays
first-in-first-out with one clock one tick ahead of a heartbeat of three; with
two ticks it may evict a live head.

*Cutover.* NEW has three writers, and the shipped tables have no `version` column:
the sink puts an older value of OLD over the newer one that a dual write has
brought (`src/prd/migrator/02-architecture.md:279-297` describes it and asks for
a guard on `updated_at` or `version`, of which the sink has the second only). In
`SRC_FIRST` and `DST_FIRST` the engine brings the newer value in the end, and NEW
is right from then on: that is `LosesNothing` for writes the engine has been past.
Until then a reader of NEW, by `gray` or in `DST_FIRST`, may see what its own
acknowledged write had replaced; the same holds where the write to NEW failed and
was swallowed in `SRC_FIRST` (`redis.go:135-142`). In `DST_ONLY` nothing in
`switch.go` stops the engine or waits for it; the checklist asks the operator for
a small `dstLagMs`. A write made to NEW alone while the engine has something left, or before
it starts again and replays, can be undone for good, since OLD's binlog has no
later value of the row. `exposed` names these writes, and nothing is claimed of
them. An SDK that cannot read the stage in `DST_ONLY` writes OLD alone
(`redis.go:119-123`): OLD then has a value that the engine will put over NEW's, and
a reader that falls back to OLD does not see the writes to NEW alone. Other
writers of NEW (repairs, the replay of dead letters, a full copy that still runs)
are not composed with `Cutover`, and its engine starts at a position before the
first write. `Upsert` and the soft `Delete` both are updates of the row.
`migrator/README.md:565` describes a rollback from `DST_ONLY`; the code refuses it.
The cache of articles around the tables (`article_reader.go:129-144`) and its
refill race are not modelled.

*Incremental engine.* Without a checkpoint it subscribes at the master's current
position (`canal_client.go:215-219`), although `incr.go:422` wants the earliest:
`NothingLost` fails with `Seeded = FALSE`. The rows of a statement share a
position; when a batch ends between two of one partition and the process dies,
the rest is skipped (`incr.go:301`): it fails with one partition, `BatchSize = 1`
and `RowsPerEvent = 2`. These are the two assumptions of `NothingIsLost`. `Pause`
cancels the context of the last flush, so a worker that holds a batch fails and
the task ends `failed`, where `incr.go:150-154` expects `incr_running`. With a
`version` column, columns are assigned in alphabetical order, and those after
`version` compare with the new version (`sink/mysql.go:101-113`); the model's row
changes as a whole. With
two partitions a row that was deleted and inserted again may be missing from a
run that has caught up, even with batches of one and a `version` column: a
deletion carries no version, so that its replay removes the newer row of a fast
partition, and when the next crash comes after the slow partition has been passed
the insert is not replayed. `IncrSync` shows it with `Partitions` of two,
`BatchSize = 1` and four changes; the theorems speak of rows never deleted, or of
one partition. Reconnection, several tables per task, transformers and lag
figures are left out.

*Full engine.* It never loads the checkpoints it saves, though `full.go:5` speaks
of resuming. Without `version` it may overwrite a newer row and re-insert a
deleted one; `CopyKeepsUp` is about versioned tables for that reason. Rows beyond
the planned range, or of an empty table, are left to the incremental engine. Both
engines write `task.status`; `FullCopy` has only its own writes.

*Verify and repair.* The two scans are no snapshot. A repair writes what was
compared and never reads again, so beside writes it can take them back:
`FoundOut` speaks of verifications of quiet tables. The comparison strips the
column `version` (`verify.go:333-349`), so a repair carries none and the sink
overwrites even a newer row (`sink/mysql.go:71-99`: `RowStore.Overwrite`); the
versions of rows are therefore no part of `Repair`, and an upsert of the engine,
which does carry one, may yield there or not. Rows of an earlier
verification stay unrepaired when they have become equal, and a repair that
overlaps a verification may mark the newer entry. Sampling, normalisation of
formats and the replay of dead letters are left out.

*Relation.* The locks depend on REPEATABLE READ. The event of an unfollow or a
block is best effort (`internal/service/relation.go:235`): it may be lost after
the commit.

*Feed.* Pages, caps and `NewCount` are left out; `Publish` writes row and event in
one step, and its asynchronous indexing is not modelled. The code meets these:
an outbox filled with what was fetched before a publication
(`feed.go:161-186`); a `SaveInbox` pipeline that is no transaction
(`cache/feed.go:94-111`) and may fall around an invalidation; an append that
renews an outbox, so that a partial one never heals while its author goes on
publishing; an author beyond the threshold whom older inboxes do not pull. They
heal by expiry, which is what `FeedCatchesUp` needs. `feed.go:71` counts on a
failing event being delivered again; with marks that pass it that is not so. A
page may show an empty list once when the inbox expires between check and read.

*Consumers.* A failed batch is passed by the mark of the next, although
`batch_consumer.go:14-16` says it is consumed again; a message that does not parse
is marked before the batch it arrived in (`68-75`). Both are histories in
`ReadCounts`, so that what is proved is exactly what remains. A batch whose
answer is lost is counted again after a restart only
(`worker/consumer/interaction.go:67`). The rows of `BatchIncrReadCount` are
locked in event order and may deadlock, which is an error like any other.

*Interaction.* A comment of the DAO (`interaction.go:87-88`) says that the gap
lock serialises two first clicks; it makes one of them a deadlock victim. The
rows are raised before the cache (`repository/interaction.go:46-76`), so cached
reads can run ahead by what a batch had still to add when a refill read the row
(the worker's batches add several at a time), or behind by increments that
failed, until the TTL. A batch of the model is the reads of one article: the other
articles of a real one have rows and keys of their own.

*Comments.* A reply whose floor is deleted between its reading of the parent and
its insertion stays alive in a deleted floor, against "the whole floor" of
`dao/comment.go`; only the total shows it. Two replies to one first comment
deadlock on the foreign key's shared lock, and one rolls back. Filter, rate limit
and pages are left out.

*Chat.* The page of the front end resumes with `$` only (`useChat.ts:130`),
although `ResumeStream` speaks of resuming where the browser broke off
(`chat/web/chat.go:162-163`) and `api/chat.ts` hands out the ids for it: it misses
what is published between its list of messages and the first XREAD, and between
two XREADs that time out before a first event, until it lists the messages again
at `done` or `stream_end`. `ResumeInOrder` says that nothing else is missed. On
errors the event `error` is published before the reply is saved
(`chat.go:425-426,465-466`), and the first connection's reader takes it for the
end; `SavedBeforeTold` speaks of `done` and `stream_end`. The generating flag and the stream's TTL are settled only when a
generation ends normally (`chat.go:345`): after a cancel or an error the flag
stays, and a browser that resumes waits for ever; therefore nothing is claimed of
termination. Two `SendMessage`s share the flag and the cancel slot, and
`SendMessage` returns before the flag is set. The channel of the first
connection (which drops what does not fit), the blocked `pollStream` of a client
that has gone, the trim of the stream at about a thousand entries and failing
publications are left out, as are titles, feedback, prompts and retrieval.

*Ranking.* A second archive of a date is refused by the unique key, so a partial
failure cannot be made good, and its boards stay in Redis. `ReplaceTop` is a
pipeline, not the atomic step `cache/ranking.go:65` claims: an archive that reads
in its gap takes the board for empty and deletes it a moment later. Trends,
details, pages and the fallback to the DAO are left out; the job's lock is
assumed to exclude (`RedisLock` is about that).

*Pool.* A `Submit` that has passed the check of `closed` may queue its task after
the last worker has left (`pool.go:131-149`): `DrainedWhenClosed` names exactly
those. After `ShutdownNow` a worker that had passed the first `select` may still
pick up one task, since the second chooses among ready branches
(`pool.go:87-99`), against the comment of line 87; `AtMostOneMore` is the bound
that does hold. A queue of size 0 is left out.

*Not modelled at all.* Tag and search, the remaining core services, the migrator's
other pipelines and its HTTP side, dead letters, the circuit breaker
(half-open lets every caller through, `pkg/circuitbreaker/breaker.go:35`), the
sliding window (members of one millisecond coincide, `sliding_window.lua:20`) and
the provider failover: most of their code is CRUD, conversion and wiring without
a protocol of its own. Of the implementation's lines the greater part is generated
code, mocks, handlers, wiring and front end, which no definition here stands for:
the share of lines the map covers is small, and confined to the code in which
processes meet.

## 6. What could come next

1. Dead letters and their replay beside `IncrSync`; several tables per task.
2. The breaker's half-open state, the sticky provider and the sliding window.
3. One-time codes, SMS failover and the article cache of the core.
4. Tag bindings and the search index behind their events.
5. Proofs: an abstract chat (messages and replies in single steps) implemented by
   `ChatStream`; rows that have been deleted, with batches whose rows are apart;
   the sums of parts as theorems.
