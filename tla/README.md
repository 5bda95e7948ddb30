# Formal models of the streaming aggregator

TLA+ specifications of `src/orders_stream`: a stateful Kafka consumer that counts order
events into one-minute windows, tolerates duplicates and late events, and writes
the windows to Postgres in one transaction per flush. TLC checks the models on
small instances, TLAPS proves their safety properties for every value of the
constants. Paths below are relative to the repository; `service.py` means
`src/orders_stream/processor/service.py`, and so on.

## 1. The system

```
 orders.v1 --> [consumer] --> decode + contract --> dedup --> windows --> flush --> Postgres
 (at least     position,      codec.py,             dedup.py  windowing.py service.py  repository.py
  once)        committed      contract.py              ^                     |   |
                                                       +-- dedup_ledger <----+   +--> orders.v1.dlq
                                                                                 +--> commit offsets
```

| Component | State it keeps | Operations | Talks to | What makes it correct |
|---|---|---|---|---|
| run loop, `processor/service.py` | `_running`, `_pending`, `_pending_ids`, `_last_flush`, `_last_record_at` | `_tick`, `_accumulate`, `_should_flush`, `_flush`, `_advance_idle_watermark`, `run`'s `finally`, purge timer | all others, in one thread | transaction, then DLQ, then snapshot, then memory, then offsets; nothing lost or repeated when that is cut anywhere |
| consumer group, `service.py`, `kafka_io.py` | per instance: assignment, positions; at the broker: owners, committed offsets | `_on_assign`, `_on_revoke`, inside `consume`; `on_lost` is not registered | the other instances, through the broker and the ledger | a handover loses nothing and repeats nothing; no offset goes back |
| pipeline, `processor/pipeline.py` | none beyond `_unknown_fields_seen`; builds a `BatchResult` | `process`, `_parse`, `_route`, `_record_handled` | dedup, windows | every record ends in exactly one outcome, and every outcome leaves a trace |
| dedup, `dedup.py` | an LRU of event ids; the ledger through a callback | `filter_batch`, `commit` | ledger table | keeps the first copy of what neither tier knows; memory never claims what the ledger does not hold |
| windows, `windowing.py`, `models.py` | watermark; per (bucket, merchant): running totals, users, flushed totals, dirty | `add`, `advance_on_idle`, `pending_deltas`, `close_expired`, `mark_flushed` | run loop | deltas add up to the events; windows close on time, once, and are few |
| sink, `store/repository.py`, `store/sql` | seven tables | `flush`, `known_event_ids`, `purge_dedup_ledger` | Postgres | all or nothing; additive, idempotent where it must be |
| Kafka adapters, `processor/kafka_io.py` | producer queue | `publish`; client options | broker | a dead letter is on the topic before its offset is committed |
| decoding, `codec.py`, `contract.py` | the loaded contract | `decode`, `violations`, `unknown_fields` | pipeline | refused records never block and never count |
| retention, `repository.py` | the age of ledger rows and of memberships | `purge_dedup_ledger`, in bounded batches | run loop's timer | nothing counts again while the ledger is meant to remember it |
| commands, `processor/cli.py` | `replayed_at` of the dead letters | `replay-dlq`; `init-db`, `run`, `health` | sink, broker, and the processor through the topic | a letter is republished once, and a record that still fails stays listed |
| generator, metrics, logging, configuration, containers | | | | support; not part of the delivery guarantee |

**What is hard here.** The process is one thread, so the difficulty is not a data
race; it is that four stores (Postgres, the consumer group's offset, the DLQ topic,
process memory) change one after another and the sequence can be cut at any
point, by a crash, or by an exception after which `run()` flushes *again* in its
`finally` block. The replay then meets memory that is empty, a watermark that starts
over, a ledger that knows some of the ids, and producer retries that look like
replays. Time enters in two ways: the event-time watermark, and wall clock
(idle advance, future skew, flush interval). Two more sequences run next to the loop:
the consumer group, in which the broker's view of who owns a partition and an
instance's own view differ for a while, and the replay of dead letters, which a
command selects, produces and marks in three places without a lock, into a topic
whose consumer drops what its ledger knows and a purge makes forget.
PROJECT.json lists each hazard at its line, with the properties that cover it.

## 2. Modules

| Module | Models | State and actions |
|---|---|---|
| `EventTime` | the rules of event time, without state | `WindowStartFor`, `IsWindowClosed`, `AdvanceWatermark`, `Classify` (the early returns of `add`, in order) |
| `ProcessorService` | one instance on one partition: loop, pipeline, both dedup tiers, window state, transaction, DLQ topic, offset | `pc` is where the loop stands; one action per stretch of the loop between two points where a cut matters |
| `ExactlyOnce` | the promise of `docs/delivery_semantics.md`, with no process, memory or failure in it | `Settle` (an event moves the aggregates once, or is refused), `Acknowledge` |
| `Group` | several instances on several partitions: assignment, revocation, expulsion, crash, and who writes and commits what | `owner` is the coordinator's view, `mem[m].owns` the instance's; an instance takes one record per poll and flushes in two steps |
| `Replay` | dead letters republished by `replay-dlq`, and a group set back, against the ledger and its purge | `Consume`, `Purge`; `Select`, `Produce`, `Deliver`, `Finish`, `FinishTimeout`, `Abort` per command; `Restart`, `Seek`, `Fix` |
| `Windowing` | the arithmetic: every column of a row, `window_user`, revision, first and last event | `Add`, `AdvanceOnIdle`, `Flush`, `FlushFails`, `Restart`, `Purge` of old memberships |
| `Dedup` | `LruSet` with its order, `filter_batch` with its counters, `commit`, and how the service calls them | `Process`, `Flush`, `FlushFails`, `Restart` |
| `DedupMemory` | the LRU as a set: what `ProcessorService` uses and `Dedup` shows to be sound | `CacheAfter` |
| `MC...` | instances for TLC | values of the constants |
| `ProcessorServiceProofs` | types, ledger and time in every reachable state; what the rules of event time imply; closed rows are final | theorems about `ProcessorService` and `EventTime` |
| `CommitProofs` | what the committed offset stands for | theorems about `ProcessorService` |
| `EffectProofs` | what an id in the ledger, a copy in the topic and a dead letter stand for; the service implements `ExactlyOnce` | theorems about `ProcessorService` and its refinement mapping |
| `GroupProofs` | handovers: what is committed, who writes, what counts once, what is refused; the group implements `ExactlyOnce` in each partition | theorems about `Group` |
| `ReplayProofs` | retention, delivery and the work list | theorems about `Replay` |
| `WindowingProofs` | rows are sums of their events; windows in memory; revisions | theorems about `Windowing` |
| `DedupProofs` | the LRU after any history, `filter_batch` on any batch | theorems about `Dedup` |
| `FoldLemmas` | induction over naturals and finite sets; folds as functions | what the two before rest on |

### ProcessorService and the code

| Action | Code |
|---|---|
| `Poll` | `consume` returns up to `max_batch_size` records; the position is past them at once |
| `Filter`, `FilterFail` | `process` up to `filter_batch`; the ledger query raising |
| `Route` | one iteration of the loop that calls `_route`; `now` is the same for a batch because `Tick` is enabled in `poll` only |
| `IdleTick`, `IdleAdvance` | `consume` returned nothing |
| `TickFlush`, `TickSkip` | `_should_flush`; whether the interval has elapsed is open |
| `FlushNothing`, `FlushWrite`, `FlushWriteFail`, `FlushAckLost` | `close_expired`, the deltas and `repository.flush`: nothing to do, committed, rolled back, committed with the answer lost |
| `Publish`, `PublishFail`, `PublishTimeout` | `dlq.publish`; `PublishFail` and `PublishTimeout` leave any subset of the letters on the topic |
| `MarkAndCommit`, `MarkAndCommitFail` | `mark_flushed`, `dedup.commit`, `consumer.commit`; a failed commit may or may not have reached the broker |
| `Stop`, `Crash`, `Restart` | the signal handler; SIGKILL; the supervisor |

An exception in any of them is `Raise`: `run()` leaves its loop, its `finally` block
flushes once more (`stopping`), and an exception out of that flush ends the process.
`_pending` is modelled by what the sink does with it: `pendIds` (the ledger is
keyed by id), `pendCount` (`len(_pending_ids)`, which `_should_flush` compares),
`pendLate` (a count per event, `late_events` has no unique key), `pendDead`
(offsets, `dlq_events` is unique per offset), `pendOffset`. `Filter` merges the
batch into it at its start rather than after the last `_route`: in between no other
action reads it, and no exception can occur there, a crash loses it either way.

What is abstracted: an event is its id, its contribution to a row is a
count per event (`total`, `flushed`, `agg`), so that a row is the bag of the events
added to it; `Windowing` has the columns. A record decodes to *garbage*
(undecodable, or refused without a usable id), *violating* (refused, with an id),
or a valid event. The LRU is the set of its ids. Metrics, logging and the text of
dead letters are left out. The clock counts seconds. `watermark is None` is
`NoWatermark`, a number below every time the code can compute; the three tests for
None treat it exactly so.

### Windowing and the code

`windows[k]` is a `WindowState`: `agg` its aggregate and users, `flushed` its
`flushed` and `flushed_users`. `DeltaOf` is `WindowState.delta`, `Inserted` and
`Upserted` are the two halves of `UPSERT_AGGREGATE`, `Recounted` is
`RECOUNT_DISTINCT_USERS`. The whole flush is one step here, because
`ProcessorService` has its parts. `FlushFails` keeps the process going, which is what `_on_revoke`
does with a failed flush. A second addition of an id within one flush interval
(finding 1) is excluded by `Add`'s guard: this module is about arithmetic, and
events arrive as `filter_batch` promises them.
`Purge` is the second half of `purge_dedup_ledger`: it deletes memberships by the
wall-clock age of their window, so the `distinct_users` of a row that is fed after that
counts from what is left. `RowsAreTheSumOfTheirEvents` therefore leaves that one
column of a purged row out (`purged`), and nothing else.
The variables `held`, `counted`, `late`, `purged`, `restarted` are history; no guard reads them.

### Group and the code

| Action | Code |
|---|---|
| `Poll` | `consume` by the client's view of the assignment, then `filter_batch` and `_route`, of one record |
| `IdleAdvance` | `_advance_idle_watermark`, when the partitions the instance owns hold nothing more to read |
| `Write`, `WriteFail`, `FlushNothing` | `close_expired`, the deltas, `repository.flush`, `mark_flushed` |
| `Commit`, `CommitRefused` | `consumer.commit`: the positions of *all* owned partitions; refused by the broker after an expulsion, by the client when it owns none |
| `Assign` | `_on_assign`: `incremental_assign`, position at the committed offset, memory kept |
| `Revoke`, `Return` | `_on_revoke`: flush, exception swallowed, `incremental_unassign` of the partitions given up |
| `Expel`, `Lost` | the coordinator gives up on an instance; when it hears of it, `_on_revoke` again, because `on_lost` is not registered |
| `Crash` | SIGKILL, and the start that follows |

The callbacks run inside `consume`, before it returns records, so they are steps of an
instance in `poll` (an exception out of a flush in `_on_revoke` does not reach `run`). A
flush is the transaction and the commit here; its finer cuts are `ProcessorService`'s. The
memory tier of dedup is left out: by `CacheIsLedgered`, proved below, what it knows
the ledger knows. Unflushed contributions survive a handover in the memory of the
instance that gave the partition up. So do flushed windows: the comment in
`on_revoke` says the state of the revoked partitions is thrown away, but
`incremental_unassign` touches the client only. They hold no delta, and what their
old owner can still do is set `is_closed`, which is left out (section 6).

### Replay and the code

| Action | Code |
|---|---|
| `Consume` | a batch of one record with its flush: `_parse` refuses (letter, ledger row), dedup drops, or the event is applied, or is too late (letter, ledger row) |
| `Purge` | `purge_dedup_ledger`: any subset of the expired rows, since it deletes in batches |
| `Select`, `Produce` | the query of `replay-dlq`, then `produce` and `UPDATE ... SET replayed_at` per row; an update waits for another command that holds the row |
| `Deliver` | librdkafka's background thread |
| `Finish`, `FinishTimeout`, `Abort` | `flush(30.0)` and the commit of the connection's block; the flush giving up; an exception or a kill |
| `Seek` | a group set back to the start (`docs/runbook.md`, rebuilding) |
| `Fix` | what the runbook asks for before a replay: the cause repaired, the service restarted |

A record is its payload, and a replayed letter is the same record at a new offset, which
is what the code produces (key, value, no new id). `--reason` and `--limit` make the selection
any subset of the letters not replayed; `--dry-run` changes nothing. Time is counted in
units of which `Retention` make up `dedup_ledger_retention_hours`.

## 3. Runs

All runs but the replay ones use `NoWatermark = -10`. In the service and group runs windows
are two seconds long, lateness and skew one second.

| Run | Question | Bounds | Result |
|---|---|---|---|
| `service_faults` | which promise survives which fault? | 6 topics of 3 records (on time, late, too late, future, violating twice, garbage, retries one and two records apart), batches of 1 or 2, memory of 1 id, clock 0..3, every kind of fault, 2 faults | about 1.5 million states, holds |
| `service_exactly_once` | does the service implement `ExactlyOnce`, and does it work the partition off? | 4 topics of distinct records, crash / stop / failed offset commit, 2 faults, clock 0..2 | about 147 000 states, holds |
| `windowing` | do the columns add up, does the revision mean what it says? | 5 events in 3 windows of one merchant, 2 users and one event without, lateness = window = 2, retention 2, clock 0..5, any number of failed flushes, restarts and purges | about 259 000 states, holds |
| `dedup` | are the LRU and `filter_batch` what they should be? | 4 ids, one of them refused; memory of 2; all batches up to 3; 5 ids committed per process | about 42 000 states, holds |
| `group` | what does a handover keep, who writes, and does each partition see `ExactlyOnce`? | 2 instances, 2 partitions, 3 events of which one closes the window of the two others, 1 fault (crash, expulsion, rolled back flush), 1 revocation or idle advance | about 391 000 states, holds |
| `replay` | which letters can be replayed, and for how long does nothing count again? | 2 topics of 2 and 3 records, 2 commands, 2 faults (abort, timeout, restart, set back), retention 1, clock 0..2 | about 1.7 million states, holds |
| `group_expelled`, `replay_silent` | statements of the documentation the code does not keep | one expulsion; no fault | violated, section 5 |
| `service_retry` ... `service_quiet` | statements of the documentation the code does not keep | one fault at most | violated, section 5 |

**Why the bounds are enough.** Two faults are what the interesting sequences need:
a first that diverts the loop into the `finally` flush or a replay, and a second
that hits that flush or replay. Three records suffice for an earlier batch that is
pending, a batch in flight, and a record behind both; for a window, an event
that closes it, and one that comes after. A memory of one id forces eviction at
the second. The clock reaches the end of every window plus lateness. In `windowing`
the three windows and lateness of one window reach the bound of `LiveWindowsAreFew`
(two live windows) with equality. The dedup run has more ids than the memory and
batches longer than the memory. In `group` the two instances share two partitions, so that one
of them owns both, or one each, and partitions change hands with contributions unflushed
on either side; a third instance or partition adds no new relation between an owner, an
ex-owner and a partition. The same run with two faults (12.7 million
states) passes as well, but takes too long to be kept. In `replay` the clock passes the retention once, two
commands are what overlapping needs, and two faults allow a replay that is aborted, tried
again and read again by a group that has been set back.

**Properties.** Where a kind of fault breaks a promise, the invariant names it
(`"lookup" \notin seen => ...`), so the run shows the promise under all *other*
faults, and the runs of section 5 show the exception is needed.

- `AppliedIsLedgered`, `CacheIsLedgered`: the same-transaction rule and its
  counterpart in memory; under every fault.
- `CommittedIsHandled`: every record at or below the committed offset is in the ledger
  or in `dlq_events`, and the checkpoint is not behind; under every fault but
  an exception out of the ledger query.
- `LedgeredHasEffect`: an id in the ledger has an effect somewhere; under every fault but a
  rolled back transaction.
- `AtMostOncePerCopy`: replays never inflate a row or `late_events`; exceptions after
  the transaction excluded. "Per copy", because producer retries can count
  (finding 1).
- `RefusedReachesDlqTopic`: for garbage and violating records the letter is on the
  topic before the offset is committed, also after crashes, because `_parse` does not ask
  the ledger.
- `EveryLetterLands`: the same of *every* row of `dlq_events`. The letters of too-late and future
  events go through dedup, so a crash or an exception between the transaction and the
  publish leaves a row without a message: those faults are excluded.
- `NoPrematureClose`: watermark, skew guard, lateness and idle advance together
  never close a row before its time by wall clock.
- `ClosedRowIsFinal`: without faults, a closed row never changes.
- `ImplementsExactlyOnce`: the refinement. `agg`, `dlq_events` and the committed offset
  play `applied`, `refused`, `acknowledged`; the flush transaction is `Settle`, the
  offset commit `Acknowledge`, the rest stutters.
- `EventuallyCommitted`: after finitely many faults the partition is worked off.
- `RowsAreTheSumOfTheirEvents`, `HeldIsUnflushed`: each row equals the aggregate of the
  events it stands for, computed at once; each accepted event not in a row is in
  its window's unflushed part.
- `LiveWindowsAreFew`: at most `ceil(lateness / window) + 1` live windows per merchant
  after eviction. With the defaults that is six; the comment in `windowing.py:308-310`
  says five.
- `RestatementIsVisible`, `FillingIsNotARestatement`: a row known to a reader changes
  behind the checkpoint's watermark exactly when its revision moves. Without a restart:
  afterwards the watermark starts over.
- `MemoryIsTheMostRecent`, `FilterKeepsFirstUnknown`: against references computed from the
  whole history and the whole batch. `PendingIsUnknown`: nothing let through is in the
  ledger. `MemoryIsCacheAfter`: the set abstraction is sound.

- `CommittedIsHandled` (`Group`): under every fault, including expulsions, an offset is committed
  only over records that are in the ledger, although `_on_revoke` commits the positions
  of partitions it does not give up. `OffsetsNeverGoBack`: an expelled instance commits nothing over its
  successor.
- `SingleWriter`, `CountedOnce`: what an instance has yet to write belongs to a partition
  it owns, and no event counts twice. An expulsion breaks both (finding 5), and so does
  a flush that fails inside `_on_revoke`, after which the partition is given up with its
  contributions still held. `LedgeredHasEffect` (`Group`) holds under expulsions too.
- `RefusedIsLate`: an event is refused for what its own partition said before it. The watermark
  belongs to the instance: reading two partitions with one watermark, or an idle
  advance in front of a backlog, breaks it, and so does a failed flush; those are excluded
  by name (`"shared"`, `"idle"`, `"write"`).
- `HandoversKeepThePromise`: `Promise(p)` is `ExactlyOnce` for the partition `p`, with all instances
  together as its processor: rows restricted to the events of `p` are its effects, the offsets of
  refused records its refusals, the committed offset its acknowledgement. While the group is `Calm` every step of it
  is a step or a stutter of each of these machines; a transaction may settle records of several
  partitions at once. Beyond `CountedOnce` and `LedgeredHasEffect` it says that no event is both counted
  and refused, that neither is taken back, and that a commit comes after them.
- `EventuallyCommitted` (`Group`): after the faults and moves every partition is worked off.
- `StaysListed`: a record that would be refused again is on the work list, on the topic, or
  held by a running command. `ReplayedIsDelivered`: `replayed_at` means the letter is on the
  topic. Both need `flush(30.0)` not to give up, since its result is not read.
- `ReplayedOnce`: a letter is republished once, unless commands overlap or abort.
- `ProtectedForRetention`: whatever is replayed, set back and purged, a record counts again
  only when more than the retention has passed since it last did.

**Fairness** (`FairSpec` of `ProcessorService`). `WF(Loop)`: a running process executes. `WF(Restart)`:
`restart: unless-stopped` in `docker-compose.yml`. `SF(Poll)`: `consume` returns
records again and again if there are any, although it may time out in between.
`SF(TickFlush)`: the flush interval elapses however often a tick is too early for it; the choice
between `TickFlush` and `TickSkip` is a comparison of clocks. `SF(IdleAdvance)`: the
same of the idle interval. `SF(Tick)`: time passes. No fault is ever required
to happen. In `Group`: `WF(Run(m))`, every instance keeps running its loop;
`SF` of assigning a partition nobody owns, since the coordinator completes a rebalance when there is an
instance to take part in it. Nothing forces a revocation, an idle advance or a fault.

Deadlock is checked in the service, windowing and dedup runs. In the group and replay runs it
is not (`CHECK_DEADLOCK FALSE`): instances that have worked the partitions off, with the
bounds on faults and moves used up, have nothing to do, and neither have commands that have ended.

## 4. Proofs

These hold for every value of the constants: topics, batch and memory size, window settings,
retention, instances and partitions, commands, sets of faults and the bounds on faults, moves and clock:

| Module | Theorem | Property |
|---|---|---|
| `ProcessorServiceProofs` | `Invariance` | `Spec => []IInv` |
| | `TypeCorrect` | `TypeOK` |
| | `RowsAreLedgered` | `AppliedIsLedgered` |
| | `MemoryIsLedgered` | `CacheIsLedgered` |
| | `RowsCloseInTime` | `NoPrematureClose` |
| | `FinalInvariance` | `Spec => []FinalInv` |
| | `ClosedRowsAreFinal` | `ClosedRowIsFinal`, an action property |
| | `LateBandIsOneWindow` | a late event that is accepted is less than one window behind the watermark (`windowing.py:21-23`) |
| `CommitProofs` | `CommitInvariance` | `Spec => []CommitInv` |
| | `CommitsAreHandled` | `CommittedIsHandled` |
| | `RefusedLettersLand` | `RefusedReachesDlqTopic` |
| `EffectProofs` | `RecordedIsApplied` | `LedgeredHasEffect` |
| | `AppliedPerCopy` | `AtMostOncePerCopy` |
| | `LettersLand` | `EveryLetterLands` |
| | `ServiceIsExactlyOnce` | `ImplementsExactlyOnce`, assuming `NoRetries` and `Survivable` |
| `GroupProofs` | `TypeCorrect` | `TypeOK` of `Group` |
| | `CommitsAreHandled` | `CommittedIsHandled` of `Group` |
| | `OffsetsStand` | `OffsetsNeverGoBack`, an action property |
| | `OneWriter` | `SingleWriter` |
| | `EventsCountOnce` | `CountedOnce` |
| | `LedgerSpeaksTrue` | `LedgeredHasEffect` of `Group` |
| | `GroupKeepsThePromise` | `HandoversKeepThePromise`: `Group` implements `ExactlyOnce` in each partition while `Calm` |
| | `RefusalsAreLate` | `RefusedIsLate` |
| `ReplayProofs` | `TypeCorrect` | `TypeOK` of `Replay` |
| | `RetentionProtects` | `ProtectedForRetention`, an action property |
| | `MarkedLettersLand` | `ReplayedIsDelivered` |
| | `LettersGoOnce` | `ReplayedOnce` |
| | `RefusedStaysListed` | `StaysListed` |
| `WindowingProofs` | `Invariance` | `Spec => []IInv` of `Windowing` |
| | `TypeCorrect` | `TypeOK` of `Windowing` |
| | `RowsAreSums` | `RowsAreTheSumOfTheirEvents` |
| | `HeldInMemory` | `HeldIsUnflushed` |
| | `FewLiveWindows` | `LiveWindowsAreFew` |
| | `RestatementsShow` | `RestatementIsVisible`, an action property |
| | `RevisionsAreRestatements` | `FillingIsNotARestatement`, an action property |
| `DedupProofs` | `Invariance` | `Spec => []IInv` of `Dedup` |
| | `TypeCorrect` | `TypeOK` of `Dedup` |
| | `MostRecent` | `MemoryIsTheMostRecent` |
| | `FilterKeeps` | `FilterKeepsFirstUnknown`, whatever the two tiers hold |
| | `PendingUnknown` | `PendingIsUnknown` |
| | `MemoryIsOneOfTheSets` | `MemoryIsCacheAfter`, an action property |

The assumptions are those on the constants (`EventTimeAssumption`,
`DedupMemoryAssumption`, `ServiceAssumption`, `GroupAssumption`, `ReplayAssumption`,
`WindowingAssumption`, `DedupAssumption`): times are naturals, sizes positive, the field constraints of
`config.py`, the sets of events and ids finite; in `Group`, a topic holds each id once.

**The argument.** Neither ledger invariant is inductive: a transaction adds whatever
the windows hold beyond their snapshot, and why should those ids be in the ledger
afterwards? Because of `UnflushedIsPending`: a contribution that is not yet
snapshotted has its id in `_pending_ids`, which only a completed flush clears, in
the step that takes the snapshot. The memory tier is sound because of
`WrittenIsLedgered`: from the transaction to the offset commit, the pending ids are in
the ledger. `NoPrematureClose` needs `WatermarkIsSound`: the watermark plus lateness never
passes the clock plus skew, because `Classify` refuses skewed events before the
watermark hears of them and the idle advance uses the clock. `FreshIsValid` makes
routing well typed. `IInv` is their conjunction; there is one step per action,
and the four families of conjuncts (types, routing, ledger, time) have a lemma each.

*The commit.* What is committed is the consumer's position, so an invariant about
the committed offset has to follow every record from the moment `consume` hands it out.
`PositionIsKept` does: a record at or below the position is in the batch, waiting to
be routed, pending, or on record. That a duplicate dropped by `filter_batch` is kept
too needs the first copy of its id in the batch, which exists because a set of
offsets has a least element (`FirstOffset`, from the well-foundedness of `<`).
`StagesAreEmpty` says that the first two are empty when the loop reaches the commit,
`WrittenIsOnRecord` that the third has just been written, `CheckpointFollows` that
the checkpoint has come along. A restart puts the position back to the committed
offset, where `CommittedIsHandled` itself re-establishes `PositionIsKept`: the two
are proved together. An exception out of the ledger query empties the batch with
nothing pending for it, which is the one way out of `PositionIsKept` and finding 3.
`LettersAreKept` is the same argument for the DLQ topic.

*Closed rows.* `ClosedIsSettled`: the watermark is past the window of a closed row and
memory holds nothing for it. It is kept because the watermark never moves back
(`WatermarkIsMonotone`), because an accepted event belongs to an open window
(`AcceptedIsOpen`), and because eviction drops a window with all it holds. `RunsOn`
excludes the restart, which is the step that breaks it: the watermark starts over.

*Effects* (`EffectProofs`). That an id in the ledger has had an effect is not inductive
for the same reason as above, the other way round: the transaction adds ids, and where
are their contributions? `PendingHasEffect`: a pending id carries one, unflushed in a window, in
`late_rows` or in `dead_letters`. Eviction keeps it because the transaction and the
eviction are one step unless the transaction fails (`"sink"`, finding 2).

*At most once per copy.* The applications of an event are charged to offsets (`Room`). Until its
id is in the ledger an event has been applied at most once for every offset this
process has put through (`Through`: read, and neither in the batch nor waiting for
`_route`); once it is there, at most once per copy in the topic, and nothing lets it through again
(`FreshIsNew`, kept because the transaction is written with nothing in between,
`StagesAreEmpty`). `RowWeight` counts what is in the row and, until the transaction, what the windows
hold beyond it, so the flush moves weight from memory to the store without changing it. A
restart empties memory, where `Through` starts over with the committed offset, and by
`LateIsLedgered` and `AppliedIsLedgered` an event not in the ledger has no weight left.

*Letters* (`OutInv`). A letter in `dlq_events` is on the topic or is about to be published; one
still pending although its offset is committed (the answer to the commit was lost) has
been published already.

*The refinement* has two assumptions beside those on the constants, the ones its run makes:
`NoRetries` (a topic holds a valid id once) and `Survivable` (the faults are crashes,
shutdowns, failed offset commits and publish timeouts; findings 1 and 2 show why retries and rolled back
transactions are left out). The transaction is `Settle` for all events with a delta and all
letters that are pending, the offset commit is `Acknowledge`, every other step a stutter. `Settle`
may take an event only if it is not settled: with one copy per id `CopyInv` leaves no room for a second
application. What it refuses must never have counted: `RefusedHasNoRow`,
`ViolatingHasNoRow` and `LateHasLetter` say that an event is refused or applied and never both,
`LetterIsLedgered` and `LetterIsThrough` that a valid event with a letter is not
let through again.

*Handovers.* `CommitInv` of `Group` says of every instance what `PositionIsKept` says of
one (`PositionsAreKept`), and `OwnersAreNotBehind`: an owner's position is not behind what
is committed, which a broker that refuses expelled instances keeps true. Each way out of
a flush (`Return`, `Raise`) is dealt with once, in `EndsKept`, `EndsUncommitted`.
For `OneWriter` and `EventsCountOnce` the invariant `OnceInv` holds while `Calm`: the two views of the
assignment agree, an id that waits was read from a partition its instance still owns
(`NewIsRead`), so no two instances wait with the same id and none reads it again
(`OneWaits`, `NextIsNew`), because the topic holds it at one place (`OnePlace`).

For `GroupKeepsThePromise` the mapping needs more than that: `Divided` says that a refusal on record is in the ledger
and has no row, and that one that waits is not held for a row as well and is on record as soon as the ledger
has it. `WriteSettles` names the sets `A` (held for a row) and `R` (refused) of `Settle`, and
`CommitAcknowledges` gets from `CommittedIsHandled` and `EffectInv` that all up to the new offset is settled. Every
other step is a stutter of the machine.

`RefusalsAreLate` needs no agreement about owners, and so holds in spite of expulsions. While
`OneSource`, the watermark of an instance is the time of a record of the one partition it
heard (`Set`), up to which it has kept everything: a record it has not read yet comes after
that one (`NextIsBehindSource`).

*Replays.* `RememberedOrOld`: a record that counted is in the ledger with a time not before it,
or is older than the retention; memory adds only what was in the ledger. For the command,
`DeliveryInv` follows a letter from the mark through the queue to its copy on the topic,
and `OnceInv` shows while `Alone` that what has been delivered is marked by the only command
that runs, or replayed. `StaysListed` is the argument of the last copy: of the copies of a
refused record the one with the greatest offset (`LastOffset`) is either unread, or was refused
when it was read and has a letter (`RefusedHasLetter`); were that letter replayed, there would be a
later copy.

*Sums and rows* (`WindowingProofs`). A row is written from differences of snapshots, so that it equals
the sum of its events has to be shown of each column along the whole way: aggregate, delta, upsert.
`Says`, `Adds` and `Totals` state what the three say of a set of events (counts, sums, first and last
time, users), `SaysApply`, `DeltaAdds` and `UpsertTotals` how one step of each carries it over. The
invariant (`WindowsStand`) names for each window in memory the events `F` its snapshot stands for:
the aggregate is that of `F` and the unflushed ones (`Stands`). `F` is part of what the row counts and need
not be all of it, because an evicted window that is opened again, or one of a new process, starts
from nothing. The distinct users do not add up that way, which is why the code recounts them;
`MembersStand` says that `window_user` holds the users of the events in rows, less what a purge took.
For the revision, `CheckpointIsBehind`: what is held and not late is not behind the watermark that
readers know. `LiveWindowsAreFew` follows from `WindowsReached` (a live window begins no later than the
last accepted event) by counting multiples of the window size in an interval.

*The memory list* (`DedupProofs`). `LruStands(l, C)`: after the ids of `C`, one after the other,
the list `l` is ordered by their last occurrences in `C`, everything that is not in it occurred earlier than
everything that is, and it is full or holds all. One addition keeps that, whether the id moves to the
end, replaces the oldest or finds room (`ShiftStands`, `AppendStands`), hence the loop does
(`UpdateStands`). `MemoryIsTheMostRecent`, that no id is held twice, and that a set is a sound abstraction are
read off it. For `filter_batch`, `Sorted` says after every event which places of the batch so far
went into which of the four outcomes. It holds whatever the tiers contain.

*Induction over data* (`FoldLemmas`). The sums, the LRU loop and the filter loop are folds of the
community modules, and what they compute is proved for all inputs by induction. The induction
theorems of the library cannot be used, as their statements take an operator; the ones in `FoldLemmas` are
about a *set* of the numbers, or of the finite sets, for which the claim holds, and are proved from the
least counterexample. `FoldExists` shows that the function a fold is defined by exists,
so that the `CHOOSE` in the definition of the fold says something about it.

*Only model-checked:* liveness (`EventuallyCommitted` of `ProcessorService` and of `Group`), which is
out of the prover's reach together with ENABLED. Every invariant and every other action property that
the passing runs check is also proved; the refinement of one instance (`ServiceIsExactlyOnce`) under
the two assumptions its run makes, that of the group under those on the constants only.

## 5. Findings

Each is a run with `expect: violation` and an entry in PROJECT.json that quotes the
statement.

1. `service_retry`: a producer retry polled in a later batch of the same flush
   interval is counted twice. Ids let through are in neither tier until the flush.
2. `service_failed_write`: after a rolled back transaction the windows it was closing
   are gone, while their ids reach the ledger with the final flush: lost silently.
3. `service_failed_lookup`: after an exception out of the ledger query, the final flush
   commits the consumer's position, which includes the unprocessed batch.
4. `service_quiet`: the idle watermark passes the last windows but nothing flushes them,
   so they neither close nor leave memory.
5. `group_expelled`: an instance that has been expelled and has not noticed writes contributions
   of records that its successor has counted.
6. `replay_silent`: a record refused by the contract, repaired and replayed, is dropped as a
   duplicate, because refusing it put its id into the ledger: it counts nowhere and is
   off the list.

Three exclusions stand for behaviour of the same kind that the properties name rather than
a run of its own: `"dlq"` in `AtMostOncePerCopy` (after an exception out of the publish the
final flush adds the same deltas again), `"crash"`, `"ack"`, `"dlq"` in `EveryLetterLands` (a
cut between transaction and publish loses the message of a too-late or future event), and `seen = {}` in
`ClosedRowIsFinal` (after a restart the watermark starts over and closed rows change).

## 6. Not modelled, and the plan

Not modelled for good: the synthetic producer (random traffic without a protocol),
metrics and logging (write-only), reading the configuration, containers; of the sink the reading
views, the health query and `apply_schema`, which change no row.

Not modelled yet:

- the rules behind the verdicts of `decode`, `violations` and the model's validators. They are pure functions of one record; the models take the verdict as given.
- windows that an instance keeps after it gave their partition up. They hold no delta, but
  closing one sets `is_closed` by the watermark of the wrong instance.
- duplicates in the topic of `Group` (producer retries), which `ProcessorService` has.
