-------------------------- MODULE ProcessorService --------------------------
(***************************************************************************)
(* One processor instance: the run loop of processor/service.py around the *)
(* batch pipeline (processor/pipeline.py), the two dedup tiers (dedup.py), *)
(* the window state (windowing.py) and the transactional sink              *)
(* (store/repository.py), reading one Kafka partition.                     *)
(*                                                                         *)
(* The loop is single threaded, so an action is a stretch of the loop that *)
(* ends where something outside the process changes or where an exception  *)
(* or a crash would leave something behind: poll, parse + dedup, route one *)
(* event, decide to flush, write the transaction, publish dead letters,    *)
(* mark + commit offsets.  A crash can fall between any two of them.       *)
(*                                                                         *)
(* Data that no property tells apart is left out.  An event is its         *)
(* event_id; what it contributes to a window is kept per event: total[e]   *)
(* is how many times e has been added to its window's in-memory aggregate, *)
(* flushed[e] the part of it that the last snapshot recorded, agg[e] the   *)
(* part that the row in agg_orders_minute holds.  Every additive column of *)
(* the row is a sum over those contributions, so the delta the sink adds   *)
(* is total - flushed, event by event.                                     *)
(***************************************************************************)
EXTENDS EventTime, DedupMemory, Sequences, FiniteSets

CONSTANTS
    Events,       \* event ids that occur on the topic
    OccurredAt,   \* [Events -> Nat]: event time; a retry reuses id and payload
    MerchantOf,   \* event -> merchant_id, the aggregation key
    Violating,    \* events whose payload fails the contract but carries an id
    Garbage,      \* a record that does not decode (MalformedRecord)
    Topics,       \* the partition contents to start from
    MaxBatch,     \* settings.max_batch_size
    MaxClock,     \* bound of the model: the last second of wall clock
    Faults,       \* bound of the model: which faults the environment commits
    MaxFaults     \* bound of the model: how many of them, over the whole run

FaultKinds ==
    {"crash",     \* the process is killed between two steps
     "stop",      \* SIGTERM or SIGINT
     "lookup",    \* the ledger query of a batch raises
     "sink",      \* the flush transaction raises and is rolled back
     "ack",       \* the transaction commits but the client sees an exception
     "dlq",       \* publishing dead letters raises
     "timeout",   \* producer.flush(10.0) gives up with letters still queued
     "commit"}    \* committing the offsets raises

ASSUME ServiceAssumption ==
    /\ OccurredAt \in [Events -> Nat]
    /\ Violating \subseteq Events
    /\ Garbage \notin Events
    /\ Topics \subseteq Seq(Events \cup {Garbage})
    /\ MaxBatch \in Nat \ {0}
    /\ MaxClock \in Nat
    /\ Faults \subseteq FaultKinds
    /\ MaxFaults \in Nat

VARIABLES
    \* Kafka
    topic,        \* the partition: an immutable log, offsets 1..Len(topic)
    committed,    \* the consumer group's committed offset: the last one done
    dlqTopic,     \* offset -> how often its dead letter reached the DLQ topic
    \* Postgres
    agg,          \* agg_orders_minute: contributions per event
    closed,       \* the keys of the rows with is_closed
    ledger,       \* dedup_ledger
    lateEvents,   \* late_events: rows per event (no unique constraint)
    dlqTable,     \* dlq_events: offsets (unique per topic, partition, offset)
    checkpoint,   \* consumer_checkpoint.last_offset
    \* the process: consumer and loop
    pc,           \* where the loop stands
    stopping,     \* TRUE once run() has left the loop for its finally block
    position,     \* the consumer's position: the last offset handed out
    batch,        \* offsets returned by consume, before they are parsed
    fresh,        \* offsets of the batch still to be routed
    \* the process: window state and dedup memory
    watermark, windows, total, flushed, cache,
    \* the process: _pending and _pending_ids
    pending,      \* _pending is not None
    pendIds,      \* event ids of _pending.ledger_entries, and of _pending_ids
    pendCount,    \* len(_pending_ids), copies included
    pendLate,     \* _pending.late_rows: rows per event
    pendDead,     \* _pending.dead_letters: offsets
    pendOffset,   \* _pending.offsets: the highest offset in it
    \* the environment
    clock,        \* wall clock
    faults,       \* how many faults happened so far
    seen          \* and of which kinds (the properties say which one breaks what)

kafkaVars  == <<topic, committed, dlqTopic>>
storeVars  == <<agg, closed, ledger, lateEvents, dlqTable, checkpoint>>
loopVars   == <<pc, stopping, position, batch, fresh>>
windowVars == <<watermark, windows, total, flushed>>
pendVars   == <<pending, pendIds, pendCount, pendLate, pendDead, pendOffset>>
envVars    == <<clock, faults, seen>>
vars == <<kafkaVars, storeVars, loopVars, windowVars, cache, pendVars, envVars>>

Offsets == 1..Len(topic)
Zero    == [e \in Events |-> 0]

\* WindowKey: the time bucket and the merchant.
Key(e) == <<WindowStartFor(OccurredAt[e]), MerchantOf[e]>>

\* What a record decodes to.
IsGarbage(o)   == topic[o] = Garbage
IsViolating(o) == topic[o] \in Violating
IsValid(o)     == topic[o] \in Events \ Violating
-----------------------------------------------------------------------------
\* A process before its first tick has nothing in memory.
InitProcess ==
    /\ pc = "poll"
    /\ stopping = FALSE
    /\ position = 0
    /\ batch = {}
    /\ fresh = {}
    /\ watermark = NoWatermark
    /\ windows = {}
    /\ total = Zero
    /\ flushed = Zero
    /\ cache = {}
    /\ pending = FALSE
    /\ pendIds = {}
    /\ pendCount = 0
    /\ pendLate = Zero
    /\ pendDead = {}
    /\ pendOffset = 0

Init ==
    /\ topic \in Topics
    /\ committed = 0
    /\ dlqTopic = [o \in Offsets |-> 0]
    /\ agg = Zero
    /\ closed = {}
    /\ ledger = {}
    /\ lateEvents = Zero
    /\ dlqTable = {}
    /\ checkpoint = 0
    /\ InitProcess
    /\ clock = 0
    /\ faults = 0
    /\ seen = {}
-----------------------------------------------------------------------------
(***************************************************************************)
(* Polling and dedup.                                                      *)
(***************************************************************************)

\* consumer.consume returns records; the position moves past them at once,
\* whatever becomes of them.
Poll ==
    /\ pc = "poll"
    /\ ~stopping
    /\ \E n \in 1..MaxBatch :
         /\ position + n <= Len(topic)
         /\ batch' = (position + 1)..(position + n)
         /\ position' = position + n
    /\ pc' = "filter"
    /\ UNCHANGED <<kafkaVars, storeVars, stopping, fresh, windowVars, cache,
                   pendVars, envVars>>

\* filter_batch keeps the first copy in the batch of every id that neither
\* tier knows.  The ids of _pending are in neither tier.
KnownToMemory(e) == e \in cache

KnownDuplicate(e) == e \in cache \cup ledger

NewIn(offsets) ==
    {o \in offsets : /\ IsValid(o)
                     /\ ~KnownDuplicate(topic[o])
                     /\ \A p \in offsets : topic[p] = topic[o] => o <= p}

\* Variants of RefusedIn: undecodable bytes are skipped; a replay does not
\* repeat the dead letter of an id the ledger holds.
ViolatingIn(offsets) == {o \in offsets : IsViolating(o)}

NewlyRefusedIn(offsets) ==
    {o \in offsets : IsGarbage(o) \/ (IsViolating(o) /\ topic[o] \notin ledger)}

\* Records refused before dedup looks at them; neither tier is consulted.
RefusedIn(offsets) == {o \in offsets : IsGarbage(o) \/ IsViolating(o)}

\* Parse and deduplicate the batch, and start its BatchResult.  (The result is
\* merged into _pending when the batch is done; nothing can observe _pending
\* before that, and a crash loses both.)
Filter ==
    /\ pc = "filter"
    /\ fresh' = NewIn(batch)
    /\ pending' = TRUE
    /\ pendDead' = pendDead \cup RefusedIn(batch)
    /\ pendIds' = pendIds \cup {topic[o] : o \in ViolatingIn(batch)}
    /\ pendCount' = pendCount + Cardinality(ViolatingIn(batch))
    /\ pendOffset' = position
    /\ batch' = {}
    /\ pc' = "route"
    /\ UNCHANGED <<kafkaVars, storeVars, stopping, position, windowVars, cache,
                   pendLate, envVars>>

(***************************************************************************)
(* Routing: one event of the batch, in order.                              *)
(***************************************************************************)
Route ==
    /\ pc = "route"
    /\ \E o \in fresh :
         LET e       == topic[o]
             outcome == Classify(OccurredAt[e], watermark, clock)
         IN  /\ \A p \in fresh : o <= p
             /\ fresh' = fresh \ {o}
             /\ IF Accepted(outcome)
                THEN /\ windows' = windows \cup {Key(e)}
                     /\ total' = [total EXCEPT ![e] = @ + 1]
                     /\ watermark' = AdvanceWatermark(watermark, OccurredAt[e])
                ELSE UNCHANGED <<windows, total, watermark>>
             /\ pendLate' = IF outcome = "too_late"
                            THEN [pendLate EXCEPT ![e] = @ + 1] ELSE pendLate
             /\ pendDead' = IF Accepted(outcome) THEN pendDead
                                                 ELSE pendDead \cup {o}
             /\ pendIds' = pendIds \cup {e}
             /\ pendCount' = pendCount + 1
    /\ UNCHANGED <<kafkaVars, storeVars, pc, stopping, position, batch, flushed,
                   cache, pending, pendOffset, envVars>>

\* consume returns nothing: the rest of the tick only looks at the flush.
IdleTick ==
    /\ pc = "poll"
    /\ ~stopping
    /\ pc' = "route"
    /\ UNCHANGED <<kafkaVars, storeVars, stopping, position, batch, fresh,
                   windowVars, cache, pendVars, envVars>>

\* The same, after watermark_idle_seconds without a record.
IdleAdvance ==
    /\ pc = "poll"
    /\ ~stopping
    /\ watermark' = AdvanceWatermark(watermark, clock)
    /\ pc' = "route"
    /\ UNCHANGED <<kafkaVars, storeVars, stopping, position, batch, fresh,
                   windows, total, flushed, cache, pendVars, envVars>>

(***************************************************************************)
(* Deciding to flush.                                                      *)
(***************************************************************************)

\* What the in-memory windows hold beyond their last snapshot.
Delta(e) == total[e] - flushed[e]

DirtyWindows == {Key(e) : e \in {d \in Events : Delta(d) # 0}}

WindowsToFlush == DirtyWindows # {}

\* _should_flush returns early when this does not hold.  (Dirty windows alone
\* would not do: a record that is refused or a duplicate changes no window.)
SomethingToFlush == pending \/ DirtyWindows # {}

\* Either the flush interval has passed or max_batch_size ids are pending.
TickFlush ==
    /\ pc = "route"
    /\ fresh = {}
    /\ SomethingToFlush
    /\ pc' = "flush"
    /\ UNCHANGED <<kafkaVars, storeVars, stopping, position, batch, fresh,
                   windowVars, cache, pendVars, envVars>>

\* Nothing to flush, or too early for it.
TickSkip ==
    /\ pc = "route"
    /\ fresh = {}
    /\ ~SomethingToFlush \/ pendCount < MaxBatch
    /\ pc' = "poll"
    /\ UNCHANGED <<kafkaVars, storeVars, stopping, position, batch, fresh,
                   windowVars, cache, pendVars, envVars>>

(***************************************************************************)
(* The flush: close_expired, the deltas, one transaction, the DLQ topic,   *)
(* the snapshot and the dedup memory, and last the offsets.                *)
(***************************************************************************)

\* close_expired evicts these before anything is written.
Expired == {k \in windows : IsWindowClosed(k[1], watermark)}

KeepLive(f) == [e \in Events |-> IF Key(e) \in Expired THEN 0 ELSE f[e]]

EvictExpired ==
    /\ windows' = windows \ Expired
    /\ total' = KeepLive(total)
    /\ flushed' = KeepLive(flushed)

NothingToWrite == Expired = {} /\ DirtyWindows = {} /\ ~pending

\* Two wrong transactions: the ledger rows left to a transaction of their own,
\* and the final deltas of the windows just evicted left out.
TransactionWithoutLedger ==
    /\ agg' = [e \in Events |-> agg[e] + Delta(e)]
    /\ closed' = closed \cup Expired
    /\ lateEvents' = [e \in Events |-> lateEvents[e] + pendLate[e]]
    /\ dlqTable' = dlqTable \cup pendDead
    /\ checkpoint' = IF pending THEN pendOffset ELSE checkpoint
    /\ UNCHANGED ledger

TransactionOfLiveWindows ==
    /\ agg' = [e \in Events |-> agg[e] + KeepLive(total)[e] - KeepLive(flushed)[e]]
    /\ closed' = closed \cup Expired
    /\ ledger' = ledger \cup pendIds
    /\ lateEvents' = [e \in Events |-> lateEvents[e] + pendLate[e]]
    /\ dlqTable' = dlqTable \cup pendDead
    /\ checkpoint' = IF pending THEN pendOffset ELSE checkpoint

\* repository.flush: all of it or nothing.
Transaction ==
    /\ agg' = [e \in Events |-> agg[e] + Delta(e)]
    /\ closed' = closed \cup Expired
    /\ ledger' = ledger \cup pendIds
    /\ lateEvents' = [e \in Events |-> lateEvents[e] + pendLate[e]]
    /\ dlqTable' = dlqTable \cup pendDead
    /\ checkpoint' = IF pending THEN pendOffset ELSE checkpoint

\* Where the loop goes after a flush: on, or, in run()'s finally block, out.
Resume == pc' = (IF stopping THEN "dead" ELSE "poll")

\* An exception ends the loop; run()'s finally block flushes once more, and an
\* exception out of that flush ends the process.
Raise ==
    /\ pc' = (IF stopping THEN "dead" ELSE "flush")
    /\ stopping' = TRUE

Fault(kind) ==
    /\ kind \in Faults
    /\ faults < MaxFaults
    /\ faults' = faults + 1
    /\ seen' = seen \cup {kind}

FlushNothing ==
    /\ pc = "flush"
    /\ NothingToWrite
    /\ Resume
    /\ UNCHANGED <<kafkaVars, storeVars, stopping, position, batch, fresh,
                   windowVars, cache, pendVars, envVars>>

FlushWrite ==
    /\ pc = "flush"
    /\ ~NothingToWrite
    /\ EvictExpired
    /\ Transaction
    /\ pc' = "publish"
    /\ UNCHANGED <<kafkaVars, stopping, position, batch, fresh, watermark, cache,
                   pendVars, envVars>>

\* A failed write that has put its ids into the memory tier already.
FlushWriteFailRemembered ==
    /\ pc = "flush"
    /\ ~NothingToWrite
    /\ Fault("sink")
    /\ EvictExpired
    /\ cache' = cache \cup pendIds
    /\ Raise
    /\ UNCHANGED <<kafkaVars, storeVars, position, batch, fresh, watermark,
                   pendVars, clock>>

\* repository.flush raises: rolled back, but the expired windows are gone.
FlushWriteFail ==
    /\ pc = "flush"
    /\ ~NothingToWrite
    /\ Fault("sink")
    /\ EvictExpired
    /\ Raise
    /\ UNCHANGED <<kafkaVars, storeVars, position, batch, fresh, watermark, cache,
                   pendVars, clock>>

\* The transaction commits, and the connection breaks before the answer.
FlushAckLost ==
    /\ pc = "flush"
    /\ ~NothingToWrite
    /\ Fault("ack")
    /\ EvictExpired
    /\ Transaction
    /\ Raise
    /\ UNCHANGED <<kafkaVars, position, batch, fresh, watermark, cache, pendVars,
                   clock>>

\* dlq.publish produces every dead letter of the flush, then waits.
Delivered(offsets) ==
    [o \in Offsets |-> IF o \in offsets THEN dlqTopic[o] + 1 ELSE dlqTopic[o]]

\* A final flush that leaves the topic out.
PublishWhileRunning ==
    /\ pc = "publish"
    /\ dlqTopic' = IF stopping THEN dlqTopic ELSE Delivered(pendDead)
    /\ pc' = "mark"
    /\ UNCHANGED <<topic, committed, storeVars, stopping, position, batch, fresh,
                   windowVars, cache, pendVars, envVars>>

Publish ==
    /\ pc = "publish"
    /\ dlqTopic' = Delivered(pendDead)
    /\ pc' = "mark"
    /\ UNCHANGED <<topic, committed, storeVars, stopping, position, batch, fresh,
                   windowVars, cache, pendVars, envVars>>

\* produce() or the producer's queue raises; earlier letters may be out.
PublishFail ==
    /\ pc = "publish"
    /\ pendDead # {}
    /\ Fault("dlq")
    /\ \E sent \in SUBSET pendDead : dlqTopic' = Delivered(sent)
    /\ Raise
    /\ UNCHANGED <<topic, committed, storeVars, position, batch, fresh, windowVars,
                   cache, pendVars, clock>>

\* producer.flush(10.0) returns with letters undelivered: the count it returns
\* is not looked at.
PublishTimeout ==
    /\ pc = "publish"
    /\ Fault("timeout")
    /\ \E sent \in SUBSET pendDead : sent # pendDead /\ dlqTopic' = Delivered(sent)
    /\ pc' = "mark"
    /\ UNCHANGED <<topic, committed, storeVars, stopping, position, batch, fresh,
                   windowVars, cache, pendVars, clock>>

\* A flush that forgets the snapshot.
NotMarkedFlushed == UNCHANGED flushed

\* mark_flushed: every window left after close_expired is as persisted.
MarkFlushed == flushed' = total

\* consumer.commit commits the consumer's position, not pendOffset.  (Kafka
\* counts from the record to read next, as NextOffset would; the model counts
\* the last record done.)
NextOffset == position + 1

OffsetToCommit == position

MarkAndCommit ==
    /\ pc = "mark"
    /\ MarkFlushed
    /\ cache' \in CacheAfter(cache, pendIds)
    /\ committed' = OffsetToCommit
    /\ pending' = FALSE
    /\ pendIds' = {}
    /\ pendCount' = 0
    /\ pendLate' = Zero
    /\ pendDead' = {}
    /\ pendOffset' = 0
    /\ Resume
    /\ UNCHANGED <<topic, dlqTopic, storeVars, stopping, position, batch, fresh,
                   watermark, windows, total, envVars>>

\* consumer.commit raises, before or after the broker has taken the offset;
\* _pending is kept.
MarkAndCommitFail ==
    /\ pc = "mark"
    /\ Fault("commit")
    /\ MarkFlushed
    /\ cache' \in CacheAfter(cache, pendIds)
    /\ committed' \in {committed, OffsetToCommit}
    /\ Raise
    /\ UNCHANGED <<topic, dlqTopic, storeVars, position, batch, fresh, watermark,
                   windows, total, pendVars, clock>>

(***************************************************************************)
(* The ledger query raises inside process(): the records of the batch have *)
(* been consumed, its BatchResult is never accumulated.  Events already in *)
(* the LRU are not looked up.                                              *)
(***************************************************************************)
FilterFail ==
    /\ pc = "filter"
    /\ \E o \in batch : IsValid(o) /\ topic[o] \notin cache
    /\ Fault("lookup")
    /\ batch' = {}
    /\ Raise
    /\ UNCHANGED <<kafkaVars, storeVars, position, fresh, windowVars, cache,
                   pendVars, clock>>

(***************************************************************************)
(* The environment: signals, crashes, the supervisor's restart, and time.  *)
(***************************************************************************)

\* The signal handler only clears _running; the loop sees it between two ticks.
Stop ==
    /\ pc = "poll"
    /\ ~stopping
    /\ Fault("stop")
    /\ stopping' = TRUE
    /\ pc' = "flush"
    /\ UNCHANGED <<kafkaVars, storeVars, position, batch, fresh, windowVars, cache,
                   pendVars, clock>>

Crash ==
    /\ pc # "dead"
    /\ Fault("crash")
    /\ pc' = "dead"
    /\ UNCHANGED <<kafkaVars, storeVars, stopping, position, batch, fresh,
                   windowVars, cache, pendVars, clock>>

\* A new process, with empty memory, resumes from the committed offset.
Restart ==
    /\ pc = "dead"
    /\ pc' = "poll"
    /\ stopping' = FALSE
    /\ position' = committed
    /\ batch' = {}
    /\ fresh' = {}
    /\ watermark' = NoWatermark
    /\ windows' = {}
    /\ total' = Zero
    /\ flushed' = Zero
    /\ cache' = {}
    /\ pending' = FALSE
    /\ pendIds' = {}
    /\ pendCount' = 0
    /\ pendLate' = Zero
    /\ pendDead' = {}
    /\ pendOffset' = 0
    /\ UNCHANGED <<kafkaVars, storeVars, envVars>>

\* `now` is read once per batch, so time may stand still inside one.
Tick ==
    /\ pc = "poll"
    /\ clock < MaxClock
    /\ clock' = clock + 1
    /\ UNCHANGED <<kafkaVars, storeVars, loopVars, windowVars, cache, pendVars,
                   faults, seen>>
-----------------------------------------------------------------------------
Loop == \/ Poll \/ Filter \/ Route \/ IdleTick \/ IdleAdvance
        \/ TickFlush \/ TickSkip
        \/ FlushNothing \/ FlushWrite \/ Publish \/ MarkAndCommit

Failure == \/ FilterFail \/ FlushWriteFail \/ FlushAckLost
           \/ PublishFail \/ PublishTimeout \/ MarkAndCommitFail
           \/ Stop \/ Crash

Next == Loop \/ Failure \/ Restart \/ Tick

Spec == Init /\ [][Next]_vars

(***************************************************************************)
(* Fairness.  The process keeps executing and a supervisor restarts it.    *)
(* consume returns records again and again when there are any; the flush   *)
(* interval, the idle interval and the wall clock elapse however often the *)
(* loop does something else in between.  No fault is ever required.        *)
(***************************************************************************)
Fairness ==
    /\ WF_vars(Loop)
    /\ WF_vars(Restart)
    /\ SF_vars(Poll)
    /\ SF_vars(TickFlush)
    /\ SF_vars(IdleAdvance)
    /\ SF_vars(Tick)

FairSpec == Spec /\ Fairness
-----------------------------------------------------------------------------
\* The type invariant; it also bounds what can be pending by what has been
\* consumed.
TypeOK ==
    /\ topic \in Topics
    /\ committed \in 0..Len(topic)
    /\ dlqTopic \in [Offsets -> Nat]
    /\ agg \in [Events -> Int]
    /\ closed \subseteq {Key(e) : e \in Events}
    /\ ledger \subseteq Events
    /\ lateEvents \in [Events -> Nat]
    /\ dlqTable \subseteq Offsets
    /\ checkpoint \in 0..Len(topic)
    /\ pc \in {"poll", "filter", "route", "flush", "publish", "mark", "dead"}
    /\ stopping \in BOOLEAN
    /\ position \in 0..Len(topic)
    /\ batch \subseteq 1..position
    /\ fresh \subseteq 1..position
    /\ watermark \in Int
    /\ windows \subseteq {Key(e) : e \in Events}
    /\ total \in [Events -> Nat]
    /\ flushed \in [Events -> Nat]
    /\ cache \subseteq Events
    /\ pending \in BOOLEAN
    /\ pendIds \subseteq Events
    /\ pendCount \in Nat
    /\ pendLate \in [Events -> Nat]
    /\ pendDead \subseteq 1..position
    /\ pendOffset \in 0..position
    /\ clock \in 0..MaxClock
    /\ faults \in 0..MaxFaults
    /\ seen \subseteq Faults

\* How often the producers wrote e.
Copies(e) == Cardinality({o \in Offsets : topic[o] = e})

\* What each of the promises below says of a state.
HandledUpTo(n) == \A o \in 1..n : IF IsValid(o) THEN topic[o] \in ledger
                                                ELSE o \in dlqTable

HasEffect(e) == \/ agg[e] > 0
                \/ lateEvents[e] > 0
                \/ \E o \in dlqTable : topic[o] = e

NotInflated == \A e \in Events : agg[e] <= Copies(e)

(***************************************************************************)
(* Safety.  Where a kind of fault is known to break a promise, the         *)
(* invariant names it: in every behaviour without that kind, and with any  *)
(* of the others, the promise holds.                                       *)
(***************************************************************************)

\* The same-transaction rule (dedup.py:15-18, repository.py:1-17): whatever
\* fails, a contribution never reaches a row without its id in the ledger.
AppliedIsLedgered == \A e \in Events : agg[e] # 0 => e \in ledger

\* The memory tier never claims an id the ledger does not hold, so a hit in it
\* never drops an event that a rollback took back (dedup.py:141-146).
CacheIsLedgered == cache \subseteq ledger

\* Offsets are committed last (service.py:231-232): everything at or below the
\* committed offset is on record, and the checkpoint is not behind it.  An
\* exception out of the ledger query breaks this: the final flush commits a
\* position that includes the batch that was being processed.
CommittedIsHandled ==
    "lookup" \notin seen => HandledUpTo(committed) /\ committed <= checkpoint

\* An id in the ledger stands for an effect somewhere: its contribution, a
\* late_events row or a dead letter.  A failed transaction breaks this: the
\* windows it closed are evicted, their ids stay pending.
LedgeredHasEffect == "sink" \notin seen => \A e \in ledger : HasEffect(e)

\* Replays never inflate an aggregate, nor late_events: an event counts at most
\* once per copy the producers wrote.  An exception after the transaction has
\* committed breaks this for the aggregates (the deltas are not snapshotted) and
\* for late_events (_pending is kept).
AtMostOncePerCopy ==
    /\ seen \cap {"ack", "dlq"} = {} => NotInflated
    /\ seen \cap {"ack", "dlq", "commit"} = {} =>
           \A e \in Events : agg[e] + lateEvents[e] <= Copies(e)

\* kafka_io.py:101-102, for the records _parse refuses: the DLQ topic has the
\* letter before the offset is committed, unless producer.flush gave up.
RefusedReachesDlqTopic ==
    seen \cap {"lookup", "timeout"} = {} =>
        \A o \in 1..committed : ~IsValid(o) => dlqTopic[o] > 0

\* kafka_io.py:101-102, for every letter: the ledger hides a too-late or future
\* event from the replay that would publish its letter, so a crash or an
\* exception between the transaction and the publish breaks this, as does a
\* publish that gives up (delivery_semantics.md:121-123 says so).
EveryLetterLands ==
    seen \cap {"crash", "ack", "dlq", "timeout"} = {} =>
        \A o \in dlqTable : o <= committed => dlqTopic[o] > 0

\* A broken producer clock never closes windows early (windowing.py:143-148):
\* a row is closed only when its lateness allowance, less the tolerated skew,
\* is over by the wall clock.
NoPrematureClose ==
    \A k \in closed :
        k[1] + WindowSize + AllowedLateness <= clock + MaxFutureSkew

(***************************************************************************)
(* A closed row is never changed again by the process that closed it       *)
(* ("never resurrected", windowing.py:30-33), as long as nothing fails.    *)
(***************************************************************************)
ClosedRowIsFinal ==
    [][\A e \in Events :
          Key(e) \in closed /\ seen = {} => agg'[e] = agg[e]]_vars

\* Whatever finitely many faults happen, the partition is worked off.
EventuallyCommitted == <>[](committed = Len(topic))

(***************************************************************************)
(* The promise of docs/delivery_semantics.md, as the machine ExactlyOnce:  *)
(* the row contributions and the dead letters play its effects, the        *)
(* committed offset its acknowledgement.                                   *)
(***************************************************************************)
Promise == INSTANCE ExactlyOnce
               WITH log <- topic, applied <- agg, refused <- dlqTable,
                    acknowledged <- committed, Ids <- Events, Logs <- Topics

ImplementsExactlyOnce == Promise!Spec
-----------------------------------------------------------------------------
(***************************************************************************)
(* Statements of the documentation that the code does not keep; README.md  *)
(* gives the behaviour that breaks each one.                               *)
(***************************************************************************)

\* delivery_semantics.md:6-8 and 20: an event moves the aggregates once, a
\* producer retry seconds later is caught.
RetryIsCaught == \A e \in Events : agg[e] <= 1

\* failure_modes.md:77-78: after a failed write nothing is lost.
FailedWriteLosesNothing == \A e \in ledger : HasEffect(e)

\* config of the consumer, kafka_io.py:25-27: committing by hand never
\* acknowledges records the sink has not persisted.
CommitsOnlyPersisted == HandledUpTo(committed)

\* failure_modes.md:66-67: when a partition goes quiet its windows close.
QuietWindowsClose ==
    \A e \in Events : agg[e] > 0 ~> Key(e) \in closed
=============================================================================
