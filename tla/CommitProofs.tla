---------------------------- MODULE CommitProofs ----------------------------
(***************************************************************************)
(* Offsets are committed last (service.py:231-232): every record at or     *)
(* below the committed offset is on record, unless the ledger query of a   *)
(* batch has raised, and a refused record has its letter on the DLQ topic, *)
(* unless producer.flush gave up.                                          *)
(*                                                                         *)
(* What is committed is the consumer's position, so the invariant has to   *)
(* follow every record that was ever handed out: it is in the batch being  *)
(* parsed, waiting to be routed, pending, or on record (PositionIsKept).   *)
(* When the loop reaches the commit, the first two are empty (StagesAre-   *)
(* Empty) and the third has just been written (WrittenIsOnRecord).         *)
(***************************************************************************)
EXTENDS ProcessorServiceProofs, WellFoundedInduction

StagesAreEmpty ==
    /\ pc \notin {"filter", "dead"} => batch = {}
    /\ pc \notin {"route", "dead"} => fresh = {}

Kept(o) ==
    IF IsValid(o)
    THEN topic[o] \in ledger \cup pendIds \cup {topic[p] : p \in fresh}
    ELSE o \in dlqTable \cup pendDead

PositionIsKept ==
    "lookup" \notin seen => \A o \in 1..position : o \in batch \/ Kept(o)

WrittenIsOnRecord == pc \in {"publish", "mark"} => pendDead \subseteq dlqTable

\* The checkpoint is at the position, or a flush is pending that will move it
\* there.
CheckpointFollows ==
    "lookup" \notin seen /\ pc \notin {"filter", "dead"} =>
        /\ pending => pendOffset = position
        /\ ~pending \/ pc \in {"publish", "mark"} => position <= checkpoint

CommittedIsBehind == committed <= position

CommitInv ==
    /\ IInv
    /\ StagesAreEmpty
    /\ PositionIsKept
    /\ WrittenIsOnRecord
    /\ CheckpointFollows
    /\ CommittedIsBehind
    /\ CommittedIsHandled

\* The same for the DLQ topic.
LettersAreKept ==
    seen \cap {"lookup", "timeout"} = {} =>
        /\ \A o \in 1..position :
              ~IsValid(o) => o \in batch \/ o \in pendDead \/ dlqTopic[o] > 0
        /\ pc = "mark" => \A o \in pendDead : dlqTopic[o] > 0

LetterInv == CommitInv /\ LettersAreKept /\ RefusedReachesDlqTopic
-----------------------------------------------------------------------------
\* A set of offsets has a first one.
LEMMA FirstOffset ==
    ASSUME NEW T, T \subseteq Nat, T # {}
    PROVE  \E x \in T : \A y \in T : x <= y
<1> DEFINE R == OpToRel(<, Nat)
<1>1. \A a, b \in Nat : a < b => <<a, b>> \in R
  BY DEF OpToRel
<1>2. IsWellFoundedOn(R, Nat)
  BY NatLessThanWellFounded
<1> HIDE DEF R
<1>3. PICK x \in T : \A y \in T : <<y, x>> \notin R
  BY <1>2, WFMin
<1>4. \A y \in T : ~(y < x)
  BY <1>1, <1>3
<1>5. QED
  BY <1>3, <1>4

\* The topic is a log: nobody rewrites it, and a record stays what it is.
LEMMA TopicStands ==
    ASSUME Next
    PROVE  /\ topic' = topic
           /\ seen \subseteq seen'
           /\ \A o : IsValid(o)' <=> IsValid(o)
<1>1. topic' = topic
  BY DEF Next, Loop, Failure, Poll, Filter, Route, IdleTick, IdleAdvance,
         TickFlush, TickSkip, FlushNothing, FlushWrite, Publish, MarkAndCommit,
         FilterFail, FlushWriteFail, FlushAckLost, PublishFail, PublishTimeout,
         MarkAndCommitFail, Stop, Crash, Restart, Tick, kafkaVars
<1>2. CASE Failure
  BY <1>1, <1>2 DEF Failure, FilterFail, FlushWriteFail, FlushAckLost, PublishFail,
                    PublishTimeout, MarkAndCommitFail, Stop, Crash, Fault, IsValid
<1>3. CASE Loop \/ Restart \/ Tick
  BY <1>1, <1>3
     DEF Loop, Poll, Filter, Route, IdleTick, IdleAdvance, TickFlush, TickSkip,
         FlushNothing, FlushWrite, Publish, MarkAndCommit, Restart, Tick, envVars,
         IsValid
<1>4. QED
  BY <1>2, <1>3 DEF Next

LEMMA StagesStep == ASSUME StagesAreEmpty, Next PROVE StagesAreEmpty'
<1> USE DEF StagesAreEmpty
<1>1. CASE Poll \/ Filter \/ Route \/ FilterFail
  BY <1>1 DEF Poll, Filter, Route, FilterFail, Raise
<1>2. CASE IdleTick \/ IdleAdvance \/ TickFlush \/ TickSkip
  BY <1>2 DEF IdleTick, IdleAdvance, TickFlush, TickSkip
<1>3. CASE \/ FlushNothing \/ FlushWrite \/ FlushWriteFail \/ FlushAckLost
           \/ Publish \/ PublishFail \/ PublishTimeout
           \/ MarkAndCommit \/ MarkAndCommitFail \/ Stop
  <2>1. batch' = batch /\ fresh' = fresh /\ pc \notin {"filter", "route", "dead"}
    BY <1>3 DEF FlushNothing, FlushWrite, FlushWriteFail, FlushAckLost, Publish,
                PublishFail, PublishTimeout, MarkAndCommit, MarkAndCommitFail, Stop
  <2>2. QED
    BY <2>1
<1>4. CASE Crash
  BY <1>4 DEF Crash
<1>5. CASE Restart
  BY <1>5 DEF Restart
<1>6. CASE Tick
  BY <1>6 DEF Tick, loopVars
<1>7. QED
  BY <1>1, <1>2, <1>3, <1>4, <1>5, <1>6 DEF Next, Loop, Failure

\* filter_batch drops nothing that is not known (dedup.py:118-130): of every id,
\* the first copy in the batch is let through or the id is in the ledger.
LEMMA FilterKeeps ==
    ASSUME IInv, NEW o \in batch, IsValid(o)
    PROVE  topic[o] \in ledger \cup {topic[p] : p \in NewIn(batch)}
<1>1. CASE KnownDuplicate(topic[o])
  BY <1>1 DEF KnownDuplicate, IInv, CacheIsLedgered
<1>2. CASE ~KnownDuplicate(topic[o])
  <2> DEFINE copies == {p \in batch : topic[p] = topic[o]}
  <2>1. batch \subseteq Nat
    BY DEF IInv, TypeOK
  <2>2. PICK p \in copies : \A q \in copies : p <= q
    BY <2>1, FirstOffset
  <2>3. p \in NewIn(batch)
    BY <1>2, <2>2 DEF NewIn, IsValid
  <2>4. QED
    BY <2>2, <2>3
<1>3. QED
  BY <1>1, <1>2

\* What is kept stays kept where nothing is taken away.
LEMMA KeptStep ==
    ASSUME PositionIsKept, Next, position' = position, batch' = batch, fresh' = fresh,
           ledger \subseteq ledger', pendIds \subseteq pendIds',
           dlqTable \subseteq dlqTable', pendDead \subseteq pendDead'
    PROVE  PositionIsKept'
<1>1. topic' = topic /\ seen \subseteq seen' /\ \A o : IsValid(o)' <=> IsValid(o)
  BY TopicStands
<1>2. ASSUME "lookup" \notin seen', NEW o \in 1..position
      PROVE  o \in batch' \/ Kept(o)'
  <2>1. o \in batch \/ Kept(o)
    BY <1>1, <1>2 DEF PositionIsKept
  <2>2. CASE o \in batch
    BY <2>2
  <2>3. CASE Kept(o)
    BY <1>1, <2>3 DEF Kept
  <2>4. QED
    BY <2>1, <2>2, <2>3
<1>3. QED
  BY <1>2 DEF PositionIsKept

\* Before the commit, everything handed out is on record.
LEMMA MarkIsHandled ==
    ASSUME CommitInv, pc = "mark", "lookup" \notin seen
    PROVE  HandledUpTo(position) /\ position <= checkpoint
<1>1. batch = {} /\ fresh = {}
  BY DEF CommitInv, StagesAreEmpty
<1>2. pendIds \subseteq ledger /\ pendDead \subseteq dlqTable
  BY DEF CommitInv, IInv, WrittenIsLedgered, WrittenIsOnRecord
<1>3. \A o \in 1..position : Kept(o)
  BY <1>1 DEF CommitInv, PositionIsKept
<1>4. QED
  BY <1>1, <1>2, <1>3 DEF HandledUpTo, Kept, CommitInv, CheckpointFollows

LEMMA PositionStep == ASSUME CommitInv, Next PROVE PositionIsKept'
<1> USE DEF storeVars, pendVars, loopVars
<1>1. /\ topic' = topic /\ seen \subseteq seen' /\ \A o : IsValid(o)' <=> IsValid(o)
      /\ PositionIsKept /\ position \in Nat
  BY TopicStands DEF CommitInv, IInv, TypeOK
<1>2. CASE Poll
  <2>1. PICK n \in 1..MaxBatch :
           /\ batch' = (position + 1)..(position + n) /\ position' = position + n
           /\ UNCHANGED <<fresh, ledger, dlqTable, pendIds, pendDead>>
    BY <1>2 DEF Poll
  <2>2. batch = {}
    BY <1>2 DEF Poll, CommitInv, StagesAreEmpty
  <2>3. ASSUME "lookup" \notin seen', NEW o \in 1..(position + n), o \notin batch'
        PROVE  Kept(o)'
    <3>1. o \in 1..position
      BY <1>1, <2>1, <2>3, ServiceAssumption
    <3>2. Kept(o)
      BY <1>1, <2>2, <2>3, <3>1 DEF PositionIsKept
    <3>3. QED
      BY <1>1, <2>1, <3>2 DEF Kept
  <2>4. QED
    BY <2>1, <2>3 DEF PositionIsKept
<1>3. CASE Filter
  <2>1. /\ fresh' = NewIn(batch) /\ batch' = {} /\ position' = position
        /\ pendDead' = pendDead \cup RefusedIn(batch) /\ pendIds \subseteq pendIds'
        /\ ledger' = ledger /\ dlqTable' = dlqTable
    BY <1>3 DEF Filter
  <2>2. fresh = {}
    BY <1>3 DEF Filter, CommitInv, StagesAreEmpty
  <2>3. ASSUME "lookup" \notin seen', NEW o \in 1..position
        PROVE  Kept(o)'
    <3>1. CASE o \in batch /\ IsValid(o)
      <4>1. topic[o] \in ledger \cup {topic[p] : p \in NewIn(batch)}
        BY <3>1, FilterKeeps DEF CommitInv
      <4>2. QED
        BY <1>1, <2>1, <3>1, <4>1 DEF Kept
    <3>2. CASE o \in batch /\ ~IsValid(o)
      <4>1. o \in Offsets
        BY <3>2 DEF CommitInv, IInv, TypeOK, Offsets
      <4>2. topic[o] \in Events \cup {Garbage}
        BY <4>1, TopicFacts DEF CommitInv, IInv
      <4>3. o \in RefusedIn(batch)
        BY <3>2, <4>2 DEF RefusedIn, IsGarbage, IsViolating, IsValid
      <4>4. QED
        BY <1>1, <2>1, <3>2, <4>3 DEF Kept
    <3>3. CASE o \notin batch
      <4>1. Kept(o)
        BY <1>1, <2>3, <3>3 DEF PositionIsKept
      <4>2. QED
        BY <1>1, <2>1, <2>2, <4>1 DEF Kept
    <3>4. QED
      BY <3>1, <3>2, <3>3
  <2>4. QED
    BY <2>1, <2>3 DEF PositionIsKept
<1>4. CASE Route
  <2>1. PICK o \in fresh :
           /\ fresh' = fresh \ {o} /\ pendIds' = pendIds \cup {topic[o]}
           /\ pendDead \subseteq pendDead'
           /\ UNCHANGED <<position, batch, ledger, dlqTable>>
    BY <1>4 DEF Route
  <2>2. ASSUME "lookup" \notin seen', NEW q \in 1..position
        PROVE  q \in batch' \/ Kept(q)'
    <3>1. q \in batch \/ Kept(q)
      BY <1>1, <2>2 DEF PositionIsKept
    <3>2. QED
      BY <1>1, <2>1, <3>1 DEF Kept
  <2>3. QED
    BY <2>1, <2>2 DEF PositionIsKept
<1>5. CASE \/ IdleTick \/ IdleAdvance \/ TickFlush \/ TickSkip \/ FlushNothing
           \/ Publish \/ FlushWriteFail \/ PublishFail \/ PublishTimeout
           \/ MarkAndCommitFail \/ Stop \/ Crash \/ Tick
  <2>1. UNCHANGED <<position, batch, fresh, ledger, dlqTable, pendIds, pendDead>>
    BY <1>5 DEF IdleTick, IdleAdvance, TickFlush, TickSkip, FlushNothing, Publish,
                FlushWriteFail, PublishFail, PublishTimeout, MarkAndCommitFail, Stop,
                Crash, Tick
  <2>2. QED
    BY <1>1, <2>1, KeptStep
<1>6. CASE FlushWrite \/ FlushAckLost
  <2>1. /\ UNCHANGED <<position, batch, fresh, pendIds, pendDead>>
        /\ ledger \subseteq ledger' /\ dlqTable \subseteq dlqTable'
    BY <1>6 DEF FlushWrite, FlushAckLost, Transaction
  <2>2. QED
    BY <1>1, <2>1, KeptStep
<1>7. CASE MarkAndCommit
  <2>1. /\ pc = "mark" /\ UNCHANGED <<position, ledger, dlqTable, seen>>
    BY <1>7 DEF MarkAndCommit, envVars
  <2>2. "lookup" \notin seen => HandledUpTo(position)
    BY <2>1, MarkIsHandled
  <2>3. QED
    BY <1>1, <2>1, <2>2 DEF HandledUpTo, PositionIsKept, Kept
<1>8. CASE FilterFail
  BY <1>8 DEF FilterFail, Fault, PositionIsKept
<1>9. CASE Restart
  <2>1. /\ position' = committed /\ UNCHANGED <<ledger, dlqTable, seen>>
    BY <1>9 DEF Restart, envVars
  <2>2. "lookup" \notin seen => HandledUpTo(committed)
    BY DEF CommitInv, CommittedIsHandled
  <2>3. QED
    BY <1>1, <2>1, <2>2 DEF HandledUpTo, PositionIsKept, Kept
<1>10. QED
  BY <1>2, <1>3, <1>4, <1>5, <1>6, <1>7, <1>8, <1>9 DEF Next, Loop, Failure

LEMMA WrittenStep == ASSUME WrittenIsOnRecord, Next PROVE WrittenIsOnRecord'
<1> USE DEF storeVars, pendVars, loopVars, WrittenIsOnRecord
<1>1. CASE FlushWrite
  BY <1>1 DEF FlushWrite, Transaction
<1>2. CASE Publish \/ PublishTimeout
  BY <1>2 DEF Publish, PublishTimeout
<1>3. CASE Tick
  BY <1>3 DEF Tick
<1>4. CASE ~(FlushWrite \/ Publish \/ PublishTimeout \/ Tick)
  <2>1. pc' \notin {"publish", "mark"}
    BY <1>4 DEF Next, Loop, Failure, Poll, Filter, Route, IdleTick, IdleAdvance,
                TickFlush, TickSkip, FlushNothing, MarkAndCommit, FilterFail,
                FlushWriteFail, FlushAckLost, PublishFail, MarkAndCommitFail, Stop,
                Crash, Restart, Resume, Raise
  <2>2. QED
    BY <2>1
<1>5. QED
  BY <1>1, <1>2, <1>3, <1>4

\* What is committed does not pass the position, and the checkpoint comes along.
LEMMA CheckpointStep ==
    ASSUME CommitInv, Next
    PROVE  CheckpointFollows' /\ CommittedIsBehind'
<1> USE DEF storeVars, pendVars, loopVars, kafkaVars, CheckpointFollows, CommittedIsBehind
<1>1. /\ position \in Nat /\ committed \in Nat /\ checkpoint \in Nat
      /\ committed <= position /\ CheckpointFollows /\ seen \subseteq seen'
  BY TopicStands DEF CommitInv, IInv, TypeOK
<1>2. CASE Poll
  <2>1. PICK n \in 1..MaxBatch : position' = position + n
    BY <1>2 DEF Poll
  <2>2. committed <= position + n
    BY <1>1, ServiceAssumption
  <2>3. QED
    BY <1>2, <2>1, <2>2 DEF Poll
<1>3. CASE Filter
  BY <1>1, <1>3 DEF Filter
<1>4. CASE Route \/ IdleTick \/ IdleAdvance \/ TickFlush \/ TickSkip \/ FlushNothing \/ Stop
  BY <1>1, <1>4 DEF Route, IdleTick, IdleAdvance, TickFlush, TickSkip, FlushNothing,
                    Resume, Stop
<1>5. CASE FlushWrite \/ FlushAckLost
  <2>1. /\ checkpoint' = IF pending THEN pendOffset ELSE checkpoint
        /\ pc = "flush" /\ UNCHANGED <<position, committed, pending, pendOffset>>
    BY <1>5 DEF FlushWrite, FlushAckLost, Transaction
  <2>2. pc' \in {"publish", "flush", "dead"}
    BY <1>5 DEF FlushWrite, FlushAckLost, Raise
  <2>3. "lookup" \notin seen' => position <= checkpoint'
    <3>1. CASE pending
      BY <1>1, <2>1, <3>1
    <3>2. CASE ~pending
      BY <1>1, <2>1, <3>2
    <3>3. QED
      BY <3>1, <3>2
  <2>4. QED
    BY <1>1, <2>1, <2>2, <2>3
<1>6. CASE Publish \/ PublishTimeout \/ PublishFail
  BY <1>1, <1>6 DEF Publish, PublishTimeout, PublishFail, Raise
<1>7. CASE MarkAndCommit \/ MarkAndCommitFail
  <2>1. /\ committed' \in {committed, position} /\ position' = position
        /\ pc = "mark" /\ checkpoint' = checkpoint
    BY <1>7 DEF MarkAndCommit, MarkAndCommitFail, OffsetToCommit
  <2>2. "lookup" \notin seen' => position' <= checkpoint'
    BY <1>1, <2>1
  <2>3. committed' <= position'
    BY <1>1, <2>1
  <2>4. "lookup" \notin seen' => (pending' => pendOffset' = position')
    <3>1. pending' = FALSE \/ (pending' = pending /\ pendOffset' = pendOffset)
      BY <1>7 DEF MarkAndCommit, MarkAndCommitFail
    <3>2. QED
      BY <1>1, <2>1, <3>1
  <2>5. QED
    BY <2>2, <2>3, <2>4
<1>8. CASE FlushWriteFail
  BY <1>1, <1>8 DEF FlushWriteFail, Raise
<1>9. CASE FilterFail
  BY <1>1, <1>9 DEF FilterFail, Fault
<1>10. CASE Crash
  BY <1>1, <1>10 DEF Crash
<1>11. CASE Restart
  <2>1. "lookup" \notin seen' => committed <= checkpoint
    BY <1>1 DEF CommitInv, CommittedIsHandled
  <2>2. QED
    BY <1>1, <1>11, <2>1 DEF Restart
<1>12. CASE Tick
  BY <1>1, <1>12 DEF Tick
<1>13. QED
  BY <1>2, <1>3, <1>4, <1>5, <1>6, <1>7, <1>8, <1>9, <1>10, <1>11, <1>12
     DEF Next, Loop, Failure

\* The commit is the last step of the flush, and no other step shrinks what is
\* on record.
LEMMA HandledStep == ASSUME CommitInv, Next PROVE CommittedIsHandled'
<1> USE DEF storeVars, pendVars, loopVars, kafkaVars, envVars
<1>1. /\ topic' = topic /\ seen \subseteq seen' /\ \A o : IsValid(o)' <=> IsValid(o)
      /\ CommittedIsHandled
  BY TopicStands DEF CommitInv
<1>2. ASSUME committed' = committed, checkpoint' = checkpoint,
             ledger' = ledger, dlqTable' = dlqTable
      PROVE  CommittedIsHandled'
  BY <1>1, <1>2 DEF CommittedIsHandled, HandledUpTo
<1>3. CASE FlushWrite \/ FlushAckLost
  <2>1. /\ committed' = committed /\ ledger \subseteq ledger' /\ dlqTable \subseteq dlqTable'
        /\ pc = "flush" /\ checkpoint' = IF pending THEN pendOffset ELSE checkpoint
    BY <1>3 DEF FlushWrite, FlushAckLost, Transaction
  <2>2. "lookup" \notin seen' => HandledUpTo(committed)'
    BY <1>1, <2>1 DEF CommittedIsHandled, HandledUpTo
  <2>3. "lookup" \notin seen' => committed <= checkpoint'
    <3>1. "lookup" \notin seen' => (pending => pendOffset = position)
      BY <1>1, <2>1 DEF CommitInv, CheckpointFollows
    <3>2. QED
      BY <1>1, <2>1, <3>1 DEF CommitInv, CommittedIsBehind, CommittedIsHandled
  <2>4. QED
    BY <2>1, <2>2, <2>3 DEF CommittedIsHandled
<1>4. CASE MarkAndCommit \/ MarkAndCommitFail
  <2>1. /\ pc = "mark" /\ committed' \in {committed, position}
        /\ UNCHANGED <<ledger, dlqTable, checkpoint>>
    BY <1>4 DEF MarkAndCommit, MarkAndCommitFail, OffsetToCommit
  <2>2. CASE committed' = committed
    BY <1>2, <2>1, <2>2
  <2>3. CASE committed' = position
    <3>1. "lookup" \notin seen' => HandledUpTo(position) /\ position <= checkpoint
      BY <1>1, <2>1, MarkIsHandled
    <3>2. QED
      BY <1>1, <2>1, <2>3, <3>1 DEF CommittedIsHandled, HandledUpTo
  <2>4. QED
    BY <2>1, <2>2, <2>3
<1>5. CASE \/ Poll \/ Filter \/ Route \/ IdleTick \/ IdleAdvance \/ TickFlush
           \/ TickSkip \/ FlushNothing \/ Publish \/ FilterFail \/ FlushWriteFail
           \/ PublishFail \/ PublishTimeout \/ Stop \/ Crash \/ Restart \/ Tick
  BY <1>2, <1>5
     DEF Poll, Filter, Route, IdleTick, IdleAdvance, TickFlush, TickSkip,
         FlushNothing, Publish, FilterFail, FlushWriteFail, PublishFail,
         PublishTimeout, Stop, Crash, Restart, Tick
<1>6. QED
  BY <1>3, <1>4, <1>5 DEF Next, Loop, Failure

\* The records at or below the committed offset are on record, in every
\* behaviour in which no ledger query raises: CommitInv is inductive.
THEOREM CommitInvariance == Spec => []CommitInv
<1> DEFINE Rest == /\ StagesAreEmpty
                   /\ PositionIsKept
                   /\ WrittenIsOnRecord
                   /\ CheckpointFollows
                   /\ CommittedIsBehind
                   /\ CommittedIsHandled
<1>1. Init => Rest
  BY DEF Init, InitProcess, StagesAreEmpty, PositionIsKept, WrittenIsOnRecord,
         CheckpointFollows, CommittedIsBehind, CommittedIsHandled, HandledUpTo
<1>2. CommitInv /\ [Next]_vars => Rest'
  <2>1. ASSUME CommitInv, Next PROVE Rest'
    <3>1. StagesAreEmpty' /\ WrittenIsOnRecord'
      BY <2>1, StagesStep, WrittenStep DEF CommitInv
    <3>2. PositionIsKept' /\ CheckpointFollows' /\ CommittedIsBehind' /\ CommittedIsHandled'
      BY <2>1, PositionStep, CheckpointStep, HandledStep
    <3>3. QED
      BY <3>1, <3>2
  <2>2. ASSUME CommitInv, UNCHANGED vars PROVE Rest'
    BY <2>2 DEF vars, kafkaVars, storeVars, loopVars, pendVars, envVars, CommitInv,
                StagesAreEmpty, PositionIsKept, Kept, IsValid, WrittenIsOnRecord,
                CheckpointFollows, CommittedIsBehind, CommittedIsHandled, HandledUpTo
  <2>3. QED
    BY <2>1, <2>2
<1>3. CommitInv <=> IInv /\ Rest
  BY DEF CommitInv
<1> HIDE DEF Rest
<1>4. QED
  BY <1>1, <1>2, <1>3, Invariance, PTL DEF Spec

\* Commit after persist (service.py:231-232): whatever fails except a ledger
\* query, everything at or below the committed offset is in the ledger or in
\* dlq_events, and the checkpoint is not behind.
THEOREM CommitsAreHandled == Spec => []CommittedIsHandled
<1>1. CommitInv => CommittedIsHandled
  BY DEF CommitInv
<1>2. QED
  BY <1>1, CommitInvariance, PTL
-----------------------------------------------------------------------------
(***************************************************************************)
(* The DLQ topic.                                                          *)
(***************************************************************************)

\* What is on the DLQ topic stays there.
LEMMA LettersStand ==
    ASSUME IInv, Next, NEW o \in Offsets, dlqTopic[o] > 0
    PROVE  dlqTopic'[o] > 0
<1>1. dlqTopic \in [Offsets -> Nat]
  BY DEF IInv, TypeOK
<1>2. CASE Publish \/ PublishFail \/ PublishTimeout
  <2>1. PICK sent \in SUBSET pendDead : dlqTopic' = Delivered(sent)
    BY <1>2 DEF Publish, PublishFail, PublishTimeout
  <2>2. QED
    BY <1>1, <2>1 DEF Delivered
<1>3. CASE ~(Publish \/ PublishFail \/ PublishTimeout)
  <2>1. dlqTopic' = dlqTopic
    BY <1>3 DEF Next, Loop, Failure, Poll, Filter, Route, IdleTick, IdleAdvance,
                TickFlush, TickSkip, FlushNothing, FlushWrite, MarkAndCommit,
                FilterFail, FlushWriteFail, FlushAckLost, MarkAndCommitFail, Stop,
                Crash, Restart, Tick, kafkaVars
  <2>2. QED
    BY <2>1
<1>4. QED
  BY <1>2, <1>3

\* A refused record goes from the batch to the pending letters to the topic.
LEMMA LetterStep ==
    ASSUME LetterInv, Next, seen' \cap {"lookup", "timeout"} = {},
           NEW o \in 1..position', ~IsValid(o)
    PROVE  \/ o \in batch'
           \/ o \in pendDead'
           \/ dlqTopic'[o] > 0
<1> USE DEF storeVars, pendVars, loopVars, kafkaVars
<1>1. /\ seen \cap {"lookup", "timeout"} = {} /\ position \in 0..Len(topic)
      /\ Len(topic) \in Nat /\ topic' = topic /\ IInv /\ RefusedReachesDlqTopic
      /\ \A p \in 1..position :
            ~IsValid(p) => p \in batch \/ p \in pendDead \/ dlqTopic[p] > 0
      /\ pc = "mark" => \A p \in pendDead : dlqTopic[p] > 0
  BY TopicStands, TopicFacts DEF LetterInv, LettersAreKept, CommitInv, IInv, TypeOK
<1>2. CASE Poll
  <2>1. PICK n \in 1..MaxBatch :
           /\ batch' = (position + 1)..(position + n) /\ position' = position + n
           /\ UNCHANGED <<dlqTopic, pendDead>>
    BY <1>2 DEF Poll
  <2>2. batch = {}
    BY <1>2 DEF Poll, LetterInv, CommitInv, StagesAreEmpty
  <2>3. CASE o \in 1..position
    BY <1>1, <2>1, <2>2, <2>3
  <2>4. CASE o \notin 1..position
    BY <1>1, <2>1, <2>4, ServiceAssumption
  <2>5. QED
    BY <2>3, <2>4
<1>3. CASE Filter
  <2>1. /\ position' = position /\ pendDead' = pendDead \cup RefusedIn(batch)
        /\ dlqTopic' = dlqTopic
    BY <1>3 DEF Filter
  <2>2. CASE o \in batch
    <3>1. topic[o] \in Events \cup {Garbage}
      BY <1>1, <2>1, TopicFacts DEF IInv, TypeOK, Offsets
    <3>2. QED
      BY <2>1, <2>2, <3>1 DEF RefusedIn, IsGarbage, IsViolating, IsValid
  <2>3. CASE o \notin batch
    BY <1>1, <2>1, <2>3
  <2>4. QED
    BY <2>2, <2>3
<1>4. CASE MarkAndCommit
  BY <1>1, <1>4 DEF MarkAndCommit, LetterInv, CommitInv, StagesAreEmpty
<1>5. CASE Restart
  <2>1. position' = committed /\ dlqTopic' = dlqTopic
    BY <1>5 DEF Restart
  <2>2. QED
    BY <1>1, <2>1 DEF RefusedReachesDlqTopic
<1>6. CASE FilterFail
  BY <1>6 DEF FilterFail, Fault
<1>7. CASE ~(Poll \/ Filter \/ MarkAndCommit \/ Restart \/ FilterFail)
  <2>1. position' = position /\ batch' = batch /\ pendDead \subseteq pendDead'
    BY <1>7 DEF Next, Loop, Failure, Route, IdleTick, IdleAdvance, TickFlush, TickSkip,
                FlushNothing, FlushWrite, Publish, FlushWriteFail, FlushAckLost,
                PublishFail, PublishTimeout, MarkAndCommitFail, Stop, Crash, Tick
  <2>2. CASE dlqTopic[o] > 0
    BY <1>1, <2>1, <2>2, LettersStand DEF Offsets
  <2>3. QED
    BY <1>1, <2>1, <2>2
<1>8. QED
  BY <1>2, <1>3, <1>4, <1>5, <1>6, <1>7

\* The loop reaches the commit with every pending letter delivered.
LEMMA DeliveredStep ==
    ASSUME LetterInv, Next, seen' \cap {"lookup", "timeout"} = {}, pc' = "mark"
    PROVE  \A o \in pendDead' : dlqTopic'[o] > 0
<1> USE DEF storeVars, pendVars, loopVars, kafkaVars
<1>1. seen \cap {"lookup", "timeout"} = {}
  BY TopicStands
<1>2. CASE Publish
  <2>1. /\ dlqTopic' = Delivered(pendDead) /\ pendDead' = pendDead
    BY <1>2 DEF Publish
  <2>2. /\ dlqTopic \in [Offsets -> Nat] /\ pendDead \subseteq 1..position
        /\ position \in 0..Len(topic) /\ Len(topic) \in Nat
    BY TopicFacts DEF LetterInv, CommitInv, IInv, TypeOK
  <2>3. pendDead \subseteq Offsets
    BY <2>2 DEF Offsets
  <2>4. QED
    BY <2>1, <2>2, <2>3 DEF Delivered
<1>3. CASE PublishTimeout
  BY <1>3 DEF PublishTimeout, Fault
<1>4. CASE ~(Publish \/ PublishTimeout)
  BY <1>4
     DEF Next, Loop, Failure, Poll, Filter, Route, IdleTick, IdleAdvance, TickFlush,
         TickSkip, FlushNothing, FlushWrite, MarkAndCommit, FilterFail,
         FlushWriteFail, FlushAckLost, PublishFail, MarkAndCommitFail, Stop, Crash,
         Restart, Tick, Resume, Raise
<1>5. QED
  BY <1>2, <1>3, <1>4

\* So what the commit covers has its letters out.
LEMMA RefusedStep == ASSUME LetterInv, Next PROVE RefusedReachesDlqTopic'
<1> USE DEF storeVars, pendVars, loopVars, kafkaVars
<1>1. SUFFICES ASSUME seen' \cap {"lookup", "timeout"} = {},
                      NEW o \in 1..committed', ~IsValid(o)
               PROVE  dlqTopic'[o] > 0
  BY TopicStands DEF RefusedReachesDlqTopic
<1>2. /\ seen \cap {"lookup", "timeout"} = {} /\ IInv
      /\ committed \in 0..Len(topic) /\ Len(topic) \in Nat
  BY <1>1, TopicStands, TopicFacts DEF LetterInv, CommitInv, IInv, TypeOK
<1>3. CASE committed' = committed
  BY <1>1, <1>2, <1>3, LettersStand DEF LetterInv, RefusedReachesDlqTopic, Offsets
<1>4. CASE committed' # committed
  <2>1. MarkAndCommit \/ MarkAndCommitFail
    BY <1>4 DEF Next, Loop, Failure, Poll, Filter, Route, IdleTick, IdleAdvance,
                TickFlush, TickSkip, FlushNothing, FlushWrite, Publish, FilterFail,
                FlushWriteFail, FlushAckLost, PublishFail, PublishTimeout, Stop,
                Crash, Restart, Tick
  <2>2. pc = "mark" /\ committed' = position /\ dlqTopic' = dlqTopic
    BY <1>4, <2>1 DEF MarkAndCommit, MarkAndCommitFail, OffsetToCommit
  <2>3. batch = {}
    BY <2>2 DEF LetterInv, CommitInv, StagesAreEmpty
  <2>4. QED
    BY <1>1, <1>2, <2>2, <2>3 DEF LetterInv, LettersAreKept
<1>5. QED
  BY <1>3, <1>4

\* kafka_io.py:101-102 for the records _parse refuses: the letter is on the DLQ
\* topic before the offset is committed, unless a ledger query raised or
\* producer.flush gave up.
THEOREM RefusedLettersLand == Spec => []RefusedReachesDlqTopic
<1> DEFINE Letters == LettersAreKept /\ RefusedReachesDlqTopic
<1>1. Init => Letters
  BY DEF Init, InitProcess, LettersAreKept, RefusedReachesDlqTopic
<1>2. CommitInv /\ Letters /\ [Next]_vars => Letters'
  <2>1. ASSUME LetterInv, Next PROVE Letters'
    <3>1. \A o : IsValid(o)' <=> IsValid(o)
      BY <2>1, TopicStands
    <3>2. QED
      BY <2>1, <3>1, LetterStep, DeliveredStep, RefusedStep DEF LettersAreKept
  <2>2. ASSUME Letters, UNCHANGED vars PROVE Letters'
    BY <2>2 DEF vars, kafkaVars, loopVars, pendVars, envVars, LettersAreKept, IsValid,
                RefusedReachesDlqTopic
  <2>3. QED
    BY <2>1, <2>2 DEF LetterInv
<1>3. Letters => RefusedReachesDlqTopic
  OBVIOUS
<1> HIDE DEF Letters
<1>4. QED
  BY <1>1, <1>2, <1>3, CommitInvariance, PTL DEF Spec
=============================================================================
