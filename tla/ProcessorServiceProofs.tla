----------------------- MODULE ProcessorServiceProofs -----------------------
(***************************************************************************)
(* What holds of ProcessorService for every topic, every batch and cache   *)
(* size, every setting of the windows and every combination of the faults, *)
(* without a bound on how many of them happen.                             *)
(*                                                                         *)
(* The safety invariants are not inductive.  Why a contribution in a row   *)
(* always has its id in the ledger rests on two facts about the loop:      *)
(* whatever the windows hold beyond their snapshot belongs to an id that   *)
(* is pending (UnflushedIsPending), and between the transaction and the    *)
(* offset commit the pending ids are in the ledger (WrittenIsLedgered).    *)
(***************************************************************************)
EXTENDS ProcessorService, FiniteSetTheorems, TLAPS

\* What is still to be routed has been parsed.
FreshIsValid == \A o \in fresh : IsValid(o)

\* An exception between accumulation and snapshot leaves the delta and the id
\* behind together.
UnflushedIsPending == \A e \in Events : total[e] # flushed[e] => e \in pendIds

\* Steps 2 to 5 of the flush run with the pending ids durable.
WrittenIsLedgered == pc \in {"publish", "mark"} => pendIds \subseteq ledger

\* The watermark is bounded by the wall clock and the tolerated skew.
WatermarkIsSound == watermark + AllowedLateness <= clock + MaxFutureSkew

IInv ==
    /\ TypeOK
    /\ FreshIsValid
    /\ UnflushedIsPending
    /\ WrittenIsLedgered
    /\ AppliedIsLedgered
    /\ CacheIsLedgered
    /\ WatermarkIsSound
    /\ NoPrematureClose
-----------------------------------------------------------------------------
(***************************************************************************)
(* The operators the model is built from.                                  *)
(***************************************************************************)

\* Offsets are indexes into the topic.
LEMMA TopicFacts ==
    ASSUME TypeOK
    PROVE  /\ Len(topic) \in Nat
           /\ \A o \in Offsets : topic[o] \in Events \cup {Garbage}
BY ServiceAssumption DEF TypeOK, Offsets

\* The watermark stays a time, and hearing of a time within a bound keeps it
\* within that bound (windowing.py:160-163, 165-183).
LEMMA AdvanceWatermarkBounded ==
    ASSUME NEW w \in Int, NEW t \in Int, NEW bound \in Int,
           t <= bound, w + AllowedLateness <= bound
    PROVE  /\ AdvanceWatermark(w, t) \in Int
           /\ AdvanceWatermark(w, t) + AllowedLateness <= bound
BY EventTimeAssumption DEF AdvanceWatermark

\* An accepted event is not further ahead than the tolerated skew
\* (windowing.py:196-204).
LEMMA AcceptedIsNotSkewed ==
    ASSUME NEW t \in Nat, NEW w \in Int, NEW now \in Nat,
           Accepted(Classify(t, w, now))
    PROVE  t <= now + MaxFutureSkew
BY EventTimeAssumption DEF Accepted, Classify

\* A window starts at a time.
LEMMA WindowStartIsTime ==
    ASSUME NEW e \in Events
    PROVE  Key(e)[1] \in Int
BY EventTimeAssumption, ServiceAssumption DEF Key, WindowStartFor

\* Every result of the LRU is drawn from what it held and what was added.
LEMMA CacheAfterDrawn ==
    ASSUME NEW ids, NEW S \in CacheAfter(cache, ids)
    PROVE  S \subseteq cache \cup ids
BY DEF CacheAfter

\* Eviction keeps the types and creates no unflushed contribution.
LEMMA EvictionFacts ==
    ASSUME TypeOK, UnflushedIsPending, EvictExpired
    PROVE  /\ windows' \subseteq {Key(e) : e \in Events}
           /\ total' \in [Events -> Nat]
           /\ flushed' \in [Events -> Nat]
           /\ \A e \in Events : total'[e] # flushed'[e] => e \in pendIds
BY DEF TypeOK, UnflushedIsPending, EvictExpired, KeepLive, Expired

\* What the transaction leaves in the store.
LEMMA TransactionFacts ==
    ASSUME IInv, Transaction
    PROVE  /\ agg' \in [Events -> Int]
           /\ closed' \subseteq {Key(e) : e \in Events}
           /\ ledger' \subseteq Events
           /\ lateEvents' \in [Events -> Nat]
           /\ dlqTable' \subseteq Offsets
           /\ checkpoint' \in 0..Len(topic)
           /\ ledger' = ledger \cup pendIds
           /\ \A e \in Events : agg'[e] # 0 => e \in ledger'
           /\ \A k \in closed' :
                  k[1] + WindowSize + AllowedLateness <= clock + MaxFutureSkew
<1>1. TypeOK
  BY DEF IInv
<1>2. Len(topic) \in Nat /\ watermark \in Int /\ clock \in Int
  BY <1>1, TopicFacts, ServiceAssumption DEF TypeOK
<1>3. agg' \in [Events -> Int] /\ lateEvents' \in [Events -> Nat]
  BY <1>1 DEF Transaction, TypeOK, Delta
<1>4. closed' \subseteq {Key(e) : e \in Events}
  BY <1>1 DEF Transaction, TypeOK, Expired
<1>5. /\ ledger' = ledger \cup pendIds
      /\ ledger' \subseteq Events
  BY <1>1 DEF Transaction, TypeOK
<1>6. /\ dlqTable' \subseteq Offsets
      /\ checkpoint' \in 0..Len(topic)
  BY <1>1, <1>2 DEF Transaction, TypeOK, Offsets
<1>7. ASSUME NEW e \in Events, agg'[e] # 0
      PROVE  e \in ledger'
  <2>1. agg'[e] = agg[e] + (total[e] - flushed[e])
    BY DEF Transaction, Delta
  <2>2. agg[e] # 0 \/ total[e] # flushed[e]
    BY <1>1, <1>7, <2>1 DEF TypeOK
  <2>3. QED
    BY <1>5, <2>2 DEF IInv, AppliedIsLedgered, UnflushedIsPending
<1>8. ASSUME NEW k \in closed'
      PROVE  k[1] + WindowSize + AllowedLateness <= clock + MaxFutureSkew
  <2>1. CASE k \in closed
    BY <2>1 DEF IInv, NoPrematureClose
  <2>2. CASE k \in Expired
    <3>1. PICK e \in Events : k = Key(e)
      BY <1>1, <2>2 DEF TypeOK, Expired
    <3>2. k[1] \in Int
      BY <3>1, WindowStartIsTime
    <3>3. k[1] + WindowSize <= watermark
      BY <2>2 DEF Expired, IsWindowClosed
    <3>4. watermark + AllowedLateness <= clock + MaxFutureSkew
      BY DEF IInv, WatermarkIsSound
    <3>5. QED
      BY <1>2, <3>2, <3>3, <3>4, EventTimeAssumption
  <2>3. QED
    BY <1>8, <2>1, <2>2 DEF Transaction
<1>9. QED
  BY <1>3, <1>4, <1>5, <1>6, <1>7, <1>8
-----------------------------------------------------------------------------
(***************************************************************************)
(* The induction.                                                          *)
(***************************************************************************)

\* A process at its start satisfies the invariant.
LEMMA InitIInv == Init => IInv
<1> SUFFICES ASSUME Init PROVE IInv
  OBVIOUS
<1>1. topic \in Seq(Events \cup {Garbage}) /\ Len(topic) \in Nat
  BY ServiceAssumption DEF Init
<1>2. TypeOK
  <2>1. /\ committed \in 0..Len(topic) /\ checkpoint \in 0..Len(topic)
        /\ position \in 0..Len(topic) /\ pendOffset \in 0..position
        /\ clock \in 0..MaxClock /\ faults \in 0..MaxFaults
        /\ watermark \in Int
    BY <1>1, EventTimeAssumption, ServiceAssumption DEF Init, InitProcess
  <2>2. /\ total \in [Events -> Nat] /\ flushed \in [Events -> Nat]
        /\ agg \in [Events -> Int] /\ lateEvents \in [Events -> Nat]
        /\ pendLate \in [Events -> Nat] /\ dlqTopic \in [Offsets -> Nat]
    BY DEF Init, InitProcess, Zero
  <2>3. QED
    BY <2>1, <2>2 DEF Init, InitProcess, TypeOK
<1>3. /\ FreshIsValid /\ UnflushedIsPending /\ WrittenIsLedgered
      /\ AppliedIsLedgered /\ CacheIsLedgered /\ NoPrematureClose
  BY DEF Init, InitProcess, Zero, FreshIsValid, UnflushedIsPending,
         WrittenIsLedgered, AppliedIsLedgered, CacheIsLedgered, NoPrematureClose
<1>4. WatermarkIsSound
  BY EventTimeAssumption DEF Init, InitProcess, WatermarkIsSound
<1>5. QED
  BY <1>2, <1>3, <1>4 DEF IInv

\* Steps that leave the store, the windows and what is pending alone keep the
\* parts of the invariant that are about those.
LEMMA LoopStep ==
    ASSUME IInv,
           UNCHANGED <<storeVars, total, flushed, pendIds, cache>>,
           pc' \in {"publish", "mark"} => pc \in {"publish", "mark"}
    PROVE  /\ UnflushedIsPending'
           /\ WrittenIsLedgered'
           /\ AppliedIsLedgered'
           /\ CacheIsLedgered'
BY DEF IInv, storeVars, UnflushedIsPending, WrittenIsLedgered,
       AppliedIsLedgered, CacheIsLedgered

\* A bound by the wall clock outlives the passing of time.
LEMMA TimePasses ==
    \A t, now, later \in Int :
        now <= later /\ t + AllowedLateness <= now + MaxFutureSkew
            => t + AllowedLateness <= later + MaxFutureSkew
BY EventTimeAssumption

\* And steps that do not move the watermark keep the parts about time.
LEMMA TimeStep ==
    ASSUME IInv, watermark' = watermark, closed' = closed,
           clock' = clock \/ clock' = clock + 1
    PROVE  WatermarkIsSound' /\ NoPrematureClose'
<1>1. clock \in Int /\ clock' \in Int /\ clock <= clock' /\ watermark \in Int
  BY ServiceAssumption DEF IInv, TypeOK
<1>2. WatermarkIsSound'
  <2>1. watermark + AllowedLateness <= clock + MaxFutureSkew
    BY DEF IInv, WatermarkIsSound
  <2>2. watermark + AllowedLateness <= clock' + MaxFutureSkew
    BY <1>1, <2>1, TimePasses
  <2>3. QED
    BY <2>2 DEF WatermarkIsSound
<1>3. ASSUME NEW k \in closed
      PROVE  k[1] + WindowSize + AllowedLateness <= clock' + MaxFutureSkew
  <2>1. k[1] + WindowSize \in Int
    BY WindowStartIsTime, EventTimeAssumption DEF IInv, TypeOK
  <2>2. k[1] + WindowSize + AllowedLateness <= clock + MaxFutureSkew
    BY DEF IInv, NoPrematureClose
  <2>3. QED
    BY <1>1, <2>1, <2>2, TimePasses
<1>4. QED
  BY <1>2, <1>3 DEF NoPrematureClose
-----------------------------------------------------------------------------
\* Type correctness is preserved by every step.
LEMMA TypeStep == ASSUME IInv, Next PROVE TypeOK'
<1> USE DEF kafkaVars, storeVars, loopVars, windowVars, pendVars, envVars
<1>1. TypeOK /\ FreshIsValid /\ UnflushedIsPending
  BY DEF IInv
<1>2. Len(topic) \in Nat
  BY <1>1, TopicFacts
<1>3. \A kind : Fault(kind) => faults' \in 0..MaxFaults /\ seen' \subseteq Faults
  BY <1>1, ServiceAssumption DEF Fault, TypeOK
<1>4. Raise => /\ pc' \in {"flush", "dead"}
               /\ stopping' \in BOOLEAN
  BY DEF Raise
<1>5. Resume => pc' \in {"poll", "dead"}
  BY DEF Resume
<1>6. \A S : S \subseteq pendDead => Delivered(S) \in [Offsets -> Nat]
  BY <1>1 DEF Delivered, TypeOK
<1>7. CASE Poll
  BY <1>1, <1>2, <1>7, ServiceAssumption DEF Poll, TypeOK, Offsets
<1>8. CASE Filter
  <2>1. batch \subseteq Offsets
    BY <1>1, <1>2 DEF TypeOK, Offsets
  <2>2. pendIds' \subseteq Events
    BY <1>1, <1>8, <2>1, ServiceAssumption
    DEF Filter, TypeOK, ViolatingIn, IsViolating
  <2>3. /\ pendDead' \subseteq 1..position
        /\ fresh' \subseteq 1..position
    BY <1>1, <1>8 DEF Filter, TypeOK, RefusedIn, NewIn
  <2>4. pendCount' \in Nat
    <3>1. IsFiniteSet(1..position)
      BY <1>1, FS_Interval DEF TypeOK
    <3>2. IsFiniteSet(ViolatingIn(batch))
      BY <1>1, <3>1, FS_Subset DEF TypeOK, ViolatingIn
    <3>3. Cardinality(ViolatingIn(batch)) \in Nat
      BY <3>2, FS_CardinalityType
    <3>4. QED
      BY <1>1, <1>8, <3>3 DEF Filter, TypeOK
  <2>5. /\ pendOffset' \in 0..position
        /\ batch' = {} /\ pending' \in BOOLEAN /\ pc' = "route"
    BY <1>1, <1>8 DEF Filter, TypeOK
  <2>6. QED
    BY <1>1, <1>8, <2>2, <2>3, <2>4, <2>5 DEF Filter, TypeOK, Offsets
<1>9. CASE Route
  <2>1. PICK o \in fresh :
           /\ fresh' = fresh \ {o}
           /\ \/ /\ windows' = windows \cup {Key(topic[o])}
                 /\ total' = [total EXCEPT ![topic[o]] = @ + 1]
                 /\ watermark' = AdvanceWatermark(watermark, OccurredAt[topic[o]])
              \/ UNCHANGED <<windows, total, watermark>>
           /\ \/ pendLate' = [pendLate EXCEPT ![topic[o]] = @ + 1]
              \/ pendLate' = pendLate
           /\ pendDead' = pendDead \/ pendDead' = pendDead \cup {o}
           /\ pendIds' = pendIds \cup {topic[o]}
           /\ pendCount' = pendCount + 1
    BY <1>9 DEF Route
  <2>2. topic[o] \in Events /\ o \in 1..position
    BY <1>1 DEF FreshIsValid, IsValid, TypeOK
  <2>3. OccurredAt[topic[o]] \in Int /\ watermark \in Int
    BY <1>1, <2>2, ServiceAssumption DEF TypeOK
  <2>4. watermark' \in Int
    BY <2>1, <2>3, EventTimeAssumption DEF AdvanceWatermark
  <2>5. \A f \in [Events -> Nat] :
            [f EXCEPT ![topic[o]] = @ + 1] \in [Events -> Nat]
    BY <2>2
  <2>6. /\ total' \in [Events -> Nat]
        /\ pendLate' \in [Events -> Nat]
        /\ windows' \subseteq {Key(e) : e \in Events}
    <3>1. total \in [Events -> Nat] /\ pendLate \in [Events -> Nat]
          /\ windows \subseteq {Key(e) : e \in Events}
      BY <1>1 DEF TypeOK
    <3>2. total' \in [Events -> Nat] /\ pendLate' \in [Events -> Nat]
      BY <2>1, <2>5, <3>1
    <3>3. windows' \subseteq {Key(e) : e \in Events}
      BY <2>1, <2>2, <3>1
    <3>4. QED
      BY <3>2, <3>3
  <2>7. /\ fresh' \subseteq 1..position
        /\ pendDead' \subseteq 1..position
        /\ pendIds' \subseteq Events
    <3>1. /\ fresh \subseteq 1..position
          /\ pendDead \subseteq 1..position
          /\ pendIds \subseteq Events
      BY <1>1 DEF TypeOK
    <3>2. QED
      BY <2>1, <2>2, <3>1
  <2>8. pendCount' \in Nat
    BY <1>1, <2>1 DEF TypeOK
  <2>9. QED
    BY <1>1, <1>9, <2>4, <2>6, <2>7, <2>8 DEF Route, TypeOK, Offsets
<1>10. CASE IdleTick \/ TickFlush \/ TickSkip \/ FlushNothing \/ Crash \/ Stop
  BY <1>1, <1>3, <1>5, <1>10
  DEF IdleTick, TickFlush, TickSkip, FlushNothing, Crash, Stop, TypeOK, Offsets
<1>11. CASE IdleAdvance
  <2>1. watermark' \in Int
    BY <1>1, <1>11, EventTimeAssumption, ServiceAssumption
    DEF IdleAdvance, AdvanceWatermark, TypeOK
  <2>2. QED
    BY <1>1, <1>11, <2>1 DEF IdleAdvance, TypeOK, Offsets
<1>12. CASE FlushWrite
  BY <1>1, <1>12, EvictionFacts, TransactionFacts DEF FlushWrite, TypeOK, Offsets
<1>13. CASE Publish
  BY <1>1, <1>6, <1>13 DEF Publish, TypeOK, Offsets
<1>14. ASSUME MarkFlushed, NEW S \in CacheAfter(cache, pendIds), cache' = S, total' = total
       PROVE  cache' \subseteq Events /\ flushed' \in [Events -> Nat]
  BY <1>1, <1>14, CacheAfterDrawn DEF MarkFlushed, TypeOK
<1>15. CASE MarkAndCommit
  <2>1. cache' \subseteq Events /\ flushed' \in [Events -> Nat]
    BY <1>14, <1>15 DEF MarkAndCommit
  <2>2. committed' \in 0..Len(topic) /\ pendOffset' \in 0..position
    BY <1>1, <1>15 DEF MarkAndCommit, OffsetToCommit, TypeOK
  <2>3. pendLate' \in [Events -> Nat]
    BY <1>15 DEF MarkAndCommit, Zero
  <2>4. QED
    BY <1>1, <1>5, <1>15, <2>1, <2>2, <2>3 DEF MarkAndCommit, TypeOK, Offsets
<1>16. CASE FilterFail
  BY <1>1, <1>3, <1>4, <1>16 DEF FilterFail, TypeOK, Offsets
<1>17. CASE FlushWriteFail
  BY <1>1, <1>3, <1>4, <1>17, EvictionFacts DEF FlushWriteFail, TypeOK, Offsets
<1>18. CASE FlushAckLost
  BY <1>1, <1>3, <1>4, <1>18, EvictionFacts, TransactionFacts
  DEF FlushAckLost, TypeOK, Offsets
<1>19. CASE PublishFail
  BY <1>1, <1>3, <1>4, <1>6, <1>19 DEF PublishFail, TypeOK, Offsets
<1>20. CASE PublishTimeout
  BY <1>1, <1>3, <1>6, <1>20 DEF PublishTimeout, TypeOK, Offsets
<1>21. CASE MarkAndCommitFail
  <2>1. cache' \subseteq Events /\ flushed' \in [Events -> Nat]
    BY <1>14, <1>21 DEF MarkAndCommitFail
  <2>2. committed' \in 0..Len(topic)
    BY <1>1, <1>21 DEF MarkAndCommitFail, OffsetToCommit, TypeOK
  <2>3. QED
    BY <1>1, <1>3, <1>4, <1>21, <2>1, <2>2 DEF MarkAndCommitFail, TypeOK, Offsets
<1>22. CASE Restart
  <2>1. /\ position' \in 0..Len(topic)
        /\ pendOffset' \in 0..position'
        /\ watermark' \in Int
    BY <1>1, <1>2, <1>22, EventTimeAssumption DEF Restart, TypeOK
  <2>2. /\ total' \in [Events -> Nat]
        /\ flushed' \in [Events -> Nat]
        /\ pendLate' \in [Events -> Nat]
    BY <1>22 DEF Restart, Zero
  <2>3. QED
    BY <1>1, <1>22, <2>1, <2>2 DEF Restart, TypeOK, Offsets
<1>23. CASE Tick
  BY <1>1, <1>23, ServiceAssumption DEF Tick, TypeOK, Offsets
<1>24. QED
  BY <1>7, <1>8, <1>9, <1>10, <1>11, <1>12, <1>13, <1>15, <1>16, <1>17, <1>18,
     <1>19, <1>20, <1>21, <1>22, <1>23 DEF Next, Loop, Failure

\* So is the part about what has been parsed.
LEMMA FreshStep == ASSUME IInv, Next PROVE FreshIsValid'
<1>1. topic' = topic
  BY DEF Next, Loop, Failure, Poll, Filter, Route, IdleTick, IdleAdvance,
         TickFlush, TickSkip, FlushNothing, FlushWrite, Publish, MarkAndCommit,
         FilterFail, FlushWriteFail, FlushAckLost, PublishFail, PublishTimeout,
         MarkAndCommitFail, Stop, Crash, Restart, Tick, kafkaVars
<1>2. fresh' \subseteq fresh \/ fresh' = NewIn(batch) \/ fresh' = {}
  BY DEF Next, Loop, Failure, Poll, Filter, Route, IdleTick, IdleAdvance,
         TickFlush, TickSkip, FlushNothing, FlushWrite, Publish, MarkAndCommit,
         FilterFail, FlushWriteFail, FlushAckLost, PublishFail, PublishTimeout,
         MarkAndCommitFail, Stop, Crash, Restart, Tick, loopVars
<1>3. \A o \in fresh \cup NewIn(batch) : IsValid(o)
  BY DEF IInv, FreshIsValid, NewIn
<1>4. QED
  BY <1>1, <1>2, <1>3 DEF FreshIsValid, IsValid

\* What ties the windows, the pending ids, the rows, the ledger and the memory
\* tier to one another.
LEMMA LedgerStep ==
    ASSUME IInv, Next
    PROVE  /\ UnflushedIsPending'
           /\ WrittenIsLedgered'
           /\ AppliedIsLedgered'
           /\ CacheIsLedgered'
<1> USE DEF storeVars, windowVars, pendVars, loopVars
<1>1. /\ TypeOK /\ FreshIsValid /\ UnflushedIsPending
      /\ WrittenIsLedgered /\ AppliedIsLedgered /\ CacheIsLedgered
  BY DEF IInv
<1>2. CASE \/ Poll \/ IdleTick \/ IdleAdvance \/ TickFlush \/ TickSkip
           \/ FlushNothing \/ FilterFail \/ Stop \/ Crash \/ Tick
  <2>1. /\ UNCHANGED <<storeVars, total, flushed, pendIds, cache>>
        /\ pc' \in {"publish", "mark"} => pc \in {"publish", "mark"}
    BY <1>2 DEF Poll, IdleTick, IdleAdvance, TickFlush, TickSkip, FlushNothing,
                FilterFail, Stop, Crash, Tick, Raise, Resume
  <2>2. QED
    BY <2>1, LoopStep
<1>3. CASE Publish \/ PublishFail \/ PublishTimeout
  <2>1. /\ UNCHANGED <<storeVars, total, flushed, pendIds, cache>>
        /\ pc = "publish"
    BY <1>3 DEF Publish, PublishFail, PublishTimeout
  <2>2. QED
    BY <2>1, LoopStep
<1>4. CASE Filter
  <2>1. /\ pendIds \subseteq pendIds' /\ pc' = "route"
        /\ UNCHANGED <<total, flushed, agg, ledger, cache>>
    BY <1>4 DEF Filter
  <2>2. QED
    BY <1>1, <2>1 DEF UnflushedIsPending, WrittenIsLedgered, AppliedIsLedgered,
                      CacheIsLedgered
<1>5. CASE Route
  <2>1. PICK o \in fresh :
           /\ total' = [total EXCEPT ![topic[o]] = @ + 1] \/ total' = total
           /\ pendIds' = pendIds \cup {topic[o]}
           /\ pc' = "route"
           /\ UNCHANGED <<flushed, agg, ledger, cache>>
    BY <1>5 DEF Route
  <2>2. \A e \in Events : e # topic[o] => total'[e] = total[e]
    BY <1>1, <2>1 DEF TypeOK
  <2>3. UnflushedIsPending'
    BY <1>1, <2>1, <2>2 DEF UnflushedIsPending
  <2>4. QED
    BY <1>1, <2>1, <2>3 DEF WrittenIsLedgered, AppliedIsLedgered, CacheIsLedgered
<1>6. CASE FlushWrite \/ FlushAckLost
  <2>1. EvictExpired /\ Transaction /\ UNCHANGED <<pendIds, cache>>
    BY <1>6 DEF FlushWrite, FlushAckLost
  <2>2. UnflushedIsPending'
    BY <1>1, <2>1, EvictionFacts DEF UnflushedIsPending
  <2>3. AppliedIsLedgered'
    BY <2>1, TransactionFacts DEF AppliedIsLedgered
  <2>4. ledger' = ledger \cup pendIds
    BY <2>1 DEF Transaction
  <2>5. QED
    BY <1>1, <2>1, <2>2, <2>3, <2>4 DEF WrittenIsLedgered, CacheIsLedgered
<1>7. CASE FlushWriteFail
  <2>1. /\ EvictExpired /\ UNCHANGED <<pendIds, cache, agg, ledger>>
        /\ pc' \in {"flush", "dead"}
    BY <1>7 DEF FlushWriteFail, Raise
  <2>2. UnflushedIsPending'
    BY <1>1, <2>1, EvictionFacts DEF UnflushedIsPending
  <2>3. QED
    BY <1>1, <2>1, <2>2 DEF WrittenIsLedgered, AppliedIsLedgered, CacheIsLedgered
<1>8. CASE MarkAndCommit \/ MarkAndCommitFail
  <2>1. /\ pc = "mark" /\ pc' \in {"poll", "flush", "dead"}
        /\ flushed' = total /\ UNCHANGED <<total, agg, ledger>>
        /\ \E S \in CacheAfter(cache, pendIds) : cache' = S
    BY <1>8 DEF MarkAndCommit, MarkAndCommitFail, MarkFlushed, Raise, Resume
  <2>2. cache' \subseteq ledger
    BY <1>1, <2>1, CacheAfterDrawn DEF WrittenIsLedgered, CacheIsLedgered
  <2>3. QED
    BY <1>1, <2>1, <2>2 DEF UnflushedIsPending, WrittenIsLedgered,
                            AppliedIsLedgered, CacheIsLedgered
<1>9. CASE Restart
  BY <1>1, <1>9 DEF Restart, Zero, UnflushedIsPending, WrittenIsLedgered,
                    AppliedIsLedgered, CacheIsLedgered
<1>10. QED
  BY <1>2, <1>3, <1>4, <1>5, <1>6, <1>7, <1>8, <1>9 DEF Next, Loop, Failure

\* And the part about time.
LEMMA ClockStep ==
    ASSUME IInv, Next
    PROVE  WatermarkIsSound' /\ NoPrematureClose'
<1> USE DEF storeVars, windowVars, envVars
<1>1. /\ TypeOK /\ FreshIsValid /\ WatermarkIsSound /\ NoPrematureClose
      /\ watermark \in Int /\ clock \in Nat /\ clock + MaxFutureSkew \in Int
  BY EventTimeAssumption, ServiceAssumption DEF IInv, TypeOK
<1>2. CASE \/ Poll \/ Filter \/ IdleTick \/ TickFlush \/ TickSkip \/ FlushNothing
           \/ FilterFail \/ FlushWriteFail \/ Publish \/ PublishFail
           \/ PublishTimeout \/ MarkAndCommit \/ MarkAndCommitFail
           \/ Stop \/ Crash \/ Tick
  <2>1. /\ watermark' = watermark /\ closed' = closed
        /\ clock' = clock \/ clock' = clock + 1
    BY <1>2 DEF Poll, Filter, IdleTick, TickFlush, TickSkip, FlushNothing,
                FilterFail, FlushWriteFail, Publish, PublishFail, PublishTimeout,
                MarkAndCommit, MarkAndCommitFail, Stop, Crash, Tick
  <2>2. QED
    BY <2>1, TimeStep
<1>3. ASSUME clock' = clock, closed' = closed, NEW t \in Int,
             t <= clock + MaxFutureSkew, watermark' = AdvanceWatermark(watermark, t)
      PROVE  WatermarkIsSound' /\ NoPrematureClose'
  <2>1. watermark + AllowedLateness <= clock + MaxFutureSkew
    BY <1>1 DEF WatermarkIsSound
  <2>2. AdvanceWatermark(watermark, t) + AllowedLateness <= clock + MaxFutureSkew
    BY <1>1, <1>3, <2>1, AdvanceWatermarkBounded
  <2>3. QED
    BY <1>1, <1>3, <2>2 DEF WatermarkIsSound, NoPrematureClose
<1>4. CASE Route
  <2>1. PICK o \in fresh :
           \/ /\ Accepted(Classify(OccurredAt[topic[o]], watermark, clock))
              /\ watermark' = AdvanceWatermark(watermark, OccurredAt[topic[o]])
           \/ watermark' = watermark
    BY <1>4 DEF Route
  <2>2. clock' = clock /\ closed' = closed
    BY <1>4 DEF Route
  <2>3. OccurredAt[topic[o]] \in Nat
    BY <1>1, ServiceAssumption DEF FreshIsValid, IsValid
  <2>4. CASE watermark' = watermark
    BY <2>2, <2>4, TimeStep
  <2>5. CASE /\ Accepted(Classify(OccurredAt[topic[o]], watermark, clock))
             /\ watermark' = AdvanceWatermark(watermark, OccurredAt[topic[o]])
    <3>1. OccurredAt[topic[o]] <= clock + MaxFutureSkew
      BY <1>1, <2>3, <2>5, AcceptedIsNotSkewed
    <3>2. QED
      BY <1>3, <2>2, <2>3, <2>5, <3>1
  <2>6. QED
    BY <2>1, <2>4, <2>5
<1>5. CASE IdleAdvance
  <2>1. /\ clock' = clock /\ closed' = closed
        /\ watermark' = AdvanceWatermark(watermark, clock)
    BY <1>5 DEF IdleAdvance
  <2>2. clock \in Int /\ clock <= clock + MaxFutureSkew
    BY <1>1, EventTimeAssumption
  <2>3. QED
    BY <1>3, <2>1, <2>2
<1>6. CASE FlushWrite \/ FlushAckLost
  <2>1. Transaction /\ watermark' = watermark /\ clock' = clock
    BY <1>6 DEF FlushWrite, FlushAckLost
  <2>2. NoPrematureClose'
    BY <2>1, TransactionFacts DEF NoPrematureClose
  <2>3. QED
    BY <1>1, <2>1, <2>2 DEF WatermarkIsSound
<1>7. CASE Restart
  <2>1. /\ watermark' = NoWatermark /\ closed' = closed /\ clock' = clock
    BY <1>7 DEF Restart
  <2>2. NoWatermark + AllowedLateness <= clock + MaxFutureSkew
    BY <1>1, EventTimeAssumption
  <2>3. QED
    BY <1>1, <2>1, <2>2 DEF WatermarkIsSound, NoPrematureClose
<1>8. QED
  BY <1>2, <1>4, <1>5, <1>6, <1>7 DEF Next, Loop, Failure

\* A step that changes nothing.
LEMMA StutterStep == ASSUME IInv, UNCHANGED vars PROVE IInv'
BY DEF vars, kafkaVars, storeVars, loopVars, windowVars, pendVars, envVars, IInv,
       TypeOK, Offsets, FreshIsValid, IsValid, UnflushedIsPending,
       WrittenIsLedgered, AppliedIsLedgered, CacheIsLedgered, WatermarkIsSound,
       NoPrematureClose

\* The invariant holds in every reachable state.
THEOREM Invariance == Spec => []IInv
<1>1. IInv /\ [Next]_vars => IInv'
  BY TypeStep, FreshStep, LedgerStep, ClockStep, StutterStep DEF IInv
<1>2. QED
  BY InitIInv, <1>1, PTL DEF Spec
-----------------------------------------------------------------------------
(***************************************************************************)
(* What follows for the reader.                                            *)
(***************************************************************************)

\* Every variable has its type; nothing pending refers to a record that has not
\* been consumed.
THEOREM TypeCorrect == Spec => []TypeOK
<1>1. IInv => TypeOK
  BY DEF IInv
<1>2. QED
  BY <1>1, Invariance, PTL

\* The same-transaction rule of dedup.py:15-18: under every fault, a row never
\* holds a contribution whose id is not in the ledger.
THEOREM RowsAreLedgered == Spec => []AppliedIsLedgered
<1>1. IInv => AppliedIsLedgered
  BY DEF IInv
<1>2. QED
  BY <1>1, Invariance, PTL

\* The memory tier never drops an event that is not in the ledger
\* (dedup.py:141-146).
THEOREM MemoryIsLedgered == Spec => []CacheIsLedgered
<1>1. IInv => CacheIsLedgered
  BY DEF IInv
<1>2. QED
  BY <1>1, Invariance, PTL

\* No row is closed before its lateness allowance, less the tolerated skew, has
\* passed on the wall clock, whatever producers claim (windowing.py:143-148).
THEOREM RowsCloseInTime == Spec => []NoPrematureClose
<1>1. IInv => NoPrematureClose
  BY DEF IInv
<1>2. QED
  BY <1>1, Invariance, PTL
-----------------------------------------------------------------------------
(***************************************************************************)
(* Without faults a row that has been closed is final.  The transaction    *)
(* adds what the windows hold beyond their snapshot, so what has to be     *)
(* shown is that a closed row has no such contribution, ever again: its    *)
(* window was evicted, and no event gets into it because the watermark     *)
(* that closed it never moves back.  A fault ends this: a failed offset    *)
(* commit or a crash leads to a process whose watermark starts over.       *)
(***************************************************************************)
(***************************************************************************)
(* What the rules of event time say for every window size, lateness and    *)
(* watermark.                                                              *)
(***************************************************************************)

\* An event falls into the window it is assigned to.
LEMMA WindowHoldsEvent ==
    ASSUME NEW t \in Int
    PROVE  /\ WindowStartFor(t) \in Int
           /\ WindowStartFor(t) <= t
           /\ t < WindowStartFor(t) + WindowSize
<1>1. t % WindowSize \in 0..(WindowSize - 1)
  BY EventTimeAssumption
<1>2. QED
  BY <1>1, EventTimeAssumption DEF WindowStartFor

\* windowing.py:21-24: an event that is late and still accepted is behind the
\* watermark by less than one window; an accepted event older than that does
\* not exist, whatever the lateness allowance.
THEOREM LateBandIsOneWindow ==
    ASSUME NEW t \in Int, NEW w \in Int, NEW now \in Int,
           Classify(t, w, now) = "late_accepted"
    PROVE  t < w /\ w < t + WindowSize
<1>1. ~IsWindowClosed(WindowStartFor(t), w) /\ t < w
  BY DEF Classify
<1>2. QED
  BY <1>1, WindowHoldsEvent, EventTimeAssumption DEF IsWindowClosed

\* The watermark only moves forward (windowing.py:160-163), and whatever it has
\* closed stays closed.
LEMMA WatermarkIsMonotone ==
    ASSUME NEW w \in Int, NEW t \in Int
    PROVE  AdvanceWatermark(w, t) \in Int /\ w <= AdvanceWatermark(w, t)
BY EventTimeAssumption DEF AdvanceWatermark

LEMMA ClosedStaysClosed ==
    ASSUME NEW start \in Int, NEW w \in Int, NEW later \in Int,
           w <= later, IsWindowClosed(start, w)
    PROVE  IsWindowClosed(start, later)
BY EventTimeAssumption DEF IsWindowClosed

\* An accepted event belongs to a window that is open (windowing.py:208-220).
LEMMA AcceptedIsOpen ==
    ASSUME NEW t, NEW w, NEW now, Accepted(Classify(t, w, now))
    PROVE  ~IsWindowClosed(WindowStartFor(t), w)
BY DEF Accepted, Classify
-----------------------------------------------------------------------------
(***************************************************************************)
(* Closed rows.                                                            *)
(***************************************************************************)

\* Without a fault the loop is never left: every path out of it is one.
RunsOn == seen = {} => ~stopping /\ pc # "dead"

\* The watermark is past a closed row's window, and memory holds nothing for it.
ClosedIsSettled ==
    seen = {} =>
        \A e \in Events :
            Key(e) \in closed => /\ IsWindowClosed(Key(e)[1], watermark)
                                 /\ total[e] = flushed[e]

FinalInv == IInv /\ RunsOn /\ ClosedIsSettled

\* What ClosedRowIsFinal says of one step.
RowsStand == \A e \in Events : Key(e) \in closed /\ seen = {} => agg'[e] = agg[e]
-----------------------------------------------------------------------------
LEMMA FaultIsSeen == ASSUME NEW kind, Fault(kind) PROVE seen' # {}
BY DEF Fault

LEMMA FailureIsSeen == ASSUME Failure PROVE seen' # {}
BY FaultIsSeen DEF Failure, FilterFail, FlushWriteFail, FlushAckLost, PublishFail,
                   PublishTimeout, MarkAndCommitFail, Stop, Crash

\* Every step of the loop leaves the process running.
LEMMA RunsOnStep == ASSUME RunsOn, Next PROVE RunsOn'
<1> USE DEF envVars
<1>1. CASE Loop
  BY <1>1 DEF RunsOn, Loop, Poll, Filter, Route, IdleTick, IdleAdvance, TickFlush,
              TickSkip, FlushNothing, FlushWrite, Publish, MarkAndCommit, Resume
<1>2. CASE Failure
  BY <1>2, FailureIsSeen DEF RunsOn
<1>3. CASE Restart
  BY <1>3 DEF RunsOn, Restart
<1>4. CASE Tick
  BY <1>4 DEF RunsOn, Tick, loopVars
<1>5. QED
  BY <1>1, <1>2, <1>3, <1>4 DEF Next

\* A transaction adds nothing to a closed row.
LEMMA TransactionSparesClosed ==
    ASSUME IInv, ClosedIsSettled, Transaction
    PROVE  RowsStand
<1> SUFFICES ASSUME NEW e \in Events, Key(e) \in closed, seen = {}
             PROVE  agg'[e] = agg[e]
  BY DEF RowsStand
<1>1. agg[e] \in Int /\ total[e] \in Int /\ flushed[e] \in Int
  BY DEF IInv, TypeOK
<1>2. total[e] = flushed[e]
  BY DEF ClosedIsSettled
<1>3. agg'[e] = agg[e] + (total[e] - flushed[e])
  BY DEF Transaction, Delta
<1>4. QED
  BY <1>1, <1>2, <1>3

\* A row changes in a transaction only.
LEMMA RowStep == ASSUME IInv, ClosedIsSettled, Next PROVE RowsStand
<1> USE DEF storeVars
<1>1. CASE FlushWrite \/ FlushAckLost
  BY <1>1, TransactionSparesClosed DEF FlushWrite, FlushAckLost
<1>2. CASE ~(FlushWrite \/ FlushAckLost)
  <2>1. agg' = agg
    BY <1>2 DEF Next, Loop, Failure, Poll, Filter, Route, IdleTick, IdleAdvance,
                TickFlush, TickSkip, FlushNothing, Publish, MarkAndCommit,
                FilterFail, FlushWriteFail, PublishFail, PublishTimeout,
                MarkAndCommitFail, Stop, Crash, Restart, Tick
  <2>2. QED
    BY <2>1 DEF RowsStand
<1>3. QED
  BY <1>1, <1>2

\* The steps that leave windows, rows and watermark alone.
LEMMA SettledKept ==
    ASSUME ClosedIsSettled, closed' = closed, watermark' = watermark, seen' = seen,
           total' = total, flushed' = flushed \/ flushed' = total
    PROVE  ClosedIsSettled'
BY DEF ClosedIsSettled, Key

LEMMA SettledStep ==
    ASSUME IInv, RunsOn, ClosedIsSettled, Next
    PROVE  ClosedIsSettled'
<1> USE DEF storeVars, windowVars, envVars
<1>1. CASE \/ Poll \/ Filter \/ IdleTick \/ TickFlush \/ TickSkip \/ FlushNothing
           \/ Publish \/ MarkAndCommit \/ Tick
  <2>1. /\ closed' = closed /\ watermark' = watermark /\ seen' = seen
        /\ total' = total /\ (flushed' = flushed \/ flushed' = total)
    BY <1>1 DEF Poll, Filter, IdleTick, TickFlush, TickSkip, FlushNothing, Publish,
                MarkAndCommit, MarkFlushed, Tick
  <2>2. QED
    BY <2>1, SettledKept
<1>2. CASE Route
  <2>1. PICK o \in fresh :
           LET d == topic[o]
           IN  /\ closed' = closed /\ seen' = seen /\ flushed' = flushed
               /\ \/ /\ Accepted(Classify(OccurredAt[d], watermark, clock))
                     /\ total' = [total EXCEPT ![d] = @ + 1]
                     /\ watermark' = AdvanceWatermark(watermark, OccurredAt[d])
                  \/ UNCHANGED <<total, watermark>>
    BY <1>2 DEF Route
  <2>2. CASE UNCHANGED <<total, watermark>>
    BY <2>1, <2>2, SettledKept
  <2>3. CASE Accepted(Classify(OccurredAt[topic[o]], watermark, clock))
             /\ total' = [total EXCEPT ![topic[o]] = @ + 1]
             /\ watermark' = AdvanceWatermark(watermark, OccurredAt[topic[o]])
    <3>1. topic[o] \in Events /\ OccurredAt[topic[o]] \in Int /\ watermark \in Int
      BY <2>1, ServiceAssumption DEF IInv, FreshIsValid, IsValid, TypeOK
    <3>2. watermark' \in Int /\ watermark <= watermark'
      BY <2>3, <3>1, WatermarkIsMonotone
    <3>3. ~IsWindowClosed(Key(topic[o])[1], watermark)
      BY <2>3, AcceptedIsOpen DEF Key
    <3>4. ASSUME NEW e \in Events, Key(e) \in closed, seen = {}
          PROVE  IsWindowClosed(Key(e)[1], watermark') /\ total'[e] = flushed'[e]
      <4>1. IsWindowClosed(Key(e)[1], watermark) /\ total[e] = flushed[e]
        BY <3>4 DEF ClosedIsSettled
      <4>2. e # topic[o]
        BY <3>3, <4>1
      <4>3. total'[e] = total[e]
        BY <2>3, <4>2 DEF IInv, TypeOK
      <4>4. IsWindowClosed(Key(e)[1], watermark')
        BY <3>1, <3>2, <4>1, WindowStartIsTime, ClosedStaysClosed
      <4>5. QED
        BY <2>1, <4>1, <4>3, <4>4
    <3>5. QED
      BY <2>1, <3>4 DEF ClosedIsSettled, Key
  <2>4. QED
    BY <2>1, <2>2, <2>3
<1>3. CASE IdleAdvance
  <2>1. /\ watermark' = AdvanceWatermark(watermark, clock)
        /\ closed' = closed /\ seen' = seen /\ total' = total /\ flushed' = flushed
    BY <1>3 DEF IdleAdvance
  <2>2. watermark \in Int /\ clock \in Int
    BY ServiceAssumption DEF IInv, TypeOK
  <2>3. watermark' \in Int /\ watermark <= watermark'
    BY <2>1, <2>2, WatermarkIsMonotone
  <2>4. ASSUME NEW e \in Events, Key(e) \in closed, seen = {}
        PROVE  IsWindowClosed(Key(e)[1], watermark') /\ total'[e] = flushed'[e]
    BY <2>1, <2>2, <2>3, <2>4, WindowStartIsTime, ClosedStaysClosed
       DEF ClosedIsSettled
  <2>5. QED
    BY <2>1, <2>4 DEF ClosedIsSettled, Key
<1>4. CASE FlushWrite
  <2>1. /\ closed' = closed \cup Expired /\ seen' = seen /\ watermark' = watermark
        /\ total' = KeepLive(total) /\ flushed' = KeepLive(flushed)
    BY <1>4 DEF FlushWrite, Transaction, EvictExpired
  <2>2. ASSUME NEW e \in Events, Key(e) \in closed \cup Expired, seen = {}
        PROVE  IsWindowClosed(Key(e)[1], watermark) /\ total'[e] = flushed'[e]
    BY <2>1, <2>2 DEF ClosedIsSettled, Expired, KeepLive
  <2>3. QED
    BY <2>1, <2>2 DEF ClosedIsSettled, Key
<1>5. CASE Failure
  BY <1>5, FailureIsSeen DEF ClosedIsSettled
<1>6. CASE Restart
  BY <1>6 DEF Restart, RunsOn, ClosedIsSettled
<1>7. QED
  BY <1>1, <1>2, <1>3, <1>4, <1>5, <1>6 DEF Next, Loop

\* The inductive invariant holds in every reachable state.
THEOREM FinalInvariance == Spec => []FinalInv
<1>1. Init => RunsOn /\ ClosedIsSettled
  BY DEF Init, InitProcess, RunsOn, ClosedIsSettled
<1>2. FinalInv /\ [Next]_vars => RunsOn' /\ ClosedIsSettled'
  <2>1. CASE Next
    BY <2>1, RunsOnStep, SettledStep DEF FinalInv
  <2>2. CASE UNCHANGED vars
    BY <2>2 DEF vars, storeVars, loopVars, windowVars, envVars, FinalInv, RunsOn,
                ClosedIsSettled, Key
  <2>3. QED
    BY <2>1, <2>2
<1>3. QED
  BY <1>1, <1>2, Invariance, PTL DEF Spec, FinalInv

\* windowing.py:30-33 of one fault-free process: a closed row is never changed
\* again, whatever arrives however late.
THEOREM ClosedRowsAreFinal == Spec => ClosedRowIsFinal
<1>1. FinalInv /\ [Next]_vars => [RowsStand]_vars
  BY RowStep DEF FinalInv
<1>2. [RowsStand]_vars
         <=> [\A e \in Events :
                 Key(e) \in closed /\ seen = {} => agg'[e] = agg[e]]_vars
  BY DEF RowsStand
<1>3. QED
  BY <1>1, <1>2, FinalInvariance, PTL DEF Spec, ClosedRowIsFinal
=============================================================================
