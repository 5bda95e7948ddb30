---------------------------- MODULE EffectProofs ----------------------------
(***************************************************************************)
(* What an id in the ledger and a copy in the topic stand for: an id that  *)
(* has been recorded has had an effect (LedgeredHasEffect), an event is    *)
(* applied at most once per copy (AtMostOncePerCopy), and a letter in      *)
(* dlq_events is on the DLQ topic (EveryLetterLands).                      *)
(*                                                                         *)
(* For the first, a pending id must carry its effect with it: unflushed in *)
(* a window, in _pending.late_rows or in _pending.dead_letters.            *)
(*                                                                         *)
(* For the second, the applications of an event are charged to offsets.    *)
(* Until its id is in the ledger, an event has been applied at most once   *)
(* for every offset that this process has put through; once it is there,   *)
(* nothing lets it through again, whatever is replayed.                    *)
(***************************************************************************)
EXTENDS CommitProofs

\* A snapshot is never ahead of its window, so deltas only add.
DeltasAdd == \A e \in Events : flushed[e] <= total[e] /\ agg[e] >= 0

CarriesEffect(e) == \/ total[e] > flushed[e]
                    \/ pendLate[e] > 0
                    \/ \E o \in pendDead : topic[o] = e

PendingHasEffect ==
    "sink" \notin seen => \A e \in pendIds : HasEffect(e) \/ CarriesEffect(e)

EffectInv ==
    /\ IInv
    /\ DeltasAdd
    /\ PendingHasEffect
    /\ LedgeredHasEffect

\* A late_events row has its id in the ledger, or pending with it.
LateIsLedgered == \A e \in Events : /\ pendLate[e] # 0 => e \in pendIds
                                    /\ lateEvents[e] # 0 => e \in ledger

\* Nothing that the ledger holds is being routed.
FreshIsNew == \A o \in fresh : topic[o] \notin ledger

\* The copies of e, and those that this process has put through.
OffsetsOf(e) == {o \in Offsets : topic[o] = e}

Through(e) == {o \in 1..position : topic[o] = e} \ (batch \cup fresh)

Room(e) == Cardinality(IF e \in ledger THEN OffsetsOf(e) ELSE Through(e))

\* What is in memory beyond the store; from the transaction on it is in both,
\* and after the end of the process it is lost.
InMemory == pc \notin {"publish", "mark", "dead"}

RowWeight(e) == agg[e] + (IF InMemory THEN total[e] - flushed[e] ELSE 0)

LateWeight(e) == lateEvents[e] + (IF InMemory THEN pendLate[e] ELSE 0)

RowsFit == seen \cap {"ack", "dlq"} = {} => \A e \in Events : RowWeight(e) <= Room(e)

AllFits == seen \cap {"ack", "dlq", "commit"} = {} =>
               \A e \in Events : RowWeight(e) + LateWeight(e) <= Room(e)

CopyInv ==
    /\ IInv
    /\ StagesAreEmpty
    /\ DeltasAdd
    /\ LateIsLedgered
    /\ FreshIsNew
    /\ RowsFit
    /\ AllFits

\* A letter in dlq_events is on the topic, or about to be published; a letter
\* that is still pending when its offset is committed, because the answer to the
\* commit was lost, has been published already.
LettersAreOut ==
    seen \cap {"crash", "ack", "dlq", "timeout"} = {} =>
        /\ \A o \in dlqTable :
              dlqTopic[o] > 0 \/ (pc = "publish" /\ o \in pendDead)
        /\ \A o \in pendDead : o <= committed \/ pc = "mark" => dlqTopic[o] > 0

\* Nothing is processed that has been committed.
BatchIsAhead == \A o \in batch \cup fresh : o > committed

OutInv ==
    /\ IInv
    /\ StagesAreEmpty
    /\ CommittedIsBehind
    /\ BatchIsAhead
    /\ LettersAreOut
-----------------------------------------------------------------------------
(***************************************************************************)
(* What all three rest on.                                                 *)
(***************************************************************************)

\* The invariant of ProcessorServiceProofs, step by step.
LEMMA ServiceStep == ASSUME IInv, Next PROVE IInv'
BY TypeStep, FreshStep, LedgerStep, ClockStep DEF IInv

\* Steps that leave rows, windows and what is pending of them alone.
QuietStep ==
    /\ UNCHANGED <<agg, lateEvents, ledger, total, flushed>>
    /\ UNCHANGED <<pendIds, pendLate, pendDead, dlqTable>>

LEMMA QuietSteps ==
    ASSUME \/ Poll \/ IdleTick \/ IdleAdvance \/ TickFlush \/ TickSkip
           \/ FlushNothing \/ FilterFail \/ Stop \/ Crash \/ Tick
           \/ Publish \/ PublishFail \/ PublishTimeout
    PROVE  QuietStep
BY DEF Poll, IdleTick, IdleAdvance, TickFlush, TickSkip, FlushNothing, FilterFail,
       Stop, Crash, Tick, Publish, PublishFail, PublishTimeout, QuietStep,
       storeVars, windowVars, pendVars

\* What a transaction and the eviction before it do to one event.
LEMMA FlushFacts ==
    ASSUME IInv, DeltasAdd, NEW e \in Events
    PROVE  /\ agg[e] \in Nat /\ total[e] \in Nat /\ flushed[e] \in Nat
           /\ lateEvents[e] \in Nat /\ pendLate[e] \in Nat
           /\ total[e] - flushed[e] \in Nat
           /\ EvictExpired => \/ total'[e] = 0 /\ flushed'[e] = 0
                              \/ total'[e] = total[e] /\ flushed'[e] = flushed[e]
           /\ Transaction => /\ agg'[e] = agg[e] + (total[e] - flushed[e])
                             /\ lateEvents'[e] = lateEvents[e] + pendLate[e]
BY DEF IInv, TypeOK, DeltasAdd, EvictExpired, KeepLive, Transaction, Delta

\* What a step that routes does to the counts.
LEMMA RouteFacts ==
    ASSUME IInv, Route
    PROVE  \E o \in fresh :
              /\ topic[o] \in Events /\ o \in 1..position
              /\ fresh' = fresh \ {o}
              /\ pendIds' = pendIds \cup {topic[o]}
              /\ \A e \in Events \ {topic[o]} :
                    total'[e] = total[e] /\ pendLate'[e] = pendLate[e]
              /\ \/ /\ total'[topic[o]] = total[topic[o]] + 1
                    /\ pendLate' = pendLate /\ pendDead' = pendDead
                 \/ /\ total' = total
                    /\ \/ pendLate'[topic[o]] = pendLate[topic[o]] + 1
                       \/ pendLate' = pendLate
                    /\ pendDead' = pendDead \cup {o}
              /\ UNCHANGED <<agg, lateEvents, ledger, flushed, dlqTable, pc, batch,
                             position, topic, seen>>
<1>1. /\ total \in [Events -> Nat] /\ pendLate \in [Events -> Nat]
      /\ fresh \subseteq 1..position /\ FreshIsValid
  BY DEF IInv, TypeOK
<1>2. PICK o \in fresh :
         /\ fresh' = fresh \ {o}
         /\ pendIds' = pendIds \cup {topic[o]}
         /\ \/ /\ total' = [total EXCEPT ![topic[o]] = @ + 1]
               /\ pendLate' = pendLate /\ pendDead' = pendDead
            \/ /\ total' = total
               /\ \/ pendLate' = [pendLate EXCEPT ![topic[o]] = @ + 1]
                  \/ pendLate' = pendLate
               /\ pendDead' = pendDead \cup {o}
  <2>1. PICK o \in fresh :
           LET e       == topic[o]
               outcome == Classify(OccurredAt[e], watermark, clock)
           IN  /\ fresh' = fresh \ {o}
               /\ IF Accepted(outcome)
                  THEN total' = [total EXCEPT ![e] = @ + 1]
                  ELSE total' = total
               /\ pendLate' = IF outcome = "too_late"
                              THEN [pendLate EXCEPT ![e] = @ + 1] ELSE pendLate
               /\ pendDead' = IF Accepted(outcome) THEN pendDead
                                                   ELSE pendDead \cup {o}
               /\ pendIds' = pendIds \cup {e}
    BY DEF Route
  <2>2. ~Accepted("too_late")
    BY DEF Accepted
  <2> QED BY <2>1, <2>2
<1>3. topic[o] \in Events /\ o \in 1..position
  BY <1>1, <1>2 DEF FreshIsValid, IsValid
<1>4. \A f \in [Events -> Nat] :
          LET g == [f EXCEPT ![topic[o]] = @ + 1]
          IN  /\ g[topic[o]] = f[topic[o]] + 1
              /\ \A e \in Events \ {topic[o]} : g[e] = f[e]
  BY <1>3
<1>5. UNCHANGED <<agg, lateEvents, ledger, flushed, dlqTable, pc, batch, position,
                  topic, seen>>
  BY DEF Route, kafkaVars, storeVars, envVars
<1>6. /\ \A e \in Events \ {topic[o]} :
            total'[e] = total[e] /\ pendLate'[e] = pendLate[e]
      /\ \/ /\ total'[topic[o]] = total[topic[o]] + 1
            /\ pendLate' = pendLate /\ pendDead' = pendDead
         \/ /\ total' = total
            /\ \/ pendLate'[topic[o]] = pendLate[topic[o]] + 1
               \/ pendLate' = pendLate
            /\ pendDead' = pendDead \cup {o}
  BY <1>1, <1>2, <1>4
<1> QED BY <1>2, <1>3, <1>5, <1>6

\* Deltas only add, whatever fails.
LEMMA DeltasStep == ASSUME IInv, DeltasAdd, Next PROVE DeltasAdd'
<1>1. CASE \/ Poll \/ IdleTick \/ IdleAdvance \/ TickFlush \/ TickSkip
           \/ FlushNothing \/ FilterFail \/ Stop \/ Crash \/ Tick
           \/ Publish \/ PublishFail \/ PublishTimeout
  BY <1>1, QuietSteps DEF QuietStep, DeltasAdd
<1>2. CASE Filter
  BY <1>2 DEF Filter, storeVars, windowVars, DeltasAdd
<1>3. CASE Route
  <2>1. PICK o \in fresh :
           /\ topic[o] \in Events
           /\ \A e \in Events \ {topic[o]} : total'[e] = total[e]
           /\ total'[topic[o]] = total[topic[o]] + 1 \/ total' = total
           /\ agg' = agg /\ flushed' = flushed
    BY <1>3, RouteFacts
  <2>2. \A e \in Events : total[e] \in Nat /\ flushed[e] \in Nat
    BY FlushFacts
  <2> QED BY <2>1, <2>2 DEF DeltasAdd
<1>4. CASE FlushWrite \/ FlushWriteFail \/ FlushAckLost
  <2>1. EvictExpired /\ (Transaction \/ agg' = agg)
    BY <1>4 DEF FlushWrite, FlushWriteFail, FlushAckLost, storeVars
  <2> QED BY <2>1, FlushFacts DEF DeltasAdd
<1>5. CASE MarkAndCommit \/ MarkAndCommitFail
  <2>1. flushed' = total /\ total' = total /\ agg' = agg
    BY <1>5 DEF MarkAndCommit, MarkAndCommitFail, MarkFlushed, storeVars
  <2>2. \A e \in Events : total[e] \in Nat
    BY FlushFacts
  <2> QED BY <2>1, <2>2 DEF DeltasAdd
<1>6. CASE Restart
  BY <1>6 DEF Restart, Zero, storeVars, DeltasAdd
<1> QED BY <1>1, <1>2, <1>3, <1>4, <1>5, <1>6 DEF Next, Loop, Failure
-----------------------------------------------------------------------------
(***************************************************************************)
(* An id on record has had an effect.                                      *)
(***************************************************************************)

\* An effect in the store stays there.
LEMMA EffectStays ==
    ASSUME topic' = topic, dlqTable \subseteq dlqTable', NEW e \in Events,
           agg[e] \in Int, agg'[e] \in Int, agg'[e] >= agg[e],
           lateEvents[e] \in Int, lateEvents'[e] \in Int,
           lateEvents'[e] >= lateEvents[e],
           HasEffect(e)
    PROVE  HasEffect(e)'
BY DEF HasEffect

\* So does an effect that is carried, while nothing of it is taken away.
LEMMA QuietEffect ==
    ASSUME QuietStep, topic' = topic, NEW e
    PROVE  /\ HasEffect(e)' <=> HasEffect(e)
           /\ CarriesEffect(e)' <=> CarriesEffect(e)
BY DEF QuietStep, HasEffect, CarriesEffect

\* The transaction puts what is pending, and what the windows hold, on record.
LEMMA TransactionEffect ==
    ASSUME EffectInv, Next, EvictExpired, Transaction, pendIds' = pendIds,
           "sink" \notin seen'
    PROVE  PendingHasEffect' /\ LedgeredHasEffect'
<1>1. topic' = topic /\ "sink" \notin seen
  BY TopicStands
<1>2. ASSUME NEW e \in Events, HasEffect(e) \/ CarriesEffect(e)
      PROVE  HasEffect(e)'
  <2>1. /\ agg[e] \in Nat /\ total[e] \in Nat /\ flushed[e] \in Nat
        /\ lateEvents[e] \in Nat /\ pendLate[e] \in Nat
        /\ total[e] - flushed[e] \in Nat
        /\ agg'[e] = agg[e] + (total[e] - flushed[e])
        /\ lateEvents'[e] = lateEvents[e] + pendLate[e]
    BY FlushFacts DEF EffectInv
  <2>2. dlqTable' = dlqTable \cup pendDead
    BY DEF Transaction
  <2>3. CASE HasEffect(e)
    BY <1>1, <2>1, <2>2, <2>3, EffectStays
  <2>4. CASE CarriesEffect(e)
    BY <1>1, <2>1, <2>2, <2>4 DEF CarriesEffect, HasEffect
  <2> QED BY <1>2, <2>3, <2>4
<1>3. ledger' = ledger \cup pendIds
  BY DEF Transaction
<1>4. ledger \subseteq Events /\ pendIds \subseteq Events
  BY DEF EffectInv, IInv, TypeOK
<1>5. \A e \in ledger \cup pendIds : HasEffect(e)'
  BY <1>1, <1>2, <1>4 DEF EffectInv, PendingHasEffect, LedgeredHasEffect
<1> QED BY <1>3, <1>5 DEF PendingHasEffect, LedgeredHasEffect

\* One step of any kind.
LEMMA EffectStep ==
    ASSUME EffectInv, Next
    PROVE  PendingHasEffect' /\ LedgeredHasEffect'
<1> SUFFICES ASSUME "sink" \notin seen'
             PROVE  /\ \A e \in pendIds' : HasEffect(e)' \/ CarriesEffect(e)'
                    /\ \A e \in ledger' : HasEffect(e)'
  BY DEF PendingHasEffect, LedgeredHasEffect
<1>1. topic' = topic /\ "sink" \notin seen
  BY TopicStands
<1>2. /\ \A e \in pendIds : HasEffect(e) \/ CarriesEffect(e)
      /\ \A e \in ledger : HasEffect(e)
  BY <1>1 DEF EffectInv, PendingHasEffect, LedgeredHasEffect
<1>3. TypeOK /\ IInv /\ DeltasAdd
  BY DEF EffectInv, IInv
<1>4. CASE \/ Poll \/ IdleTick \/ IdleAdvance \/ TickFlush \/ TickSkip
           \/ FlushNothing \/ FilterFail \/ Stop \/ Crash \/ Tick
           \/ Publish \/ PublishFail \/ PublishTimeout
  <2>1. QuietStep /\ pendIds' = pendIds /\ ledger' = ledger
    BY <1>4, QuietSteps DEF QuietStep
  <2> QED BY <1>1, <1>2, <2>1, QuietEffect
<1>5. CASE Filter
  <2>1. /\ pendIds' = pendIds \cup {topic[o] : o \in ViolatingIn(batch)}
        /\ pendDead' = pendDead \cup RefusedIn(batch)
        /\ UNCHANGED <<agg, lateEvents, ledger, dlqTable, total, flushed, pendLate>>
    BY <1>5 DEF Filter, storeVars, windowVars
  <2>2. ViolatingIn(batch) \subseteq RefusedIn(batch)
    BY DEF ViolatingIn, RefusedIn
  <2>3. \A e : /\ HasEffect(e) => HasEffect(e)'
               /\ CarriesEffect(e) => CarriesEffect(e)'
    BY <1>1, <2>1 DEF HasEffect, CarriesEffect
  <2>4. \A o \in ViolatingIn(batch) : CarriesEffect(topic[o])'
    BY <1>1, <2>1, <2>2 DEF CarriesEffect
  <2>5. ASSUME NEW e \in pendIds' PROVE HasEffect(e)' \/ CarriesEffect(e)'
    <3>1. CASE e \in pendIds
      BY <1>2, <2>3, <3>1
    <3>2. CASE \E o \in ViolatingIn(batch) : e = topic[o]
      BY <1>1, <2>4, <3>2
    <3> QED BY <2>1, <2>5, <3>1, <3>2
  <2>6. \A e \in ledger' : HasEffect(e)'
    BY <1>2, <2>1, <2>3
  <2> QED BY <2>5, <2>6
<1>6. CASE Route
  <2>1. PICK o \in fresh :
           /\ topic[o] \in Events
           /\ pendIds' = pendIds \cup {topic[o]}
           /\ \A e \in Events \ {topic[o]} :
                 total'[e] = total[e] /\ pendLate'[e] = pendLate[e]
           /\ \/ /\ total'[topic[o]] = total[topic[o]] + 1
                 /\ pendLate' = pendLate /\ pendDead' = pendDead
              \/ pendDead' = pendDead \cup {o}
           /\ UNCHANGED <<agg, lateEvents, ledger, flushed, dlqTable>>
    BY <1>3, <1>6, RouteFacts
  <2>2. pendDead \subseteq pendDead'
    BY <2>1
  <2>3. \A e : HasEffect(e) => HasEffect(e)'
    BY <1>1, <2>1 DEF HasEffect
  <2>4. \A e \in Events \ {topic[o]} : CarriesEffect(e) => CarriesEffect(e)'
    BY <1>1, <2>1, <2>2 DEF CarriesEffect
  <2>5. CarriesEffect(topic[o])'
    <3>1. total[topic[o]] \in Nat /\ flushed[topic[o]] \in Nat
          /\ flushed[topic[o]] <= total[topic[o]]
      BY <1>3, <2>1, FlushFacts DEF DeltasAdd
    <3> QED BY <1>1, <2>1, <3>1 DEF CarriesEffect
  <2>6. pendIds \subseteq Events
    BY <1>3 DEF TypeOK
  <2>7. ASSUME NEW e \in pendIds' PROVE HasEffect(e)' \/ CarriesEffect(e)'
    <3>1. CASE e = topic[o]
      BY <1>1, <2>5, <3>1
    <3>2. CASE e # topic[o] /\ e \in pendIds
      BY <1>2, <2>3, <2>4, <2>6, <3>2
    <3> QED BY <2>1, <2>7, <3>1, <3>2
  <2>8. \A e \in ledger' : HasEffect(e)'
    BY <1>2, <2>1, <2>3
  <2> QED BY <2>7, <2>8
<1>7. CASE FlushWrite \/ FlushAckLost
  <2>1. EvictExpired /\ Transaction /\ pendIds' = pendIds
    BY <1>7 DEF FlushWrite, FlushAckLost, pendVars
  <2> QED BY <2>1, TransactionEffect DEF PendingHasEffect, LedgeredHasEffect
<1>8. CASE FlushWriteFail
  BY <1>8 DEF FlushWriteFail, Fault
<1>9. CASE MarkAndCommit \/ MarkAndCommitFail
  <2>1. /\ UNCHANGED <<agg, lateEvents, ledger, dlqTable>>
        /\ pc = "mark" /\ pendIds' \subseteq pendIds
    BY <1>9 DEF MarkAndCommit, MarkAndCommitFail, storeVars, pendVars
  <2>2. pendIds \subseteq ledger
    BY <1>3, <2>1 DEF IInv, WrittenIsLedgered
  <2>3. \A e : HasEffect(e) => HasEffect(e)'
    BY <1>1, <2>1 DEF HasEffect
  <2> QED BY <1>2, <2>1, <2>2, <2>3
<1>10. CASE Restart
  <2>1. UNCHANGED <<agg, lateEvents, ledger, dlqTable>> /\ pendIds' = {}
    BY <1>10 DEF Restart, storeVars
  <2>2. \A e : HasEffect(e) => HasEffect(e)'
    BY <1>1, <2>1 DEF HasEffect
  <2> QED BY <1>2, <2>1, <2>2
<1> QED BY <1>4, <1>5, <1>6, <1>7, <1>8, <1>9, <1>10 DEF Next, Loop, Failure

LEMMA EffectInvariance == Spec => []EffectInv
<1>1. Init => EffectInv
  <2>1. Init => IInv
    BY InitIInv
  <2>2. Init => DeltasAdd /\ PendingHasEffect /\ LedgeredHasEffect
    BY DEF Init, InitProcess, Zero, DeltasAdd, PendingHasEffect, LedgeredHasEffect
  <2> QED BY <2>1, <2>2 DEF EffectInv
<1>2. EffectInv /\ [Next]_vars => EffectInv'
  <2>1. CASE EffectInv /\ Next
    <3>1. IInv /\ DeltasAdd
      BY <2>1 DEF EffectInv
    <3>2. IInv' /\ DeltasAdd'
      BY <2>1, <3>1, ServiceStep, DeltasStep
    <3>3. PendingHasEffect' /\ LedgeredHasEffect'
      BY <2>1, EffectStep
    <3> QED BY <3>2, <3>3 DEF EffectInv
  <2>2. CASE EffectInv /\ UNCHANGED vars
    <3>1. IInv'
      BY <2>2, StutterStep DEF EffectInv
    <3>2. DeltasAdd' /\ PendingHasEffect' /\ LedgeredHasEffect'
      BY <2>2 DEF vars, kafkaVars, storeVars, windowVars, pendVars, envVars, EffectInv,
                  DeltasAdd, PendingHasEffect, LedgeredHasEffect, HasEffect,
                  CarriesEffect
    <3> QED BY <3>1, <3>2 DEF EffectInv
  <2> QED BY <2>1, <2>2
<1> QED BY <1>1, <1>2, PTL DEF Spec

\* LedgeredHasEffect for every topic, every setting and every fault but a
\* transaction that is rolled back (repository.py:258-278).
THEOREM RecordedIsApplied == Spec => []LedgeredHasEffect
<1>1. EffectInv => LedgeredHasEffect
  BY DEF EffectInv
<1> QED BY <1>1, EffectInvariance, PTL
-----------------------------------------------------------------------------
(***************************************************************************)
(* An event is applied at most once per copy.                              *)
(***************************************************************************)

\* The sets that are counted are finite; what a process has put through is
\* among the copies there are.
LEMMA RoomFacts ==
    ASSUME IInv, NEW e \in Events
    PROVE  /\ Through(e) \subseteq OffsetsOf(e)
           /\ IsFiniteSet(OffsetsOf(e)) /\ IsFiniteSet(Through(e))
           /\ Cardinality(Through(e)) \in Nat /\ Cardinality(OffsetsOf(e)) \in Nat
           /\ Cardinality(Through(e)) <= Cardinality(OffsetsOf(e))
           /\ Room(e) \in Nat
           /\ Copies(e) = Cardinality(OffsetsOf(e))
<1>1. Len(topic) \in Nat /\ position \in 0..Len(topic)
  BY TopicFacts DEF IInv, TypeOK
<1>2. OffsetsOf(e) \subseteq 1..Len(topic) /\ Through(e) \subseteq OffsetsOf(e)
  BY <1>1 DEF OffsetsOf, Through, Offsets
<1>3. IsFiniteSet(1..Len(topic))
  BY <1>1, FS_Interval
<1>4. IsFiniteSet(OffsetsOf(e))
  BY <1>2, <1>3, FS_Subset
<1>5. /\ IsFiniteSet(Through(e))
      /\ Cardinality(Through(e)) <= Cardinality(OffsetsOf(e))
  BY <1>2, <1>4, FS_Subset
<1>6. Cardinality(Through(e)) \in Nat /\ Cardinality(OffsetsOf(e)) \in Nat
  BY <1>4, <1>5, FS_CardinalityType
<1>7. Copies(e) = Cardinality(OffsetsOf(e))
  BY DEF Copies, OffsetsOf
<1> QED BY <1>2, <1>4, <1>5, <1>6, <1>7 DEF Room

RoomIsFinite ==
    \A e \in Events : /\ IsFiniteSet(OffsetsOf(e)) /\ IsFiniteSet(Through(e))
                      /\ Through(e) \subseteq OffsetsOf(e)

LEMMA RoomAlways == IInv => RoomIsFinite
BY RoomFacts DEF RoomIsFinite

LEMMA RoomNext == IInv' => RoomIsFinite'
BY RoomAlways, PTL

\* There is no less room after a step that puts offsets through or records ids.
LEMMA RoomGrows ==
    ASSUME IInv, IInv', topic' = topic, ledger \subseteq ledger',
           NEW e \in Events, Through(e) \subseteq Through(e)'
    PROVE  Room(e)' >= Room(e)
<1>1. /\ IsFiniteSet(OffsetsOf(e)') /\ IsFiniteSet(Through(e)')
      /\ Cardinality(Through(e)') \in Nat /\ Cardinality(OffsetsOf(e)') \in Nat
      /\ Cardinality(Through(e)') <= Cardinality(OffsetsOf(e)')
  <2>1. /\ IsFiniteSet(OffsetsOf(e)') /\ IsFiniteSet(Through(e)')
        /\ Through(e)' \subseteq OffsetsOf(e)'
    BY RoomNext DEF RoomIsFinite
  <2> QED BY <2>1, FS_Subset, FS_CardinalityType
<1>2. OffsetsOf(e)' = OffsetsOf(e)
  BY DEF OffsetsOf, Offsets
<1>3. /\ Cardinality(Through(e)) \in Nat /\ Cardinality(Through(e)) <= Cardinality(Through(e)')
  BY <1>1, RoomFacts, FS_Subset
<1>4. CASE e \in ledger
  BY <1>1, <1>2, <1>4 DEF Room
<1>5. CASE e \notin ledger
  BY <1>1, <1>2, <1>3, <1>5 DEF Room
<1> QED BY <1>4, <1>5

\* The weights are numbers, and what is in memory weighs something.
LEMMA WeightFacts ==
    ASSUME IInv, DeltasAdd, NEW e \in Events
    PROVE  RowWeight(e) \in Nat /\ LateWeight(e) \in Nat
BY FlushFacts DEF RowWeight, LateWeight

\* A late row never comes without its id.
LEMMA LateStep == ASSUME IInv, DeltasAdd, LateIsLedgered, Next PROVE LateIsLedgered'
<1>1. CASE \/ Poll \/ IdleTick \/ IdleAdvance \/ TickFlush \/ TickSkip
           \/ FlushNothing \/ FilterFail \/ Stop \/ Crash \/ Tick
           \/ Publish \/ PublishFail \/ PublishTimeout
  BY <1>1, QuietSteps DEF QuietStep, LateIsLedgered
<1>2. CASE Filter
  BY <1>2 DEF Filter, storeVars, LateIsLedgered
<1>3. CASE Route
  BY <1>3, RouteFacts DEF LateIsLedgered
<1>4. CASE FlushWrite \/ FlushAckLost
  <2>1. Transaction /\ pendIds' = pendIds /\ pendLate' = pendLate
    BY <1>4 DEF FlushWrite, FlushAckLost, pendVars
  <2>2. ledger' = ledger \cup pendIds
    BY <2>1 DEF Transaction
  <2>3. ASSUME NEW e \in Events, lateEvents'[e] # 0 PROVE e \in ledger'
    <3>1. lateEvents[e] # 0 \/ pendLate[e] # 0
      BY <2>1, <2>3, FlushFacts
    <3> QED BY <2>2, <3>1 DEF LateIsLedgered
  <2> QED BY <2>1, <2>3 DEF LateIsLedgered
<1>5. CASE FlushWriteFail
  BY <1>5 DEF FlushWriteFail, storeVars, pendVars, LateIsLedgered
<1>6. CASE MarkAndCommit \/ MarkAndCommitFail \/ Restart
  BY <1>6 DEF MarkAndCommit, MarkAndCommitFail, Restart, Zero, storeVars, pendVars,
              LateIsLedgered
<1> QED BY <1>1, <1>2, <1>3, <1>4, <1>5, <1>6 DEF Next, Loop, Failure

\* The ledger forgets nothing here, and changes only when nothing is routed.
LEMMA LedgerGrows ==
    ASSUME StagesAreEmpty, Next
    PROVE  /\ ledger \subseteq ledger'
           /\ ledger' = ledger \/ fresh' = {}
<1>1. CASE \/ Poll \/ IdleTick \/ IdleAdvance \/ TickFlush \/ TickSkip
           \/ FlushNothing \/ FilterFail \/ Stop \/ Crash \/ Tick
           \/ Publish \/ PublishFail \/ PublishTimeout
  BY <1>1, QuietSteps DEF QuietStep
<1>2. CASE Filter \/ Route \/ FlushWriteFail \/ MarkAndCommit \/ MarkAndCommitFail
           \/ Restart
  BY <1>2 DEF Filter, Route, FlushWriteFail, MarkAndCommit, MarkAndCommitFail,
              Restart, storeVars
<1>3. CASE FlushWrite \/ FlushAckLost
  BY <1>3 DEF FlushWrite, FlushAckLost, Transaction, StagesAreEmpty
<1> QED BY <1>1, <1>2, <1>3 DEF Next, Loop, Failure

\* filter_batch lets nothing through that the ledger holds.
LEMMA NewStep ==
    ASSUME IInv, StagesAreEmpty, FreshIsNew, Next
    PROVE  FreshIsNew'
<1>1. topic' = topic
  BY TopicStands
<1>2. \/ fresh' \subseteq fresh
      \/ fresh' = NewIn(batch) /\ ledger' = ledger
      \/ fresh' = {}
  BY DEF Next, Loop, Failure, Poll, Filter, Route, IdleTick, IdleAdvance,
         TickFlush, TickSkip, FlushNothing, FlushWrite, Publish, MarkAndCommit,
         FilterFail, FlushWriteFail, FlushAckLost, PublishFail, PublishTimeout,
         MarkAndCommitFail, Stop, Crash, Restart, Tick, loopVars, storeVars
<1>3. \A o \in NewIn(batch) : topic[o] \notin ledger
  BY DEF NewIn, KnownDuplicate
<1> QED BY <1>1, <1>2, <1>3, LedgerGrows DEF FreshIsNew

\* While a process lives, what it has put through stays put through.
LEMMA ThroughGrows ==
    ASSUME IInv, StagesAreEmpty, Next, ~Restart, NEW e \in Events
    PROVE  Through(e) \subseteq Through(e)'
<1>1. topic' = topic /\ position \in Nat /\ batch \subseteq 1..position
  BY TopicStands, TopicFacts DEF IInv, TypeOK
<1>2. CASE Poll
  <2>1. PICK n \in 1..MaxBatch :
           batch' = (position + 1)..(position + n) /\ position' = position + n
    BY <1>2 DEF Poll
  <2>2. fresh = {} /\ fresh' = {} /\ batch = {}
    BY <1>2 DEF Poll, StagesAreEmpty
  <2> QED BY <1>1, <2>1, <2>2, ServiceAssumption DEF Through
<1>3. ASSUME position' = position, batch' \cup fresh' \subseteq batch \cup fresh
      PROVE  Through(e) \subseteq Through(e)'
  BY <1>1, <1>3 DEF Through
<1>4. CASE Filter
  <2>1. fresh' \subseteq batch /\ batch' = {} /\ position' = position
    BY <1>4 DEF Filter, NewIn
  <2> QED BY <1>3, <2>1
<1>5. CASE Route
  BY <1>3, <1>5 DEF Route
<1>6. CASE FilterFail
  BY <1>3, <1>6 DEF FilterFail
<1>7. CASE \/ IdleTick \/ IdleAdvance \/ TickFlush \/ TickSkip
           \/ FlushNothing \/ FlushWrite \/ Publish \/ MarkAndCommit
           \/ FlushWriteFail \/ FlushAckLost \/ PublishFail \/ PublishTimeout
           \/ MarkAndCommitFail \/ Stop \/ Crash \/ Tick
  <2>1. UNCHANGED <<position, batch, fresh>>
    BY <1>7 DEF IdleTick, IdleAdvance, TickFlush, TickSkip, FlushNothing, FlushWrite,
                Publish, MarkAndCommit, FlushWriteFail, FlushAckLost, PublishFail,
                PublishTimeout, MarkAndCommitFail, Stop, Crash, Tick, loopVars
  <2> QED BY <1>3, <2>1
<1> QED BY <1>2, <1>4, <1>5, <1>6, <1>7 DEF Next, Loop, Failure

\* A step that does not route adds no weight, except that an exception after the
\* transaction leaves in memory what is in the store already.
LEMMA WeightStep ==
    ASSUME IInv, DeltasAdd, Next, ~Restart, ~Route,
           seen' \cap {"ack", "dlq"} = {}, NEW e \in Events
    PROVE  /\ RowWeight(e)' <= RowWeight(e)
           /\ "commit" \notin seen' => LateWeight(e)' <= LateWeight(e)
<1>1. /\ agg[e] \in Nat /\ total[e] \in Nat /\ flushed[e] \in Nat
      /\ lateEvents[e] \in Nat /\ pendLate[e] \in Nat
      /\ total[e] - flushed[e] \in Nat
  BY FlushFacts
<1>2. CASE \/ Poll \/ IdleTick \/ IdleAdvance \/ TickFlush \/ TickSkip
           \/ FlushNothing \/ FilterFail \/ Stop \/ Crash \/ Tick
           \/ Publish \/ PublishTimeout
  <2>1. QuietStep
    BY <1>2, QuietSteps
  <2>2. InMemory' => InMemory
    BY <1>2 DEF Poll, IdleTick, IdleAdvance, TickFlush, TickSkip, FlushNothing,
                FilterFail, Stop, Crash, Tick, Publish, PublishTimeout, Raise, Resume,
                loopVars, InMemory
  <2> QED BY <1>1, <2>1, <2>2 DEF QuietStep, RowWeight, LateWeight
<1>3. CASE Filter
  BY <1>1, <1>3 DEF Filter, storeVars, windowVars, InMemory, RowWeight, LateWeight
<1>4. CASE FlushWrite
  <2>1. EvictExpired /\ Transaction /\ pendLate' = pendLate
    BY <1>4 DEF FlushWrite, pendVars
  <2>2. InMemory /\ ~InMemory'
    BY <1>4 DEF FlushWrite, InMemory
  <2>3. /\ agg'[e] = agg[e] + (total[e] - flushed[e])
        /\ lateEvents'[e] = lateEvents[e] + pendLate[e]
    BY <2>1, FlushFacts
  <2> QED BY <1>1, <2>2, <2>3 DEF RowWeight, LateWeight
<1>5. CASE FlushWriteFail
  <2>1. EvictExpired /\ UNCHANGED <<agg, lateEvents, pendLate>>
    BY <1>5 DEF FlushWriteFail, pendVars, storeVars
  <2>2. InMemory
    BY <1>5 DEF FlushWriteFail, InMemory
  <2>3. \/ total'[e] = 0 /\ flushed'[e] = 0
        \/ total'[e] = total[e] /\ flushed'[e] = flushed[e]
    BY <2>1, FlushFacts
  <2> QED BY <1>1, <2>1, <2>2, <2>3 DEF RowWeight, LateWeight
<1>6. CASE MarkAndCommit \/ MarkAndCommitFail
  <2>1. /\ ~InMemory /\ flushed' = total /\ total' = total
        /\ UNCHANGED <<agg, lateEvents>>
        /\ pendLate' = Zero \/ "commit" \in seen'
    BY <1>6 DEF MarkAndCommit, MarkAndCommitFail, MarkFlushed, Fault, storeVars,
                InMemory
  <2>2. Zero[e] = 0
    BY DEF Zero
  <2> QED BY <1>1, <2>1, <2>2 DEF RowWeight, LateWeight
<1>7. CASE FlushAckLost \/ PublishFail
  BY <1>7 DEF FlushAckLost, PublishFail, Fault
<1> QED BY <1>2, <1>3, <1>4, <1>5, <1>6, <1>7 DEF Next, Loop, Failure

\* Routing one event weighs one, and puts one more offset through.
LEMMA RouteFits ==
    ASSUME CopyInv, Route, Next
    PROVE  RowsFit' /\ AllFits'
<1>1. IInv /\ DeltasAdd /\ StagesAreEmpty /\ FreshIsNew /\ RowsFit /\ AllFits
  BY DEF CopyInv
<1>2. PICK o \in fresh :
         /\ topic[o] \in Events /\ o \in 1..position
         /\ fresh' = fresh \ {o}
         /\ \A e \in Events \ {topic[o]} :
               total'[e] = total[e] /\ pendLate'[e] = pendLate[e]
         /\ \/ total'[topic[o]] = total[topic[o]] + 1 /\ pendLate' = pendLate
            \/ /\ total' = total
               /\ \/ pendLate'[topic[o]] = pendLate[topic[o]] + 1
                  \/ pendLate' = pendLate
         /\ UNCHANGED <<agg, lateEvents, ledger, flushed, pc, batch, position, topic,
                        seen>>
  BY <1>1, RouteFacts
<1>3. ~Restart /\ InMemory /\ InMemory'
  BY <1>2 DEF Route, Restart, InMemory
<1>4. IInv'
  BY <1>1, ServiceStep
<1>5. ASSUME NEW e \in Events
      PROVE  /\ RowWeight(e) \in Nat /\ LateWeight(e) \in Nat /\ Room(e) \in Nat
             /\ Room(e)' >= Room(e)
             /\ agg[e] \in Nat /\ total[e] \in Nat /\ flushed[e] \in Nat
             /\ lateEvents[e] \in Nat /\ pendLate[e] \in Nat
             /\ RowWeight(e)' \in Int /\ LateWeight(e)' \in Int /\ Room(e)' \in Int
  <2>1. RowWeight(e)' \in Int /\ LateWeight(e)' \in Int
    <3>1. /\ agg'[e] \in Int /\ total'[e] \in Int /\ flushed'[e] \in Int
          /\ lateEvents'[e] \in Int /\ pendLate'[e] \in Int
      BY <1>4 DEF IInv, TypeOK
    <3> QED BY <3>1 DEF RowWeight, LateWeight
  <2>2. IsFiniteSet(OffsetsOf(e)') /\ IsFiniteSet(Through(e)')
    BY <1>4, RoomNext DEF RoomIsFinite
  <2>3. Room(e)' \in Int
    BY <2>2, FS_CardinalityType DEF Room
  <2>4. Through(e) \subseteq Through(e)'
    BY <1>1, <1>3, ThroughGrows
  <2> QED BY <1>1, <1>2, <1>4, <2>1, <2>3, <2>4, RoomGrows, RoomFacts, WeightFacts, FlushFacts
<1>6. ASSUME NEW e \in Events \ {topic[o]}
      PROVE  /\ RowWeight(e)' = RowWeight(e) /\ LateWeight(e)' = LateWeight(e)
  BY <1>2, <1>3 DEF RowWeight, LateWeight
<1>7. ASSUME NEW e \in Events, e = topic[o]
      PROVE  /\ Room(e)' = Room(e) + 1
             /\ RowWeight(e)' <= RowWeight(e) + 1
             /\ RowWeight(e)' + LateWeight(e)' <= RowWeight(e) + LateWeight(e) + 1
  <2>1. e \notin ledger /\ e \notin ledger'
    BY <1>1, <1>2, <1>7 DEF FreshIsNew
  <2>2. batch = {} /\ batch' = {}
    BY <1>1, <1>2 DEF StagesAreEmpty, Route
  <2>3. Through(e)' = Through(e) \cup {o} /\ o \notin Through(e)
    BY <1>2, <1>7, <2>2 DEF Through
  <2>4. Cardinality(Through(e)') = Cardinality(Through(e)) + 1
    BY <1>1, <2>3, RoomFacts, FS_AddElement
  <2>5. Room(e)' = Room(e) + 1
    BY <2>1, <2>4 DEF Room
  <2>6. /\ RowWeight(e)' <= RowWeight(e) + 1
        /\ RowWeight(e)' + LateWeight(e)' <= RowWeight(e) + LateWeight(e) + 1
    <3>1. /\ RowWeight(e) = agg[e] + (total[e] - flushed[e])
          /\ LateWeight(e) = lateEvents[e] + pendLate[e]
          /\ RowWeight(e)' = agg[e] + (total'[e] - flushed[e])
          /\ LateWeight(e)' = lateEvents[e] + pendLate'[e]
      BY <1>2, <1>3 DEF RowWeight, LateWeight
    <3>2. \/ total'[e] = total[e] + 1 /\ pendLate'[e] = pendLate[e]
          \/ /\ total'[e] = total[e]
             /\ \/ pendLate'[e] = pendLate[e] + 1
                \/ pendLate'[e] = pendLate[e]
      BY <1>2, <1>7
    <3> QED BY <1>5, <3>1, <3>2
  <2> QED BY <2>5, <2>6
<1>8. ASSUME seen' \cap {"ack", "dlq"} = {}, NEW e \in Events
      PROVE  RowWeight(e)' <= Room(e)'
  <2>1. RowWeight(e) <= Room(e)
    BY <1>1, <1>2, <1>8 DEF RowsFit
  <2>2. CASE e = topic[o]
    BY <1>5, <1>7, <2>1, <2>2
  <2>3. CASE e # topic[o]
    <3>1. RowWeight(e)' = RowWeight(e)
      BY <1>6, <2>3
    <3> QED BY <1>5, <2>1, <3>1
  <2> QED BY <2>2, <2>3
<1>9. ASSUME seen' \cap {"ack", "dlq", "commit"} = {}, NEW e \in Events
      PROVE  RowWeight(e)' + LateWeight(e)' <= Room(e)'
  <2>1. RowWeight(e) + LateWeight(e) <= Room(e)
    BY <1>1, <1>2, <1>9 DEF AllFits
  <2>2. CASE e = topic[o]
    BY <1>5, <1>7, <2>1, <2>2
  <2>3. CASE e # topic[o]
    <3>1. RowWeight(e)' = RowWeight(e) /\ LateWeight(e)' = LateWeight(e)
      BY <1>6, <2>3
    <3> QED BY <1>5, <2>1, <3>1
  <2> QED BY <2>2, <2>3
<1> QED BY <1>8, <1>9 DEF RowsFit, AllFits

\* A new process starts over from the committed offset: what is on record weighs
\* as before, and of the rest there is nothing left.
LEMMA RestartFits ==
    ASSUME CopyInv, Restart, Next
    PROVE  RowsFit' /\ AllFits'
<1>1. IInv /\ DeltasAdd /\ LateIsLedgered /\ RowsFit /\ AllFits /\ IInv'
  BY ServiceStep DEF CopyInv
<1>2. /\ UNCHANGED <<agg, lateEvents, ledger, topic, seen>>
      /\ total' = Zero /\ flushed' = Zero /\ pendLate' = Zero
      /\ ~InMemory
  BY DEF Restart, storeVars, kafkaVars, envVars, InMemory
<1>3. ASSUME NEW e \in Events
      PROVE  /\ RowWeight(e)' = RowWeight(e) /\ LateWeight(e)' = LateWeight(e)
             /\ RowWeight(e) \in Nat /\ LateWeight(e) \in Nat
             /\ Room(e)' \in Nat /\ Room(e) \in Nat
             /\ e \in ledger => Room(e)' = Room(e)
             /\ e \notin ledger => RowWeight(e) = 0 /\ LateWeight(e) = 0
  <2>1. agg[e] \in Nat /\ lateEvents[e] \in Nat
    BY <1>1, FlushFacts
  <2>2. Zero[e] = 0
    BY DEF Zero
  <2>3. RowWeight(e)' = RowWeight(e) /\ LateWeight(e)' = LateWeight(e)
    BY <1>2, <2>1, <2>2 DEF RowWeight, LateWeight
  <2>4. IsFiniteSet(OffsetsOf(e)') /\ IsFiniteSet(Through(e)')
    BY <1>1, RoomNext DEF RoomIsFinite
  <2>5. Room(e)' \in Nat
    BY <2>4, FS_CardinalityType DEF Room
  <2>6. e \in ledger => Room(e)' = Room(e)
    BY <1>2 DEF Room, OffsetsOf, Offsets
  <2>7. e \notin ledger => RowWeight(e) = 0 /\ LateWeight(e) = 0
    BY <1>1, <1>2, <2>1 DEF RowWeight, LateWeight, IInv, AppliedIsLedgered,
                            LateIsLedgered
  <2> QED BY <1>1, <2>3, <2>5, <2>6, <2>7, RoomFacts, WeightFacts
<1>4. RowsFit'
  BY <1>1, <1>2, <1>3 DEF RowsFit
<1>5. AllFits'
  BY <1>1, <1>2, <1>3 DEF AllFits
<1> QED BY <1>4, <1>5

\* Any other step adds no weight and takes no room.
LEMMA OtherFits ==
    ASSUME CopyInv, Next, ~Route, ~Restart
    PROVE  RowsFit' /\ AllFits'
<1>1. IInv /\ DeltasAdd /\ StagesAreEmpty /\ RowsFit /\ AllFits
  BY DEF CopyInv
<1>2. IInv' /\ DeltasAdd'
  BY <1>1, ServiceStep, DeltasStep
<1>3. topic' = topic /\ seen \subseteq seen' /\ ledger \subseteq ledger'
  BY <1>1, TopicStands, LedgerGrows
<1>4. ASSUME seen' \cap {"ack", "dlq"} = {}, NEW e \in Events
      PROVE  /\ RowWeight(e)' <= RowWeight(e)
             /\ "commit" \notin seen' => LateWeight(e)' <= LateWeight(e)
             /\ Room(e)' >= Room(e)
             /\ RowWeight(e) \in Nat /\ LateWeight(e) \in Nat /\ Room(e) \in Nat
             /\ RowWeight(e)' \in Int /\ LateWeight(e)' \in Int /\ Room(e)' \in Int
  <2>1. Through(e) \subseteq Through(e)'
    BY <1>1, ThroughGrows
  <2>2. Room(e)' >= Room(e)
    BY <1>1, <1>2, <1>3, <2>1, RoomGrows
  <2>3. IsFiniteSet(OffsetsOf(e)') /\ IsFiniteSet(Through(e)')
    BY <1>2, RoomNext DEF RoomIsFinite
  <2>4. Room(e)' \in Int
    BY <2>3, FS_CardinalityType DEF Room
  <2>5. RowWeight(e)' \in Int /\ LateWeight(e)' \in Int
    <3>1. /\ agg'[e] \in Int /\ total'[e] \in Int /\ flushed'[e] \in Int
          /\ lateEvents'[e] \in Int /\ pendLate'[e] \in Int
      BY <1>2 DEF IInv, TypeOK
    <3> QED BY <3>1 DEF RowWeight, LateWeight
  <2> QED BY <1>1, <1>4, <2>2, <2>4, <2>5, WeightStep, WeightFacts, RoomFacts
<1>5. RowsFit'
  BY <1>1, <1>3, <1>4 DEF RowsFit
<1>6. AllFits'
  <2> SUFFICES ASSUME seen' \cap {"ack", "dlq", "commit"} = {}, NEW e \in Events
               PROVE  RowWeight(e)' + LateWeight(e)' <= Room(e)'
    BY DEF AllFits
  <2>1. RowWeight(e) + LateWeight(e) <= Room(e)
    BY <1>1, <1>3 DEF AllFits
  <2> QED BY <1>4, <2>1
<1> QED BY <1>5, <1>6

LEMMA CopyInvariance == Spec => []CopyInv
<1>1. Init => CopyInv
  <2> SUFFICES ASSUME Init PROVE CopyInv
    OBVIOUS
  <2>1. IInv
    BY InitIInv
  <2>2. StagesAreEmpty /\ DeltasAdd /\ LateIsLedgered /\ FreshIsNew
    BY DEF Init, InitProcess, Zero, StagesAreEmpty, DeltasAdd, LateIsLedgered,
           FreshIsNew
  <2>3. \A e \in Events : RowWeight(e) = 0 /\ LateWeight(e) = 0
    BY DEF Init, InitProcess, Zero, RowWeight, LateWeight
  <2>4. \A e \in Events : Room(e) \in Nat
    BY <2>1, RoomFacts
  <2> QED BY <2>1, <2>2, <2>3, <2>4 DEF CopyInv, RowsFit, AllFits
<1>2. CopyInv /\ [Next]_vars => CopyInv'
  <2>1. CASE CopyInv /\ Next
    <3>1. IInv /\ StagesAreEmpty /\ DeltasAdd /\ LateIsLedgered /\ FreshIsNew
      BY <2>1 DEF CopyInv
    <3>2. /\ IInv' /\ StagesAreEmpty' /\ DeltasAdd' /\ LateIsLedgered'
          /\ FreshIsNew'
      BY <2>1, <3>1, ServiceStep, StagesStep, DeltasStep, LateStep, NewStep
    <3>3. RowsFit' /\ AllFits'
      BY <2>1, RouteFits, RestartFits, OtherFits
    <3> QED BY <3>2, <3>3 DEF CopyInv
  <2>2. CASE CopyInv /\ UNCHANGED vars
    <3>1. IInv'
      BY <2>2, StutterStep DEF CopyInv
    <3>2. \A e : Room(e)' = Room(e) /\ RowWeight(e)' = RowWeight(e)
                 /\ LateWeight(e)' = LateWeight(e)
      BY <2>2 DEF vars, kafkaVars, storeVars, loopVars, windowVars, pendVars, Room,
                  OffsetsOf, Offsets, Through, RowWeight, LateWeight, InMemory
    <3>3. /\ StagesAreEmpty' /\ DeltasAdd' /\ LateIsLedgered' /\ FreshIsNew'
          /\ RowsFit' /\ AllFits'
      BY <2>2, <3>2 DEF vars, kafkaVars, storeVars, loopVars, windowVars, pendVars,
                        envVars, CopyInv, StagesAreEmpty, DeltasAdd, LateIsLedgered,
                        FreshIsNew, RowsFit, AllFits
    <3> QED BY <3>1, <3>3 DEF CopyInv
  <2> QED BY <2>1, <2>2
<1> QED BY <1>1, <1>2, PTL DEF Spec

\* AtMostOncePerCopy for every topic, batch size, memory size and setting, under
\* any number of crashes, restarts and failed transactions.
THEOREM AppliedPerCopy == Spec => []AtMostOncePerCopy
<1>1. CopyInv => AtMostOncePerCopy
  <2> SUFFICES ASSUME CopyInv PROVE AtMostOncePerCopy
    OBVIOUS
  <2>1. ASSUME NEW e \in Events
        PROVE  /\ Room(e) <= Copies(e) /\ Room(e) \in Nat /\ Copies(e) \in Nat
               /\ agg[e] \in Nat /\ lateEvents[e] \in Nat
               /\ RowWeight(e) \in Nat /\ LateWeight(e) \in Nat
               /\ agg[e] <= RowWeight(e) /\ lateEvents[e] <= LateWeight(e)
    <3>1. IInv /\ DeltasAdd
      BY DEF CopyInv
    <3>2. Room(e) <= Copies(e) /\ Room(e) \in Nat /\ Copies(e) \in Nat
      BY <3>1, RoomFacts DEF Room
    <3>3. agg[e] <= RowWeight(e) /\ lateEvents[e] <= LateWeight(e)
      BY <3>1, FlushFacts DEF RowWeight, LateWeight
    <3> QED BY <3>1, <3>2, <3>3, FlushFacts, WeightFacts
  <2>2. seen \cap {"ack", "dlq"} = {} => NotInflated
    <3> SUFFICES ASSUME seen \cap {"ack", "dlq"} = {}, NEW e \in Events
                 PROVE  agg[e] <= Copies(e)
      BY DEF NotInflated
    <3>1. RowWeight(e) <= Room(e)
      BY DEF CopyInv, RowsFit
    <3> QED BY <2>1, <3>1
  <2>3. seen \cap {"ack", "dlq", "commit"} = {} =>
            \A e \in Events : agg[e] + lateEvents[e] <= Copies(e)
    <3> SUFFICES ASSUME seen \cap {"ack", "dlq", "commit"} = {}, NEW e \in Events
                 PROVE  agg[e] + lateEvents[e] <= Copies(e)
      OBVIOUS
    <3>1. RowWeight(e) + LateWeight(e) <= Room(e)
      BY DEF CopyInv, AllFits
    <3> QED BY <2>1, <3>1
  <2> QED BY <2>2, <2>3 DEF AtMostOncePerCopy
<1> QED BY <1>1, CopyInvariance, PTL
-----------------------------------------------------------------------------
(***************************************************************************)
(* A letter in dlq_events is on the DLQ topic.                             *)
(***************************************************************************)
LEMMA AheadStep ==
    ASSUME IInv, StagesAreEmpty, CommittedIsBehind, BatchIsAhead, Next
    PROVE  CommittedIsBehind' /\ BatchIsAhead'
<1>1. position \in Nat /\ committed \in Nat
  BY TopicFacts DEF IInv, TypeOK
<1>2. CASE Poll
  <2>1. PICK n \in 1..MaxBatch :
           batch' = (position + 1)..(position + n) /\ position' = position + n
    BY <1>2 DEF Poll
  <2>2. fresh' = fresh /\ fresh = {} /\ committed' = committed
    BY <1>2 DEF Poll, StagesAreEmpty, kafkaVars
  <2> QED BY <1>1, <2>1, <2>2, ServiceAssumption DEF CommittedIsBehind, BatchIsAhead
<1>3. CASE Filter \/ FilterFail
  BY <1>3 DEF Filter, FilterFail, NewIn, kafkaVars, CommittedIsBehind, BatchIsAhead
<1>4. CASE Route
  BY <1>4 DEF Route, kafkaVars, CommittedIsBehind, BatchIsAhead
<1>5. CASE MarkAndCommit \/ MarkAndCommitFail
  <2>1. /\ batch' = {} /\ fresh' = {} /\ position' = position
        /\ committed' \in {committed, position}
    BY <1>5 DEF MarkAndCommit, MarkAndCommitFail, OffsetToCommit, StagesAreEmpty
  <2> QED BY <1>1, <2>1 DEF CommittedIsBehind, BatchIsAhead
<1>6. CASE Restart
  BY <1>1, <1>6 DEF Restart, kafkaVars, CommittedIsBehind, BatchIsAhead
<1>7. CASE \/ IdleTick \/ IdleAdvance \/ TickFlush \/ TickSkip \/ FlushNothing
           \/ FlushWrite \/ FlushWriteFail \/ FlushAckLost \/ Publish
           \/ PublishFail \/ PublishTimeout \/ Stop \/ Crash \/ Tick
  BY <1>7 DEF IdleTick, IdleAdvance, TickFlush, TickSkip, FlushNothing, FlushWrite,
              FlushWriteFail, FlushAckLost, Publish, PublishFail, PublishTimeout,
              Stop, Crash, Tick, kafkaVars, loopVars, CommittedIsBehind, BatchIsAhead
<1> QED BY <1>2, <1>3, <1>4, <1>5, <1>6, <1>7 DEF Next, Loop, Failure

LEMMA OutStep == ASSUME OutInv, Next PROVE LettersAreOut'
<1> SUFFICES ASSUME seen' \cap {"crash", "ack", "dlq", "timeout"} = {}
             PROVE  /\ \A o \in dlqTable' :
                          dlqTopic'[o] > 0 \/ (pc' = "publish" /\ o \in pendDead')
                    /\ \A o \in pendDead' :
                          o <= committed' \/ pc' = "mark" => dlqTopic'[o] > 0
  BY DEF LettersAreOut
<1>1. /\ \A o \in dlqTable :
            dlqTopic[o] > 0 \/ (pc = "publish" /\ o \in pendDead)
      /\ \A o \in pendDead : o <= committed \/ pc = "mark" => dlqTopic[o] > 0
  BY TopicStands DEF OutInv, LettersAreOut
<1>2. /\ dlqTopic \in [Offsets -> Nat] /\ dlqTable \subseteq Offsets
      /\ pendDead \subseteq Offsets /\ committed \in Nat
      /\ batch \subseteq Nat /\ fresh \subseteq Nat /\ BatchIsAhead
  BY TopicFacts DEF OutInv, IInv, TypeOK, Offsets
<1>3. CASE FlushWrite
  BY <1>1, <1>3 DEF FlushWrite, Transaction, kafkaVars, pendVars
<1>4. CASE Publish
  <2>1. /\ dlqTopic' = Delivered(pendDead) /\ dlqTable' = dlqTable
        /\ pendDead' = pendDead /\ pc = "publish"
    BY <1>4 DEF Publish, storeVars, pendVars
  <2>2. \A o \in Offsets : /\ dlqTopic'[o] >= dlqTopic[o] /\ dlqTopic'[o] \in Nat
                           /\ o \in pendDead => dlqTopic'[o] > 0
    BY <1>2, <2>1 DEF Delivered
  <2> QED BY <1>1, <1>2, <2>1, <2>2
<1>5. CASE Crash \/ FlushAckLost \/ PublishFail \/ PublishTimeout
  BY <1>5 DEF Crash, FlushAckLost, PublishFail, PublishTimeout, Fault
<1>6. CASE Filter \/ Route
  <2>1. /\ pc # "publish" /\ pc # "mark" /\ pc' # "mark"
        /\ UNCHANGED <<dlqTopic, dlqTable, committed>>
        /\ \A o \in pendDead' : o \in pendDead \/ o \in batch \cup fresh
    BY <1>6 DEF Filter, Route, RefusedIn, kafkaVars, storeVars
  <2>2. \A o \in batch \cup fresh : ~(o <= committed)
    <3>1. \A o \in Nat : o > committed => ~(o <= committed)
      BY <1>2
    <3> QED BY <1>2, <3>1 DEF BatchIsAhead
  <2>3. \A o \in dlqTable' : dlqTopic'[o] > 0
    BY <1>1, <2>1
  <2>4. ASSUME NEW o \in pendDead', o <= committed' \/ pc' = "mark"
        PROVE  dlqTopic'[o] > 0
    BY <1>1, <2>1, <2>2, <2>4
  <2> QED BY <2>3, <2>4
<1>7. CASE \/ Poll \/ IdleTick \/ IdleAdvance \/ TickFlush \/ TickSkip
           \/ FlushNothing \/ FilterFail \/ FlushWriteFail \/ Stop
  <2>1. /\ pc # "publish" /\ pc' # "mark"
        /\ UNCHANGED <<dlqTopic, dlqTable, pendDead, committed>>
    BY <1>7 DEF Poll, IdleTick, IdleAdvance, TickFlush, TickSkip, FlushNothing,
                FilterFail, FlushWriteFail, Stop, Raise, Resume, kafkaVars, storeVars,
                pendVars
  <2> QED BY <1>1, <2>1
<1>8. CASE MarkAndCommit \/ MarkAndCommitFail
  <2>1. /\ pc = "mark" /\ UNCHANGED <<dlqTopic, dlqTable>>
        /\ pendDead' \subseteq pendDead
    BY <1>8 DEF MarkAndCommit, MarkAndCommitFail, storeVars, pendVars
  <2> QED BY <1>1, <2>1
<1>9. CASE Restart
  BY <1>1, <1>9 DEF Restart, kafkaVars, storeVars
<1>10. CASE Tick
  BY <1>1, <1>10 DEF Tick, kafkaVars, storeVars, loopVars, pendVars
<1> QED BY <1>3, <1>4, <1>5, <1>6, <1>7, <1>8, <1>9, <1>10 DEF Next, Loop, Failure

\* EveryLetterLands: as long as the process is not cut between the transaction
\* and the publish, no letter is missing from the topic (kafka_io.py:101-102).
THEOREM LettersLand == Spec => []EveryLetterLands
<1>1. Init => OutInv
  BY InitIInv DEF Init, InitProcess, OutInv, StagesAreEmpty, CommittedIsBehind,
                  BatchIsAhead, LettersAreOut
<1>2. OutInv /\ [Next]_vars => OutInv'
  <2>1. CASE OutInv /\ Next
    <3>1. IInv /\ StagesAreEmpty /\ CommittedIsBehind /\ BatchIsAhead
      BY <2>1 DEF OutInv
    <3>2. IInv' /\ StagesAreEmpty' /\ CommittedIsBehind' /\ BatchIsAhead'
      BY <2>1, <3>1, ServiceStep, StagesStep, AheadStep
    <3>3. LettersAreOut'
      BY <2>1, OutStep
    <3> QED BY <3>2, <3>3 DEF OutInv
  <2>2. CASE OutInv /\ UNCHANGED vars
    <3>1. IInv'
      BY <2>2, StutterStep DEF OutInv
    <3>2. /\ StagesAreEmpty' /\ CommittedIsBehind' /\ BatchIsAhead'
          /\ LettersAreOut'
      BY <2>2 DEF vars, kafkaVars, storeVars, loopVars, pendVars, envVars, OutInv,
                  StagesAreEmpty, CommittedIsBehind, BatchIsAhead, LettersAreOut
    <3> QED BY <3>1, <3>2 DEF OutInv
  <2> QED BY <2>1, <2>2
<1>3. OutInv => EveryLetterLands
  BY DEF OutInv, LettersAreOut, EveryLetterLands
<1> QED BY <1>1, <1>2, <1>3, PTL DEF Spec
-----------------------------------------------------------------------------
(***************************************************************************)
(* The service implements ExactlyOnce: crashes, shutdowns, failed offset   *)
(* commits and publish timeouts, in any number, are invisible in the row   *)
(* contributions, the dead letters and the committed offset.               *)
(*                                                                         *)
(* The flush transaction is Settle: A are the events with a delta, R the   *)
(* pending letters.  The offset commit is Acknowledge.  Every other step   *)
(* stutters.  What the invariants of CommitProofs and EffectProofs leave   *)
(* open is that an event does one or the other: what has a dead letter     *)
(* never has a contribution (RefusedHasNoRow).                             *)
(***************************************************************************)
\* The faults under which the promise is kept; those left out are the findings
\* of README.md and the exceptions after the transaction.
Survivable == Faults \subseteq {"crash", "stop", "commit", "timeout"}

\* No producer retries: a valid event is in the topic once.
NoRetries ==
    \A t \in Topics : \A o, p \in 1..Len(t) :
        t[o] \in Events \ Violating /\ t[p] = t[o] => o = p

\* A letter with an id never comes without its id in the ledger.
LetterIsLedgered ==
    /\ \A o \in pendDead : topic[o] \in Events => topic[o] \in pendIds
    /\ \A o \in dlqTable : topic[o] \in Events => topic[o] \in ledger

\* A letter is not written for what is still being processed.
LetterIsThrough == \A o \in pendDead : o \notin batch \cup fresh

\* A late_events row has its letter.
LateHasLetter ==
    \A e \in Events :
        /\ pendLate[e] # 0 => \E o \in pendDead : topic[o] = e
        /\ lateEvents[e] # 0 => \E o \in dlqTable : topic[o] = e

\* An event with a letter has no contribution, in a row or in memory.
RefusedHasNoRow ==
    \A o \in dlqTable \cup pendDead : topic[o] \in Events => RowWeight(topic[o]) = 0

ViolatingHasNoRow == \A e \in Violating : RowWeight(e) = 0

LetterFacts == LetterIsLedgered /\ LetterIsThrough /\ LateHasLetter

RefusalInv == LetterFacts /\ RefusedHasNoRow /\ ViolatingHasNoRow

ServiceInv == CommitInv /\ EffectInv /\ CopyInv /\ RefusalInv
-----------------------------------------------------------------------------
LEMMA OnlySurvivable ==
    ASSUME Survivable, TypeOK
    PROVE  seen \cap {"sink", "ack", "dlq", "lookup"} = {}
BY DEF Survivable, TypeOK

\* A valid event is at one offset.
LEMMA OneOffset ==
    ASSUME NoRetries, TypeOK, NEW o \in Offsets, NEW p \in Offsets, IsValid(o),
           topic[p] = topic[o]
    PROVE  o = p
BY DEF NoRetries, TypeOK, IsValid, Offsets

\* So there is room for one contribution, and for none before it is routed.
LEMMA RoomForOne ==
    ASSUME NoRetries, IInv, NEW e \in Events \ Violating
    PROVE  /\ Room(e) \in {0, 1}
           /\ Room(e) = 1 => \E o \in Offsets : topic[o] = e
           /\ \A o \in fresh : topic[o] = e /\ e \notin ledger => Room(e) = 0
<1>1. TypeOK /\ Len(topic) \in Nat
  BY TopicFacts DEF IInv
<1>2. \A o, p \in OffsetsOf(e) : o = p
  BY <1>1, OneOffset DEF OffsetsOf, IsValid
<1>3. /\ Through(e) \subseteq OffsetsOf(e)
      /\ IsFiniteSet(Through(e)) /\ IsFiniteSet(OffsetsOf(e))
  BY RoomFacts
<1>4. ASSUME NEW S, S \subseteq OffsetsOf(e), IsFiniteSet(S)
      PROVE  /\ Cardinality(S) \in {0, 1}
             /\ Cardinality(S) = 1 => \E o \in Offsets : topic[o] = e
  <2>1. CASE S = {}
    BY <2>1, FS_EmptySet
  <2>2. CASE S # {}
    <3>1. PICK x : x \in S
      BY <2>2
    <3>2. S = {x} /\ x \in OffsetsOf(e)
      BY <1>2, <1>4, <3>1
    <3>3. Cardinality({x}) = 1
      BY FS_Singleton
    <3> QED BY <3>2, <3>3 DEF OffsetsOf
  <2> QED BY <2>1, <2>2
<1>5. /\ Room(e) \in {0, 1}
      /\ Room(e) = 1 => \E o \in Offsets : topic[o] = e
  BY <1>3, <1>4 DEF Room
<1>6. ASSUME NEW o \in fresh, topic[o] = e, e \notin ledger
      PROVE  Room(e) = 0
  <2>1. o \in OffsetsOf(e) /\ o \notin Through(e)
    BY <1>1, <1>6 DEF OffsetsOf, Through, TypeOK, Offsets
  <2>2. Through(e) = {}
    BY <1>2, <1>3, <2>1
  <2> QED BY <1>6, <2>2, FS_EmptySet DEF Room
<1> QED BY <1>5, <1>6

WeightsAreNumbers == \A e \in Events : RowWeight(e) \in Nat

LEMMA WeightsAlways == IInv /\ DeltasAdd => WeightsAreNumbers
BY WeightFacts DEF WeightsAreNumbers

LEMMA WeightsNext == IInv' /\ DeltasAdd' => WeightsAreNumbers'
BY WeightsAlways, PTL

\* Only routing adds weight.
LEMMA NoMoreWeight ==
    ASSUME IInv, DeltasAdd, Next, ~Route, seen' \cap {"ack", "dlq"} = {},
           NEW e \in Events
    PROVE  RowWeight(e) = 0 => RowWeight(e)' = 0
<1>1. RowWeight(e)' \in Nat /\ RowWeight(e) \in Nat
  <2>1. WeightsAreNumbers /\ WeightsAreNumbers'
    BY ServiceStep, DeltasStep, WeightsAlways, WeightsNext
  <2> QED BY <2>1 DEF WeightsAreNumbers
<1>2. RowWeight(e)' <= RowWeight(e)
  <2>1. CASE ~Restart
    BY <2>1, WeightStep
  <2>2. CASE Restart
    <3>1. /\ agg' = agg /\ total' = Zero /\ flushed' = Zero /\ ~InMemory
      BY <2>2 DEF Restart, storeVars, InMemory
    <3>2. agg[e] \in Nat /\ Zero[e] = 0
      BY FlushFacts DEF Zero
    <3> QED BY <3>1, <3>2 DEF RowWeight
  <2> QED BY <2>1, <2>2
<1> QED BY <1>1, <1>2
-----------------------------------------------------------------------------
(***************************************************************************)
(* Letters.                                                                *)
(***************************************************************************)
LEMMA LetterFactsStep ==
    ASSUME IInv, DeltasAdd, StagesAreEmpty, LetterFacts, Next
    PROVE  LetterFacts'
<1> USE DEF LetterFacts
<1>1. topic' = topic /\ position \in Nat /\ pendDead \subseteq 1..position
  BY TopicStands, TopicFacts DEF IInv, TypeOK
<1>2. CASE \/ IdleTick \/ IdleAdvance \/ TickFlush \/ TickSkip
           \/ FlushNothing \/ FilterFail \/ Stop \/ Crash \/ Tick
           \/ Publish \/ PublishFail \/ PublishTimeout
  <2>1. QuietStep
    BY <1>2, QuietSteps
  <2>2. batch' \subseteq batch /\ fresh' = fresh
    BY <1>2 DEF IdleTick, IdleAdvance, TickFlush, TickSkip, FlushNothing, FilterFail,
                Stop, Crash, Tick, Publish, PublishFail, PublishTimeout, loopVars
  <2> QED BY <1>1, <2>1, <2>2 DEF QuietStep, LetterIsLedgered, LetterIsThrough,
                                  LateHasLetter
<1>3. CASE Poll
  <2>1. QuietStep
    BY <1>3, QuietSteps
  <2>2. PICK n \in 1..MaxBatch : batch' = (position + 1)..(position + n)
    BY <1>3 DEF Poll
  <2>3. fresh' = {}
    BY <1>3 DEF Poll, StagesAreEmpty
  <2> QED BY <1>1, <2>1, <2>2, <2>3, ServiceAssumption
          DEF QuietStep, LetterIsLedgered, LetterIsThrough, LateHasLetter
<1>4. CASE Filter
  <2>1. /\ fresh' = NewIn(batch) /\ batch' = {}
        /\ pendDead' = pendDead \cup RefusedIn(batch)
        /\ pendIds' = pendIds \cup {topic[o] : o \in ViolatingIn(batch)}
        /\ UNCHANGED <<pendLate, lateEvents, dlqTable, ledger>>
    BY <1>4 DEF Filter, storeVars
  <2>2. \A o \in RefusedIn(batch) : /\ topic[o] \in Events => o \in ViolatingIn(batch)
                                    /\ ~IsValid(o)
    BY ServiceAssumption DEF RefusedIn, ViolatingIn, IsGarbage, IsViolating, IsValid
  <2>3. \A o \in NewIn(batch) : IsValid(o) /\ o \in batch
    BY DEF NewIn
  <2>4. LetterIsLedgered'
    BY <1>1, <2>1, <2>2 DEF LetterIsLedgered
  <2>5. LetterIsThrough'
    BY <2>1, <2>2, <2>3 DEF LetterIsThrough
  <2>6. LateHasLetter'
    BY <1>1, <2>1 DEF LateHasLetter
  <2> QED BY <2>4, <2>5, <2>6
<1>5. CASE Route
  <2>1. PICK o \in fresh :
           /\ fresh' = fresh \ {o}
           /\ pendIds' = pendIds \cup {topic[o]}
           /\ \A e \in Events \ {topic[o]} : pendLate'[e] = pendLate[e]
           /\ \/ pendLate' = pendLate /\ pendDead' = pendDead
              \/ pendDead' = pendDead \cup {o}
           /\ UNCHANGED <<lateEvents, ledger, dlqTable, batch>>
    BY <1>5, RouteFacts
  <2>2. batch = {}
    BY <1>5 DEF Route, StagesAreEmpty
  <2>3. LetterIsLedgered' /\ LetterIsThrough'
    BY <1>1, <2>1, <2>2 DEF LetterIsLedgered, LetterIsThrough
  <2>4. LateHasLetter'
    BY <1>1, <2>1 DEF LateHasLetter
  <2> QED BY <2>3, <2>4
<1>6. CASE FlushWrite \/ FlushAckLost
  <2>1. /\ Transaction
        /\ UNCHANGED <<pendIds, pendLate, pendDead, batch, fresh>>
    BY <1>6 DEF FlushWrite, FlushAckLost, pendVars
  <2>2. ledger' = ledger \cup pendIds /\ dlqTable' = dlqTable \cup pendDead
    BY <2>1 DEF Transaction
  <2>3. LetterIsLedgered' /\ LetterIsThrough'
    BY <1>1, <2>1, <2>2 DEF LetterIsLedgered, LetterIsThrough
  <2>4. ASSUME NEW e \in Events, lateEvents'[e] # 0
        PROVE  \E o \in dlqTable' : topic[o] = e
    <3>1. lateEvents[e] # 0 \/ pendLate[e] # 0
      BY <2>1, <2>4, FlushFacts
    <3> QED BY <2>2, <3>1 DEF LateHasLetter
  <2>5. LateHasLetter'
    BY <1>1, <2>1, <2>4 DEF LateHasLetter
  <2> QED BY <2>3, <2>5
<1>7. CASE FlushWriteFail \/ MarkAndCommitFail
  <2>1. UNCHANGED <<pendIds, pendLate, pendDead, batch, fresh, ledger, lateEvents,
                    dlqTable>>
    BY <1>7 DEF FlushWriteFail, MarkAndCommitFail, pendVars, storeVars
  <2> QED BY <1>1, <2>1 DEF LetterIsLedgered, LetterIsThrough, LateHasLetter
<1>8. CASE MarkAndCommit \/ Restart
  <2>1. /\ pendLate' = Zero /\ pendDead' = {}
        /\ UNCHANGED <<ledger, lateEvents, dlqTable>>
    BY <1>8 DEF MarkAndCommit, Restart, storeVars
  <2> QED BY <1>1, <2>1 DEF Zero, LetterIsLedgered, LetterIsThrough, LateHasLetter
<1> QED BY <1>2, <1>3, <1>4, <1>5, <1>6, <1>7, <1>8 DEF Next, Loop, Failure

\* Dead letters that a step adds.
LEMMA LettersGrow ==
    ASSUME Next, ~Route, ~Filter
    PROVE  dlqTable' \cup pendDead' \subseteq dlqTable \cup pendDead
<1>1. CASE \/ Poll \/ IdleTick \/ IdleAdvance \/ TickFlush \/ TickSkip
           \/ FlushNothing \/ FilterFail \/ Stop \/ Crash \/ Tick
           \/ Publish \/ PublishFail \/ PublishTimeout
  BY <1>1, QuietSteps DEF QuietStep
<1>2. CASE FlushWrite \/ FlushAckLost
  BY <1>2 DEF FlushWrite, FlushAckLost, Transaction, pendVars
<1>3. CASE FlushWriteFail \/ MarkAndCommitFail \/ MarkAndCommit \/ Restart
  BY <1>3 DEF FlushWriteFail, MarkAndCommitFail, MarkAndCommit, Restart, pendVars,
              storeVars
<1> QED BY <1>1, <1>2, <1>3 DEF Next, Loop, Failure

\* An event is routed to a row or to a letter, and has neither before.
LEMMA RouteChooses ==
    ASSUME NoRetries, Survivable, CopyInv, RefusalInv, Route, Next
    PROVE  RefusedHasNoRow' /\ ViolatingHasNoRow'
<1>1. /\ IInv /\ DeltasAdd /\ StagesAreEmpty /\ FreshIsNew /\ RowsFit
      /\ LetterIsLedgered /\ LetterIsThrough /\ RefusedHasNoRow /\ ViolatingHasNoRow
  BY DEF CopyInv, RefusalInv, LetterFacts
<1>2. PICK o \in fresh :
         /\ topic[o] \in Events /\ o \in 1..position
         /\ \A e \in Events \ {topic[o]} : total'[e] = total[e]
         /\ \/ pendDead' = pendDead
            \/ total' = total /\ pendDead' = pendDead \cup {o}
         /\ UNCHANGED <<agg, flushed, dlqTable, pc, topic>>
  BY <1>1, RouteFacts
<1> DEFINE e0 == topic[o]
<1>3. /\ IsValid(o) /\ e0 \in Events \ Violating /\ e0 \notin ledger
      /\ o \in Offsets
  BY <1>1, <1>2, TopicFacts DEF FreshIsNew, IInv, FreshIsValid, IsValid, TypeOK, Offsets
<1>4. RowWeight(e0) = 0
  <2>1. seen \cap {"ack", "dlq"} = {}
    BY <1>1, OnlySurvivable DEF IInv
  <2>2. RowWeight(e0) <= Room(e0) /\ Room(e0) = 0 /\ RowWeight(e0) \in Nat
    BY <1>1, <1>3, <2>1, RoomForOne, WeightFacts DEF RowsFit
  <2> QED BY <2>2
<1>5. \A e \in Events \ {e0} : RowWeight(e)' = RowWeight(e)
  BY <1>2 DEF RowWeight, InMemory
<1>6. o \notin dlqTable \cup pendDead
  BY <1>1, <1>2, <1>3 DEF LetterIsLedgered, LetterIsThrough
<1>7. ASSUME NEW p \in dlqTable' \cup pendDead', topic[p] \in Events
      PROVE  RowWeight(topic[p])' = 0
  <2>1. p \in dlqTable \cup pendDead \/ (p = o /\ total' = total)
    BY <1>2, <1>7
  <2>2. CASE topic[p] # e0
    <3>1. p \in dlqTable \cup pendDead /\ topic[p] \in Events
      BY <1>2, <1>7, <2>1, <2>2
    <3>2. RowWeight(topic[p]) = 0
      BY <1>1, <3>1 DEF RefusedHasNoRow
    <3>3. \A e \in Events \ {e0} : RowWeight(e) = 0 => RowWeight(e)' = 0
      BY <1>5
    <3> QED BY <1>2, <2>2, <3>1, <3>2, <3>3
  <2>3. CASE topic[p] = e0
    <3>1. p \in Offsets
      <4>1. /\ Len(topic) \in Nat /\ position \in 0..Len(topic)
            /\ dlqTable \subseteq Offsets /\ pendDead \subseteq 1..position
        BY <1>1, TopicFacts DEF IInv, TypeOK
      <4>2. pendDead \subseteq Offsets
        BY <4>1 DEF Offsets
      <4> QED BY <1>3, <2>1, <4>1, <4>2
    <3>2. p = o
      BY <1>1, <1>3, <2>3, <3>1, OneOffset DEF IInv
    <3>3. total' = total
      BY <1>6, <2>1, <3>2
    <3> QED BY <1>2, <1>4, <2>3, <3>3 DEF RowWeight, InMemory
  <2> QED BY <2>2, <2>3
<1>8. RefusedHasNoRow'
  BY <1>2, <1>7 DEF RefusedHasNoRow
<1>9. ViolatingHasNoRow'
  BY <1>1, <1>3, <1>5, ServiceAssumption DEF ViolatingHasNoRow
<1> QED BY <1>8, <1>9

LEMMA RefusalStep ==
    ASSUME NoRetries, Survivable, CopyInv, RefusalInv, Next
    PROVE  RefusalInv'
<1>1. /\ IInv /\ DeltasAdd /\ StagesAreEmpty
      /\ LetterFacts /\ RefusedHasNoRow /\ ViolatingHasNoRow
  BY DEF CopyInv, RefusalInv
<1>2. LetterFacts'
  BY <1>1, LetterFactsStep
<1>3. RefusedHasNoRow' /\ ViolatingHasNoRow'
  <2>1. CASE Route
    BY <2>1, RouteChooses
  <2>2. CASE ~Route
    <3>1. topic' = topic /\ seen' \subseteq Faults
      BY <1>1, TopicStands, ServiceStep DEF IInv, TypeOK
    <3>2. seen' \cap {"ack", "dlq"} = {}
      BY <3>1 DEF Survivable
    <3>3. \A e \in Events : RowWeight(e) = 0 => RowWeight(e)' = 0
      BY <1>1, <2>2, <3>2, NoMoreWeight
    <3>4. ViolatingHasNoRow'
      BY <1>1, <3>3, ServiceAssumption DEF ViolatingHasNoRow
    <3>5. CASE Filter
      <4>1. /\ dlqTable' = dlqTable /\ pendDead' = pendDead \cup RefusedIn(batch)
        BY <3>5 DEF Filter, storeVars
      <4>2. \A o \in RefusedIn(batch) : topic[o] \in Events => topic[o] \in Violating
        BY ServiceAssumption DEF RefusedIn, IsGarbage, IsViolating
      <4>3. \A o \in dlqTable' \cup pendDead' :
               topic[o] \in Events => RowWeight(topic[o]) = 0
        BY <1>1, <4>1, <4>2 DEF RefusedHasNoRow, ViolatingHasNoRow
      <4> QED BY <3>1, <3>3, <3>4, <4>3 DEF RefusedHasNoRow
    <3>6. CASE ~Filter
      <4>1. dlqTable' \cup pendDead' \subseteq dlqTable \cup pendDead
        BY <2>2, <3>6, LettersGrow
      <4> QED BY <1>1, <3>1, <3>3, <3>4, <4>1 DEF RefusedHasNoRow
    <3> QED BY <3>5, <3>6
  <2> QED BY <2>1, <2>2
<1> QED BY <1>2, <1>3 DEF RefusalInv
-----------------------------------------------------------------------------
(***************************************************************************)
(* The steps.                                                              *)
(***************************************************************************)

\* The transaction settles the events with a delta and the pending letters.
LEMMA WriteSettles ==
    ASSUME NoRetries, Survivable, ServiceInv, FlushWrite
    PROVE  Promise!Settle
<1>1. /\ IInv /\ DeltasAdd /\ RowsFit /\ RefusedHasNoRow /\ ViolatingHasNoRow
  BY DEF ServiceInv, CopyInv, RefusalInv
<1>2. /\ Transaction /\ InMemory
      /\ UNCHANGED <<topic, committed>>
  BY DEF FlushWrite, kafkaVars, InMemory
<1> DEFINE A == {e \in Events : Delta(e) # 0}
<1>3. ASSUME NEW e \in Events
      PROVE  /\ RowWeight(e) = agg[e] + Delta(e)
             /\ agg[e] \in Nat /\ Delta(e) \in Nat
  BY <1>1, <1>2, FlushFacts DEF RowWeight, Delta
<1>4. ASSUME NEW e \in A
      PROVE  /\ \E o \in Offsets : topic[o] = e
             /\ agg[e] = 0 /\ Delta(e) = 1
             /\ ~Promise!IsRefused(e)
             /\ \A o \in pendDead : topic[o] # e
  <2>1. RowWeight(e) # 0
    BY <1>3
  <2>2. e \in Events \ Violating
    BY <1>1, <2>1 DEF ViolatingHasNoRow
  <2>3. seen \cap {"ack", "dlq"} = {}
    BY <1>1, OnlySurvivable DEF IInv
  <2>4. RowWeight(e) <= Room(e) /\ Room(e) \in {0, 1}
    BY <1>1, <2>2, <2>3, RoomForOne DEF RowsFit
  <2>5. Room(e) = 1 /\ agg[e] = 0 /\ Delta(e) = 1
    BY <1>3, <2>1, <2>4
  <2>6. \E o \in Offsets : topic[o] = e
    BY <1>1, <2>2, <2>5, RoomForOne
  <2>7. \A o \in dlqTable \cup pendDead : topic[o] # e
    BY <1>1, <2>1 DEF RefusedHasNoRow
  <2> QED BY <2>5, <2>6, <2>7 DEF Promise!IsRefused
<1>5. ASSUME NEW o \in pendDead, topic[o] \in Events
      PROVE  topic[o] \notin A /\ agg[topic[o]] = 0
  <2>1. RowWeight(topic[o]) = 0
    BY <1>1, <1>5 DEF RefusedHasNoRow
  <2> QED BY <1>3, <1>5, <2>1
<1>6. pendDead \subseteq Offsets /\ agg \in [Events -> Int]
  BY <1>1, TopicFacts DEF IInv, TypeOK, Offsets
<1>7. agg' = [e \in Events |-> IF e \in A THEN 1 ELSE agg[e]]
  BY <1>2, <1>3, <1>4 DEF Transaction
<1>8. dlqTable' = dlqTable \cup pendDead
  BY <1>2 DEF Transaction
<1> HIDE DEF A
<1>9. A \in SUBSET Events
  BY DEF A
<1> QED BY <1>2, <1>4, <1>5, <1>6, <1>7, <1>8, <1>9
        DEF Promise!Settle, Promise!Offsets, Offsets

\* Before the commit everything up to the position is settled.
LEMMA MarkIsSettled ==
    ASSUME NoRetries, Survivable, ServiceInv, pc = "mark"
    PROVE  \A o \in 1..position : Promise!Settled(o)
<1>1. /\ IInv /\ DeltasAdd /\ RowsFit /\ CommitInv /\ ViolatingHasNoRow
      /\ LedgeredHasEffect /\ LateHasLetter
  BY DEF ServiceInv, CopyInv, EffectInv, RefusalInv, LetterFacts
<1>2. seen \cap {"sink", "ack", "dlq", "lookup"} = {}
  BY <1>1, OnlySurvivable DEF IInv
<1>3. HandledUpTo(position)
  BY <1>1, <1>2, MarkIsHandled
<1>4. ASSUME NEW o \in 1..position, IsValid(o)
      PROVE  Promise!Settled(o)
  <2> DEFINE e == topic[o]
  <2>1. e \in Events \ Violating /\ e \in ledger
    BY <1>3, <1>4 DEF HandledUpTo, IsValid
  <2>2. \/ agg[e] > 0
        \/ lateEvents[e] > 0
        \/ \E p \in dlqTable : topic[p] = e
    BY <1>1, <1>2, <2>1 DEF LedgeredHasEffect, HasEffect
  <2>3. RowWeight(e) = agg[e] /\ agg[e] \in Nat /\ lateEvents[e] \in Nat
    BY <1>1, <2>1, FlushFacts DEF RowWeight, InMemory
  <2>4. agg[e] \in {0, 1}
    BY <1>1, <1>2, <2>1, <2>3, RoomForOne DEF RowsFit
  <2>5. lateEvents[e] > 0 => \E p \in dlqTable : topic[p] = e
    BY <1>1, <2>1, <2>3 DEF LateHasLetter
  <2>6. agg[e] = 1 \/ \E p \in dlqTable : topic[p] = e
    BY <2>2, <2>3, <2>4, <2>5
  <2> QED BY <2>1, <2>6 DEF Promise!Settled, Promise!IsRefused
<1>5. ASSUME NEW o \in 1..position, ~IsValid(o)
      PROVE  Promise!Settled(o)
  BY <1>3, <1>5 DEF HandledUpTo, Promise!Settled
<1> QED BY <1>4, <1>5

LEMMA CommitAcknowledges ==
    ASSUME NoRetries, Survivable, ServiceInv, MarkAndCommit \/ MarkAndCommitFail
    PROVE  Promise!Acknowledge \/ UNCHANGED Promise!vars
<1>1. /\ UNCHANGED <<topic, agg, dlqTable>>
      /\ pc = "mark"
      /\ committed' = position \/ committed' = committed
  BY DEF MarkAndCommit, MarkAndCommitFail, OffsetToCommit, storeVars
<1>2. position \in committed..Len(topic)
  BY TopicFacts DEF ServiceInv, CommitInv, CommittedIsBehind, IInv, TypeOK
<1>3. CASE committed' = position
  BY <1>1, <1>2, <1>3, MarkIsSettled DEF Promise!Acknowledge
<1>4. CASE committed' = committed
  BY <1>1, <1>4 DEF Promise!vars
<1> QED BY <1>1, <1>3, <1>4

LEMMA StepImplements ==
    ASSUME NoRetries, Survivable, ServiceInv, Next
    PROVE  Promise!Next \/ UNCHANGED Promise!vars
<1>1. CASE FlushWrite
  BY <1>1, WriteSettles DEF Promise!Next
<1>2. CASE MarkAndCommit \/ MarkAndCommitFail
  BY <1>2, CommitAcknowledges DEF Promise!Next
<1>3. CASE FlushAckLost
  BY <1>3 DEF FlushAckLost, Fault, Survivable
<1>4. CASE \/ Poll \/ Filter \/ Route \/ IdleTick \/ IdleAdvance \/ TickFlush
           \/ TickSkip \/ FlushNothing \/ Publish \/ FilterFail \/ FlushWriteFail
           \/ PublishFail \/ PublishTimeout \/ Stop \/ Crash \/ Restart \/ Tick
  <2>1. UNCHANGED <<topic, agg, dlqTable, committed>>
    BY <1>4 DEF Poll, Filter, Route, IdleTick, IdleAdvance, TickFlush, TickSkip,
                FlushNothing, Publish, FilterFail, FlushWriteFail, PublishFail,
                PublishTimeout, Stop, Crash, Restart, Tick, kafkaVars, storeVars
  <2> QED BY <2>1 DEF Promise!vars
<1> QED BY <1>1, <1>2, <1>3, <1>4 DEF Next, Loop, Failure

LEMMA RefusalInvariance ==
    ASSUME NoRetries, Survivable
    PROVE  Spec => []RefusalInv
<1>1. Init => RefusalInv
  BY ServiceAssumption
     DEF Init, InitProcess, Zero, RefusalInv, LetterFacts, LetterIsLedgered,
         LetterIsThrough, LateHasLetter, RefusedHasNoRow, ViolatingHasNoRow, RowWeight
<1>2. CopyInv /\ RefusalInv /\ [Next]_vars => RefusalInv'
  <2>1. CASE CopyInv /\ RefusalInv /\ Next
    BY <2>1, RefusalStep
  <2>2. CASE RefusalInv /\ UNCHANGED vars
    <3>1. \A e : RowWeight(e)' = RowWeight(e)
      BY <2>2 DEF vars, storeVars, loopVars, windowVars, RowWeight, InMemory
    <3> QED BY <2>2, <3>1
            DEF vars, kafkaVars, storeVars, loopVars, windowVars, pendVars,
                RefusalInv, LetterFacts, LetterIsLedgered, LetterIsThrough,
                LateHasLetter, RefusedHasNoRow, ViolatingHasNoRow
  <2> QED BY <2>1, <2>2
<1> QED BY <1>1, <1>2, CopyInvariance, PTL DEF Spec

\* The promise of docs/delivery_semantics.md for every topic without producer
\* retries, every batch and memory size and every setting of the windows: under
\* any number of crashes, shutdowns, failed offset commits and publish timeouts
\* the service moves the aggregates exactly once or keeps a dead letter, and
\* acknowledges only what is settled.
THEOREM ServiceIsExactlyOnce ==
    ASSUME NoRetries, Survivable
    PROVE  Spec => ImplementsExactlyOnce
<1>1. Init => Promise!Init
  BY DEF Init, Zero, Promise!Init
<1>2. ServiceInv /\ [Next]_vars => [Promise!Next]_(Promise!vars)
  <2>1. CASE ServiceInv /\ Next
    BY <2>1, StepImplements
  <2>2. CASE UNCHANGED vars
    BY <2>2 DEF vars, kafkaVars, storeVars, Promise!vars
  <2> QED BY <2>1, <2>2
<1>3. CommitInv /\ EffectInv /\ CopyInv /\ RefusalInv => ServiceInv
  BY DEF ServiceInv
<1> QED BY <1>1, <1>2, <1>3, CommitInvariance, EffectInvariance, CopyInvariance,
           RefusalInvariance, PTL DEF Spec, ImplementsExactlyOnce, Promise!Spec
=============================================================================
