---------------------------- MODULE ReplayProofs ----------------------------
(***************************************************************************)
(* Theorems about dead letters that come back and about the retention of   *)
(* the ledger: for every topic, retention, number of replay commands and   *)
(* number of faults.                                                       *)
(***************************************************************************)
EXTENDS Replay, SequenceTheorems, WellFoundedInduction, TLAPS

\* A record at the end of a topic.
LEMMA Appended ==
    ASSUME NEW T, NEW s \in Seq(T), NEW e \in T
    PROVE  /\ Append(s, e) \in Seq(T)
           /\ Len(Append(s, e)) = Len(s) + 1
           /\ Len(s) \in Nat
           /\ \A i \in 1..Len(s) : Append(s, e)[i] = s[i]
           /\ Append(s, e)[Len(s) + 1] = e
BY AppendProperties, LenProperties

\* The first of a queue is taken out.
LEMMA Taken ==
    ASSUME NEW T, NEW s \in Seq(T), s # <<>>
    PROVE  /\ Head(s) \in T /\ Head(s) = s[1]
           /\ Tail(s) \in Seq(T)
           /\ Len(s) \in Nat /\ Len(s) > 0
           /\ Len(Tail(s)) = Len(s) - 1
           /\ \A i \in 1..Len(Tail(s)) : Tail(s)[i] = s[i + 1]
BY HeadTailProperties, LenProperties, EmptySeq

\* A set of numbers up to n has a greatest element.
LEMMA LastOffset ==
    ASSUME NEW n \in Nat, NEW T, T \subseteq 1..n, T # {}
    PROVE  \E x \in T : \A y \in T : y <= x
<1> DEFINE R == OpToRel(<, Nat)
           U == {k \in Nat : n - k \in T}
<1>1. \A a, b \in Nat : a < b => <<a, b>> \in R
  BY DEF OpToRel
<1>2. IsWellFoundedOn(R, Nat)
  BY NatLessThanWellFounded
<1>3. U \subseteq Nat /\ \A y \in T : n - y \in U
  OBVIOUS
<1> HIDE DEF R
<1>4. PICK u \in U : \A v \in U : <<v, u>> \notin R
  BY <1>2, <1>3, WFMin
<1>5. \A v \in U : ~(v < u)
  BY <1>1, <1>4
<1>6. \A y \in T : y <= n - u
  <2> SUFFICES ASSUME NEW y \in T PROVE y <= n - u
    OBVIOUS
  <2>1. ~(n - y < u)
    BY <1>3, <1>5
  <2> QED BY <2>1
<1> QED BY <1>6
-----------------------------------------------------------------------------
\* Types.  A letter is on the topic, and stays.
LEMMA ConsumeTyped ==
    ASSUME TypeOK, Consume
    PROVE  TypeOK' /\ letters \subseteq letters' /\ UNCHANGED <<topic, replayed, cmd, sent>>
<1> DEFINE r == topic[done + 1]
<1>1. Len(topic) \in Nat /\ done + 1 \in 1..Len(topic) /\ r \in Records
  BY LenProperties, ElementOfSeq DEF TypeOK, Consume
<1> HIDE DEF r
<1>2. done' \in 0..Len(topic)
  BY <1>1 DEF TypeOK, Consume
<1>3. /\ letters \subseteq letters' /\ letters' \subseteq 1..Len(topic)
      /\ UNCHANGED <<topic, fixed, replayed, cmd, sent, clock, faults, seen>>
  BY <1>1 DEF TypeOK, Consume, Letter, Offsets
<1>4. /\ ledger' \in [Records -> Times] /\ cache' \subseteq Records \ Undecodable
      /\ applied' \in [Records -> Nat] /\ appliedAt' \in [Records -> Times]
  <2>1. Remember(r) \/ UNCHANGED <<ledger, cache>>
    BY DEF Consume, r
  <2>2. ledger' \in [Records -> Times] /\ cache' \subseteq Records \ Undecodable
    BY <1>1, <2>1 DEF Remember, TypeOK, Times
  <2>3. \/ UNCHANGED <<applied, appliedAt>>
        \/ /\ applied' = [applied EXCEPT ![r] = @ + 1]
           /\ appliedAt' = [appliedAt EXCEPT ![r] = clock]
    BY DEF Consume, r
  <2>4. clock \in Times
    BY DEF TypeOK, Times
  <2>5. /\ [applied EXCEPT ![r] = @ + 1] \in [Records -> Nat]
        /\ [appliedAt EXCEPT ![r] = clock] \in [Records -> Times]
        /\ applied \in [Records -> Nat] /\ appliedAt \in [Records -> Times]
    BY <1>1, <2>4 DEF TypeOK
  <2>6. applied' \in [Records -> Nat] /\ appliedAt' \in [Records -> Times]
    BY <2>3, <2>5
  <2> QED BY <2>2, <2>6
<1> QED BY <1>2, <1>3, <1>4 DEF TypeOK, Offsets

LEMMA ProduceTyped ==
    ASSUME TypeOK, NEW c \in Commands, Produce(c)
    PROVE  TypeOK'
<1>1. PICK o \in cmd[c].rows :
        cmd' = [cmd EXCEPT ![c].rows = @ \ {o}, ![c].marked = @ \cup {o},
                           ![c].queue = Append(@, o)]
  BY DEF Produce
<1>2. /\ cmd[c] \in Command /\ o \in letters /\ o \in Nat
      /\ cmd[c].queue \in Seq(Nat)
  BY <1>1 DEF TypeOK, Offsets, Command
<1> DEFINE q == Append(cmd[c].queue, o)
<1>3. /\ q \in Seq(Nat) /\ Len(q) = Len(cmd[c].queue) + 1 /\ Len(cmd[c].queue) \in Nat
      /\ \A i \in 1..Len(cmd[c].queue) : q[i] = cmd[c].queue[i]
      /\ q[Len(cmd[c].queue) + 1] = o
  BY <1>2, Appended
<1> HIDE DEF q
<1>4. \A i \in 1..Len(q) : q[i] \in cmd[c].marked \cup {o}
  <2>1. \A i \in 1..Len(cmd[c].queue) : cmd[c].queue[i] \in cmd[c].marked
    BY DEF TypeOK
  <2>2. \A i \in 1..Len(q) : i \in 1..Len(cmd[c].queue) \/ i = Len(cmd[c].queue) + 1
    BY <1>3
  <2> QED BY <1>3, <2>1, <2>2
<1>5. cmd' = [cmd EXCEPT ![c] = [cmd[c] EXCEPT !.rows = cmd[c].rows \ {o},
                                               !.marked = cmd[c].marked \cup {o},
                                               !.queue = q]]
  BY <1>1, <1>2 DEF q, TypeOK, Command
<1>6. cmd' \in [Commands -> Command]
  BY <1>2, <1>3, <1>5 DEF TypeOK, Command
<1>7. /\ cmd'[c].rows \subseteq letters /\ cmd'[c].marked \subseteq letters
      /\ cmd'[c].queue = q /\ cmd'[c].marked = cmd[c].marked \cup {o}
  BY <1>2, <1>5 DEF TypeOK, Command
<1>8. \A d \in Commands \ {c} : cmd'[d] = cmd[d]
  BY <1>5 DEF TypeOK
<1>9. UNCHANGED <<topic, procVars, letters, replayed, sent, clock, faults, seen>>
  BY DEF Produce
<1> QED BY <1>4, <1>6, <1>7, <1>8, <1>9 DEF TypeOK, procVars, Offsets

LEMMA DeliverTyped ==
    ASSUME TypeOK, NEW c \in Commands, Deliver(c)
    PROVE  /\ TypeOK'
           /\ Head(cmd[c].queue) \in Offsets
           /\ topic' = Append(topic, topic[Head(cmd[c].queue)])
           /\ sent' = Append([sent EXCEPT ![Head(cmd[c].queue)] = @ + 1], 0)
           /\ Len(topic') = Len(topic) + 1 /\ Len(topic) \in Nat
           /\ \A p \in Offsets : topic'[p] = topic[p]
           /\ topic'[Len(topic) + 1] = topic[Head(cmd[c].queue)]
           /\ \A p \in Offsets : sent'[p] =
                 IF p = Head(cmd[c].queue) THEN sent[p] + 1 ELSE sent[p]
           /\ sent'[Len(topic) + 1] = 0
<1> DEFINE o == Head(cmd[c].queue)
           q == Tail(cmd[c].queue)
<1>1. /\ cmd[c] \in Command /\ cmd[c].queue \in Seq(Nat) /\ cmd[c].queue # <<>>
      /\ topic' = Append(topic, topic[o])
      /\ sent' = Append([sent EXCEPT ![o] = @ + 1], 0)
      /\ cmd' = [cmd EXCEPT ![c] = [cmd[c] EXCEPT !.queue = q]]
      /\ UNCHANGED <<procVars, letters, replayed, clock, faults, seen>>
  BY DEF Deliver, TypeOK, Command
<1>2. /\ o = cmd[c].queue[1] /\ q \in Seq(Nat)
      /\ Len(cmd[c].queue) \in Nat /\ Len(cmd[c].queue) > 0
      /\ Len(q) = Len(cmd[c].queue) - 1
      /\ \A i \in 1..Len(q) : q[i] = cmd[c].queue[i + 1]
  BY <1>1, Taken
<1> HIDE DEF o, q
<1>3. o \in Offsets /\ o \in letters
  <2>1. 1 \in 1..Len(cmd[c].queue)
    BY <1>2
  <2>2. cmd[c].queue[1] \in cmd[c].marked /\ cmd[c].marked \subseteq letters
    BY <2>1 DEF TypeOK
  <2> QED BY <1>2, <2>2 DEF TypeOK
<1>4. topic[o] \in Records
  BY <1>3, ElementOfSeq DEF TypeOK, Offsets
<1>5. /\ topic' \in Seq(Records) /\ Len(topic') = Len(topic) + 1 /\ Len(topic) \in Nat
      /\ \A p \in Offsets : topic'[p] = topic[p]
      /\ topic'[Len(topic) + 1] = topic[o]
  BY <1>1, <1>4, Appended DEF TypeOK, Offsets
<1> DEFINE raised == [sent EXCEPT ![o] = @ + 1]
<1>6. sent \in Seq(Nat) /\ Len(sent) = Len(topic) /\ sent[o] \in Nat /\ o \in 1..Len(sent)
  BY <1>3, ElementOfSeq DEF TypeOK, Offsets
<1>7. /\ raised \in Seq(Nat) /\ Len(raised) = Len(topic)
      /\ \A p \in Offsets : raised[p] = IF p = o THEN sent[p] + 1 ELSE sent[p]
  BY <1>6, ExceptSeq DEF Offsets
<1>8. sent' = Append(raised, 0)
  BY <1>1
<1> HIDE DEF raised
<1>9. /\ sent' \in Seq(Nat) /\ Len(sent') = Len(topic) + 1
      /\ \A p \in Offsets : sent'[p] = raised[p]
      /\ sent'[Len(topic) + 1] = 0
  BY <1>7, <1>8, Appended DEF Offsets
<1>10. sent' \in Seq(Nat) /\ Len(sent') = Len(topic')
  BY <1>5, <1>9
<1>11. cmd' \in [Commands -> Command]
  BY <1>1, <1>2 DEF TypeOK, Command
<1>12. \A i \in 1..Len(q) : q[i] \in cmd[c].marked
  BY <1>2 DEF TypeOK
<1>13. \A d \in Commands :
          /\ cmd'[d].rows = cmd[d].rows /\ cmd'[d].marked = cmd[d].marked
          /\ cmd'[d].queue = IF d = c THEN q ELSE cmd[d].queue
  BY <1>1 DEF TypeOK, Command
<1>14. Offsets \subseteq Offsets' /\ 0..Len(topic) \subseteq 0..Len(topic')
  BY <1>5 DEF Offsets
<1>15. TypeOK'
  <2>1. \A d \in Commands :
          /\ cmd'[d].rows \subseteq letters'
          /\ cmd'[d].marked \subseteq letters'
          /\ \A i \in 1..Len(cmd'[d].queue) : cmd'[d].queue[i] \in cmd'[d].marked
    BY <1>1, <1>12, <1>13 DEF TypeOK
  <2> QED BY <1>1, <1>5, <1>10, <1>11, <1>14, <2>1 DEF TypeOK, procVars, Offsets
<1> QED BY <1>1, <1>3, <1>5, <1>7, <1>9, <1>15 DEF o

LEMMA CommitTyped ==
    ASSUME TypeOK, NEW c \in Commands, Finish(c) \/ FinishTimeout(c)
    PROVE  TypeOK'
<1>1. /\ replayed' = replayed \cup cmd[c].marked
      /\ cmd' = [cmd EXCEPT ![c] = Ended]
      /\ UNCHANGED <<topic, procVars, letters, sent, clock>>
      /\ \/ UNCHANGED <<faults, seen>>
         \/ Fault("timeout")
  BY DEF Finish, FinishTimeout, Commit
<1>2. Ended \in Command /\ Ended.rows = {} /\ Ended.marked = {} /\ Len(Ended.queue) = 0
  BY EmptySeq DEF Ended, Command
<1>3. faults' \in 0..MaxFaults /\ seen' \subseteq Faults \cup {"overlap"}
  BY <1>1, ReplayAssumption DEF TypeOK, Fault
<1>4. cmd' \in [Commands -> Command]
  BY <1>1, <1>2 DEF TypeOK
<1>5. \A d \in Commands : cmd'[d] = cmd[d] \/ cmd'[d] = Ended
  BY <1>1 DEF TypeOK
<1>6. \A d \in Commands :
         /\ cmd'[d].rows \subseteq letters' /\ cmd'[d].marked \subseteq letters'
         /\ \A i \in 1..Len(cmd'[d].queue) : cmd'[d].queue[i] \in cmd'[d].marked
  BY <1>1, <1>2, <1>5 DEF TypeOK
<1>7. replayed' \subseteq letters'
  BY <1>1 DEF TypeOK
<1> QED BY <1>1, <1>3, <1>4, <1>6, <1>7 DEF TypeOK, procVars, Offsets

LEMMA SelectTyped ==
    ASSUME TypeOK, NEW c \in Commands, Select(c)
    PROVE  TypeOK'
<1>1. PICK rows \in SUBSET (letters \ replayed) :
        cmd' = [cmd EXCEPT ![c] = [cmd[c] EXCEPT !.pc = "run", !.rows = rows]]
  BY DEF Select
<1>2. UNCHANGED <<topic, procVars, letters, replayed, sent, clock, faults>>
      /\ seen' \subseteq Faults \cup {"overlap"}
  BY DEF Select, TypeOK
<1>3. rows \subseteq letters /\ rows \subseteq Nat
  BY DEF TypeOK, Offsets
<1>4. cmd' \in [Commands -> Command]
  BY <1>1, <1>3 DEF TypeOK, Command
<1>5. \A d \in Commands : /\ cmd'[d].rows = cmd[d].rows \/ cmd'[d].rows = rows
                          /\ cmd'[d].marked = cmd[d].marked
                          /\ cmd'[d].queue = cmd[d].queue
  BY <1>1 DEF TypeOK, Command
<1> QED BY <1>2, <1>3, <1>4, <1>5 DEF TypeOK, procVars, Offsets

LEMMA InitTyped ==
    ASSUME Init
    PROVE  TypeOK
<1>1. topic \in Seq(Records) /\ Len(topic) \in Nat /\ 0 \in 0..Len(topic)
  BY ReplayAssumption, LenProperties DEF Init
<1>2. sent \in Seq(Nat) /\ Len(sent) = Len(topic)
  BY <1>1 DEF Init
<1>3. \A c \in Commands : /\ cmd[c] = [Ended EXCEPT !.pc = "new"]
                          /\ Len(cmd[c].queue) = 0
                          /\ cmd[c].rows = {} /\ cmd[c].marked = {}
  BY EmptySeq DEF Init, Ended
<1>4. [Ended EXCEPT !.pc = "new"] \in Command
  BY EmptySeq DEF Ended, Command
<1>5. cmd \in [Commands -> Command]
  BY <1>3, <1>4 DEF Init
<1>6. 0 \in 0..MaxFaults /\ 0 \in 0..MaxClock
  BY ReplayAssumption
<1>7. ledger \in [Records -> Times] /\ appliedAt \in [Records -> Times]
  BY DEF Init, Times
<1>8. \A c \in Commands :
        \A i \in 1..Len(cmd[c].queue) : cmd[c].queue[i] \in cmd[c].marked
  BY <1>3
<1> QED BY <1>1, <1>2, <1>3, <1>5, <1>6, <1>7, <1>8 DEF Init, TypeOK

LEMMA TypeInvariance == Spec => []TypeOK
<1>1. Init => TypeOK
  BY InitTyped
<1>2. TypeOK /\ [Next]_vars => TypeOK'
  <2> SUFFICES ASSUME TypeOK, [Next]_vars PROVE TypeOK'
    OBVIOUS
  <2>1. ASSUME Purge PROVE TypeOK'
    BY <2>1 DEF Purge, TypeOK, Times, dlqVars, Offsets
  <2>2. ASSUME NEW kind, Fault(kind)
        PROVE  faults' \in 0..MaxFaults /\ seen' \subseteq Faults \cup {"overlap"}
    BY <2>2, ReplayAssumption DEF TypeOK, Fault
  <2>3. ASSUME Restart \/ Seek \/ Fix PROVE TypeOK'
    <3>1. faults' \in 0..MaxFaults /\ seen' \subseteq Faults \cup {"overlap"}
      BY <2>2, <2>3 DEF Restart, Seek, Fix, TypeOK
    <3>2. done' \in 0..Len(topic)
      BY <2>3, LenProperties DEF Restart, Seek, Fix, TypeOK
    <3> QED BY <2>3, <3>1, <3>2 DEF Restart, Seek, Fix, TypeOK, dlqVars, Offsets
  <2>4. ASSUME NEW c \in Commands, Abort(c) PROVE TypeOK'
    <3>1. Ended \in Command /\ Ended.rows = {} /\ Ended.marked = {} /\ Len(Ended.queue) = 0
      BY EmptySeq DEF Ended, Command
    <3>2. cmd' \in [Commands -> Command]
      BY <2>4, <3>1 DEF Abort, TypeOK
    <3>3. \A d \in Commands : cmd'[d] = cmd[d] \/ cmd'[d] = Ended
      BY <2>4 DEF Abort, TypeOK
    <3> QED BY <2>2, <2>4, <3>1, <3>2, <3>3 DEF Abort, TypeOK, procVars, Offsets
  <2>5. ASSUME Tick PROVE TypeOK'
    <3>1. clock' \in 0..MaxClock
      BY <2>5, ReplayAssumption DEF Tick, TypeOK
    <3> QED BY <2>5, <3>1 DEF Tick, TypeOK, procVars, dlqVars, Offsets
  <2>6. CASE UNCHANGED vars
    BY <2>6 DEF vars, procVars, dlqVars, TypeOK, Offsets
  <2> QED BY <2>1, <2>3, <2>4, <2>5, <2>6, ConsumeTyped, ProduceTyped, DeliverTyped,
             CommitTyped, SelectTyped DEF Next
<1> QED BY <1>1, <1>2, PTL DEF Spec
-----------------------------------------------------------------------------
(***************************************************************************)
(* The ledger forgets an id only when it is older than the retention, and  *)
(* it is never older than the contribution it stands for: the seen_at of a *)
(* row is not refreshed, so the row of a contribution is written with it.  *)
(***************************************************************************)
RememberedOrOld ==
    \A r \in Records :
        appliedAt[r] # Never =>
            /\ appliedAt[r] <= clock
            /\ IF ledger[r] = Never THEN clock - appliedAt[r] > Retention
                                    ELSE appliedAt[r] <= ledger[r]

LEMMA RetentionStep ==
    ASSUME TypeOK, RememberedOrOld, [Next]_vars
    PROVE  /\ RememberedOrOld'
           /\ \A r \in Records :
                 applied'[r] > applied[r] /\ appliedAt[r] # Never
                     => clock - appliedAt[r] > Retention
<1> DEFINE Goal == /\ RememberedOrOld'
                   /\ \A r \in Records :
                         applied'[r] > applied[r] /\ appliedAt[r] # Never
                             => clock - appliedAt[r] > Retention
<1>0. /\ clock \in Nat /\ Retention \in Nat
      /\ \A r \in Records : /\ applied[r] \in Nat
                            /\ ledger[r] \in Int /\ appliedAt[r] \in Int
                            /\ (ledger[r] = Never \/ ledger[r] >= 0)
                            /\ (appliedAt[r] = Never \/ appliedAt[r] >= 0)
  BY ReplayAssumption DEF TypeOK, Times, Never
<1>1. ASSUME UNCHANGED <<ledger, applied, appliedAt>>, clock' \in {clock, clock + 1}
      PROVE  Goal
  BY <1>0, <1>1 DEF RememberedOrOld
<1>2. ASSUME Consume PROVE Goal
  <2> DEFINE q == topic[done + 1]
  <2>1. q \in Records
    BY ElementOfSeq, LenProperties, <1>2 DEF TypeOK, Consume
  <2>2. clock' = clock
    BY <1>2 DEF Consume
  <2>3. \/ UNCHANGED <<ledger, applied, appliedAt>>
        \/ Remember(q) /\ UNCHANGED <<applied, appliedAt>>
        \/ /\ ~Known(q) /\ Remember(q)
           /\ applied' = [applied EXCEPT ![q] = @ + 1]
           /\ appliedAt' = [appliedAt EXCEPT ![q] = clock]
           /\ ~RefusedByParse(q)
    BY <1>2 DEF Consume
  <2> HIDE DEF q
  <2>4. CASE UNCHANGED <<ledger, applied, appliedAt>>
    BY <1>1, <2>2, <2>4
  <2>5. CASE Remember(q) /\ UNCHANGED <<applied, appliedAt>>
    <3>1. \A r \in Records : ledger'[r] = ledger[r] \/ (ledger[r] = Never /\ ledger'[r] = clock)
      BY <2>1, <2>5 DEF Remember, TypeOK
    <3> QED BY <1>0, <2>2, <2>5, <3>1 DEF RememberedOrOld, Never
  <2>6. CASE /\ ~Known(q) /\ Remember(q)
             /\ applied' = [applied EXCEPT ![q] = @ + 1]
             /\ appliedAt' = [appliedAt EXCEPT ![q] = clock]
             /\ ~RefusedByParse(q)
    <3>1. ledger[q] = Never /\ ledger' = [ledger EXCEPT ![q] = clock]
      BY <2>1, <2>6 DEF Known, Remember, RefusedByParse
    <3>2. \A r \in Records \ {q} : /\ ledger'[r] = ledger[r]
                                   /\ applied'[r] = applied[r]
                                   /\ appliedAt'[r] = appliedAt[r]
      BY <2>6, <3>1 DEF TypeOK
    <3>3. ledger'[q] = clock /\ appliedAt'[q] = clock
      BY <2>1, <2>6, <3>1 DEF TypeOK
    <3>4. RememberedOrOld'
      BY <1>0, <2>2, <3>2, <3>3 DEF RememberedOrOld, Never
    <3>5. appliedAt[q] # Never => clock - appliedAt[q] > Retention
      BY <2>1, <3>1 DEF RememberedOrOld
    <3> QED BY <1>0, <3>2, <3>4, <3>5
  <2> QED BY <2>3, <2>4, <2>5, <2>6
<1>3. ASSUME Purge PROVE Goal
  <2>1. \A r \in Records : \/ ledger'[r] = ledger[r]
                           \/ /\ ledger[r] # Never /\ ledger[r] < clock - Retention
                              /\ ledger'[r] = Never
    BY <1>3 DEF Purge, TypeOK
  <2>2. UNCHANGED <<applied, appliedAt, clock>>
    BY <1>3 DEF Purge
  <2> QED BY <1>0, <2>1, <2>2 DEF RememberedOrOld, Never
<1>4. ASSUME UNCHANGED vars \/ Restart \/ Seek \/ Fix \/ Tick
             \/ \E c \in Commands : \/ Select(c) \/ Produce(c) \/ Deliver(c)
                                    \/ Finish(c) \/ FinishTimeout(c) \/ Abort(c)
      PROVE  UNCHANGED <<ledger, applied, appliedAt>> /\ clock' \in {clock, clock + 1}
  BY <1>4 DEF vars, Restart, Seek, Fix, Tick, Select, Produce, Deliver, Finish,
              FinishTimeout, Abort, Commit, procVars
<1> QED BY <1>1, <1>2, <1>3, <1>4 DEF Next

\* Type correctness.
THEOREM TypeCorrect == Spec => []TypeOK
BY TypeInvariance

\* No event counts again within the retention of the ledger, whatever is
\* replayed, set back or restarted, and however often the purge runs
\* (purge_dedup_ledger, repository.py:165-205).
THEOREM RetentionProtects == Spec => ProtectedForRetention
<1>1. Init => RememberedOrOld
  BY DEF Init, RememberedOrOld
<1>2. TypeOK /\ RememberedOrOld /\ [Next]_vars => RememberedOrOld'
  BY RetentionStep
<1>3. TypeOK /\ RememberedOrOld /\ [Next]_vars
        => [\A r \in Records :
               applied'[r] > applied[r] /\ appliedAt[r] # Never
                   => clock - appliedAt[r] > Retention]_vars
  BY RetentionStep
<1> QED BY <1>1, <1>2, <1>3, TypeInvariance, PTL DEF Spec, ProtectedForRetention
-----------------------------------------------------------------------------
(***************************************************************************)
(* The commands.  A letter whose row a command has updated is in its       *)
(* queue or has been delivered, and a delivered letter has a copy behind   *)
(* it on the topic.                                                        *)
(***************************************************************************)
Queued(c, o) == \E i \in 1..Len(cmd[c].queue) : cmd[c].queue[i] = o

NoRepeat(c) == \A i, j \in 1..Len(cmd[c].queue) :
                   cmd[c].queue[i] = cmd[c].queue[j] => i = j

Copied(o) == sent[o] > 0 /\ \E p \in (o + 1)..Len(topic) : topic[p] = topic[o]

MarkedIsQueuedOrCopied ==
    \A c \in Commands : \A o \in cmd[c].marked : Queued(c, o) \/ Copied(o)

ReplayedIsCopied == "timeout" \notin seen => \A o \in replayed : Copied(o)

OnlyRunningHold ==
    \A c \in Commands : cmd[c].pc # "run" => cmd[c].rows = {} /\ cmd[c].marked = {}

DeliveryInv ==
    TypeOK /\ MarkedIsQueuedOrCopied /\ ReplayedIsCopied /\ OnlyRunningHold

\* What Produce does to the queue.
LEMMA ProduceQueues ==
    ASSUME TypeOK, NEW c \in Commands, Produce(c)
    PROVE  /\ \E o \in cmd[c].rows :
                /\ o \in letters
                /\ cmd'[c].rows = cmd[c].rows \ {o}
                /\ cmd'[c].marked = cmd[c].marked \cup {o}
                /\ cmd'[c].pc = "run"
                /\ \A x : Queued(c, x)' <=> Queued(c, x) \/ x = o
                /\ ~Queued(c, o) /\ NoRepeat(c) => NoRepeat(c)'
           /\ \A d \in Commands \ {c} : cmd'[d] = cmd[d]
           /\ UNCHANGED <<topic, procVars, letters, replayed, sent, clock, faults, seen>>
<1>1. PICK o \in cmd[c].rows :
        cmd' = [cmd EXCEPT ![c].rows = @ \ {o}, ![c].marked = @ \cup {o},
                           ![c].queue = Append(@, o)]
  BY DEF Produce
<1>2. /\ cmd[c] \in Command /\ o \in letters /\ o \in Nat
      /\ cmd[c].queue \in Seq(Nat)
  BY <1>1 DEF TypeOK, Offsets, Command
<1> DEFINE s == cmd[c].queue
           q == Append(s, o)
<1>3. /\ Len(q) = Len(s) + 1 /\ Len(s) \in Nat
      /\ \A i \in 1..Len(s) : q[i] = s[i]
      /\ q[Len(s) + 1] = o
  BY <1>2, Appended
<1>4. /\ cmd'[c].rows = cmd[c].rows \ {o} /\ cmd'[c].marked = cmd[c].marked \cup {o}
      /\ cmd'[c].queue = q /\ cmd'[c].pc = cmd[c].pc
      /\ \A d \in Commands \ {c} : cmd'[d] = cmd[d]
  BY <1>1, <1>2 DEF TypeOK, Command
<1> HIDE DEF q, s
<1>5. \A i \in 1..Len(q) : i \in 1..Len(s) \/ i = Len(s) + 1
  BY <1>3
<1>6. 1..Len(s) \subseteq 1..Len(q) /\ Len(s) + 1 \in 1..Len(q)
  BY <1>3
<1>7. \A x : (\E i \in 1..Len(q) : q[i] = x) <=> (\E i \in 1..Len(s) : s[i] = x) \/ x = o
  BY <1>3, <1>5, <1>6
<1>8. \A x : Queued(c, x)' <=> Queued(c, x) \/ x = o
  BY <1>4, <1>7 DEF Queued, s
<1>9. ASSUME ~Queued(c, o), NoRepeat(c) PROVE NoRepeat(c)'
  <2>1. \A i, j \in 1..Len(q) : q[i] = q[j] => i = j
    <3>1. \A i \in 1..Len(s) : s[i] # o
      BY <1>9 DEF Queued, s
    <3>2. \A i, j \in 1..Len(s) : s[i] = s[j] => i = j
      BY <1>9 DEF NoRepeat, s
    <3> QED BY <1>3, <1>5, <3>1, <3>2
  <2> QED BY <1>4, <2>1 DEF NoRepeat
<1>10. UNCHANGED <<topic, procVars, letters, replayed, sent, clock, faults, seen>>
       /\ cmd[c].pc = "run"
  BY DEF Produce
<1> QED BY <1>2, <1>4, <1>8, <1>9, <1>10

\* What Deliver does to it.
LEMMA DeliverQueues ==
    ASSUME TypeOK, NEW c \in Commands, Deliver(c), NEW o, o = Head(cmd[c].queue)
    PROVE  /\ Queued(c, o)
           /\ \A x : Queued(c, x)' => Queued(c, x)
           /\ \A x : Queued(c, x) => Queued(c, x)' \/ x = o
           /\ NoRepeat(c) => NoRepeat(c)' /\ ~Queued(c, o)'
           /\ cmd'[c].rows = cmd[c].rows /\ cmd'[c].marked = cmd[c].marked
           /\ cmd'[c].pc = cmd[c].pc
           /\ \A d \in Commands \ {c} : cmd'[d] = cmd[d]
           /\ UNCHANGED <<procVars, letters, replayed, clock, faults, seen>>
<1> DEFINE s == cmd[c].queue
           q == Tail(s)
<1>1. /\ cmd[c] \in Command /\ s \in Seq(Nat) /\ s # <<>>
      /\ cmd' = [cmd EXCEPT ![c] = [cmd[c] EXCEPT !.queue = q]]
      /\ UNCHANGED <<procVars, letters, replayed, clock, faults, seen>>
  BY DEF Deliver, TypeOK, Command
<1>2. /\ o = s[1] /\ Len(s) \in Nat /\ Len(s) > 0
      /\ Len(q) = Len(s) - 1
      /\ \A i \in 1..Len(q) : q[i] = s[i + 1]
  BY <1>1, Taken
<1> HIDE DEF q
<1>3. /\ cmd'[c].rows = cmd[c].rows /\ cmd'[c].marked = cmd[c].marked
      /\ cmd'[c].pc = cmd[c].pc /\ cmd'[c].queue = q
      /\ \A d \in Commands \ {c} : cmd'[d] = cmd[d]
  BY <1>1 DEF TypeOK, Command
<1> HIDE DEF s
<1>4. \A i \in 1..Len(q) : i + 1 \in 1..Len(s)
  BY <1>2
<1>5. \A i \in 1..Len(s) : i = 1 \/ (i - 1 \in 1..Len(q) /\ q[i - 1] = s[i])
  BY <1>2
<1>6. Queued(c, o)
  BY <1>2 DEF Queued, s
<1>7. \A x : Queued(c, x)' => Queued(c, x)
  BY <1>2, <1>3, <1>4 DEF Queued, s
<1>8. \A x : Queued(c, x) => Queued(c, x)' \/ x = o
  <2> SUFFICES ASSUME NEW x, Queued(c, x), x # o
              PROVE  Queued(c, x)'
    OBVIOUS
  <2>1. PICK i \in 1..Len(s) : s[i] = x
    BY DEF Queued, s
  <2>2. i # 1
    BY <1>2, <2>1
  <2>3. i - 1 \in 1..Len(q) /\ q[i - 1] = x
    BY <1>5, <2>1, <2>2
  <2> QED BY <1>3, <2>3 DEF Queued
<1>9. ASSUME NoRepeat(c) PROVE NoRepeat(c)' /\ ~Queued(c, o)'
  <2>1. \A i, j \in 1..Len(s) : s[i] = s[j] => i = j
    BY <1>9 DEF NoRepeat, s
  <2>2. \A i, j \in 1..Len(q) : q[i] = q[j] => i = j
    BY <1>2, <1>4, <2>1
  <2>3. \A i \in 1..Len(q) : q[i] # o
    <3> SUFFICES ASSUME NEW i \in 1..Len(q), s[i + 1] = s[1] PROVE FALSE
      BY <1>2
    <3>1. i + 1 = 1
      BY <1>2, <1>4, <2>1
    <3> QED BY <1>2, <3>1
  <2> QED BY <1>3, <2>2, <2>3 DEF NoRepeat, Queued
<1> QED BY <1>1, <1>3, <1>6, <1>7, <1>8, <1>9

LEMMA CopiedStep ==
    ASSUME TypeOK, NEW c \in Commands, Deliver(c), NEW h, h = Head(cmd[c].queue)
    PROVE  (\A o \in Offsets : Copied(o) => Copied(o)') /\ Copied(h)'
<1>1. /\ h \in Offsets
      /\ Len(topic') = Len(topic) + 1 /\ Len(topic) \in Nat
      /\ \A p \in Offsets : topic'[p] = topic[p]
      /\ topic'[Len(topic) + 1] = topic[h]
      /\ \A p \in Offsets : sent'[p] =
            IF p = h THEN sent[p] + 1 ELSE sent[p]
  BY DeliverTyped
<1>2. \A p \in Offsets : sent[p] \in Nat
  BY ElementOfSeq DEF TypeOK, Offsets
<1>3. ASSUME NEW o \in Offsets, Copied(o) PROVE Copied(o)'
  <2>1. PICK p \in (o + 1)..Len(topic) : topic[p] = topic[o]
    BY <1>3 DEF Copied
  <2>2. p \in (o + 1)..Len(topic') /\ topic'[p] = topic'[o]
    BY <1>1, <2>1 DEF Offsets
  <2>3. sent'[o] > 0
    BY <1>1, <1>2, <1>3 DEF Copied
  <2> QED BY <2>2, <2>3 DEF Copied
<1>4. Copied(h)'
  <2>1. sent'[h] > 0 /\ h \in Offsets
    BY <1>1, <1>2
  <2>2. Len(topic) + 1 \in (h + 1)..Len(topic') /\ topic'[Len(topic) + 1] = topic'[h]
    BY <1>1, <2>1 DEF Offsets
  <2> QED BY <2>1, <2>2 DEF Copied
<1> QED BY <1>3, <1>4

\* The processor, the operator and the clock do not touch the commands.
LEMMA OtherSteps ==
    ASSUME TypeOK, UNCHANGED vars \/ Consume \/ Purge \/ Restart \/ Seek \/ Fix \/ Tick
    PROVE  UNCHANGED <<topic, replayed, cmd, sent>> /\ seen \subseteq seen'
BY ConsumeTyped DEF Consume, Purge, Restart, Seek, Fix, Tick, vars, dlqVars, procVars, Fault

\* Every end of a command: its rows are marked, if at all, in one commit.
LEMMA EndSteps ==
    ASSUME TypeOK, NEW c \in Commands, Finish(c) \/ FinishTimeout(c) \/ Abort(c)
    PROVE  /\ cmd'[c] = Ended /\ Ended.pc # "run" /\ Ended.rows = {} /\ Ended.marked = {}
           /\ \A d \in Commands \ {c} : cmd'[d] = cmd[d]
           /\ cmd[c].pc = "run"
           /\ replayed' = replayed \cup cmd[c].marked \/ replayed' = replayed
           /\ Abort(c) => "abort" \in seen' /\ replayed' = replayed
           /\ FinishTimeout(c) => "timeout" \in seen'
           /\ Finish(c) => \A o : ~Queued(c, o)
           /\ ~Abort(c) => replayed' = replayed \cup cmd[c].marked
           /\ seen \subseteq seen'
           /\ UNCHANGED <<topic, procVars, letters, sent, clock>>
<1>1. /\ cmd' = [cmd EXCEPT ![c] = Ended]
      /\ replayed' = replayed \cup cmd[c].marked \/ (Abort(c) /\ replayed' = replayed)
      /\ UNCHANGED <<topic, procVars, letters, sent, clock>>
      /\ cmd[c].pc = "run"
      /\ seen \subseteq seen'
  BY DEF Finish, FinishTimeout, Abort, Commit, Fault
<1>2. Ended.pc # "run" /\ Ended.rows = {} /\ Ended.marked = {}
  BY DEF Ended
<1>3. cmd'[c] = Ended /\ \A d \in Commands \ {c} : cmd'[d] = cmd[d]
  BY <1>1 DEF TypeOK
<1>4. Abort(c) => "abort" \in seen' /\ replayed' = replayed
  BY DEF Abort, Fault
<1>5. FinishTimeout(c) => "timeout" \in seen'
  BY DEF FinishTimeout, Fault
<1>6. Finish(c) => \A o : ~Queued(c, o)
  BY EmptySeq DEF Finish, Queued
<1> QED BY <1>1, <1>2, <1>3, <1>4, <1>5, <1>6

LEMMA SelectSteps ==
    ASSUME TypeOK, NEW c \in Commands, Select(c)
    PROVE  /\ \E rows \in SUBSET (letters \ replayed) : cmd'[c].rows = rows
           /\ cmd'[c].marked = cmd[c].marked /\ cmd'[c].queue = cmd[c].queue
           /\ cmd[c].pc = "new" /\ cmd'[c].pc = "run"
           /\ \A d \in Commands \ {c} : cmd'[d] = cmd[d]
           /\ (\E d \in Commands \ {c} : cmd[d].pc = "run") => "overlap" \in seen'
           /\ seen \subseteq seen'
           /\ UNCHANGED <<topic, procVars, letters, replayed, sent, clock, faults>>
<1>1. PICK rows \in SUBSET (letters \ replayed) :
        cmd' = [cmd EXCEPT ![c] = [cmd[c] EXCEPT !.pc = "run", !.rows = rows]]
  BY DEF Select
<1>2. /\ cmd'[c].rows = rows /\ cmd'[c].marked = cmd[c].marked
      /\ cmd'[c].queue = cmd[c].queue /\ cmd'[c].pc = "run"
      /\ \A d \in Commands \ {c} : cmd'[d] = cmd[d]
  BY <1>1 DEF TypeOK, Command
<1>3. /\ cmd[c].pc = "new"
      /\ (\E d \in Commands \ {c} : cmd[d].pc = "run") => "overlap" \in seen'
      /\ seen \subseteq seen'
      /\ UNCHANGED <<topic, procVars, letters, replayed, sent, clock, faults>>
  BY DEF Select
<1> QED BY <1>2, <1>3

LEMMA DeliveryInvInitially == Init => DeliveryInv
<1> SUFFICES ASSUME Init PROVE DeliveryInv
  OBVIOUS
<1>1. \A c \in Commands : cmd[c].rows = {} /\ cmd[c].marked = {}
  BY DEF Init, Ended
<1>2. replayed = {} /\ TypeOK
  BY InitTyped DEF Init
<1> QED BY <1>1, <1>2 DEF DeliveryInv, MarkedIsQueuedOrCopied, ReplayedIsCopied, OnlyRunningHold

LEMMA DeliveryInvStep ==
    ASSUME DeliveryInv, TypeOK', [Next]_vars
    PROVE  DeliveryInv'
<1> USE DEF DeliveryInv
<1>1. ASSUME UNCHANGED <<topic, replayed, cmd, sent>>, seen \subseteq seen' PROVE DeliveryInv'
  BY <1>1 DEF MarkedIsQueuedOrCopied, ReplayedIsCopied, OnlyRunningHold, Queued, Copied
<1>2. ASSUME NEW c \in Commands, Select(c) PROVE DeliveryInv'
  <2>1. \A d \in Commands : cmd'[d].marked = cmd[d].marked /\ cmd'[d].queue = cmd[d].queue
    BY <1>2, SelectSteps
  <2>2. /\ UNCHANGED <<topic, replayed, sent>> /\ seen \subseteq seen'
        /\ cmd'[c].pc = "run" /\ \A d \in Commands \ {c} : cmd'[d] = cmd[d]
    BY <1>2, SelectSteps
  <2>3. MarkedIsQueuedOrCopied' /\ ReplayedIsCopied'
    BY <2>1, <2>2 DEF MarkedIsQueuedOrCopied, ReplayedIsCopied, Queued, Copied
  <2>4. OnlyRunningHold'
    BY <2>2 DEF OnlyRunningHold
  <2> QED BY <2>3, <2>4
<1>3. ASSUME NEW c \in Commands, Produce(c) PROVE DeliveryInv'
  <2>1. PICK o \in cmd[c].rows :
          /\ cmd'[c].marked = cmd[c].marked \cup {o} /\ cmd'[c].pc = "run"
          /\ \A x : Queued(c, x)' <=> Queued(c, x) \/ x = o
    BY <1>3, ProduceQueues
  <2>2. /\ \A d \in Commands \ {c} : cmd'[d] = cmd[d]
        /\ UNCHANGED <<topic, replayed, sent, seen>>
    BY <1>3, ProduceQueues
  <2>3. \A x : Copied(x)' <=> Copied(x)
    BY <2>2 DEF Copied
  <2>4. MarkedIsQueuedOrCopied'
    <3> SUFFICES ASSUME NEW d \in Commands, NEW x \in cmd'[d].marked
                 PROVE  Queued(d, x)' \/ Copied(x)'
      BY DEF MarkedIsQueuedOrCopied
    <3>1. CASE d = c
      BY <2>1, <2>3, <3>1 DEF MarkedIsQueuedOrCopied
    <3>2. CASE d # c
      BY <2>2, <2>3, <3>2 DEF MarkedIsQueuedOrCopied, Queued
    <3> QED BY <3>1, <3>2
  <2>5. ReplayedIsCopied'
    BY <2>2, <2>3 DEF ReplayedIsCopied
  <2>6. OnlyRunningHold'
    BY <2>1, <2>2 DEF OnlyRunningHold
  <2> QED BY <2>4, <2>5, <2>6
<1>4. ASSUME NEW c \in Commands, Deliver(c) PROVE DeliveryInv'
  <2>1. PICK h : h = Head(cmd[c].queue)
    OBVIOUS
  <2>2. /\ \A x : Queued(c, x) => Queued(c, x)' \/ x = h
        /\ cmd'[c].rows = cmd[c].rows /\ cmd'[c].marked = cmd[c].marked
        /\ cmd'[c].pc = cmd[c].pc
        /\ \A d \in Commands \ {c} : cmd'[d] = cmd[d]
        /\ UNCHANGED <<letters, replayed, seen>>
    BY <1>4, <2>1, DeliverQueues
  <2>3. (\A o \in Offsets : Copied(o) => Copied(o)') /\ Copied(h)'
    BY <1>4, <2>1, CopiedStep
  <2>4. replayed \subseteq Offsets /\ \A d \in Commands : cmd[d].marked \subseteq Offsets
    BY DEF TypeOK
  <2>5. MarkedIsQueuedOrCopied'
    <3> SUFFICES ASSUME NEW d \in Commands, NEW x \in cmd'[d].marked
                 PROVE  Queued(d, x)' \/ Copied(x)'
      BY DEF MarkedIsQueuedOrCopied
    <3>1. x \in cmd[d].marked /\ x \in Offsets
      BY <2>2, <2>4
    <3>2. CASE d = c
      BY <2>2, <2>3, <3>1, <3>2 DEF MarkedIsQueuedOrCopied
    <3>3. CASE d # c
      BY <2>2, <2>3, <3>1, <3>3 DEF MarkedIsQueuedOrCopied, Queued
    <3> QED BY <3>2, <3>3
  <2>6. ReplayedIsCopied' /\ OnlyRunningHold'
    BY <2>2, <2>3, <2>4 DEF ReplayedIsCopied, OnlyRunningHold
  <2> QED BY <2>5, <2>6
<1>5. ASSUME NEW c \in Commands, Finish(c) \/ FinishTimeout(c) \/ Abort(c)
      PROVE  DeliveryInv'
  <2>1. /\ cmd'[c].pc # "run" /\ cmd'[c].rows = {} /\ cmd'[c].marked = {}
        /\ \A d \in Commands \ {c} : cmd'[d] = cmd[d]
        /\ UNCHANGED <<topic, sent>> /\ seen \subseteq seen'
    BY <1>5, EndSteps
  <2>2. \A x : Copied(x)' <=> Copied(x)
    BY <2>1 DEF Copied
  <2>3. MarkedIsQueuedOrCopied' /\ OnlyRunningHold'
    BY <2>1, <2>2 DEF MarkedIsQueuedOrCopied, Queued, OnlyRunningHold
  <2>4. ReplayedIsCopied'
    <3>1. CASE replayed' = replayed
      BY <2>1, <2>2, <3>1 DEF ReplayedIsCopied
    <3>2. CASE Finish(c)
      <4>1. \A o \in cmd[c].marked : Copied(o)
        BY <3>2, EndSteps DEF MarkedIsQueuedOrCopied
      <4>2. replayed' \subseteq replayed \cup cmd[c].marked
        BY <1>5, EndSteps
      <4> QED BY <2>1, <2>2, <4>1, <4>2 DEF ReplayedIsCopied
    <3>3. CASE FinishTimeout(c)
      BY <1>5, <3>3, EndSteps DEF ReplayedIsCopied
    <3> QED BY <1>5, <3>1, <3>2, <3>3, EndSteps
  <2> QED BY <2>3, <2>4
<1> QED BY <1>1, <1>2, <1>3, <1>4, <1>5, OtherSteps DEF Next

LEMMA DeliveryInvariance == Spec => []DeliveryInv
<1>1. DeliveryInv /\ TypeOK' /\ [Next]_vars => DeliveryInv'
  BY DeliveryInvStep
<1> QED BY <1>1, DeliveryInvInitially, TypeInvariance, PTL DEF Spec

\* Unless its flush gives up, a command marks a letter only when the letter
\* is on the topic again (replay_dlq, cli.py:137-145).
THEOREM MarkedLettersLand == Spec => []ReplayedIsDelivered
<1>1. DeliveryInv => ReplayedIsDelivered
  BY DEF DeliveryInv, ReplayedIsCopied, ReplayedIsDelivered, Copied
<1> QED BY <1>1, DeliveryInvariance, PTL
-----------------------------------------------------------------------------
(***************************************************************************)
(* One delivery per letter, if commands neither abort nor overlap.  Then   *)
(* one command at a time holds letters that nobody has replayed before,    *)
(* its queue has none of them twice, and what has been delivered is marked *)
(* and no longer in the queue.                                             *)
(***************************************************************************)
OneRuns == \A c, d \in Commands : cmd[c].pc = "run" /\ cmd[d].pc = "run" => c = d

HoldsAreApart ==
    \A c \in Commands : /\ cmd[c].rows \cap cmd[c].marked = {}
                        /\ cmd[c].rows \cap replayed = {}
                        /\ cmd[c].marked \cap replayed = {}
                        /\ NoRepeat(c)

Settled(o) == \/ o \in replayed
              \/ \E c \in Commands : o \in cmd[c].marked /\ ~Queued(c, o)

DeliveredIsSettled == \A o \in Offsets : sent[o] <= 1 /\ (sent[o] > 0 => Settled(o))

Alone == seen \cap {"abort", "overlap"} = {}

OnceInv == Alone => OneRuns /\ HoldsAreApart /\ DeliveredIsSettled

LEMMA OnceInvInitially == Init => OnceInv
<1> SUFFICES ASSUME Init PROVE OneRuns /\ HoldsAreApart /\ DeliveredIsSettled
  BY DEF OnceInv
<1>1. \A c \in Commands : /\ cmd[c].rows = {} /\ cmd[c].marked = {}
                          /\ cmd[c].pc = "new" /\ Len(cmd[c].queue) = 0
  BY EmptySeq DEF Init, Ended
<1>2. \A o \in Offsets : sent[o] = 0
  BY DEF Init, Offsets
<1> QED BY <1>1, <1>2 DEF OneRuns, HoldsAreApart, DeliveredIsSettled, NoRepeat

LEMMA OnceInvStep ==
    ASSUME TypeOK, OnlyRunningHold, OnceInv, TypeOK', [Next]_vars
    PROVE  OnceInv'
<1> DEFINE Inv == OneRuns /\ HoldsAreApart /\ DeliveredIsSettled
<1>0. \A o \in Offsets : sent[o] \in Nat
  BY ElementOfSeq DEF TypeOK, Offsets
<1>1. ASSUME UNCHANGED <<topic, replayed, cmd, sent>>, seen \subseteq seen' PROVE OnceInv'
  BY <1>1 DEF OnceInv, Alone, OneRuns, HoldsAreApart, DeliveredIsSettled, Settled,
              Queued, NoRepeat, Offsets
<1>2. ASSUME NEW c \in Commands, Select(c), Alone' PROVE Inv'
  <2>1. PICK rows \in SUBSET (letters \ replayed) : cmd'[c].rows = rows
    BY <1>2, SelectSteps
  <2>2. /\ cmd'[c].marked = cmd[c].marked /\ cmd'[c].queue = cmd[c].queue
        /\ cmd[c].pc = "new"
        /\ \A d \in Commands \ {c} : cmd'[d] = cmd[d]
        /\ (\E d \in Commands \ {c} : cmd[d].pc = "run") => "overlap" \in seen'
        /\ seen \subseteq seen'
        /\ UNCHANGED <<topic, letters, replayed, sent>>
    BY <1>2, SelectSteps
  <2>3. Inv /\ \A d \in Commands \ {c} : cmd[d].pc # "run"
    BY <1>2, <2>2 DEF OnceInv, Alone
  <2>4. cmd[c].marked = {}
    BY <2>2 DEF OnlyRunningHold
  <2>5. OneRuns'
    BY <2>2, <2>3 DEF OneRuns
  <2>6. \A d \in Commands : /\ NoRepeat(d)' <=> NoRepeat(d)
                            /\ \A x : Queued(d, x)' <=> Queued(d, x)
                            /\ cmd'[d].marked = cmd[d].marked
    BY <2>2 DEF NoRepeat, Queued
  <2>7. HoldsAreApart'
    BY <2>1, <2>2, <2>3, <2>4, <2>6 DEF HoldsAreApart
  <2>8. DeliveredIsSettled'
    BY <2>2, <2>3, <2>6 DEF DeliveredIsSettled, Settled, Offsets
  <2> QED BY <2>5, <2>7, <2>8
<1>3. ASSUME NEW c \in Commands, Produce(c), Alone' PROVE Inv'
  <2>1. PICK o \in cmd[c].rows :
          /\ cmd'[c].rows = cmd[c].rows \ {o}
          /\ cmd'[c].marked = cmd[c].marked \cup {o}
          /\ \A x : Queued(c, x)' <=> Queued(c, x) \/ x = o
          /\ ~Queued(c, o) /\ NoRepeat(c) => NoRepeat(c)'
    BY <1>3, ProduceQueues
  <2>2. /\ \A d \in Commands \ {c} : cmd'[d] = cmd[d]
        /\ UNCHANGED <<topic, replayed, sent, seen>> /\ cmd[c].pc = "run"
    BY <1>3, ProduceQueues DEF Produce
  <2>3. Inv
    BY <1>3, <2>2 DEF OnceInv, Alone
  <2>4. o \notin cmd[c].marked /\ o \notin replayed /\ ~Queued(c, o)
    BY <2>1, <2>3 DEF HoldsAreApart, Queued, TypeOK
  <2>5. OneRuns'
    BY <2>2, <2>3 DEF OneRuns
  <2>6. \A d \in Commands \ {c} : /\ NoRepeat(d)' <=> NoRepeat(d)
                                  /\ \A x : Queued(d, x)' <=> Queued(d, x)
    BY <2>2 DEF NoRepeat, Queued
  <2>7. HoldsAreApart'
    <3> SUFFICES ASSUME NEW d \in Commands
                 PROVE  /\ cmd'[d].rows \cap cmd'[d].marked = {}
                        /\ cmd'[d].rows \cap replayed' = {}
                        /\ cmd'[d].marked \cap replayed' = {}
                        /\ NoRepeat(d)'
      BY DEF HoldsAreApart
    <3>1. CASE d = c
      BY <2>1, <2>2, <2>3, <2>4, <3>1 DEF HoldsAreApart
    <3>2. CASE d # c
      BY <2>2, <2>3, <2>6, <3>2 DEF HoldsAreApart
    <3> QED BY <3>1, <3>2
  <2>8. ASSUME NEW x, Settled(x) PROVE Settled(x)'
    <3>1. CASE x \in replayed
      BY <2>2, <3>1 DEF Settled
    <3>2. ASSUME NEW d \in Commands, x \in cmd[d].marked, ~Queued(d, x)
          PROVE  x \in cmd'[d].marked /\ ~Queued(d, x)'
      BY <2>1, <2>2, <2>4, <2>6, <3>2
    <3> QED BY <2>8, <3>1, <3>2 DEF Settled
  <2>9. DeliveredIsSettled'
    BY <2>2, <2>3, <2>8 DEF DeliveredIsSettled, Offsets
  <2> QED BY <2>5, <2>7, <2>9
<1>4. ASSUME NEW c \in Commands, Deliver(c), Alone' PROVE Inv'
  <2>1. PICK h : h = Head(cmd[c].queue)
    OBVIOUS
  <2>2. /\ Queued(c, h)
        /\ \A x : Queued(c, x)' => Queued(c, x)
        /\ NoRepeat(c) => NoRepeat(c)' /\ ~Queued(c, h)'
        /\ cmd'[c].rows = cmd[c].rows /\ cmd'[c].marked = cmd[c].marked
        /\ cmd'[c].pc = cmd[c].pc
        /\ \A d \in Commands \ {c} : cmd'[d] = cmd[d]
        /\ UNCHANGED <<replayed, seen>>
    BY <1>4, <2>1, DeliverQueues
  <2>3. /\ h \in Offsets
        /\ Len(topic') = Len(topic) + 1 /\ Len(topic) \in Nat
        /\ \A p \in Offsets : sent'[p] = IF p = h THEN sent[p] + 1 ELSE sent[p]
        /\ sent'[Len(topic) + 1] = 0
    BY <1>4, <2>1, DeliverTyped
  <2>4. Inv
    BY <1>4, <2>2 DEF OnceInv, Alone
  <2>5. h \in cmd[c].marked /\ cmd[c].pc = "run"
    BY <2>2 DEF Queued, TypeOK, OnlyRunningHold
  <2>6. sent[h] = 0
    <3>1. h \notin replayed
      BY <2>4, <2>5 DEF HoldsAreApart
    <3>2. ASSUME NEW d \in Commands, h \in cmd[d].marked PROVE Queued(d, h)
      <4>1. d = c
        BY <2>4, <2>5, <3>2 DEF OneRuns, OnlyRunningHold
      <4> QED BY <2>2, <4>1
    <3>3. ~Settled(h)
      BY <3>1, <3>2 DEF Settled
    <3> QED BY <1>0, <2>3, <2>4, <3>3 DEF DeliveredIsSettled
  <2>7. OneRuns'
    BY <2>2, <2>4 DEF OneRuns
  <2>8. \A d \in Commands \ {c} : /\ NoRepeat(d)' <=> NoRepeat(d)
                                  /\ \A x : Queued(d, x)' <=> Queued(d, x)
    BY <2>2 DEF NoRepeat, Queued
  <2>9. HoldsAreApart'
    <3> SUFFICES ASSUME NEW d \in Commands
                 PROVE  /\ cmd'[d].rows \cap cmd'[d].marked = {}
                        /\ cmd'[d].rows \cap replayed' = {}
                        /\ cmd'[d].marked \cap replayed' = {}
                        /\ NoRepeat(d)'
      BY DEF HoldsAreApart
    <3>1. CASE d = c
      BY <2>2, <2>4, <3>1 DEF HoldsAreApart
    <3>2. CASE d # c
      BY <2>2, <2>4, <2>8, <3>2 DEF HoldsAreApart
    <3> QED BY <3>1, <3>2
  <2>10. ASSUME NEW x, Settled(x) PROVE Settled(x)'
    <3>1. CASE x \in replayed
      BY <2>2, <3>1 DEF Settled
    <3>2. ASSUME NEW d \in Commands, x \in cmd[d].marked, ~Queued(d, x)
          PROVE  x \in cmd'[d].marked /\ ~Queued(d, x)'
      BY <2>2, <2>8, <3>2
    <3> QED BY <2>10, <3>1, <3>2 DEF Settled
  <2>11. Settled(h)'
    <3>1. NoRepeat(c)
      BY <2>4 DEF HoldsAreApart
    <3> QED BY <2>2, <2>5, <3>1 DEF Settled
  <2>12. DeliveredIsSettled'
    <3> SUFFICES ASSUME NEW x \in Offsets'
                 PROVE  sent'[x] <= 1 /\ (sent'[x] > 0 => Settled(x)')
      BY DEF DeliveredIsSettled
    <3>1. CASE x = Len(topic) + 1
      BY <2>3, <3>1
    <3>2. CASE x # Len(topic) + 1
      <4>1. x \in Offsets
        BY <2>3, <3>2 DEF Offsets
      <4> QED BY <1>0, <2>3, <2>4, <2>6, <2>10, <2>11, <4>1 DEF DeliveredIsSettled
    <3> QED BY <3>1, <3>2
  <2> QED BY <2>7, <2>9, <2>12
<1>5. ASSUME NEW c \in Commands, Finish(c) \/ FinishTimeout(c) \/ Abort(c), Alone'
      PROVE  Inv'
  <2>1. /\ cmd'[c] = Ended /\ Ended.pc # "run" /\ Ended.rows = {} /\ Ended.marked = {}
        /\ \A d \in Commands \ {c} : cmd'[d] = cmd[d]
        /\ cmd[c].pc = "run"
        /\ UNCHANGED <<topic, sent>> /\ seen \subseteq seen'
    BY <1>5, EndSteps
  <2>2. Inv
    BY <1>5, <2>1 DEF OnceInv, Alone
  <2>3. replayed' = replayed \cup cmd[c].marked
    BY <1>5, EndSteps DEF Alone
  <2>4. Len(Ended.queue) = 0
    BY EmptySeq DEF Ended
  <2>5. OneRuns'
    BY <2>1, <2>2 DEF OneRuns
  <2>6. \A d \in Commands \ {c} : cmd[d].rows = {} /\ cmd[d].marked = {}
    BY <2>1, <2>2 DEF OneRuns, OnlyRunningHold
  <2>7. \A d \in Commands : NoRepeat(d)'
    BY <2>1, <2>2, <2>4 DEF HoldsAreApart, NoRepeat
  <2>8. HoldsAreApart'
    BY <2>1, <2>6, <2>7 DEF HoldsAreApart
  <2>9. ASSUME NEW x, Settled(x) PROVE Settled(x)'
    BY <2>3, <2>6, <2>9 DEF Settled
  <2>10. DeliveredIsSettled'
    BY <2>1, <2>2, <2>9 DEF DeliveredIsSettled, Offsets
  <2> QED BY <2>5, <2>8, <2>10
<1> QED BY <1>1, <1>2, <1>3, <1>4, <1>5, OtherSteps DEF Next, OnceInv

\* A letter is republished at most once, by any number of commands one after
\* another (replay_dlq selects replayed_at IS NULL and marks every row it
\* produces, cli.py:109-141).
THEOREM LettersGoOnce == Spec => []ReplayedOnce
<1>1. DeliveryInv /\ TypeOK' /\ OnceInv /\ [Next]_vars => OnceInv'
  BY OnceInvStep DEF DeliveryInv
<1>2. OnceInv => ReplayedOnce
  BY DEF OnceInv, Alone, DeliveredIsSettled, ReplayedOnce
<1> QED BY <1>1, <1>2, OnceInvInitially, DeliveryInvariance, TypeInvariance, PTL DEF Spec
-----------------------------------------------------------------------------
(***************************************************************************)
(* A record that is still refused stays on the work list.  The argument is *)
(* about its last copy: either it has yet to be read, or it has been read  *)
(* and refused and has a letter, which nobody has replayed, because there  *)
(* would be a copy behind it.                                              *)
(***************************************************************************)
RefusedHasLetter == \A o \in 1..done : RefusedByParse(topic[o]) => o \in letters

LEMMA RefusedHasLetterStep ==
    ASSUME TypeOK, RefusedHasLetter, [Next]_vars
    PROVE  RefusedHasLetter'
<1>0. done \in Nat /\ done <= Len(topic) /\ Len(topic) \in Nat
  BY LenProperties DEF TypeOK
<1>1. ASSUME UNCHANGED <<topic, letters, done>>, fixed => fixed' PROVE RefusedHasLetter'
  BY <1>1 DEF RefusedHasLetter, RefusedByParse
<1>2. ASSUME Consume PROVE RefusedHasLetter'
  <2>1. letters \subseteq letters' /\ UNCHANGED <<topic, fixed>> /\ done' = done + 1
    BY <1>2, ConsumeTyped DEF Consume
  <2>2. RefusedByParse(topic[done + 1]) => done + 1 \in letters'
    BY <1>2 DEF Consume, Letter
  <2>3. \A o \in 1..done' : o \in 1..done \/ o = done + 1
    BY <1>0, <2>1
  <2>4. \A q : RefusedByParse(q)' <=> RefusedByParse(q)
    BY <2>1 DEF RefusedByParse
  <2> QED BY <2>1, <2>2, <2>3, <2>4 DEF RefusedHasLetter
<1>3. ASSUME Seek PROVE RefusedHasLetter'
  BY <1>3 DEF Seek, RefusedHasLetter
<1>4. ASSUME NEW c \in Commands, Deliver(c) PROVE RefusedHasLetter'
  <2>1. \A p \in Offsets : topic'[p] = topic[p]
    BY <1>4, DeliverTyped
  <2>2. UNCHANGED <<done, fixed, letters>>
    BY <1>4 DEF Deliver, procVars
  <2>3. 1..done \subseteq Offsets
    BY <1>0 DEF Offsets
  <2>4. \A q : RefusedByParse(q)' <=> RefusedByParse(q)
    BY <2>2 DEF RefusedByParse
  <2> QED BY <2>1, <2>2, <2>3, <2>4 DEF RefusedHasLetter
<1>5. ASSUME UNCHANGED vars \/ Purge \/ Restart \/ Fix \/ Tick
             \/ \E c \in Commands : \/ Select(c) \/ Produce(c) \/ Finish(c)
                                    \/ FinishTimeout(c) \/ Abort(c)
      PROVE  UNCHANGED <<topic, letters, done>> /\ (fixed => fixed')
  <2>1. UNCHANGED <<topic, letters, done>>
    BY <1>5 DEF vars, Purge, Restart, Fix, Tick, Select, Produce, Finish,
                FinishTimeout, Abort, Commit, procVars, dlqVars
  <2>2. fixed' = TRUE \/ UNCHANGED fixed
    BY <1>5 DEF vars, Purge, Restart, Fix, Tick, Select, Produce, Finish,
                FinishTimeout, Abort, Commit, procVars, dlqVars
  <2> QED BY <2>1, <2>2
<1> QED BY <1>1, <1>2, <1>3, <1>4, <1>5 DEF Next

LEMMA LastCopyTells ==
    ASSUME DeliveryInv, RefusedHasLetter
    PROVE  StaysListed
<1> SUFFICES ASSUME "timeout" \notin seen, NEW r \in Records,
                    RefusedByParse(r), Outstanding(r)
             PROVE  Listed(r) \/ OnItsWay(r)
  BY DEF StaysListed
<1> DEFINE copies == {o \in Offsets : topic[o] = r}
<1>1. Len(topic) \in Nat /\ done \in Nat
  BY LenProperties DEF DeliveryInv, TypeOK
<1>2. copies # {} /\ copies \subseteq 1..Len(topic)
  BY DEF Outstanding, DeliveryInv, TypeOK, Offsets
<1> HIDE DEF copies
<1>3. PICK x \in copies : \A y \in copies : y <= x
  BY <1>1, <1>2, LastOffset
<1>4. x \in 1..Len(topic) /\ topic[x] = r
  BY DEF copies, Offsets
<1>5. CASE x > done
  <2>1. x \in (done + 1)..Len(topic)
    BY <1>1, <1>4, <1>5
  <2> QED BY <1>4, <2>1 DEF OnItsWay
<1>6. CASE x <= done
  <2>1. x \in letters
    BY <1>1, <1>4, <1>6 DEF RefusedHasLetter
  <2>2. ASSUME x \in replayed PROVE FALSE
    <3>1. PICK p \in (x + 1)..Len(topic) : topic[p] = topic[x]
      BY <2>2 DEF DeliveryInv, ReplayedIsCopied, Copied
    <3>2. p \in copies /\ p > x
      BY <1>1, <1>4, <3>1 DEF copies, Offsets
    <3> QED BY <1>1, <1>3, <1>4, <3>1, <3>2
  <2> QED BY <1>4, <2>1, <2>2 DEF Listed
<1> QED BY <1>1, <1>4, <1>5, <1>6

\* A record the contract refuses never drops off the work list, whatever
\* replays overlap or abort, unless a flush gave up (runbook.md:158).
THEOREM RefusedStaysListed == Spec => []StaysListed
<1>1. Init => RefusedHasLetter
  BY DEF Init, RefusedHasLetter
<1>2. TypeOK /\ RefusedHasLetter /\ [Next]_vars => RefusedHasLetter'
  BY RefusedHasLetterStep
<1>3. DeliveryInv /\ RefusedHasLetter => StaysListed
  BY LastCopyTells
<1> QED BY <1>1, <1>2, <1>3, DeliveryInvariance, TypeInvariance, PTL DEF Spec
=============================================================================
