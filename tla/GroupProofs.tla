---------------------------- MODULE GroupProofs ----------------------------
(***************************************************************************)
(* Theorems about the consumer group, for every number of instances and    *)
(* partitions, every topic that holds an id once, and any number of        *)
(* revocations, crashes, expulsions and failed flushes.                    *)
(***************************************************************************)
EXTENDS Group, TLAPS

LEMMA FreshTyped == Fresh \in Instance
BY EventTimeAssumption DEF Fresh, Instance, NothingHeld

LEMMA WatermarkTyped ==
    ASSUME NEW w \in Int, NEW t \in Nat
    PROVE  AdvanceWatermark(w, t) \in Int
BY EventTimeAssumption DEF AdvanceWatermark

LEMMA FaultTyped ==
    ASSUME TypeOK, NEW kind, Fault(kind)
    PROVE  faults' \in 0..MaxFaults /\ seen' \subseteq Faults \cup {"shared", "idle"}
<1>1. faults \in Nat /\ faults < MaxFaults /\ MaxFaults \in Nat
  BY GroupAssumption DEF TypeOK, Fault
<1> QED BY <1>1 DEF TypeOK, Fault

\* Reading a record leaves an instance an instance.
LEMMA AfterTyped ==
    ASSUME NEW r \in Instance, NEW p \in Partitions, r.at[p] < Len(Log[p])
    PROVE  After(r, p) \in Instance
<1> DEFINE e == Log[p][r.at[p] + 1]
<1>1. e \in Events /\ OccurredAt[e] \in Nat
  BY GroupAssumption DEF Instance
<1>2. [r EXCEPT !.at[p] = @ + 1, !.pending = TRUE] \in Instance
  <2>1. [r.at EXCEPT ![p] = @ + 1] \in [Partitions -> Nat]
    BY DEF Instance
  <2> QED BY <2>1 DEF Instance
<1> HIDE DEF e
<1>3. ASSUME NEW q \in Instance
      PROVE  [q EXCEPT !.ids = @ \cup {e}, !.held[e] = @ + 1,
                       !.watermark = AdvanceWatermark(@, OccurredAt[e]),
                       !.heard = @ \cup {p}] \in Instance
  <2>1. [q.held EXCEPT ![e] = @ + 1] \in [Events -> Nat]
    BY <1>1 DEF Instance
  <2>2. AdvanceWatermark(q.watermark, OccurredAt[e]) \in Int
    BY <1>1, WatermarkTyped DEF Instance
  <2> QED BY <1>1, <2>1, <2>2 DEF Instance
<1>4. ASSUME NEW q \in Instance
      PROVE  [q EXCEPT !.ids = @ \cup {e}, !.late = @ \cup {e}] \in Instance
  BY <1>1 DEF Instance
<1> QED BY <1>2, <1>3, <1>4 DEF After, e

\* So do the other changes an action makes to one.
LEMMA ChangeTyped ==
    ASSUME NEW r \in Instance
    PROVE  /\ Unassigned(r) \in Instance
           /\ [r EXCEPT !.pc = "flush", !.stopping = TRUE] \in Instance
           /\ [r EXCEPT !.watermark = AdvanceWatermark(@, Now)] \in Instance
           /\ [r EXCEPT !.pc = "commit", !.held = NothingHeld] \in Instance
           /\ [r EXCEPT !.held = KeepLive(r)] \in Instance
           /\ [r EXCEPT !.pending = FALSE, !.ids = {}, !.late = {}] \in Instance
           /\ \A ps \in SUBSET Partitions :
                 [r EXCEPT !.pc = "flush", !.leaving = ps] \in Instance
           /\ \A p \in Partitions, n \in Nat :
                 [r EXCEPT !.owns = @ \cup {p}, !.at[p] = n] \in Instance
<1>1. Unassigned(r) \in Instance
  BY DEF Unassigned, Instance
<1>2. [r EXCEPT !.pc = "flush", !.stopping = TRUE] \in Instance
  BY DEF Instance
<1>3. [r EXCEPT !.watermark = AdvanceWatermark(@, Now)] \in Instance
  BY WatermarkTyped, GroupAssumption DEF Instance
<1>4. [r EXCEPT !.pc = "commit", !.held = NothingHeld] \in Instance
  BY DEF Instance, NothingHeld
<1>5. [r EXCEPT !.held = KeepLive(r)] \in Instance
  BY DEF Instance, KeepLive
<1>6. [r EXCEPT !.pending = FALSE, !.ids = {}, !.late = {}] \in Instance
  BY DEF Instance
<1>7. \A ps \in SUBSET Partitions :
          [r EXCEPT !.pc = "flush", !.leaving = ps] \in Instance
  BY DEF Instance
<1>8. \A p \in Partitions, n \in Nat :
          [r EXCEPT !.owns = @ \cup {p}, !.at[p] = n] \in Instance
  BY DEF Instance
<1> QED BY <1>1, <1>2, <1>3, <1>4, <1>5, <1>6, <1>7, <1>8

LEMMA ReturnTyped ==
    ASSUME TypeOK, NEW m \in Members, NEW r \in Instance,
           Return(m, r) \/ Raise(m, r)
    PROVE  /\ mem' \in [Members -> Instance]
           /\ owner' \in [Partitions -> Members \cup {Nobody}]
BY ChangeTyped, FreshTyped DEF Return, Raise, Released, TypeOK

LEMMA TypeInvariance == Spec => []TypeOK
<1>1. Init => TypeOK
  BY FreshTyped, GroupAssumption DEF Init, TypeOK, NothingHeld
<1>2. TypeOK /\ [Next]_vars => TypeOK'
  <2> SUFFICES ASSUME TypeOK, [Next]_vars PROVE TypeOK'
    OBVIOUS
  <2> USE DEF storeVars
  <2>0. \A m \in Members : mem[m] \in Instance
    BY DEF TypeOK
  <2>1. ASSUME NEW m \in Members, Poll(m) PROVE TypeOK'
    <3>1. PICK p \in mem[m].owns :
            /\ mem[m].at[p] < Len(Log[p])
            /\ mem' = [mem EXCEPT ![m] = After(mem[m], p)]
      BY <2>1 DEF Poll, TypeOK
    <3>2. p \in Partitions
      BY <2>0 DEF Instance
    <3>3. mem' \in [Members -> Instance]
      BY <3>1, <3>2, <2>0, AfterTyped DEF TypeOK
    <3> QED BY <2>1, <3>3 DEF Poll, TypeOK
  <2>2. ASSUME NEW m \in Members, IdleAdvance(m) PROVE TypeOK'
    <3>1. mem' = [mem EXCEPT ![m] =
                    [mem[m] EXCEPT !.watermark = AdvanceWatermark(@, Now)]]
      BY <2>2 DEF IdleAdvance
    <3>2. mem' \in [Members -> Instance]
      BY <2>0, <3>1, ChangeTyped DEF TypeOK
    <3>3. moves' \in 0..MaxMoves
      BY <2>2, GroupAssumption DEF IdleAdvance, TypeOK
    <3> QED BY <2>2, <3>2, <3>3 DEF IdleAdvance, TypeOK
  <2>3. ASSUME NEW m \in Members, FlushNothing(m) PROVE TypeOK'
    BY <2>0, <2>3, ReturnTyped DEF FlushNothing, TypeOK
  <2>4. ASSUME NEW m \in Members, Write(m) PROVE TypeOK'
    <3>1. mem' \in [Members -> Instance]
      BY <2>0, <2>4, ChangeTyped DEF Write, TypeOK
    <3>2. agg' \in [Events -> Nat]
      BY <2>0, <2>4 DEF Write, TypeOK, Instance
    <3>3. ledger' \subseteq Events /\ refused' \subseteq Events
      BY <2>0, <2>4 DEF Write, TypeOK, Instance
    <3> QED BY <2>4, <3>1, <3>2, <3>3 DEF Write, TypeOK
  <2>5. ASSUME NEW m \in Members, WriteFail(m) PROVE TypeOK'
    BY <2>0, <2>5, ChangeTyped, ReturnTyped, FaultTyped DEF WriteFail, TypeOK
  <2>6. ASSUME NEW m \in Members, Commit(m) PROVE TypeOK'
    <3>1. committed' \in [Partitions -> Nat]
      BY <2>0, <2>6 DEF Commit, TypeOK, Instance
    <3> QED BY <2>0, <2>6, <3>1, ChangeTyped, ReturnTyped DEF Commit, TypeOK
  <2>7. ASSUME NEW m \in Members, CommitRefused(m) PROVE TypeOK'
    BY <2>0, <2>7, ReturnTyped DEF CommitRefused, TypeOK
  <2>8. ASSUME NEW m \in Members, NEW ps \in SUBSET Partitions, OnRevoke(m, ps)
        PROVE  mem' \in [Members -> Instance]
    <3>1. mem' = [mem EXCEPT ![m] =
                    [mem[m] EXCEPT !.pc = "flush", !.leaving = ps]]
      BY <2>8 DEF OnRevoke
    <3> QED BY <2>0, <3>1, ChangeTyped DEF TypeOK
  <2>9. ASSUME NEW m \in Members, Revoke(m) \/ Lost(m) PROVE TypeOK'
    <3>1. \E ps \in SUBSET Partitions : OnRevoke(m, ps)
      BY <2>0, <2>9 DEF Revoke, Lost, Instance
    <3> QED BY <2>8, <2>9, <3>1, GroupAssumption DEF Revoke, Lost, TypeOK
  <2>10. ASSUME NEW m \in Members, Expel(m) \/ Crash(m) PROVE TypeOK'
    <3>1. /\ mem' \in [Members -> Instance]
          /\ owner' \in [Partitions -> Members \cup {Nobody}]
      BY <2>10, FreshTyped DEF Expel, Crash, Released, TypeOK
    <3> QED BY <2>10, <3>1, FaultTyped DEF Expel, Crash, TypeOK
  <2>11. ASSUME NEW m \in Members, NEW p \in Partitions, Assign(m, p) PROVE TypeOK'
    <3>1. mem' = [mem EXCEPT ![m] = [mem[m] EXCEPT !.owns = @ \cup {p},
                                                   !.at[p] = committed[p]]]
      BY <2>11 DEF Assign
    <3>2. mem' \in [Members -> Instance]
      BY <2>0, <3>1, ChangeTyped DEF TypeOK
    <3> QED BY <2>11, <3>2 DEF Assign, TypeOK
  <2>12. CASE UNCHANGED vars
    BY <2>12 DEF TypeOK, vars
  <2> QED BY <2>1, <2>2, <2>3, <2>4, <2>5, <2>6, <2>7, <2>9, <2>10, <2>11, <2>12
          DEF Next, Run
<1> QED BY <1>1, <1>2, PTL DEF Spec
-----------------------------------------------------------------------------
(***************************************************************************)
(* Commit after persist, across rebalances.  What is committed is the      *)
(* position of the client, so the invariant follows it: every record an    *)
(* instance has been handed is in the ledger or among its pending ids, and *)
(* when it gets to the commit the pending ids are in the ledger.  An       *)
(* instance that owns a partition by the coordinator's word is not behind  *)
(* its committed offset: that is what a fenced one cannot say.             *)
(***************************************************************************)
Kept(r, L) ==
    /\ \A p \in r.owns :
         /\ r.at[p] <= Len(Log[p])
         /\ \A o \in 1..r.at[p] : Log[p][o] \in L \cup r.ids
    /\ r.pc = "commit" => r.ids \subseteq L

PositionsAreKept == \A m \in Members : Kept(mem[m], ledger)

OwnersAreNotBehind ==
    \A m \in Members : \A p \in mem[m].owns :
        owner[p] = m => committed[p] <= mem[m].at[p]

CommitInv ==
    TypeOK /\ PositionsAreKept /\ OwnersAreNotBehind /\ CommittedIsHandled

\* One instance changes, and the ledger only grows.
LEMMA OneChanges ==
    ASSUME TypeOK, PositionsAreKept, NEW m \in Members, NEW r,
           mem' = [mem EXCEPT ![m] = r], ledger \subseteq ledger',
           Kept(r, ledger')
    PROVE  PositionsAreKept'
<1>1. ASSUME NEW n \in Members, n # m PROVE Kept(mem'[n], ledger')
  <2>1. mem'[n] = mem[n] /\ Kept(mem[n], ledger)
    BY <1>1 DEF TypeOK, PositionsAreKept
  <2> QED BY <2>1 DEF Kept
<1>2. mem'[m] = r
  BY DEF TypeOK
<1> QED BY <1>1, <1>2 DEF PositionsAreKept

\* Whichever way a flush ends, the instance owns less and has read the same.
LEMMA EndsKept ==
    ASSUME TypeOK, NEW m \in Members, NEW r \in Instance,
           Kept([r EXCEPT !.pc = "poll"], ledger),
           Return(m, r) \/ Raise(m, r)
    PROVE  /\ \E q \in Instance :
                 /\ mem' = [mem EXCEPT ![m] = q]
                 /\ q.pc # "commit"
                 /\ Kept(q, ledger)
                 /\ q.owns \subseteq r.owns
                 /\ \A p \in q.owns : q.at[p] = r.at[p]
           /\ \A p \in Partitions, n \in Members : owner'[p] = n => owner[p] = n
<1>1. /\ Unassigned(r).pc = "poll"
      /\ Unassigned(r).owns \subseteq r.owns
      /\ Unassigned(r).ids = r.ids
      /\ \A p \in Unassigned(r).owns : Unassigned(r).at[p] = r.at[p]
  BY DEF Unassigned, Instance
<1>2. Kept(Unassigned(r), ledger)
  BY <1>1 DEF Kept, Instance
<1>3. Fresh.pc = "poll" /\ Fresh.owns = {} /\ Kept(Fresh, ledger)
  BY DEF Fresh, Kept
<1>4. ASSUME NEW q, q = [r EXCEPT !.pc = "flush", !.stopping = TRUE]
      PROVE  /\ q.pc = "flush" /\ q.owns = r.owns /\ q.at = r.at
             /\ Kept(q, ledger)
  BY <1>4 DEF Kept, Instance
<1>5. \A p \in Partitions, n \in Members : owner'[p] = n => owner[p] = n
  BY GroupAssumption DEF Return, Raise, Released, TypeOK
<1>6. ASSUME Return(m, r)
      PROVE  \E q \in {Fresh, Unassigned(r)} : mem' = [mem EXCEPT ![m] = q]
  BY <1>6 DEF Return
<1>7. ASSUME Raise(m, r)
      PROVE  \/ Return(m, r)
             \/ mem' = [mem EXCEPT ![m] = [r EXCEPT !.pc = "flush", !.stopping = TRUE]]
  BY <1>7 DEF Raise
<1> DEFINE Outcome(q) == /\ mem' = [mem EXCEPT ![m] = q]
                         /\ q.pc # "commit"
                         /\ Kept(q, ledger)
                         /\ q.owns \subseteq r.owns
                         /\ \A p \in q.owns : q.at[p] = r.at[p]
<1>8. \E q \in Instance : Outcome(q)
  <2>1. CASE mem' = [mem EXCEPT ![m] = Fresh]
    BY <1>3, <2>1, FreshTyped
  <2>2. CASE mem' = [mem EXCEPT ![m] = Unassigned(r)]
    BY <1>1, <1>2, <2>2, ChangeTyped
  <2>3. CASE mem' = [mem EXCEPT ![m] = [r EXCEPT !.pc = "flush", !.stopping = TRUE]]
    <3>1. PICK q \in Instance : q = [r EXCEPT !.pc = "flush", !.stopping = TRUE]
      BY ChangeTyped
    <3>2. Outcome(q)
      BY <1>4, <2>3, <3>1
    <3> QED BY <3>2
  <2> QED BY <1>6, <1>7, <2>1, <2>2, <2>3
<1> QED BY <1>5, <1>8

\* A flush that ends without committing.
LEMMA EndsUncommitted ==
    ASSUME CommitInv, NEW m \in Members, NEW r \in Instance,
           Kept([r EXCEPT !.pc = "poll"], ledger),
           r.owns = mem[m].owns, r.at = mem[m].at,
           Return(m, r) \/ Raise(m, r),
           UNCHANGED <<committed, ledger>>
    PROVE  PositionsAreKept' /\ OwnersAreNotBehind' /\ CommittedIsHandled'
<1>1. PICK q \in Instance :
        /\ mem' = [mem EXCEPT ![m] = q]
        /\ Kept(q, ledger)
        /\ q.owns \subseteq mem[m].owns
        /\ \A p \in q.owns : q.at[p] = mem[m].at[p]
  BY EndsKept DEF CommitInv
<1>2. PositionsAreKept'
  BY <1>1, OneChanges DEF CommitInv
<1>3. \A p \in Partitions, n \in Members : owner'[p] = n => owner[p] = n
  BY EndsKept DEF CommitInv
<1>4. OwnersAreNotBehind'
  <2> SUFFICES ASSUME NEW n \in Members, NEW p \in mem'[n].owns, owner'[p] = n
               PROVE  committed'[p] <= mem'[n].at[p]
    BY DEF OwnersAreNotBehind
  <2>1. /\ mem'[n] = IF n = m THEN q ELSE mem[n]
        /\ mem[n] \in Instance
    BY <1>1 DEF CommitInv, TypeOK
  <2>2. p \in mem[n].owns /\ p \in Partitions /\ mem'[n].at[p] = mem[n].at[p]
    BY <1>1, <2>1 DEF Instance
  <2> QED BY <1>3, <2>2 DEF CommitInv, OwnersAreNotBehind
<1> QED BY <1>2, <1>4 DEF CommitInv, CommittedIsHandled

\* The commit itself, in the loop, in the finally block and in on_revoke.
LEMMA CommitStep ==
    ASSUME CommitInv, NEW m \in Members, Commit(m)
    PROVE  /\ PositionsAreKept' /\ OwnersAreNotBehind' /\ CommittedIsHandled'
           /\ \A p \in Partitions : committed'[p] >= committed[p]
<1> DEFINE r == [mem[m] EXCEPT !.pending = FALSE, !.ids = {}, !.late = {}]
<1>1. /\ mem[m] \in Instance /\ r \in Instance
      /\ r.owns = mem[m].owns /\ r.at = mem[m].at /\ r.ids = {}
  <2>1. mem[m] \in Instance
    BY DEF CommitInv, TypeOK
  <2>2. r \in Instance
    BY <2>1, ChangeTyped
  <2>3. r.owns = mem[m].owns /\ r.at = mem[m].at /\ r.ids = {}
    BY <2>1 DEF Instance
  <2> QED BY <2>1, <2>2, <2>3
<1>2. \A p \in mem[m].owns :
         /\ p \in Partitions /\ owner[p] = m
         /\ mem[m].at[p] \in Nat /\ mem[m].at[p] <= Len(Log[p])
         /\ \A o \in 1..mem[m].at[p] : Log[p][o] \in ledger
  <2>1. Kept(mem[m], ledger) /\ mem[m].pc = "commit" /\ ~Fenced(m)
    BY DEF CommitInv, PositionsAreKept, Commit
  <2> QED BY <1>1, <2>1 DEF Kept, Fenced, Instance
<1>3. Kept([r EXCEPT !.pc = "poll"], ledger)
  BY <1>1, <1>2 DEF Kept, Instance
<1> HIDE DEF r
<1>4. Return(m, r) /\ UNCHANGED ledger
  BY DEF Commit, storeVars, r
<1>5. PICK q \in Instance :
        /\ mem' = [mem EXCEPT ![m] = q]
        /\ Kept(q, ledger)
        /\ q.owns \subseteq mem[m].owns
        /\ \A p \in q.owns : q.at[p] = mem[m].at[p]
  BY <1>1, <1>3, <1>4, EndsKept DEF CommitInv
<1>6. \A p \in Partitions, n \in Members : owner'[p] = n => owner[p] = n
  BY <1>1, <1>3, <1>4, EndsKept DEF CommitInv
<1>7. PositionsAreKept'
  BY <1>4, <1>5, OneChanges DEF CommitInv
<1>8. \A p \in Partitions :
         committed'[p] = IF p \in mem[m].owns THEN mem[m].at[p] ELSE committed[p]
  BY DEF Commit
<1>9. OwnersAreNotBehind'
  <2> SUFFICES ASSUME NEW n \in Members, NEW p \in mem'[n].owns, owner'[p] = n
               PROVE  committed'[p] <= mem'[n].at[p]
    BY DEF OwnersAreNotBehind
  <2>1. CASE n = m
    <3>1. mem'[n] = q
      BY <1>5, <2>1 DEF CommitInv, TypeOK
    <3> QED BY <1>2, <1>5, <1>8, <3>1
  <2>2. CASE n # m
    <3>1. mem'[n] = mem[n] /\ p \in Partitions
      BY <1>5, <2>2 DEF CommitInv, TypeOK, Instance
    <3>2. owner[p] = n /\ p \notin mem[m].owns
      BY <1>2, <1>6, <2>2, <3>1
    <3> QED BY <1>8, <3>1, <3>2 DEF CommitInv, OwnersAreNotBehind
  <2> QED BY <2>1, <2>2
<1>10. CommittedIsHandled'
  BY <1>2, <1>4, <1>8 DEF CommitInv, CommittedIsHandled
<1>11. \A p \in Partitions : committed'[p] >= committed[p]
  BY <1>2, <1>8 DEF CommitInv, OwnersAreNotBehind, TypeOK
<1> QED BY <1>7, <1>9, <1>10, <1>11

\* on_revoke begins.
LEMMA RevokeStep ==
    ASSUME CommitInv, NEW m \in Members, Revoke(m) \/ Lost(m)
    PROVE  PositionsAreKept' /\ OwnersAreNotBehind' /\ CommittedIsHandled'
<1>0. mem[m] \in Instance
  BY DEF CommitInv, TypeOK
<1>1. PICK ps \in SUBSET mem[m].owns :
        mem' = [mem EXCEPT ![m] = [mem[m] EXCEPT !.pc = "flush", !.leaving = ps]]
  BY DEF Revoke, Lost, OnRevoke
<1>2. UNCHANGED <<owner, committed, ledger>>
  BY DEF Revoke, Lost, storeVars
<1>3. Kept([mem[m] EXCEPT !.pc = "flush", !.leaving = ps], ledger)
  BY <1>0 DEF CommitInv, PositionsAreKept, Kept, Instance
<1>4. PositionsAreKept'
  BY <1>1, <1>2, <1>3, OneChanges DEF CommitInv
<1>5. \A n \in Members : mem'[n].owns = mem[n].owns /\ mem'[n].at = mem[n].at
  BY <1>0, <1>1 DEF CommitInv, TypeOK, Instance
<1> QED BY <1>2, <1>4, <1>5 DEF CommitInv, OwnersAreNotBehind, CommittedIsHandled

\* One more record read: it is known, or it is pending now.
LEMMA PollStep ==
    ASSUME CommitInv, NEW m \in Members, Poll(m)
    PROVE  PositionsAreKept' /\ OwnersAreNotBehind' /\ CommittedIsHandled'
<1>0. mem[m] \in Instance /\ Kept(mem[m], ledger)
  BY DEF CommitInv, TypeOK, PositionsAreKept
<1>1. PICK p \in mem[m].owns : /\ mem[m].pc = "poll"
                               /\ mem[m].at[p] < Len(Log[p])
                               /\ mem' = [mem EXCEPT ![m] = After(mem[m], p)]
  BY DEF Poll
<1> DEFINE q == After(mem[m], p)
           e == Log[p][mem[m].at[p] + 1]
<1>2. /\ q.pc = "poll"
      /\ q.owns = mem[m].owns
      /\ q.at = [mem[m].at EXCEPT ![p] = @ + 1]
      /\ mem[m].ids \subseteq q.ids
      /\ e \in ledger \cup q.ids
  BY <1>0, <1>1 DEF After, Instance
<1>3. p \in Partitions /\ mem[m].at \in [Partitions -> Nat] /\ mem[m].owns \subseteq Partitions
  BY <1>0 DEF Instance
<1>4. UNCHANGED <<owner, committed, ledger>>
  BY DEF Poll, storeVars
<1> HIDE DEF q
<1>5. Kept(q, ledger)
  <2> SUFFICES ASSUME NEW s \in mem[m].owns
               PROVE  /\ q.at[s] <= Len(Log[s])
                      /\ \A o \in 1..q.at[s] : Log[s][o] \in ledger \cup q.ids
    BY <1>2 DEF Kept
  <2>1. /\ mem[m].at[s] <= Len(Log[s])
        /\ \A o \in 1..mem[m].at[s] : Log[s][o] \in ledger \cup q.ids
    BY <1>0, <1>2 DEF Kept
  <2>2. CASE s = p
    <3>1. Len(Log[p]) \in Nat
      BY <1>3, GroupAssumption
    <3>2. q.at[p] = mem[m].at[p] + 1 /\ mem[m].at[p] \in Nat
      BY <1>2, <1>3
    <3> QED BY <1>1, <1>2, <2>1, <2>2, <3>1, <3>2
  <2>3. CASE s # p
    BY <1>2, <1>3, <2>1, <2>3
  <2> QED BY <2>2, <2>3
<1>6. PositionsAreKept'
  BY <1>1, <1>4, <1>5, OneChanges DEF CommitInv, q
<1>7. OwnersAreNotBehind'
  <2> SUFFICES ASSUME NEW n \in Members, NEW s \in mem'[n].owns, owner'[s] = n
               PROVE  committed'[s] <= mem'[n].at[s]
    BY DEF OwnersAreNotBehind
  <2>1. mem'[n] = IF n = m THEN q ELSE mem[n]
    BY <1>1 DEF CommitInv, TypeOK, q
  <2>2. s \in Partitions /\ s \in mem[n].owns /\ committed[s] \in Nat
        /\ mem[n].at[s] \in Nat
    BY <1>2, <2>1 DEF CommitInv, TypeOK, Instance
  <2>3. mem'[n].at[s] >= mem[n].at[s]
    BY <1>2, <1>3, <2>1, <2>2
  <2>4. committed[s] <= mem[n].at[s]
    BY <1>4, <2>2 DEF CommitInv, OwnersAreNotBehind
  <2> QED BY <1>1, <1>2, <1>3, <1>4, <2>1, <2>2, <2>3, <2>4
<1> QED BY <1>4, <1>6, <1>7 DEF CommitInv, CommittedIsHandled

\* The transaction: what was pending is in the ledger.
LEMMA WriteStep ==
    ASSUME CommitInv, NEW m \in Members, Write(m)
    PROVE  PositionsAreKept' /\ OwnersAreNotBehind' /\ CommittedIsHandled'
<1> DEFINE r == [mem[m] EXCEPT !.pc = "commit", !.held = NothingHeld]
<1>1. mem[m] \in Instance /\ Kept(mem[m], ledger)
  BY DEF CommitInv, TypeOK, PositionsAreKept
<1>2. /\ mem' = [mem EXCEPT ![m] = r]
      /\ ledger' = ledger \cup mem[m].ids
      /\ UNCHANGED <<owner, committed>>
  BY DEF Write
<1>3. r.owns = mem[m].owns /\ r.at = mem[m].at /\ r.ids = mem[m].ids
  BY <1>1 DEF Instance
<1> HIDE DEF r
<1>4. Kept(r, ledger')
  BY <1>1, <1>2, <1>3 DEF Kept
<1>5. PositionsAreKept'
  BY <1>2, <1>4, OneChanges DEF CommitInv
<1>6. \A n \in Members : mem'[n].owns = mem[n].owns /\ mem'[n].at = mem[n].at
  BY <1>2, <1>3 DEF CommitInv, TypeOK
<1> QED BY <1>2, <1>5, <1>6 DEF CommitInv, OwnersAreNotBehind, CommittedIsHandled

\* A partition without owner goes to an instance, which starts at its
\* committed offset.
LEMMA AssignStep ==
    ASSUME CommitInv, NEW m \in Members, NEW p \in Partitions, Assign(m, p)
    PROVE  PositionsAreKept' /\ OwnersAreNotBehind' /\ CommittedIsHandled'
<1> DEFINE r == [mem[m] EXCEPT !.owns = @ \cup {p}, !.at[p] = committed[p]]
<1>1. mem[m] \in Instance /\ Kept(mem[m], ledger)
  BY DEF CommitInv, TypeOK, PositionsAreKept
<1>2. /\ mem' = [mem EXCEPT ![m] = r]
      /\ mem[m].pc = "poll"
      /\ owner' = [owner EXCEPT ![p] = m]
      /\ UNCHANGED <<committed, ledger>>
  BY DEF Assign, storeVars
<1>3. /\ r.owns = mem[m].owns \cup {p}
      /\ r.at = [mem[m].at EXCEPT ![p] = committed[p]]
      /\ r.pc = mem[m].pc /\ r.ids = mem[m].ids
      /\ mem[m].owns \subseteq Partitions /\ mem[m].at \in [Partitions -> Nat]
  BY <1>1 DEF Instance
<1> HIDE DEF r
<1>4. committed[p] \in Nat /\ Len(Log[p]) \in Nat
  BY GroupAssumption DEF CommitInv, TypeOK
<1>5. /\ committed[p] <= Len(Log[p])
      /\ \A o \in 1..committed[p] : Log[p][o] \in ledger
  BY <1>4 DEF CommitInv, CommittedIsHandled
<1>6. Kept(r, ledger)
  BY <1>1, <1>2, <1>3, <1>5 DEF Kept
<1>7. PositionsAreKept'
  BY <1>2, <1>6, OneChanges DEF CommitInv
<1>8. OwnersAreNotBehind'
  <2> SUFFICES ASSUME NEW n \in Members, NEW s \in mem'[n].owns, owner'[s] = n
               PROVE  committed'[s] <= mem'[n].at[s]
    BY DEF OwnersAreNotBehind
  <2>1. mem'[n] = IF n = m THEN r ELSE mem[n]
    BY <1>2 DEF CommitInv, TypeOK
  <2>2. CASE s = p
    <3>1. n = m
      BY <1>2, <2>2 DEF CommitInv, TypeOK
    <3> QED BY <1>2, <1>3, <1>4, <2>1, <2>2, <3>1
  <2>3. CASE s # p
    <3>1. s \in mem[n].owns /\ s \in Partitions /\ mem'[n].at[s] = mem[n].at[s]
      BY <1>3, <2>1, <2>3 DEF CommitInv, TypeOK, Instance
    <3>2. owner[s] = n
      BY <1>2, <2>3, <3>1 DEF CommitInv, TypeOK
    <3> QED BY <1>2, <3>1, <3>2 DEF CommitInv, OwnersAreNotBehind
  <2> QED BY <2>2, <2>3
<1> QED BY <1>2, <1>7, <1>8 DEF CommitInv, CommittedIsHandled

\* An instance or the coordinator forgets.
LEMMA LossStep ==
    ASSUME CommitInv, NEW m \in Members, Expel(m) \/ Crash(m)
    PROVE  PositionsAreKept' /\ OwnersAreNotBehind' /\ CommittedIsHandled'
<1>1. \A p \in Partitions, n \in Members : owner'[p] = n => owner[p] = n
  BY GroupAssumption DEF Expel, Crash, Released, CommitInv, TypeOK
<1>2. UNCHANGED <<committed, ledger>>
  BY DEF Expel, Crash, storeVars
<1>3. \A n \in Members : mem'[n] = mem[n] \/ mem'[n] = Fresh
  BY DEF Expel, Crash, CommitInv, TypeOK
<1>4. Fresh.owns = {} /\ Kept(Fresh, ledger)
  BY DEF Fresh, Kept
<1>5. \A n \in Members : mem[n].owns \subseteq Partitions
  BY DEF CommitInv, TypeOK, Instance
<1>6. PositionsAreKept'
  BY <1>2, <1>3, <1>4 DEF CommitInv, PositionsAreKept
<1>7. OwnersAreNotBehind'
  BY <1>1, <1>2, <1>3, <1>4, <1>5 DEF CommitInv, OwnersAreNotBehind
<1> QED BY <1>2, <1>6, <1>7 DEF CommitInv, CommittedIsHandled

LEMMA CommitInvInitially == Init => CommitInv
<1> SUFFICES ASSUME Init PROVE CommitInv
  OBVIOUS
<1>1. TypeOK
  BY FreshTyped, GroupAssumption DEF Init, TypeOK, NothingHeld
<1>2. \A m \in Members : mem[m].owns = {} /\ mem[m].pc = "poll"
  BY DEF Init, Fresh
<1>3. PositionsAreKept /\ OwnersAreNotBehind
  BY <1>2 DEF PositionsAreKept, OwnersAreNotBehind, Kept
<1>4. CommittedIsHandled
  BY DEF Init, CommittedIsHandled
<1> QED BY <1>1, <1>3, <1>4 DEF CommitInv

\* One step, by the actions of Next.
LEMMA CommitInvStep ==
    ASSUME CommitInv, TypeOK', [Next]_vars
    PROVE  CommitInv' /\ \A p \in Partitions : committed'[p] >= committed[p]
<1> DEFINE Goal == PositionsAreKept' /\ OwnersAreNotBehind' /\ CommittedIsHandled'
<1>0. \A m \in Members : mem[m] \in Instance /\ Kept(mem[m], ledger)
  BY DEF CommitInv, TypeOK, PositionsAreKept
<1>1. ASSUME NEW m \in Members, Commit(m)
      PROVE  Goal /\ \A p \in Partitions : committed'[p] >= committed[p]
  BY <1>1, CommitStep
<1>2. ASSUME NEW m \in Members, FlushNothing(m) \/ CommitRefused(m) PROVE Goal
  <2>1. Kept([mem[m] EXCEPT !.pc = "poll"], ledger)
    BY <1>0 DEF Kept, Instance
  <2>2. /\ Return(m, mem[m]) \/ Raise(m, mem[m])
        /\ UNCHANGED <<committed, ledger>>
    BY <1>2 DEF FlushNothing, CommitRefused, storeVars
  <2> QED BY <1>0, <2>1, <2>2, EndsUncommitted
<1>3. ASSUME NEW m \in Members, WriteFail(m) PROVE Goal
  <2> DEFINE r == [mem[m] EXCEPT !.held = KeepLive(mem[m])]
  <2>1. r \in Instance
    BY <1>0, ChangeTyped
  <2>2. Kept([r EXCEPT !.pc = "poll"], ledger)
    BY <1>0 DEF Kept, Instance
  <2>3. r.owns = mem[m].owns /\ r.at = mem[m].at
    BY <1>0 DEF Instance
  <2>4. Raise(m, r) /\ UNCHANGED <<committed, ledger>>
    BY <1>3 DEF WriteFail, storeVars
  <2> HIDE DEF r
  <2> QED BY <2>1, <2>2, <2>3, <2>4, EndsUncommitted
<1>4. ASSUME NEW m \in Members, IdleAdvance(m) PROVE Goal
  <2> DEFINE r == [mem[m] EXCEPT !.watermark = AdvanceWatermark(@, Now)]
  <2>1. mem' = [mem EXCEPT ![m] = r] /\ UNCHANGED <<owner, committed, ledger>>
    BY <1>4 DEF IdleAdvance, storeVars
  <2>2. Kept(r, ledger) /\ r.owns = mem[m].owns /\ r.at = mem[m].at
    BY <1>0 DEF Kept, Instance
  <2> HIDE DEF r
  <2>3. PositionsAreKept'
    BY <2>1, <2>2, OneChanges DEF CommitInv
  <2>4. \A n \in Members : mem'[n].owns = mem[n].owns /\ mem'[n].at = mem[n].at
    BY <2>1, <2>2 DEF CommitInv, TypeOK
  <2> QED BY <2>1, <2>3, <2>4 DEF CommitInv, OwnersAreNotBehind, CommittedIsHandled
<1>5. CASE UNCHANGED vars
  <2>1. UNCHANGED <<mem, owner, committed, ledger>>
    BY <1>5 DEF vars, storeVars
  <2>2. Goal
    BY <2>1 DEF CommitInv, PositionsAreKept, OwnersAreNotBehind, CommittedIsHandled
  <2>3. \A p \in Partitions : committed'[p] >= committed[p]
    BY <2>1 DEF CommitInv, TypeOK
  <2> QED BY <2>2, <2>3 DEF CommitInv
<1>6. ASSUME NEW m \in Members, ~Commit(m),
             \/ Run(m) \/ IdleAdvance(m) \/ WriteFail(m)
             \/ Revoke(m) \/ Expel(m) \/ Crash(m)
             \/ \E p \in Partitions : Assign(m, p)
      PROVE  Goal /\ UNCHANGED committed
  <2>1. Goal
    BY <1>2, <1>3, <1>4, <1>6, PollStep, WriteStep, RevokeStep, LossStep, AssignStep
       DEF Run
  <2>2. UNCHANGED committed
    BY <1>6 DEF Run, Poll, FlushNothing, Write, CommitRefused, Lost, IdleAdvance,
                WriteFail, Revoke, Expel, Crash, Assign
  <2> QED BY <2>1, <2>2
<1>7. \A p \in Partitions : committed[p] \in Nat
  BY DEF CommitInv, TypeOK
<1>8. CASE Next
  <2>1. PICK m \in Members :
          \/ Run(m) \/ IdleAdvance(m) \/ WriteFail(m)
          \/ Revoke(m) \/ Expel(m) \/ Crash(m)
          \/ \E p \in Partitions : Assign(m, p)
    BY <1>8 DEF Next
  <2>2. CASE Commit(m)
    BY <1>1, <2>2 DEF CommitInv
  <2>3. CASE ~Commit(m)
    BY <1>6, <1>7, <2>1, <2>3 DEF CommitInv
  <2> QED BY <2>2, <2>3
<1> QED BY <1>5, <1>7, <1>8 DEF CommitInv, vars

LEMMA CommitInvariance == Spec => []CommitInv
<1>1. CommitInv /\ TypeOK' /\ [Next]_vars => CommitInv'
  BY CommitInvStep
<1> QED BY <1>1, CommitInvInitially, TypeInvariance, PTL DEF Spec

\* The variables of the group have their types, whatever happens.
THEOREM TypeCorrect == Spec => []TypeOK
BY TypeInvariance

\* Nothing at or below a committed offset is missing from the ledger: a
\* partition that changes hands, any number of times and after any faults,
\* loses no record (_flush commits after flush, service.py:234-236).
THEOREM CommitsAreHandled == Spec => []CommittedIsHandled
<1>1. CommitInv => CommittedIsHandled
  BY DEF CommitInv
<1> QED BY <1>1, CommitInvariance, PTL

\* No commit takes an offset back, of whichever instance: the one that has
\* been expelled cannot commit, and the others are not behind.
THEOREM OffsetsStand == Spec => OffsetsNeverGoBack
<1>1. CommitInv /\ TypeOK' /\ [Next]_vars
        => [\A p \in Partitions : committed'[p] >= committed[p]]_vars
  BY CommitInvStep
<1> QED BY <1>1, CommitInvariance, TypeInvariance, PTL DEF Spec, OffsetsNeverGoBack
-----------------------------------------------------------------------------
(***************************************************************************)
(* Handovers and crashes count nothing twice, nothing in the ledger is     *)
(* without effect, and refusals are justified: theorems about the group.   *)
(***************************************************************************)
(***************************************************************************)
(* One writer.  While no instance has been expelled and no transaction     *)
(* rolled back, the two views of the assignment agree; an id that waits    *)
(* for the ledger has been read from a partition its instance still owns,  *)
(* at or below the position; and so no two instances wait with the same    *)
(* id, and none reads it a second time.                                    *)
(***************************************************************************)
OwnsIsOwner == \A m \in Members : \A p \in mem[m].owns : owner[p] = m

HeldIsNew(r, L) ==
    \A e \in Events : r.held[e] > 0 => r.held[e] = 1 /\ e \in r.ids /\ e \notin L

NewIsRead(r, L) ==
    \A e \in r.ids \ L : \E p \in r.owns : \E o \in 1..r.at[p] : Log[p][o] = e

Tidy(r) == /\ r.pc = "commit" => r.held = NothingHeld
           /\ ~r.pending => r.ids = {}

Clean(r, L) == HeldIsNew(r, L) /\ NewIsRead(r, L) /\ Tidy(r)

RowsCountOnce == \A e \in Events : agg[e] <= 1 /\ (agg[e] > 0 => e \in ledger)

OnceInv ==
    Calm => /\ OwnsIsOwner
            /\ \A m \in Members : Clean(mem[m], ledger)
            /\ RowsCountOnce

LEMMA FreshIsClean == Fresh.owns = {} /\ \A L : Clean(Fresh, L)
BY DEF Fresh, Clean, HeldIsNew, NewIsRead, Tidy, NothingHeld

\* One instance changes, and the ledger does not.
LEMMA OneIsClean ==
    ASSUME TypeOK, \A n \in Members : Clean(mem[n], ledger), NEW m \in Members, NEW r,
           mem' = [mem EXCEPT ![m] = r], UNCHANGED ledger, Clean(r, ledger)
    PROVE  \A n \in Members : Clean(mem'[n], ledger')
BY DEF TypeOK

\* An instance with no id to write gives partitions up, or ends.
LEMMA ReturnIsClean ==
    ASSUME TypeOK, OwnsIsOwner, \A n \in Members : Clean(mem[n], ledger),
           NEW m \in Members, NEW r \in Instance, r.ids \subseteq ledger,
           r.held = NothingHeld, ~r.pending => r.ids = {}, r.owns = mem[m].owns,
           Return(m, r), UNCHANGED ledger
    PROVE  OwnsIsOwner' /\ \A n \in Members : Clean(mem'[n], ledger')
<1> DEFINE u == Unassigned(r)
<1>1. /\ u.pc = "poll" /\ u.owns = r.owns \ r.leaving /\ u.ids = r.ids
      /\ u.held = r.held /\ u.pending = r.pending
  BY DEF Unassigned, Instance
<1> HIDE DEF u
<1>2. Clean(u, ledger)
  BY <1>1 DEF Clean, HeldIsNew, NewIsRead, Tidy, NothingHeld
<1>3. CASE r.stopping
  <2>1. mem' = [mem EXCEPT ![m] = Fresh] /\ owner' = Released(m, Partitions)
    BY <1>3 DEF Return
  <2>2. \A n \in Members : Clean(mem'[n], ledger')
    BY <2>1, FreshIsClean, OneIsClean
  <2>3. \A n \in Members : \A p \in mem'[n].owns : n # m /\ p \in mem[n].owns
    BY <2>1, FreshIsClean DEF TypeOK
  <2>4. OwnsIsOwner'
    BY <2>1, <2>3 DEF OwnsIsOwner, Released, TypeOK, Instance
  <2> QED BY <2>2, <2>4
<1>4. CASE ~r.stopping
  <2>1. mem' = [mem EXCEPT ![m] = u] /\ owner' = Released(m, r.leaving)
    BY <1>4 DEF Return, u
  <2>2. \A n \in Members : Clean(mem'[n], ledger')
    BY <1>2, <2>1, OneIsClean
  <2>3. \A n \in Members : \A p \in mem'[n].owns :
           p \in mem[n].owns /\ (n = m => p \notin r.leaving)
    BY <1>1, <2>1 DEF TypeOK
  <2>4. \A n \in Members : \A p \in mem[n].owns : p \in Partitions
    BY DEF TypeOK, Instance
  <2>5. OwnsIsOwner'
    BY <2>1, <2>3, <2>4 DEF OwnsIsOwner, Released
  <2> QED BY <2>2, <2>5
<1> QED BY <1>3, <1>4

\* So does one that raises without an expulsion.
LEMMA RaiseIsClean ==
    ASSUME TypeOK, OwnsIsOwner, \A n \in Members : Clean(mem[n], ledger),
           NEW m \in Members, NEW r \in Instance, r.ids \subseteq ledger,
           r.held = NothingHeld, ~r.pending => r.ids = {}, r.owns = mem[m].owns,
           Raise(m, r), UNCHANGED ledger
    PROVE  OwnsIsOwner' /\ \A n \in Members : Clean(mem'[n], ledger')
<1> DEFINE q == [r EXCEPT !.pc = "flush", !.stopping = TRUE]
<1>1. /\ q.pc = "flush" /\ q.owns = r.owns /\ q.ids = r.ids
      /\ q.held = r.held /\ q.pending = r.pending
  BY DEF Instance
<1>2. Return(m, r) \/ (mem' = [mem EXCEPT ![m] = q] /\ UNCHANGED owner)
  BY DEF Raise
<1> HIDE DEF q
<1>3. CASE Return(m, r)
  BY <1>3, ReturnIsClean
<1>4. CASE mem' = [mem EXCEPT ![m] = q] /\ UNCHANGED owner
  <2>1. Clean(q, ledger)
    BY <1>1 DEF Clean, HeldIsNew, NewIsRead, Tidy, NothingHeld
  <2>2. \A n \in Members : Clean(mem'[n], ledger')
    BY <1>4, <2>1, OneIsClean
  <2>3. \A n \in Members : mem'[n].owns = mem[n].owns
    BY <1>1, <1>4 DEF TypeOK
  <2> QED BY <1>4, <2>2, <2>3 DEF OwnsIsOwner
<1> QED BY <1>2, <1>3, <1>4
-----------------------------------------------------------------------------
\* An id has one place in the topic (the assumption on Log).
LEMMA OnePlace ==
    ASSUME NEW p \in Partitions, NEW i \in 1..Len(Log[p]),
           NEW q \in Partitions, NEW j \in 1..Len(Log[q]), Log[p][i] = Log[q][j]
    PROVE  p = q /\ i = j
BY GroupAssumption

\* The next record of a partition is nowhere in memory, unless it is in the
\* ledger.
LEMMA NextIsNew ==
    ASSUME CommitInv, OwnsIsOwner, \A n \in Members : Clean(mem[n], ledger),
           NEW m \in Members, NEW p \in mem[m].owns, mem[m].at[p] < Len(Log[p]),
           Log[p][mem[m].at[p] + 1] \notin ledger
    PROVE  Log[p][mem[m].at[p] + 1] \notin mem[m].ids
<1> DEFINE e == Log[p][mem[m].at[p] + 1]
<1> SUFFICES ASSUME e \in mem[m].ids PROVE FALSE
  OBVIOUS
<1>1. mem[m] \in Instance /\ Kept(mem[m], ledger) /\ NewIsRead(mem[m], ledger)
  BY DEF CommitInv, TypeOK, PositionsAreKept, Clean
<1>2. /\ p \in Partitions /\ mem[m].at \in [Partitions -> Nat]
      /\ mem[m].owns \subseteq Partitions
  BY <1>1 DEF Instance
<1>3. PICK q \in mem[m].owns : \E o \in 1..mem[m].at[q] : Log[q][o] = e
  BY <1>1 DEF NewIsRead
<1>4. PICK o \in 1..mem[m].at[q] : Log[q][o] = e
  BY <1>3
<1>5. q \in Partitions /\ mem[m].at[q] <= Len(Log[q])
      /\ Len(Log[q]) \in Nat /\ Len(Log[p]) \in Nat
  BY <1>1, <1>2, <1>3, GroupAssumption DEF Kept
<1>6. o \in 1..Len(Log[q]) /\ mem[m].at[p] + 1 \in 1..Len(Log[p])
  BY <1>2, <1>5
<1>7. q = p /\ o = mem[m].at[p] + 1
  BY <1>2, <1>4, <1>5, <1>6, OnePlace
<1> QED BY <1>2, <1>4, <1>7

\* No other instance waits with an id of m.
LEMMA OneWaits ==
    ASSUME CommitInv, OwnsIsOwner, \A n \in Members : Clean(mem[n], ledger),
           NEW m \in Members, NEW n \in Members, m # n,
           NEW e, e \in mem[m].ids, e \in mem[n].ids, e \notin ledger
    PROVE  FALSE
<1>1. \A k \in {m, n} : mem[k] \in Instance /\ Kept(mem[k], ledger)
                        /\ NewIsRead(mem[k], ledger)
  BY DEF CommitInv, TypeOK, PositionsAreKept, Clean
<1>2. PICK p \in mem[m].owns : \E o \in 1..mem[m].at[p] : Log[p][o] = e
  BY <1>1 DEF NewIsRead
<1>3. PICK q \in mem[n].owns : \E o \in 1..mem[n].at[q] : Log[q][o] = e
  BY <1>1 DEF NewIsRead
<1>4. PICK i \in 1..mem[m].at[p] : Log[p][i] = e
  BY <1>2
<1>5. PICK j \in 1..mem[n].at[q] : Log[q][j] = e
  BY <1>3
<1>6. p \in Partitions /\ q \in Partitions
  BY <1>1 DEF Instance
<1>7. /\ mem[m].at[p] \in Nat /\ mem[m].at[p] <= Len(Log[p]) /\ Len(Log[p]) \in Nat
      /\ mem[n].at[q] \in Nat /\ mem[n].at[q] <= Len(Log[q]) /\ Len(Log[q]) \in Nat
  <2>1. mem[m].at[p] \in Nat /\ mem[m].at[p] <= Len(Log[p])
    BY <1>1, <1>2, <1>6 DEF Kept, Instance
  <2>2. mem[n].at[q] \in Nat /\ mem[n].at[q] <= Len(Log[q])
    BY <1>1, <1>3, <1>6 DEF Kept, Instance
  <2> QED BY <1>6, <2>1, <2>2, GroupAssumption
<1>8. i \in 1..Len(Log[p]) /\ j \in 1..Len(Log[q])
  BY <1>4, <1>5, <1>7
<1>9. p = q
  BY <1>4, <1>5, <1>6, <1>8, OnePlace
<1> QED BY <1>9 DEF OwnsIsOwner

LEMMA PollIsClean ==
    ASSUME CommitInv, OwnsIsOwner, \A n \in Members : Clean(mem[n], ledger),
           NEW m \in Members, Poll(m)
    PROVE  OwnsIsOwner' /\ \A n \in Members : Clean(mem'[n], ledger')
<1>1. PICK p \in mem[m].owns : /\ mem[m].pc = "poll"
                               /\ mem[m].at[p] < Len(Log[p])
                               /\ mem' = [mem EXCEPT ![m] = After(mem[m], p)]
  BY DEF Poll
<1> DEFINE q == After(mem[m], p)
           e == Log[p][mem[m].at[p] + 1]
<1>2. mem[m] \in Instance /\ Clean(mem[m], ledger) /\ UNCHANGED <<owner, ledger>>
  BY DEF CommitInv, TypeOK, Poll, storeVars
<1>3. /\ p \in Partitions /\ mem[m].at \in [Partitions -> Nat]
      /\ mem[m].owns \subseteq Partitions
      /\ mem[m].held \in [Events -> Nat] /\ e \in Events
  BY <1>1, <1>2, GroupAssumption DEF Instance
<1>4. /\ q.pc = "poll" /\ q.owns = mem[m].owns /\ q.pending = TRUE
      /\ q.at = [mem[m].at EXCEPT ![p] = @ + 1]
      /\ \/ e \in ledger /\ q.ids = mem[m].ids /\ q.held = mem[m].held
         \/ /\ e \notin ledger /\ q.ids = mem[m].ids \cup {e}
            /\ q.held = mem[m].held \/ q.held = [mem[m].held EXCEPT ![e] = @ + 1]
  BY <1>1, <1>2 DEF After, Instance
<1>5. e \notin ledger => e \notin mem[m].ids
  BY <1>1, NextIsNew
<1> HIDE DEF q
<1>6. HeldIsNew(q, ledger)
  <2>1. HeldIsNew(mem[m], ledger)
    BY <1>2 DEF Clean
  <2> SUFFICES ASSUME NEW d \in Events, q.held[d] > 0
               PROVE  q.held[d] = 1 /\ d \in q.ids /\ d \notin ledger
    BY DEF HeldIsNew
  <2>2. CASE q.held = mem[m].held
    BY <1>4, <2>1, <2>2 DEF HeldIsNew
  <2>3. CASE /\ e \notin ledger /\ q.ids = mem[m].ids \cup {e}
             /\ q.held = [mem[m].held EXCEPT ![e] = @ + 1]
    <3>1. mem[m].held[e] = 0
      BY <1>3, <1>5, <2>1, <2>3 DEF HeldIsNew
    <3> HIDE DEF e
    <3> QED BY <1>3, <2>1, <2>3, <3>1 DEF HeldIsNew
  <2> QED BY <1>4, <2>2, <2>3
<1>7. NewIsRead(q, ledger)
  <2> SUFFICES ASSUME NEW d \in q.ids \ ledger
               PROVE  \E s \in q.owns : \E o \in 1..q.at[s] : Log[s][o] = d
    BY DEF NewIsRead
  <2>1. CASE d = e
    <3>1. q.at[p] = mem[m].at[p] + 1 /\ mem[m].at[p] \in Nat
      BY <1>3, <1>4
    <3>2. mem[m].at[p] + 1 \in 1..q.at[p]
      BY <3>1
    <3> QED BY <1>1, <1>4, <2>1, <3>2
  <2>2. CASE d # e
    <3>1. d \in mem[m].ids \ ledger
      BY <1>4, <2>2
    <3>2. PICK s \in mem[m].owns : \E o \in 1..mem[m].at[s] : Log[s][o] = d
      BY <1>2, <3>1 DEF Clean, NewIsRead
    <3>3. s \in Partitions /\ mem[m].at[s] \in Nat /\ q.at[s] \in Nat
          /\ mem[m].at[s] <= q.at[s]
      BY <1>3, <1>4
    <3>4. 1..mem[m].at[s] \subseteq 1..q.at[s]
      BY <3>3
    <3> QED BY <1>4, <3>2, <3>4
  <2> QED BY <2>1, <2>2
<1>8. Clean(q, ledger)
  BY <1>4, <1>6, <1>7 DEF Clean, Tidy
<1>9. \A n \in Members : Clean(mem'[n], ledger')
  BY <1>1, <1>2, <1>8, OneIsClean DEF CommitInv, q
<1>10. \A n \in Members : mem'[n].owns = mem[n].owns
  BY <1>1, <1>4 DEF CommitInv, TypeOK, q
<1> QED BY <1>2, <1>9, <1>10 DEF OwnsIsOwner

\* The transaction, which is the only step that touches rows and ledger.
LEMMA WriteIsClean ==
    ASSUME CommitInv, OwnsIsOwner, \A n \in Members : Clean(mem[n], ledger),
           RowsCountOnce, NEW m \in Members, Write(m)
    PROVE  /\ OwnsIsOwner' /\ RowsCountOnce'
           /\ \A n \in Members : Clean(mem'[n], ledger')
<1> DEFINE r == [mem[m] EXCEPT !.pc = "commit", !.held = NothingHeld]
<1>1. /\ mem' = [mem EXCEPT ![m] = r] /\ owner' = owner
      /\ ledger' = ledger \cup mem[m].ids
      /\ agg' = [e \in Events |-> agg[e] + mem[m].held[e]]
  BY DEF Write
<1>2. /\ mem \in [Members -> Instance] /\ mem[m] \in Instance
      /\ Clean(mem[m], ledger)
      /\ agg \in [Events -> Nat]
  BY DEF CommitInv, TypeOK
<1>3. /\ r.pc = "commit" /\ r.held = NothingHeld
      /\ r.owns = mem[m].owns /\ r.ids = mem[m].ids /\ r.pending = mem[m].pending
  BY <1>2 DEF Instance
<1> HIDE DEF r
<1>4. Clean(r, ledger')
  BY <1>1, <1>2, <1>3 DEF Clean, HeldIsNew, NewIsRead, Tidy, NothingHeld
<1>5. ASSUME NEW n \in Members, n # m PROVE Clean(mem[n], ledger')
  <2>1. Clean(mem[n], ledger)
    OBVIOUS
  <2>2. \A e \in mem[n].ids : e \in ledger' => e \in ledger
    BY <1>1, <1>5, OneWaits
  <2>3. HeldIsNew(mem[n], ledger')
    BY <2>1, <2>2 DEF Clean, HeldIsNew
  <2>4. NewIsRead(mem[n], ledger')
    BY <1>1, <2>1 DEF Clean, NewIsRead
  <2> QED BY <2>1, <2>3, <2>4 DEF Clean
<1>6. \A n \in Members : Clean(mem'[n], ledger')
  BY <1>1, <1>2, <1>4, <1>5
<1>7. \A n \in Members : mem'[n].owns = mem[n].owns
  BY <1>1, <1>2, <1>3
<1>8. RowsCountOnce'
  <2> SUFFICES ASSUME NEW e \in Events
               PROVE  agg'[e] <= 1 /\ (agg'[e] > 0 => e \in ledger')
    BY DEF RowsCountOnce
  <2>1. /\ agg[e] <= 1 /\ (agg[e] > 0 => e \in ledger) /\ agg[e] \in Nat
        /\ mem[m].held[e] \in Nat
        /\ mem[m].held[e] > 0 => /\ mem[m].held[e] = 1
                                 /\ e \in mem[m].ids /\ e \notin ledger
    BY <1>2 DEF RowsCountOnce, Clean, HeldIsNew, Instance
  <2>2. agg'[e] = agg[e] + mem[m].held[e]
    BY <1>1
  <2> QED BY <1>1, <2>1, <2>2
<1> QED BY <1>1, <1>6, <1>7, <1>8 DEF OwnsIsOwner

LEMMA AssignIsClean ==
    ASSUME CommitInv, OwnsIsOwner, \A n \in Members : Clean(mem[n], ledger),
           NEW m \in Members, NEW p \in Partitions, Assign(m, p)
    PROVE  OwnsIsOwner' /\ \A n \in Members : Clean(mem'[n], ledger')
<1> DEFINE r == [mem[m] EXCEPT !.owns = @ \cup {p}, !.at[p] = committed[p]]
<1>1. /\ mem' = [mem EXCEPT ![m] = r] /\ owner' = [owner EXCEPT ![p] = m]
      /\ owner[p] = Nobody /\ UNCHANGED ledger
  BY DEF Assign, storeVars
<1>2. mem[m] \in Instance /\ Clean(mem[m], ledger)
  BY DEF CommitInv, TypeOK
<1>3. /\ r.owns = mem[m].owns \cup {p} /\ r.at = [mem[m].at EXCEPT ![p] = committed[p]]
      /\ r.pc = mem[m].pc /\ r.ids = mem[m].ids /\ r.held = mem[m].held
      /\ r.pending = mem[m].pending
      /\ mem[m].at \in [Partitions -> Nat] /\ mem[m].owns \subseteq Partitions
  BY <1>2 DEF Instance
<1> HIDE DEF r
<1>4. \A n \in Members : p \notin mem[n].owns
  BY <1>1, GroupAssumption DEF OwnsIsOwner
<1>5. NewIsRead(r, ledger)
  BY <1>2, <1>3, <1>4 DEF Clean, NewIsRead
<1>6. Clean(r, ledger)
  BY <1>2, <1>3, <1>5 DEF Clean, HeldIsNew, Tidy
<1>7. \A n \in Members : Clean(mem'[n], ledger')
  BY <1>1, <1>6, OneIsClean DEF CommitInv
<1>8. OwnsIsOwner'
  <2> SUFFICES ASSUME NEW n \in Members, NEW q \in mem'[n].owns PROVE owner'[q] = n
    BY DEF OwnsIsOwner
  <2>1. mem'[n] = IF n = m THEN r ELSE mem[n]
    BY <1>1 DEF CommitInv, TypeOK
  <2>2. CASE q = p
    <3>1. n = m
      BY <1>4, <2>1, <2>2
    <3> QED BY <1>1, <2>2, <3>1 DEF CommitInv, TypeOK
  <2>3. CASE q # p
    BY <1>1, <1>3, <2>1, <2>3 DEF OwnsIsOwner, CommitInv, TypeOK
  <2> QED BY <2>2, <2>3
<1> QED BY <1>7, <1>8

\* The steps that only move the loop, the watermark or the callbacks along.
LEMMA OtherIsClean ==
    ASSUME CommitInv, OwnsIsOwner, \A n \in Members : Clean(mem[n], ledger),
           NEW m \in Members,
           \/ IdleAdvance(m) \/ Revoke(m) \/ Lost(m) \/ Crash(m)
           \/ FlushNothing(m) \/ Commit(m) \/ CommitRefused(m)
    PROVE  OwnsIsOwner' /\ \A n \in Members : Clean(mem'[n], ledger')
<1>1. mem[m] \in Instance /\ Clean(mem[m], ledger) /\ Kept(mem[m], ledger) /\ TypeOK
  BY DEF CommitInv, TypeOK, PositionsAreKept
<1>2. CASE IdleAdvance(m)
  <2> DEFINE r == [mem[m] EXCEPT !.watermark = AdvanceWatermark(@, Now)]
  <2>1. mem' = [mem EXCEPT ![m] = r] /\ UNCHANGED <<owner, ledger>>
    BY <1>2 DEF IdleAdvance, storeVars
  <2>2. /\ r.owns = mem[m].owns /\ r.at = mem[m].at /\ r.pc = mem[m].pc
        /\ r.ids = mem[m].ids /\ r.held = mem[m].held /\ r.pending = mem[m].pending
    BY <1>1 DEF Instance
  <2> HIDE DEF r
  <2>3. Clean(r, ledger)
    BY <1>1, <2>2 DEF Clean, HeldIsNew, NewIsRead, Tidy
  <2>4. \A n \in Members : Clean(mem'[n], ledger')
    BY <1>1, <2>1, <2>3, OneIsClean
  <2>5. \A n \in Members : mem'[n].owns = mem[n].owns
    BY <1>1, <2>1, <2>2 DEF TypeOK
  <2> QED BY <2>1, <2>4, <2>5 DEF OwnsIsOwner
<1>3. CASE Revoke(m) \/ Lost(m)
  <2>1. PICK ps \in SUBSET mem[m].owns :
          mem' = [mem EXCEPT ![m] = [mem[m] EXCEPT !.pc = "flush", !.leaving = ps]]
    BY <1>3 DEF Revoke, Lost, OnRevoke
  <2> DEFINE r == [mem[m] EXCEPT !.pc = "flush", !.leaving = ps]
  <2>2. UNCHANGED <<owner, ledger>>
    BY <1>3 DEF Revoke, Lost, storeVars
  <2>3. /\ r.owns = mem[m].owns /\ r.at = mem[m].at /\ r.pc = "flush"
        /\ r.ids = mem[m].ids /\ r.held = mem[m].held /\ r.pending = mem[m].pending
    BY <1>1 DEF Instance
  <2>4. mem' = [mem EXCEPT ![m] = r]
    BY <2>1
  <2> HIDE DEF r
  <2>5. Clean(r, ledger)
    BY <1>1, <2>3 DEF Clean, HeldIsNew, NewIsRead, Tidy
  <2>6. \A n \in Members : Clean(mem'[n], ledger')
    BY <1>1, <2>2, <2>4, <2>5, OneIsClean
  <2>7. \A n \in Members : mem'[n].owns = mem[n].owns
    BY <1>1, <2>3, <2>4 DEF TypeOK
  <2> QED BY <2>2, <2>6, <2>7 DEF OwnsIsOwner
<1>4. CASE Crash(m)
  <2>1. /\ mem' = [mem EXCEPT ![m] = Fresh] /\ owner' = Released(m, Partitions)
        /\ UNCHANGED ledger
    BY <1>4 DEF Crash, storeVars
  <2>2. \A n \in Members : Clean(mem'[n], ledger')
    BY <1>1, <2>1, FreshIsClean, OneIsClean
  <2>3. \A n \in Members : \A p \in mem'[n].owns : n # m /\ p \in mem[n].owns
    BY <1>1, <2>1, FreshIsClean DEF TypeOK
  <2>4. OwnsIsOwner'
    BY <1>1, <2>1, <2>3 DEF OwnsIsOwner, Released, TypeOK, Instance
  <2> QED BY <2>2, <2>4
<1>5. CASE FlushNothing(m)
  <2>1. Return(m, mem[m]) /\ UNCHANGED ledger /\ NothingToWrite(mem[m])
    BY <1>5 DEF FlushNothing, storeVars
  <2>2. mem[m].held = NothingHeld /\ mem[m].ids = {}
    BY <1>1, <2>1 DEF NothingToWrite, Clean, Tidy
  <2> QED BY <1>1, <2>1, <2>2, ReturnIsClean
<1>6. CASE Commit(m)
  <2> DEFINE r == [mem[m] EXCEPT !.pending = FALSE, !.ids = {}, !.late = {}]
  <2>1. Return(m, r) /\ UNCHANGED ledger /\ mem[m].pc = "commit"
    BY <1>6 DEF Commit, storeVars
  <2>2. r \in Instance
    BY <1>1, ChangeTyped
  <2>3. r.ids = {} /\ r.held = mem[m].held /\ r.owns = mem[m].owns
    BY <1>1 DEF Instance
  <2>4. mem[m].held = NothingHeld
    BY <1>1, <2>1 DEF Clean, Tidy
  <2> HIDE DEF r
  <2> QED BY <1>1, <2>1, <2>2, <2>3, <2>4, ReturnIsClean
<1>7. CASE CommitRefused(m)
  <2>1. Raise(m, mem[m]) /\ UNCHANGED ledger /\ mem[m].pc = "commit"
    BY <1>7 DEF CommitRefused, storeVars
  <2>2. /\ mem[m].held = NothingHeld /\ mem[m].ids \subseteq ledger
        /\ ~mem[m].pending => mem[m].ids = {}
    BY <1>1, <2>1 DEF Clean, Tidy, Kept
  <2> QED BY <1>1, <2>1, <2>2, RaiseIsClean
<1> QED BY <1>2, <1>3, <1>4, <1>5, <1>6, <1>7

LEMMA OnceInvInitially == Init => OnceInv
<1> SUFFICES ASSUME Init
             PROVE  OwnsIsOwner /\ RowsCountOnce /\ \A m \in Members : Clean(mem[m], ledger)
  BY DEF OnceInv
<1>1. \A m \in Members : mem[m] = Fresh
  BY DEF Init
<1> QED BY <1>1, FreshIsClean DEF Init, OwnsIsOwner, RowsCountOnce, NothingHeld

LEMMA OnceInvStep ==
    ASSUME CommitInv, OnceInv, [Next]_vars
    PROVE  OnceInv'
<1> SUFFICES ASSUME Calm'
             PROVE  /\ OwnsIsOwner' /\ RowsCountOnce'
                    /\ \A n \in Members : Clean(mem'[n], ledger')
  BY DEF OnceInv
<1>1. seen \subseteq seen'
  BY DEF Next, Run, Poll, FlushNothing, Write, Commit, CommitRefused, Lost, IdleAdvance,
         WriteFail, Revoke, Expel, Crash, Assign, Fault, vars
<1>2. OwnsIsOwner /\ RowsCountOnce /\ \A n \in Members : Clean(mem[n], ledger)
  BY <1>1 DEF OnceInv, Calm
<1>3. CASE UNCHANGED vars
  BY <1>2, <1>3 DEF vars, storeVars, OwnsIsOwner, RowsCountOnce
<1>4. ASSUME NEW m \in Members, WriteFail(m) \/ Expel(m) PROVE FALSE
  BY <1>4 DEF WriteFail, Expel, Fault, Calm
<1>5. ASSUME NEW m \in Members, ~Write(m),
             \/ Run(m) \/ IdleAdvance(m) \/ Revoke(m) \/ Crash(m)
             \/ \E p \in Partitions : Assign(m, p)
      PROVE  UNCHANGED <<agg, ledger>>
  BY <1>5 DEF Run, Poll, FlushNothing, Commit, CommitRefused, Lost, IdleAdvance,
              Revoke, Crash, Assign, storeVars
<1>6. ASSUME NEW m \in Members, ~Write(m),
             \/ Run(m) \/ IdleAdvance(m) \/ Revoke(m) \/ Crash(m)
             \/ \E p \in Partitions : Assign(m, p)
      PROVE  OwnsIsOwner' /\ \A n \in Members : Clean(mem'[n], ledger')
  BY <1>2, <1>6, PollIsClean, AssignIsClean, OtherIsClean DEF Run
<1>7. CASE Next
  <2>1. PICK m \in Members :
          \/ Run(m) \/ IdleAdvance(m) \/ Revoke(m) \/ Crash(m)
          \/ \E p \in Partitions : Assign(m, p)
    BY <1>4, <1>7 DEF Next
  <2>2. CASE Write(m)
    BY <1>2, <2>2, WriteIsClean
  <2>3. CASE ~Write(m)
    BY <1>2, <1>5, <1>6, <2>1, <2>3 DEF RowsCountOnce
  <2> QED BY <2>2, <2>3
<1> QED BY <1>3, <1>7

LEMMA OnceInvariance == Spec => []OnceInv
<1>1. CommitInv /\ OnceInv /\ [Next]_vars => OnceInv'
  BY OnceInvStep
<1> QED BY <1>1, OnceInvInitially, CommitInvariance, PTL DEF Spec

\* Without expulsions and failed transactions, what an instance has yet to
\* write belongs to a partition it owns, and no one else does: on_revoke
\* flushes before it gives a partition up (service.py:263-282).
THEOREM OneWriter == Spec => []SingleWriter
<1>1. CommitInv /\ OnceInv => SingleWriter
  <2> SUFFICES ASSUME CommitInv, OnceInv, Calm, NEW m \in Members, NEW e \in Events,
                      mem[m].held[e] > 0
               PROVE  \E p \in mem[m].owns : In(p, e) /\ owner[p] = m
    BY DEF SingleWriter, Calm
  <2>1. mem[m] \in Instance /\ Kept(mem[m], ledger) /\ Clean(mem[m], ledger)
    BY DEF CommitInv, TypeOK, PositionsAreKept, OnceInv
  <2>2. e \in mem[m].ids \ ledger
    BY <2>1 DEF Clean, HeldIsNew
  <2>3. PICK p \in mem[m].owns : \E o \in 1..mem[m].at[p] : Log[p][o] = e
    BY <2>1, <2>2 DEF Clean, NewIsRead
  <2>4. /\ mem[m].at[p] \in Nat /\ mem[m].at[p] <= Len(Log[p]) /\ Len(Log[p]) \in Nat
    BY <2>1, <2>3, GroupAssumption DEF Kept, Instance
  <2>5. In(p, e)
    BY <2>3, <2>4 DEF In
  <2> QED BY <2>3, <2>5 DEF OnceInv, OwnsIsOwner
<1> QED BY <1>1, OnceInvariance, CommitInvariance, PTL

\* However partitions change hands and instances die, no event is in a row
\* twice (delivery_semantics.md:22), without expulsions and failed
\* transactions.
THEOREM EventsCountOnce == Spec => []CountedOnce
<1>1. OnceInv => CountedOnce
  BY DEF OnceInv, RowsCountOnce, CountedOnce, Calm
<1> QED BY <1>1, OnceInvariance, PTL
-----------------------------------------------------------------------------
(***************************************************************************)
(* Effects.  A pending id is held for its row, waits as a refusal, or is   *)
(* in the ledger by another instance's write, and then it has had its      *)
(* effect.                                                                 *)
(***************************************************************************)
Waits(r, L) == \A e \in r.ids : r.held[e] > 0 \/ e \in r.late \/ e \in L

Effects == \A e \in ledger : agg[e] > 0 \/ e \in refused

EffectInv == "write" \notin seen => Effects /\ \A m \in Members : Waits(mem[m], ledger)

\* One instance changes and the store does not.
LEMMA OneWaitsOn ==
    ASSUME TypeOK, Effects, \A n \in Members : Waits(mem[n], ledger), NEW m \in Members,
           NEW q, Waits(q, ledger), mem' = [mem EXCEPT ![m] = q],
           UNCHANGED <<agg, ledger, refused>>
    PROVE  Effects' /\ \A n \in Members : Waits(mem'[n], ledger')
BY DEF TypeOK, Effects

LEMMA WaitsAfterReturn ==
    ASSUME TypeOK, Effects, \A n \in Members : Waits(mem[n], ledger), NEW m \in Members,
           NEW r \in Instance, Waits(r, ledger), Return(m, r) \/ Raise(m, r),
           UNCHANGED <<agg, ledger, refused>>
    PROVE  Effects' /\ \A n \in Members : Waits(mem'[n], ledger')
<1>1. PICK q : /\ q \in {Fresh, Unassigned(r), [r EXCEPT !.pc = "flush", !.stopping = TRUE]}
               /\ mem' = [mem EXCEPT ![m] = q]
  BY DEF Return, Raise
<1>2. Waits(Fresh, ledger)
  BY DEF Fresh, Waits
<1>3. Waits(Unassigned(r), ledger)
  BY DEF Unassigned, Waits, Instance
<1>4. Waits([r EXCEPT !.pc = "flush", !.stopping = TRUE], ledger)
  BY DEF Waits, Instance
<1> QED BY <1>1, <1>2, <1>3, <1>4, OneWaitsOn

LEMMA WaitsAfterWrite ==
    ASSUME CommitInv, Effects, \A n \in Members : Waits(mem[n], ledger), NEW m \in Members,
           Write(m)
    PROVE  Effects' /\ \A n \in Members : Waits(mem'[n], ledger')
<1>1. /\ mem' = [mem EXCEPT ![m] = [mem[m] EXCEPT !.pc = "commit", !.held = NothingHeld]]
      /\ ledger' = ledger \cup mem[m].ids
      /\ refused' = refused \cup mem[m].late
      /\ agg' = [e \in Events |-> agg[e] + mem[m].held[e]]
  BY DEF Write
<1>2. /\ mem \in [Members -> Instance] /\ mem[m] \in Instance
      /\ agg \in [Events -> Nat] /\ ledger \subseteq Events
      /\ mem[m].held \in [Events -> Nat] /\ mem[m].ids \subseteq Events
  BY DEF CommitInv, TypeOK, Instance
<1>3. \A e \in ledger' : agg'[e] > 0 \/ e \in refused'
  <2> SUFFICES ASSUME NEW e \in ledger' PROVE agg'[e] > 0 \/ e \in refused'
    OBVIOUS
  <2>1. /\ e \in Events /\ agg[e] \in Nat /\ mem[m].held[e] \in Nat
        /\ agg'[e] = agg[e] + mem[m].held[e]
    BY <1>1, <1>2
  <2>2. CASE e \in ledger
    BY <1>1, <2>1, <2>2 DEF Effects
  <2>3. CASE e \notin ledger
    BY <1>1, <2>1, <2>3 DEF Waits
  <2> QED BY <2>2, <2>3
<1>4. ASSUME NEW n \in Members, n # m PROVE Waits(mem'[n], ledger')
  <2>1. mem'[n] = mem[n] /\ Waits(mem[n], ledger)
    BY <1>1, <1>2, <1>4
  <2> QED BY <1>1, <2>1 DEF Waits
<1>5. mem'[m].ids = mem[m].ids
  BY <1>1, <1>2 DEF Instance
<1>6. Waits(mem'[m], ledger')
  BY <1>1, <1>5 DEF Waits
<1> QED BY <1>3, <1>4, <1>6 DEF Effects

LEMMA WaitsAfterOther ==
    ASSUME CommitInv, Effects, \A n \in Members : Waits(mem[n], ledger), NEW m \in Members,
           \/ Poll(m) \/ IdleAdvance(m) \/ Revoke(m) \/ Lost(m) \/ Crash(m) \/ Expel(m)
           \/ FlushNothing(m) \/ Commit(m) \/ CommitRefused(m)
           \/ \E p \in Partitions : Assign(m, p)
    PROVE  Effects' /\ \A n \in Members : Waits(mem'[n], ledger')
<1>1. /\ TypeOK /\ mem \in [Members -> Instance] /\ mem[m] \in Instance
      /\ Waits(mem[m], ledger)
  BY DEF CommitInv, TypeOK
<1>2. UNCHANGED <<agg, ledger, refused>>
  BY DEF Poll, IdleAdvance, Revoke, Lost, Crash, Expel, FlushNothing, Commit,
         CommitRefused, Assign, storeVars
<1>3. CASE Poll(m)
  <2>1. PICK p \in mem[m].owns : /\ mem[m].at[p] < Len(Log[p])
                                 /\ mem' = [mem EXCEPT ![m] = After(mem[m], p)]
    BY <1>3 DEF Poll
  <2> DEFINE e == Log[p][mem[m].at[p] + 1]
  <2>2. p \in Partitions /\ e \in Events /\ mem[m].held \in [Events -> Nat]
    BY <1>1, <2>1, GroupAssumption DEF Instance
  <2>3. \/ /\ After(mem[m], p).ids = mem[m].ids
           /\ After(mem[m], p).held = mem[m].held
           /\ After(mem[m], p).late = mem[m].late
        \/ /\ After(mem[m], p).ids = mem[m].ids \cup {e}
           /\ \/ /\ After(mem[m], p).held = [mem[m].held EXCEPT ![e] = @ + 1]
                 /\ After(mem[m], p).late = mem[m].late
              \/ /\ After(mem[m], p).held = mem[m].held
                 /\ After(mem[m], p).late = mem[m].late \cup {e}
    BY <1>1 DEF After, Instance
  <2> HIDE DEF e
  <2>4. mem[m].ids \subseteq Events
    BY <1>1 DEF Instance
  <2>5. Waits(After(mem[m], p), ledger)
    BY <1>1, <2>2, <2>3, <2>4 DEF Waits
  <2> QED BY <1>1, <1>2, <2>1, <2>5, OneWaitsOn
<1>4. CASE IdleAdvance(m)
  <2>1. mem' = [mem EXCEPT ![m] = [mem[m] EXCEPT !.watermark = AdvanceWatermark(@, Now)]]
    BY <1>4 DEF IdleAdvance
  <2>2. Waits([mem[m] EXCEPT !.watermark = AdvanceWatermark(@, Now)], ledger)
    BY <1>1 DEF Waits, Instance
  <2> QED BY <1>1, <1>2, <2>1, <2>2, OneWaitsOn
<1>5. CASE Revoke(m) \/ Lost(m)
  <2>1. PICK ps \in SUBSET mem[m].owns :
          mem' = [mem EXCEPT ![m] = [mem[m] EXCEPT !.pc = "flush", !.leaving = ps]]
    BY <1>5 DEF Revoke, Lost, OnRevoke
  <2>2. Waits([mem[m] EXCEPT !.pc = "flush", !.leaving = ps], ledger)
    BY <1>1 DEF Waits, Instance
  <2> QED BY <1>1, <1>2, <2>1, <2>2, OneWaitsOn
<1>6. CASE Crash(m) \/ Expel(m)
  <2>1. Waits(Fresh, ledger)
    BY DEF Fresh, Waits
  <2>2. \A n \in Members : mem'[n] = mem[n] \/ mem'[n] = Fresh
    BY <1>1, <1>6 DEF Crash, Expel
  <2> QED BY <1>2, <2>1, <2>2 DEF Effects
<1>7. CASE FlushNothing(m) \/ CommitRefused(m)
  <2>1. Return(m, mem[m]) \/ Raise(m, mem[m])
    BY <1>7 DEF FlushNothing, CommitRefused
  <2> QED BY <1>1, <1>2, <2>1, WaitsAfterReturn
<1>8. CASE Commit(m)
  <2> DEFINE r == [mem[m] EXCEPT !.pending = FALSE, !.ids = {}, !.late = {}]
  <2>1. Return(m, r)
    BY <1>8 DEF Commit
  <2>2. r \in Instance
    BY <1>1, ChangeTyped
  <2>3. Waits(r, ledger)
    BY <1>1 DEF Waits, Instance
  <2> HIDE DEF r
  <2> QED BY <1>1, <1>2, <2>1, <2>2, <2>3, WaitsAfterReturn
<1>9. CASE \E p \in Partitions : Assign(m, p)
  <2>1. PICK p \in Partitions : mem' = [mem EXCEPT ![m] =
            [mem[m] EXCEPT !.owns = @ \cup {p}, !.at[p] = committed[p]]]
    BY <1>9 DEF Assign
  <2>2. Waits([mem[m] EXCEPT !.owns = @ \cup {p}, !.at[p] = committed[p]], ledger)
    BY <1>1 DEF Waits, Instance
  <2> QED BY <1>1, <1>2, <2>1, <2>2, OneWaitsOn
<1> QED BY <1>3, <1>4, <1>5, <1>6, <1>7, <1>8, <1>9

LEMMA EffectStep ==
    ASSUME CommitInv, EffectInv, [Next]_vars
    PROVE  EffectInv'
<1> SUFFICES ASSUME "write" \notin seen'
             PROVE  Effects' /\ \A n \in Members : Waits(mem'[n], ledger')
  BY DEF EffectInv
<1>1. seen \subseteq seen'
  BY DEF Next, Run, Poll, FlushNothing, Write, Commit, CommitRefused, Lost, IdleAdvance,
         WriteFail, Revoke, Expel, Crash, Assign, Fault, vars
<1>2. Effects /\ \A n \in Members : Waits(mem[n], ledger)
  BY <1>1 DEF EffectInv
<1>3. CASE UNCHANGED vars
  BY <1>2, <1>3 DEF vars, storeVars, Effects
<1>4. ASSUME NEW m \in Members, WriteFail(m) PROVE FALSE
  BY <1>4 DEF WriteFail, Fault
<1>5. CASE Next
  BY <1>2, <1>4, <1>5, WaitsAfterWrite, WaitsAfterOther DEF Next, Run
<1> QED BY <1>3, <1>5

LEMMA EffectInvariance == Spec => []EffectInv
<1>1. Init => EffectInv
  <2> SUFFICES ASSUME Init PROVE EffectInv
    OBVIOUS
  <2>1. ledger = {} /\ \A m \in Members : mem[m].ids = {}
    BY DEF Init, Fresh
  <2> QED BY <2>1 DEF EffectInv, Effects, Waits
<1>2. CommitInv /\ EffectInv /\ [Next]_vars => EffectInv'
  BY EffectStep
<1> QED BY <1>1, <1>2, CommitInvariance, PTL DEF Spec

\* Nothing the ledger holds is without effect: it is in its row, or on record
\* as refused, in spite of every handover, crash and expulsion, while no
\* transaction is rolled back (_flush, service.py:192-244).
THEOREM LedgerSpeaksTrue == Spec => []LedgeredHasEffect
<1>1. EffectInv => LedgeredHasEffect
  BY DEF EffectInv, Effects, LedgeredHasEffect
<1> QED BY <1>1, EffectInvariance, PTL
-----------------------------------------------------------------------------
(***************************************************************************)
(* The promise.  While the group is calm a refusal is in the ledger and    *)
(* has no row; one that waits is not held for a row as well, and what is   *)
(* on record of it went there with the ledger.  So a transaction settles   *)
(* what it writes, and a commit acknowledges what is settled.              *)
(***************************************************************************)
RefusedHasNoRow == \A e \in refused : e \in ledger /\ agg[e] = 0

LateIsRefused(r, L, R) ==
    \A e \in r.late : e \in r.ids /\ r.held[e] = 0 /\ (e \in L => e \in R)

Divided == RefusedHasNoRow /\ \A m \in Members : LateIsRefused(mem[m], ledger, refused)

DividedInv == Calm => Divided

LEMMA CalmBefore ==
    ASSUME [Next]_vars, Calm'
    PROVE  Calm
BY DEF Next, Run, Poll, FlushNothing, Write, Commit, CommitRefused, Lost, IdleAdvance,
       WriteFail, Revoke, Expel, Crash, Assign, Fault, vars, Calm

\* A record that is read goes one way, and is new to this instance.
LEMMA PollDivides ==
    ASSUME CommitInv, OnceInv, Calm, Divided, NEW m \in Members, Poll(m)
    PROVE  Divided'
<1>1. PICK p \in mem[m].owns : /\ mem[m].at[p] < Len(Log[p])
                               /\ mem' = [mem EXCEPT ![m] = After(mem[m], p)]
  BY DEF Poll
<1> DEFINE q == After(mem[m], p)
           e == Log[p][mem[m].at[p] + 1]
<1>2. /\ mem \in [Members -> Instance] /\ mem[m] \in Instance
      /\ UNCHANGED <<agg, ledger, refused>> /\ LateIsRefused(mem[m], ledger, refused)
  BY DEF CommitInv, TypeOK, Poll, storeVars, Divided
<1>3. mem[m].held \in [Events -> Nat] /\ mem[m].ids \subseteq Events
  BY <1>2 DEF Instance
<1>4. e \notin ledger => e \notin mem[m].ids
  BY <1>1, NextIsNew DEF OnceInv
<1>5. e \in Events
  <2>1. p \in Partitions /\ mem[m].at \in [Partitions -> Nat]
    BY <1>1, <1>2 DEF Instance
  <2> QED BY <1>1, <2>1, GroupAssumption
<1>6. \A d \in Events : d \notin mem[m].ids /\ d \notin ledger => mem[m].held[d] = 0
  BY <1>3 DEF OnceInv, Clean, HeldIsNew
<1>7. \/ q.ids = mem[m].ids /\ q.held = mem[m].held /\ q.late = mem[m].late
      \/ /\ e \notin ledger /\ q.ids = mem[m].ids \cup {e}
         /\ \/ q.held = [mem[m].held EXCEPT ![e] = @ + 1] /\ q.late = mem[m].late
            \/ q.held = mem[m].held /\ q.late = mem[m].late \cup {e}
  BY <1>2 DEF After, Instance
<1> HIDE DEF q, e
<1>8. LateIsRefused(q, ledger, refused)
  <2>1. CASE q.ids = mem[m].ids /\ q.held = mem[m].held /\ q.late = mem[m].late
    BY <1>2, <2>1 DEF LateIsRefused
  <2>2. CASE /\ e \notin ledger /\ q.ids = mem[m].ids \cup {e}
             /\ q.held = [mem[m].held EXCEPT ![e] = @ + 1] /\ q.late = mem[m].late
    <3>1. \A d \in q.late : d # e /\ d \in Events
      BY <1>2, <1>3, <1>4, <2>2 DEF LateIsRefused, e
    <3> QED BY <1>2, <1>3, <2>2, <3>1 DEF LateIsRefused
  <2>3. CASE /\ e \notin ledger /\ q.ids = mem[m].ids \cup {e}
             /\ q.held = mem[m].held /\ q.late = mem[m].late \cup {e}
    <3>1. mem[m].held[e] = 0
      BY <1>4, <1>5, <1>6, <2>3 DEF e
    <3> QED BY <1>2, <2>3, <3>1 DEF LateIsRefused
  <2> QED BY <1>7, <2>1, <2>2, <2>3
<1> QED BY <1>1, <1>2, <1>8 DEF Divided, RefusedHasNoRow, q

\* The transaction puts a refusal on record together with its id.
LEMMA WriteDivides ==
    ASSUME CommitInv, OnceInv, Calm, Divided, NEW m \in Members, Write(m)
    PROVE  Divided'
<1> DEFINE r == [mem[m] EXCEPT !.pc = "commit", !.held = NothingHeld]
<1>1. /\ mem' = [mem EXCEPT ![m] = r]
      /\ ledger' = ledger \cup mem[m].ids
      /\ refused' = refused \cup mem[m].late
      /\ agg' = [e \in Events |-> agg[e] + mem[m].held[e]]
  BY DEF Write
<1>2. /\ mem \in [Members -> Instance] /\ mem[m] \in Instance
      /\ agg \in [Events -> Nat] /\ refused \subseteq Events
      /\ mem[m].late \subseteq Events /\ mem[m].held \in [Events -> Nat]
  BY DEF CommitInv, TypeOK, Instance
<1>3. /\ OwnsIsOwner /\ RowsCountOnce /\ \A n \in Members : Clean(mem[n], ledger)
      /\ LateIsRefused(mem[m], ledger, refused) /\ RefusedHasNoRow
  BY DEF OnceInv, Divided
<1>4. RefusedHasNoRow'
  <2> SUFFICES ASSUME NEW e \in refused' PROVE e \in ledger' /\ agg'[e] = 0
    BY DEF RefusedHasNoRow
  <2>1. e \in Events /\ mem[m].held[e] \in Nat /\ agg[e] \in Nat
        /\ agg'[e] = agg[e] + mem[m].held[e]
    BY <1>1, <1>2
  <2>2. CASE e \in refused
    <3>1. e \in ledger /\ agg[e] = 0
      BY <1>3, <2>2 DEF RefusedHasNoRow
    <3>2. mem[m].held[e] = 0
      BY <1>3, <2>1, <3>1 DEF Clean, HeldIsNew
    <3> QED BY <1>1, <2>1, <3>1, <3>2
  <2>3. CASE e \in mem[m].late /\ e \notin refused
    <3>1. e \in mem[m].ids /\ mem[m].held[e] = 0 /\ e \notin ledger
      BY <1>3, <2>3 DEF LateIsRefused
    <3>2. agg[e] = 0
      BY <1>3, <2>1, <3>1 DEF RowsCountOnce
    <3> QED BY <1>1, <2>1, <3>1, <3>2
  <2> QED BY <1>1, <2>2, <2>3
<1>5. LateIsRefused(r, ledger', refused')
  <2>1. r.late = mem[m].late /\ r.ids = mem[m].ids /\ r.held = NothingHeld
    BY <1>2 DEF Instance
  <2> HIDE DEF r
  <2> QED BY <1>1, <1>2, <1>3, <2>1 DEF LateIsRefused, NothingHeld
<1>6. ASSUME NEW n \in Members, n # m PROVE LateIsRefused(mem[n], ledger', refused')
  <2>1. LateIsRefused(mem[n], ledger, refused)
    BY DEF Divided
  <2>2. \A e \in mem[n].ids : e \in ledger' => e \in ledger
    BY <1>1, <1>3, <1>6, OneWaits
  <2> QED BY <1>1, <2>1, <2>2 DEF LateIsRefused
<1> QED BY <1>1, <1>2, <1>4, <1>5, <1>6 DEF Divided

\* The memory of m keeps what waits in it, or holds no refusal any more.
LEMMA OneDivides ==
    ASSUME CommitInv, Divided, NEW m \in Members, NEW q,
           mem' = [mem EXCEPT ![m] = q], UNCHANGED <<agg, ledger, refused>>,
           \/ q.late = mem[m].late /\ q.ids = mem[m].ids /\ q.held = mem[m].held
           \/ q.late = {}
    PROVE  Divided'
<1>1. LateIsRefused(q, ledger, refused)
  BY DEF Divided, LateIsRefused
<1> QED BY <1>1 DEF Divided, RefusedHasNoRow, CommitInv, TypeOK

LEMMA OtherDivides ==
    ASSUME CommitInv, Divided, NEW m \in Members,
           \/ IdleAdvance(m) \/ Revoke(m) \/ Lost(m) \/ Crash(m)
           \/ FlushNothing(m) \/ Commit(m) \/ CommitRefused(m)
           \/ \E p \in Partitions : Assign(m, p)
    PROVE  Divided'
<1> DEFINE Same(q) == q.late = mem[m].late /\ q.ids = mem[m].ids /\ q.held = mem[m].held
<1>1. /\ mem[m] \in Instance
      /\ UNCHANGED <<agg, ledger, refused>>
  BY DEF CommitInv, TypeOK, IdleAdvance, Revoke, Lost, Crash, FlushNothing, Commit,
         CommitRefused, Assign, storeVars
<1>2. CASE IdleAdvance(m)
  <2> DEFINE q == [mem[m] EXCEPT !.watermark = AdvanceWatermark(@, Now)]
  <2>1. mem' = [mem EXCEPT ![m] = q]
    BY <1>2 DEF IdleAdvance
  <2>2. Same(q)
    BY <1>1 DEF Instance
  <2> QED BY <1>1, <2>1, <2>2, OneDivides
<1>3. CASE Revoke(m) \/ Lost(m)
  <2>1. PICK ps \in SUBSET mem[m].owns :
          mem' = [mem EXCEPT ![m] = [mem[m] EXCEPT !.pc = "flush", !.leaving = ps]]
    BY <1>3 DEF Revoke, Lost, OnRevoke
  <2>2. Same([mem[m] EXCEPT !.pc = "flush", !.leaving = ps])
    BY <1>1 DEF Instance
  <2> QED BY <1>1, <2>1, <2>2, OneDivides
<1>4. CASE \E p \in Partitions : Assign(m, p)
  <2>1. PICK p \in Partitions : mem' = [mem EXCEPT ![m] =
            [mem[m] EXCEPT !.owns = @ \cup {p}, !.at[p] = committed[p]]]
    BY <1>4 DEF Assign
  <2>2. Same([mem[m] EXCEPT !.owns = @ \cup {p}, !.at[p] = committed[p]])
    BY <1>1 DEF Instance
  <2> QED BY <1>1, <2>1, <2>2, OneDivides
<1>5. Fresh.late = {}
  BY DEF Fresh
<1>6. CASE Crash(m)
  <2>1. mem' = [mem EXCEPT ![m] = Fresh]
    BY <1>6 DEF Crash
  <2> QED BY <1>1, <1>5, <2>1, OneDivides
<1>7. CASE FlushNothing(m) \/ CommitRefused(m)
  <2>1. PICK q \in {Fresh, Unassigned(mem[m]),
                    [mem[m] EXCEPT !.pc = "flush", !.stopping = TRUE]} :
          mem' = [mem EXCEPT ![m] = q]
    BY <1>7 DEF FlushNothing, CommitRefused, Return, Raise
  <2>2. Same(Unassigned(mem[m])) /\ Same([mem[m] EXCEPT !.pc = "flush", !.stopping = TRUE])
    BY <1>1 DEF Unassigned, Instance
  <2> QED BY <1>1, <1>5, <2>1, <2>2, OneDivides
<1>8. CASE Commit(m)
  <2> DEFINE r == [mem[m] EXCEPT !.pending = FALSE, !.ids = {}, !.late = {}]
  <2>1. PICK q \in {Fresh, Unassigned(r)} : mem' = [mem EXCEPT ![m] = q]
    BY <1>8 DEF Commit, Return
  <2>2. Unassigned(r).late = {}
    BY <1>1 DEF Unassigned, Instance
  <2> HIDE DEF r
  <2> QED BY <1>1, <1>5, <2>1, <2>2, OneDivides
<1> QED BY <1>2, <1>3, <1>4, <1>6, <1>7, <1>8

LEMMA DividedInvStep ==
    ASSUME CommitInv, OnceInv, DividedInv, [Next]_vars
    PROVE  DividedInv'
<1> SUFFICES ASSUME Calm' PROVE Divided'
  BY DEF DividedInv
<1>1. Calm /\ Divided
  BY CalmBefore DEF DividedInv
<1>2. CASE UNCHANGED vars
  BY <1>1, <1>2 DEF vars, storeVars, Divided, RefusedHasNoRow
<1>3. ASSUME NEW m \in Members, WriteFail(m) \/ Expel(m) PROVE FALSE
  BY <1>3 DEF WriteFail, Expel, Fault, Calm
<1>4. CASE Next
  BY <1>1, <1>3, <1>4, PollDivides, WriteDivides, OtherDivides DEF Next, Run
<1> QED BY <1>2, <1>4

-----------------------------------------------------------------------------
\* The events of a partition are the ids at its offsets.
LEMMA EventsOfFacts ==
    ASSUME NEW p \in Partitions
    PROVE  /\ Len(Log[p]) \in Nat
           /\ \A o \in 1..Len(Log[p]) : Log[p][o] \in EventsOf(p)
           /\ EventsOf(p) \subseteq Events
           /\ \A e \in EventsOf(p) : \E o \in 1..Len(Log[p]) : Log[p][o] = e
BY GroupAssumption DEF EventsOf, In

\* A transaction settles, in each partition, the events m held for a row and
\* the records it had refused.
LEMMA WriteSettles ==
    ASSUME CommitInv, OnceInv, Calm, Divided, NEW m \in Members, Write(m),
           NEW p \in Partitions
    PROVE  Promise(p)!Settle
<1> DEFINE A == {e \in EventsOf(p) : mem[m].held[e] > 0}
           R == {o \in 1..Len(Log[p]) : Log[p][o] \in mem[m].late}
<1>1. /\ refused' = refused \cup mem[m].late
      /\ agg' = [e \in Events |-> agg[e] + mem[m].held[e]]
      /\ UNCHANGED committed
  BY DEF Write
<1>2. /\ agg \in [Events -> Nat] /\ mem[m].held \in [Events -> Nat]
      /\ \A e \in Events : mem[m].held[e] > 0
                             => mem[m].held[e] = 1 /\ e \notin ledger
      /\ \A e \in mem[m].late : mem[m].held[e] = 0 /\ (e \in ledger => e \in refused)
      /\ \A e \in Events : agg[e] > 0 => e \in ledger
      /\ \A e \in refused : e \in ledger /\ agg[e] = 0
  BY DEF CommitInv, TypeOK, Instance, OnceInv, RowsCountOnce, Clean, HeldIsNew, Divided,
         LateIsRefused, RefusedHasNoRow
<1>3. \A e \in A : /\ \E o \in 1..Len(Log[p]) : Log[p][o] = e
                   /\ agg[e] = 0 /\ e \notin refused
  BY <1>2, EventsOfFacts
<1>4. \A o \in R : Log[p][o] \notin A /\ agg[Log[p][o]] = 0
  BY <1>2, EventsOfFacts
<1>5. [e \in EventsOf(p) |-> agg[e]]'
        = [e \in EventsOf(p) |-> IF e \in A THEN 1 ELSE [d \in EventsOf(p) |-> agg[d]][e]]
  <2>1. ASSUME NEW e \in EventsOf(p) PROVE agg'[e] = IF e \in A THEN 1 ELSE agg[e]
    BY <1>1, <1>2, <1>3, <2>1, EventsOfFacts
  <2> QED BY <2>1 DEF EventsOf
<1>6. {o \in 1..Len(Log[p]) : Log[p][o] \in refused}'
        = {o \in 1..Len(Log[p]) : Log[p][o] \in refused} \cup R
  BY <1>1
<1>7. A \in SUBSET EventsOf(p) /\ R \in SUBSET (1..Len(Log[p]))
  OBVIOUS
<1>8. \A e \in A : /\ \E o \in Promise(p)!Offsets : Log[p][o] = e
                   /\ [d \in EventsOf(p) |-> agg[d]][e] = 0
                   /\ ~Promise(p)!IsRefused(e)
  BY <1>3 DEF Promise!Offsets, Promise!IsRefused
<1>9. \A o \in R : Log[p][o] \in EventsOf(p)
                     => /\ Log[p][o] \notin A
                        /\ [d \in EventsOf(p) |-> agg[d]][Log[p][o]] = 0
  BY <1>4
<1> HIDE DEF A, R
<1>10. UNCHANGED <<Log[p], committed[p]>>
  BY <1>1
<1> QED BY <1>5, <1>6, <1>7, <1>8, <1>9, <1>10 DEF Promise!Settle, Promise!Offsets

\* A commit acknowledges what is in the ledger, and that has had its effect.
LEMMA CommitAcknowledges ==
    ASSUME CommitInv, CommitInv', TypeOK', OnceInv, EffectInv, Calm, NEW m \in Members,
           Commit(m), NEW p \in Partitions, committed'[p] >= committed[p]
    PROVE  Promise(p)!Acknowledge
<1>1. UNCHANGED <<agg, ledger, refused>>
  BY DEF Commit, storeVars
<1>2. /\ committed[p] \in Nat /\ committed'[p] \in Nat
      /\ \A o \in 1..committed'[p] : o <= Len(Log[p]) /\ Log[p][o] \in ledger
  BY <1>1 DEF CommitInv, TypeOK, CommittedIsHandled
<1>3. committed'[p] \in committed[p]..Len(Log[p])
  BY <1>2, EventsOfFacts
<1>4. \A e \in ledger : e \in Events /\ (agg[e] = 1 \/ e \in refused)
  BY DEF EffectInv, Effects, Calm, OnceInv, RowsCountOnce, CommitInv, TypeOK
<1>5. \A o \in 1..committed'[p] :
        /\ o \in 1..Len(Log[p]) /\ Log[p][o] \in EventsOf(p)
        /\ agg[Log[p][o]] = 1 \/ Log[p][o] \in refused
  BY <1>2, <1>4, EventsOfFacts
<1> QED BY <1>1, <1>3, <1>5
        DEF Promise!Acknowledge, Promise!Settled, Promise!Offsets, Promise!IsRefused

LEMMA StepKeepsPromise ==
    ASSUME CommitInv, CommitInv', TypeOK', OnceInv, EffectInv, DividedInv, [Next]_vars,
           [\A p \in Partitions : committed'[p] >= committed[p]]_vars, Calm',
           NEW p \in Partitions
    PROVE  [Promise(p)!Next]_(Promise(p)!vars)
<1>1. Calm /\ Divided
  BY CalmBefore DEF DividedInv
<1>2. CASE UNCHANGED <<agg, refused, committed>>
  BY <1>2 DEF Promise!vars
<1>3. CASE UNCHANGED vars
  BY <1>2, <1>3 DEF vars, storeVars
<1>4. ASSUME NEW m \in Members, WriteFail(m) \/ Expel(m) PROVE FALSE
  BY <1>4 DEF WriteFail, Expel, Fault, Calm
<1>5. ASSUME NEW m \in Members, Write(m) PROVE Promise(p)!Next
  BY <1>1, <1>5, WriteSettles DEF Promise!Next
<1>6. ASSUME NEW m \in Members, Commit(m), committed'[p] >= committed[p]
      PROVE  Promise(p)!Next
  BY <1>1, <1>6, CommitAcknowledges DEF Promise!Next
<1>7. ASSUME NEW m \in Members,
             \/ Poll(m) \/ FlushNothing(m) \/ CommitRefused(m) \/ Lost(m)
             \/ IdleAdvance(m) \/ Revoke(m) \/ Crash(m)
             \/ \E q \in Partitions : Assign(m, q)
      PROVE  UNCHANGED <<agg, refused, committed>>
  BY <1>7 DEF Poll, FlushNothing, CommitRefused, Lost, IdleAdvance, Revoke, Crash, Assign,
              storeVars
<1>8. CASE Next /\ ~UNCHANGED vars
  BY <1>2, <1>4, <1>5, <1>6, <1>7, <1>8 DEF Next, Run
<1> QED BY <1>3, <1>8

\* The promise of docs/delivery_semantics.md for every group and every topic
\* that holds each id once: through any number of revocations, handovers and
\* crashes each partition sees its events counted once or refused, never both,
\* and acknowledged only after that (_on_revoke and _flush of service.py), as
\* long as no instance is expelled and no transaction rolled back.
THEOREM GroupKeepsThePromise == Spec => HandoversKeepThePromise
<1>1. Init => \A p \in Partitions : Promise(p)!Init
  BY EventsOfFacts DEF Init, NothingHeld, Promise!Init
<1>2. Init => DividedInv
  BY DEF Init, Fresh, DividedInv, Divided, RefusedHasNoRow, LateIsRefused
<1>3. CommitInv /\ OnceInv /\ DividedInv /\ [Next]_vars => DividedInv'
  BY DividedInvStep
<1>4. CommitInv /\ CommitInv' /\ TypeOK' /\ OnceInv /\ EffectInv /\ DividedInv /\ [Next]_vars
        => [Calm' => \A p \in Partitions : [Promise(p)!Next]_(Promise(p)!vars)]_vars
  BY CommitInvStep, StepKeepsPromise
<1> QED BY <1>1, <1>2, <1>3, <1>4, CommitInvariance, OnceInvariance, EffectInvariance,
           TypeInvariance, PTL DEF Spec, HandoversKeepThePromise
-----------------------------------------------------------------------------
(***************************************************************************)
(* Refusals.  The watermark of an instance that has read one partition     *)
(* (heard), with no idle advance, is the time of a record of it, behind    *)
(* which it has read and kept everything.  A record it has not read yet    *)
(* comes after that one, so what the watermark refuses, the partition      *)
(* itself had overtaken.  This survives expulsions: what counts is what    *)
(* the instance believes to own.                                           *)
(***************************************************************************)
OneSource == seen \cap {"shared", "idle", "write"} = {}

\* d makes e late.
Overtakes(d, e) ==
    /\ OccurredAt[d] <= Now + MaxFutureSkew
    /\ IsWindowClosed(WindowStartFor(OccurredAt[e]), OccurredAt[d] - AllowedLateness)

Justified(e) ==
    \/ OccurredAt[e] > Now + MaxFutureSkew
    \/ \E d \in Before(e) : Overtakes(d, e)

\* Offset j of p set the watermark of r.
Set(r, L, p, j) ==
    /\ j \in 1..Len(Log[p])
    /\ OccurredAt[Log[p][j]] <= Now + MaxFutureSkew
    /\ r.watermark = OccurredAt[Log[p][j]] - AllowedLateness
    /\ \A k \in 1..j : Log[p][k] \in L \cup r.ids

Sourced(r, L) ==
    \/ r.heard = {} /\ r.watermark = NoWatermark
    \/ \E p \in Partitions : r.heard = {p} /\ \E j \in Nat : Set(r, L, p, j)

Honest(r, L) ==
    /\ NewIsRead(r, L)
    /\ ~r.pending => r.ids = {}
    /\ Sourced(r, L)
    /\ \A e \in r.late : Justified(e)

RefusalInv ==
    OneSource => /\ \A m \in Members : Honest(mem[m], ledger)
                 /\ \A e \in refused : Justified(e)

LEMMA FreshIsHonest == \A L : Honest(Fresh, L)
BY DEF Fresh, Honest, NewIsRead, Sourced

\* One instance changes, and the ledger only grows.
LEMMA OneIsHonest ==
    ASSUME TypeOK, \A n \in Members : Honest(mem[n], ledger), NEW m \in Members, NEW r,
           mem' = [mem EXCEPT ![m] = r], ledger \subseteq ledger', Honest(r, ledger')
    PROVE  \A n \in Members : Honest(mem'[n], ledger')
<1> SUFFICES ASSUME NEW n \in Members PROVE Honest(mem'[n], ledger')
  OBVIOUS
<1>1. CASE n = m
  BY <1>1 DEF TypeOK
<1>2. CASE n # m
  <2>1. mem'[n] = mem[n] /\ Honest(mem[n], ledger)
    BY <1>2 DEF TypeOK
  <2>2. NewIsRead(mem[n], ledger')
    BY <2>1 DEF Honest, NewIsRead
  <2>3. Sourced(mem[n], ledger')
    <3>1. \A p, j : Set(mem[n], ledger, p, j) => Set(mem[n], ledger', p, j)
      BY DEF Set
    <3> QED BY <2>1, <3>1 DEF Honest, Sourced
  <2> QED BY <2>1, <2>2, <2>3 DEF Honest
<1> QED BY <1>1, <1>2

\* What an instance is asked to do next, and whose it is to know, is no matter
\* for what it has read.
LEMMA HonestAs ==
    ASSUME NEW r, NEW s, NEW L, Honest(r, L),
           s.ids = r.ids, s.pending = r.pending, s.watermark = r.watermark,
           s.heard = r.heard, s.late = r.late,
           s.ids \subseteq L \/ (s.owns = r.owns /\ s.at = r.at)
    PROVE  Honest(s, L)
<1>1. NewIsRead(s, L)
  BY DEF Honest, NewIsRead
<1>2. \A p, j : Set(r, L, p, j) => Set(s, L, p, j)
  BY DEF Set
<1>3. Sourced(s, L)
  BY <1>2 DEF Honest, Sourced
<1> QED BY <1>1, <1>3 DEF Honest

\* A flush ends with nothing new among the pending ids.
LEMMA EndIsHonest ==
    ASSUME TypeOK, \A n \in Members : Honest(mem[n], ledger), NEW m \in Members,
           NEW r \in Instance, Honest(r, ledger), r.ids \subseteq ledger,
           Return(m, r) \/ Raise(m, r), UNCHANGED ledger
    PROVE  \A n \in Members : Honest(mem'[n], ledger')
<1> DEFINE u == Unassigned(r)
           q == [r EXCEPT !.pc = "flush", !.stopping = TRUE]
<1>1. /\ u.ids = r.ids /\ u.pending = r.pending /\ u.watermark = r.watermark
      /\ u.heard = r.heard /\ u.late = r.late
  BY DEF Unassigned, Instance
<1>2. /\ q.ids = r.ids /\ q.pending = r.pending /\ q.watermark = r.watermark
      /\ q.heard = r.heard /\ q.late = r.late
  BY DEF Instance
<1>3. \E s \in {Fresh, u, q} : mem' = [mem EXCEPT ![m] = s]
  BY DEF Return, Raise
<1> HIDE DEF u, q
<1>4. Honest(u, ledger) /\ Honest(q, ledger)
  BY <1>1, <1>2, HonestAs
<1> QED BY <1>3, <1>4, FreshIsHonest, OneIsHonest
-----------------------------------------------------------------------------
\* The next record of a partition comes after the one that set the watermark,
\* unless it is in the ledger.
LEMMA NextIsBehindSource ==
    ASSUME NEW r \in Instance, NEW L, Kept(r, L), NewIsRead(r, L),
           NEW p \in r.owns, r.at[p] < Len(Log[p]), Log[p][r.at[p] + 1] \notin L,
           NEW j \in Nat, Set(r, L, p, j)
    PROVE  Log[p][j] \in Before(Log[p][r.at[p] + 1])
<1> DEFINE e == Log[p][r.at[p] + 1]
<1>1. p \in Partitions /\ r.at[p] \in Nat /\ Len(Log[p]) \in Nat
  BY GroupAssumption DEF Instance
<1>2. e \notin r.ids
  <2> SUFFICES ASSUME e \in r.ids PROVE FALSE
    OBVIOUS
  <2>1. PICK q \in r.owns : \E o \in 1..r.at[q] : Log[q][o] = e
    BY DEF NewIsRead
  <2>2. PICK o \in 1..r.at[q] : Log[q][o] = e
    BY <2>1
  <2>3. q \in Partitions /\ r.at[q] \in Nat /\ r.at[q] <= Len(Log[q]) /\ Len(Log[q]) \in Nat
    <3>1. q \in Partitions /\ r.at[q] \in Nat
      BY <2>1 DEF Instance
    <3>2. r.at[q] <= Len(Log[q])
      BY <2>1 DEF Kept
    <3> QED BY <3>1, <3>2, GroupAssumption
  <2>4. o \in 1..Len(Log[q]) /\ r.at[p] + 1 \in 1..Len(Log[p])
    BY <1>1, <2>3
  <2>5. q = p /\ o = r.at[p] + 1
    BY <1>1, <2>2, <2>3, <2>4, OnePlace
  <2> QED BY <1>1, <2>2, <2>5
<1>3. r.at[p] + 1 \notin 1..j
  BY <1>2 DEF Set
<1>4. j \in 1..((r.at[p] + 1) - 1) /\ r.at[p] + 1 \in 1..Len(Log[p])
  BY <1>1, <1>3 DEF Set
<1>5. Log[p][j] \in Events
  BY <1>1, GroupAssumption DEF Set
<1> QED BY <1>1, <1>4, <1>5 DEF Before

\* A refusal of the next record is justified.
LEMMA RefusedNextIsJustified ==
    ASSUME NEW r \in Instance, NEW L, Kept(r, L), Honest(r, L),
           NEW p \in r.owns, r.at[p] < Len(Log[p]), r.heard \subseteq {p},
           Log[p][r.at[p] + 1] \notin L,
           ~Accepted(Classify(OccurredAt[Log[p][r.at[p] + 1]], r.watermark, Now))
    PROVE  Justified(Log[p][r.at[p] + 1])
<1> DEFINE e == Log[p][r.at[p] + 1]
<1>1. p \in Partitions /\ e \in Events /\ OccurredAt[e] \in Nat
  <2>1. p \in Partitions /\ r.at[p] \in Nat /\ Len(Log[p]) \in Nat
    BY GroupAssumption DEF Instance
  <2>2. Log[p] \in Seq(Events) /\ r.at[p] + 1 \in 1..Len(Log[p])
    BY <2>1, GroupAssumption
  <2> QED BY <2>1, <2>2, GroupAssumption
<1>2. \/ OccurredAt[e] > Now + MaxFutureSkew
      \/ IsWindowClosed(WindowStartFor(OccurredAt[e]), r.watermark)
  BY DEF Accepted, Classify
<1> HIDE DEF e
<1>3. CASE r.heard = {} /\ r.watermark = NoWatermark
  <2>1. WindowStartFor(OccurredAt[e]) \in Nat
    BY <1>1, EventTimeAssumption DEF WindowStartFor
  <2>2. ~IsWindowClosed(WindowStartFor(OccurredAt[e]), r.watermark)
    BY <1>3, <2>1, EventTimeAssumption DEF IsWindowClosed
  <2> QED BY <1>2, <2>2 DEF Justified, e
<1>4. CASE \E q \in Partitions : r.heard = {q} /\ \E j \in Nat : Set(r, L, q, j)
  <2>1. PICK j \in Nat : Set(r, L, p, j)
    BY <1>4
  <2>2. Log[p][j] \in Before(e)
    BY <2>1, NextIsBehindSource DEF Honest, e
  <2>3. CASE IsWindowClosed(WindowStartFor(OccurredAt[e]), r.watermark)
    <3>1. Overtakes(Log[p][j], e)
      BY <2>1, <2>3 DEF Overtakes, Set
    <3> QED BY <2>2, <3>1 DEF Justified, e
  <2> QED BY <1>2, <2>3 DEF Justified, e
<1> QED BY <1>3, <1>4 DEF Honest, Sourced

\* An accepted record that moves the watermark becomes its source.
LEMMA AcceptedIsSource ==
    ASSUME NEW r \in Instance, NEW L, Kept(r, L), Sourced(r, L),
           NEW p \in r.owns, r.at[p] < Len(Log[p]), r.heard \subseteq {p},
           NEW e, e = Log[p][r.at[p] + 1],
           Accepted(Classify(OccurredAt[e], r.watermark, Now)),
           NEW s, s.ids = r.ids \cup {e}, s.heard = r.heard \cup {p},
           s.watermark = AdvanceWatermark(r.watermark, OccurredAt[e])
    PROVE  Sourced(s, L)
<1>1. p \in Partitions /\ r.at[p] \in Nat /\ Len(Log[p]) \in Nat
  BY GroupAssumption DEF Instance
<1>2. r.at[p] + 1 \in 1..Len(Log[p]) /\ Log[p] \in Seq(Events)
  BY <1>1, GroupAssumption
<1>3. e \in Events /\ OccurredAt[e] \in Nat /\ OccurredAt[e] <= Now + MaxFutureSkew
  <2>1. e \in Events /\ OccurredAt[e] \in Nat
    BY <1>2, GroupAssumption
  <2>2. ~(OccurredAt[e] > Now + MaxFutureSkew)
    BY DEF Accepted, Classify
  <2> QED BY <2>1, <2>2, GroupAssumption, EventTimeAssumption
<1>4. s.heard = {p}
  OBVIOUS
<1>5. CASE OccurredAt[e] - AllowedLateness > r.watermark
  <2>1. s.watermark = OccurredAt[e] - AllowedLateness
    BY <1>5 DEF AdvanceWatermark
  <2>2. \A k \in 1..(r.at[p] + 1) : Log[p][k] \in L \cup s.ids
    <3> SUFFICES ASSUME NEW k \in 1..(r.at[p] + 1) PROVE Log[p][k] \in L \cup s.ids
      OBVIOUS
    <3>1. k = r.at[p] + 1 \/ k \in 1..r.at[p]
      BY <1>1
    <3> QED BY <3>1 DEF Kept
  <2>3. Set(s, L, p, r.at[p] + 1)
    BY <1>2, <1>3, <2>1, <2>2 DEF Set
  <2> QED BY <1>1, <1>4, <2>3 DEF Sourced
<1>6. CASE ~(OccurredAt[e] - AllowedLateness > r.watermark)
  <2>1. s.watermark = r.watermark
    BY <1>6 DEF AdvanceWatermark
  <2>2. r.watermark # NoWatermark
    BY <1>3, <1>6, EventTimeAssumption
  <2>3. PICK j \in Nat : Set(r, L, p, j)
    BY <2>2 DEF Sourced
  <2>4. Set(s, L, p, j)
    BY <2>1, <2>3 DEF Set
  <2> QED BY <1>1, <1>4, <2>4 DEF Sourced
<1> QED BY <1>5, <1>6

\* One more record read moves no position back.
LEMMA OneFurther ==
    ASSUME NEW f \in [Partitions -> Nat], NEW p \in Partitions, NEW s \in Partitions
    PROVE  /\ f[s] \in Nat /\ [f EXCEPT ![p] = @ + 1][s] \in Nat
           /\ f[s] <= [f EXCEPT ![p] = @ + 1][s]
<1>1. CASE s = p
  BY <1>1
<1>2. CASE s # p
  BY <1>2
<1> QED BY <1>1, <1>2

LEMMA PollIsHonest ==
    ASSUME CommitInv, \A n \in Members : Honest(mem[n], ledger), NEW m \in Members,
           Poll(m), "shared" \notin seen'
    PROVE  \A n \in Members : Honest(mem'[n], ledger')
<1>1. PICK p \in mem[m].owns :
        /\ mem[m].at[p] < Len(Log[p])
        /\ mem' = [mem EXCEPT ![m] = After(mem[m], p)]
        /\ seen' = IF mem[m].heard \subseteq {p} THEN seen ELSE seen \cup {"shared"}
  BY DEF Poll
<1> DEFINE r == mem[m]
           q == After(mem[m], p)
           e == Log[p][mem[m].at[p] + 1]
<1>2. /\ r \in Instance /\ Honest(r, ledger) /\ Kept(r, ledger)
      /\ UNCHANGED ledger /\ r.heard \subseteq {p}
  BY <1>1 DEF CommitInv, TypeOK, PositionsAreKept, Poll, storeVars
<1>3. p \in Partitions /\ r.at \in [Partitions -> Nat] /\ r.owns \subseteq Partitions
  BY <1>2 DEF Instance
<1>4. /\ q.owns = r.owns /\ q.pending = TRUE /\ q.at = [r.at EXCEPT ![p] = @ + 1]
      /\ \/ /\ e \in ledger /\ q.ids = r.ids /\ q.late = r.late
            /\ q.watermark = r.watermark /\ q.heard = r.heard
         \/ /\ Accepted(Classify(OccurredAt[e], r.watermark, Now))
            /\ q.ids = r.ids \cup {e} /\ q.late = r.late
            /\ q.watermark = AdvanceWatermark(r.watermark, OccurredAt[e])
            /\ q.heard = r.heard \cup {p}
         \/ /\ ~Accepted(Classify(OccurredAt[e], r.watermark, Now)) /\ e \notin ledger
            /\ q.ids = r.ids \cup {e} /\ q.late = r.late \cup {e}
            /\ q.watermark = r.watermark /\ q.heard = r.heard
  BY <1>2 DEF After, Instance
<1> HIDE DEF q
<1>5. NewIsRead(q, ledger)
  <2> SUFFICES ASSUME NEW d \in q.ids \ ledger
               PROVE  \E s \in q.owns : \E o \in 1..q.at[s] : Log[s][o] = d
    BY DEF NewIsRead
  <2>1. CASE d = e
    <3>1. q.at[p] = r.at[p] + 1 /\ r.at[p] \in Nat
      BY <1>3, <1>4
    <3>2. r.at[p] + 1 \in 1..q.at[p]
      BY <3>1
    <3> QED BY <1>1, <1>4, <2>1, <3>2
  <2>2. CASE d # e
    <3>1. d \in r.ids \ ledger
      BY <1>4, <2>2
    <3>2. PICK s \in r.owns : \E o \in 1..r.at[s] : Log[s][o] = d
      BY <1>2, <3>1 DEF Honest, NewIsRead
    <3>3. s \in Partitions /\ r.at[s] \in Nat /\ q.at[s] \in Nat /\ r.at[s] <= q.at[s]
      <4>1. s \in Partitions /\ q.at = [r.at EXCEPT ![p] = @ + 1]
        BY <1>3, <1>4
      <4> QED BY ONLY <1>3, <4>1, OneFurther
    <3>4. 1..r.at[s] \subseteq 1..q.at[s]
      BY <3>3
    <3> QED BY <1>4, <3>2, <3>4
  <2> QED BY <2>1, <2>2
<1> HIDE DEF e, r
<1>6. Sourced(q, ledger)
  <2>1. CASE Accepted(Classify(OccurredAt[e], r.watermark, Now)) /\ q.ids = r.ids \cup {e}
             /\ q.watermark = AdvanceWatermark(r.watermark, OccurredAt[e])
             /\ q.heard = r.heard \cup {p}
    BY <1>1, <1>2, <2>1, AcceptedIsSource DEF Honest, e, r
  <2>2. CASE q.watermark = r.watermark /\ q.heard = r.heard
    <3>1. \A s, j : Set(r, ledger, s, j) => Set(q, ledger, s, j)
      BY <1>4, <2>2 DEF Set
    <3> QED BY <1>2, <2>2, <3>1 DEF Honest, Sourced
  <2> QED BY <1>4, <2>1, <2>2
<1>7. \A d \in q.late : Justified(d)
  <2>1. CASE q.late = r.late
    BY <1>2, <2>1 DEF Honest
  <2>2. CASE /\ ~Accepted(Classify(OccurredAt[e], r.watermark, Now)) /\ e \notin ledger
             /\ q.late = r.late \cup {e}
    <3>1. Justified(e)
      BY <1>1, <1>2, <2>2, RefusedNextIsJustified DEF e, r
    <3> QED BY <1>2, <2>2, <3>1 DEF Honest
  <2> QED BY <1>4, <2>1, <2>2
<1>8. Honest(q, ledger')
  BY <1>2, <1>4, <1>5, <1>6, <1>7 DEF Honest
<1> QED BY <1>1, <1>2, <1>8, OneIsHonest DEF CommitInv, q

\* The transaction writes what waits, and nothing is forgotten yet.
LEMMA WriteIsHonest ==
    ASSUME CommitInv, \A n \in Members : Honest(mem[n], ledger),
           \A e \in refused : Justified(e), NEW m \in Members, Write(m)
    PROVE  /\ \A n \in Members : Honest(mem'[n], ledger')
           /\ \A e \in refused' : Justified(e)
<1> DEFINE r == [mem[m] EXCEPT !.pc = "commit", !.held = NothingHeld]
<1>1. /\ mem' = [mem EXCEPT ![m] = r] /\ ledger' = ledger \cup mem[m].ids
      /\ refused' = refused \cup mem[m].late
  BY DEF Write
<1>2. mem[m] \in Instance /\ Honest(mem[m], ledger)
  BY DEF CommitInv, TypeOK
<1>3. /\ r.ids = mem[m].ids /\ r.pending = mem[m].pending /\ r.late = mem[m].late
      /\ r.watermark = mem[m].watermark /\ r.heard = mem[m].heard
      /\ r.owns = mem[m].owns /\ r.at = mem[m].at
  BY <1>2 DEF Instance
<1> HIDE DEF r
<1>4. Honest(r, ledger)
  BY <1>2, <1>3, HonestAs
<1>5. Honest(r, ledger')
  <2>1. NewIsRead(r, ledger')
    BY <1>1, <1>4 DEF Honest, NewIsRead
  <2>2. \A p, j : Set(r, ledger, p, j) => Set(r, ledger', p, j)
    BY <1>1 DEF Set
  <2>3. Sourced(r, ledger')
    BY <1>4, <2>2 DEF Honest, Sourced
  <2> QED BY <1>4, <2>1, <2>3 DEF Honest
<1>6. \A n \in Members : Honest(mem'[n], ledger')
  BY <1>1, <1>5, OneIsHonest DEF CommitInv
<1>7. \A e \in refused' : Justified(e)
  BY <1>1, <1>2 DEF Honest
<1> QED BY <1>6, <1>7

LEMMA AssignIsHonest ==
    ASSUME CommitInv, \A n \in Members : Honest(mem[n], ledger), NEW m \in Members,
           NEW p \in Partitions, Assign(m, p)
    PROVE  \A n \in Members : Honest(mem'[n], ledger')
<1> DEFINE r == [mem[m] EXCEPT !.owns = @ \cup {p}, !.at[p] = committed[p]]
<1>1. /\ mem' = [mem EXCEPT ![m] = r] /\ owner[p] = Nobody /\ ~Fenced(m)
      /\ UNCHANGED ledger
  BY DEF Assign, storeVars
<1>2. mem[m] \in Instance /\ Honest(mem[m], ledger)
  BY DEF CommitInv, TypeOK
<1>3. /\ r.owns = mem[m].owns \cup {p} /\ r.at = [mem[m].at EXCEPT ![p] = committed[p]]
      /\ r.ids = mem[m].ids /\ r.pending = mem[m].pending /\ r.late = mem[m].late
      /\ r.watermark = mem[m].watermark /\ r.heard = mem[m].heard
      /\ mem[m].at \in [Partitions -> Nat] /\ mem[m].owns \subseteq Partitions
  BY <1>2 DEF Instance
<1> HIDE DEF r
<1>4. p \notin mem[m].owns
  BY <1>1, GroupAssumption DEF Fenced
<1>5. NewIsRead(r, ledger)
  BY <1>2, <1>3, <1>4 DEF Honest, NewIsRead
<1>6. \A s, j : Set(mem[m], ledger, s, j) => Set(r, ledger, s, j)
  BY <1>3 DEF Set
<1>7. Sourced(r, ledger)
  BY <1>2, <1>3, <1>6 DEF Honest, Sourced
<1>8. Honest(r, ledger')
  BY <1>1, <1>2, <1>3, <1>5, <1>7 DEF Honest
<1> QED BY <1>1, <1>8, OneIsHonest DEF CommitInv

\* The ways out of a flush, and what happens to an instance from outside.
LEMMA OtherIsHonest ==
    ASSUME CommitInv, \A n \in Members : Honest(mem[n], ledger), NEW m \in Members,
           \/ FlushNothing(m) \/ Commit(m) \/ CommitRefused(m)
           \/ Revoke(m) \/ Lost(m) \/ Crash(m) \/ Expel(m)
    PROVE  \A n \in Members : Honest(mem'[n], ledger')
<1>1. /\ TypeOK /\ mem[m] \in Instance /\ Honest(mem[m], ledger) /\ Kept(mem[m], ledger)
      /\ UNCHANGED ledger
  BY DEF CommitInv, TypeOK, PositionsAreKept, FlushNothing, Commit, CommitRefused,
         Revoke, Lost, Crash, Expel, storeVars
<1>2. CASE FlushNothing(m)
  <2>1. mem[m].ids = {} /\ Return(m, mem[m])
    BY <1>1, <1>2 DEF FlushNothing, NothingToWrite, Honest
  <2> QED BY <1>1, <2>1, EndIsHonest
<1>3. CASE CommitRefused(m)
  <2>1. mem[m].ids \subseteq ledger /\ Raise(m, mem[m])
    BY <1>1, <1>3 DEF CommitRefused, Kept
  <2> QED BY <1>1, <2>1, EndIsHonest
<1>4. CASE Commit(m)
  <2> DEFINE r == [mem[m] EXCEPT !.pending = FALSE, !.ids = {}, !.late = {}]
  <2>1. Return(m, r) /\ mem[m].ids \subseteq ledger
    BY <1>1, <1>4 DEF Commit, Kept
  <2>2. r \in Instance
    BY <1>1, ChangeTyped
  <2>3. /\ r.ids = {} /\ r.late = {}
        /\ r.watermark = mem[m].watermark /\ r.heard = mem[m].heard
    BY <1>1 DEF Instance
  <2> HIDE DEF r
  <2>4. \A s, j : Set(mem[m], ledger, s, j) => Set(r, ledger, s, j)
    BY <2>1, <2>3 DEF Set
  <2>5. Sourced(r, ledger)
    BY <1>1, <2>3, <2>4 DEF Honest, Sourced
  <2>6. Honest(r, ledger)
    BY <2>3, <2>5 DEF Honest, NewIsRead
  <2> QED BY <1>1, <2>1, <2>2, <2>3, <2>6, EndIsHonest
<1>5. CASE Revoke(m) \/ Lost(m)
  <2>1. PICK ps \in SUBSET mem[m].owns :
          mem' = [mem EXCEPT ![m] = [mem[m] EXCEPT !.pc = "flush", !.leaving = ps]]
    BY <1>5 DEF Revoke, Lost, OnRevoke
  <2> DEFINE r == [mem[m] EXCEPT !.pc = "flush", !.leaving = ps]
  <2>2. /\ r.ids = mem[m].ids /\ r.pending = mem[m].pending /\ r.late = mem[m].late
        /\ r.watermark = mem[m].watermark /\ r.heard = mem[m].heard
        /\ r.owns = mem[m].owns /\ r.at = mem[m].at
    BY <1>1 DEF Instance
  <2>3. mem' = [mem EXCEPT ![m] = r]
    BY <2>1
  <2> HIDE DEF r
  <2>4. Honest(r, ledger)
    BY <1>1, <2>2, HonestAs
  <2> QED BY <1>1, <2>3, <2>4, OneIsHonest
<1>6. CASE Crash(m)
  BY <1>1, <1>6, FreshIsHonest, OneIsHonest DEF Crash
<1>7. CASE Expel(m)
  BY <1>1, <1>7 DEF Expel
<1> QED BY <1>2, <1>3, <1>4, <1>5, <1>6, <1>7

LEMMA RefusalStep ==
    ASSUME CommitInv, RefusalInv, [Next]_vars
    PROVE  RefusalInv'
<1> SUFFICES ASSUME OneSource'
             PROVE  /\ \A n \in Members : Honest(mem'[n], ledger')
                    /\ \A e \in refused' : Justified(e)
  BY DEF RefusalInv
<1>1. seen \subseteq seen'
  BY DEF Next, Run, Poll, FlushNothing, Write, Commit, CommitRefused, Lost, IdleAdvance,
         WriteFail, Revoke, Expel, Crash, Assign, Fault, vars
<1>2. /\ \A n \in Members : Honest(mem[n], ledger)
      /\ \A e \in refused : Justified(e)
  BY <1>1 DEF RefusalInv, OneSource
<1>3. CASE UNCHANGED vars
  BY <1>2, <1>3 DEF vars, storeVars
<1>4. ASSUME NEW m \in Members, WriteFail(m) \/ IdleAdvance(m) PROVE FALSE
  BY <1>4 DEF WriteFail, IdleAdvance, Fault, OneSource
<1>5. ASSUME NEW m \in Members, ~Write(m),
             \/ Run(m) \/ Revoke(m) \/ Expel(m) \/ Crash(m)
             \/ \E p \in Partitions : Assign(m, p)
      PROVE  UNCHANGED refused /\ \A n \in Members : Honest(mem'[n], ledger')
  <2>1. UNCHANGED refused
    BY <1>5 DEF Run, Poll, FlushNothing, Commit, CommitRefused, Lost, Revoke, Expel,
                Crash, Assign, storeVars
  <2>2. "shared" \notin seen'
    BY DEF OneSource
  <2> QED BY <1>2, <1>5, <2>1, <2>2, PollIsHonest, AssignIsHonest, OtherIsHonest DEF Run
<1>6. CASE Next
  <2>1. PICK m \in Members :
          \/ Run(m) \/ Revoke(m) \/ Expel(m) \/ Crash(m)
          \/ \E p \in Partitions : Assign(m, p)
    BY <1>4, <1>6 DEF Next
  <2> QED BY <1>2, <1>5, <2>1, WriteIsHonest
<1> QED BY <1>3, <1>6

\* Nothing is refused but for being in the future, or for what its own
\* partition said before it, while instances read one partition each, no
\* watermark is advanced by the clock and no transaction is rolled back:
\* whatever handovers, crashes and expulsions do to the rest
\* (windowing.py:160-163, 192-215).
THEOREM RefusalsAreLate == Spec => []RefusedIsLate
<1>1. Init => RefusalInv
  <2> SUFFICES ASSUME Init PROVE RefusalInv
    OBVIOUS
  <2>1. refused = {} /\ \A m \in Members : mem[m] = Fresh
    BY DEF Init
  <2> QED BY <2>1, FreshIsHonest DEF RefusalInv
<1>2. CommitInv /\ RefusalInv /\ [Next]_vars => RefusalInv'
  BY RefusalStep
<1>3. RefusalInv => RefusedIsLate
  BY DEF RefusalInv, RefusedIsLate, OneSource, Justified, Overtakes
<1> QED BY <1>1, <1>2, <1>3, CommitInvariance, PTL DEF Spec
=============================================================================
