------------------------------- MODULE Group -------------------------------
(***************************************************************************)
(* The consumer group: several instances of the processor on the           *)
(* partitions of one topic, and the rebalances between them (_on_assign    *)
(* and _on_revoke of processor/service.py, the consumer configuration of   *)
(* processor/kafka_io.py).                                                 *)
(*                                                                         *)
(* ProcessorService has one instance step by step; here an instance takes  *)
(* one record per poll and a flush is two steps, the transaction and the   *)
(* commit.  What is new is who owns what: the coordinator's view (owner)   *)
(* and the instance's own view (mem[m].owns) differ between an expulsion   *)
(* (max.poll.interval.ms or session.timeout.ms exceeded) and the moment    *)
(* the instance hears of it in a later poll.                               *)
(*                                                                         *)
(* The topic holds every id once: the duplicates are Kafka's redeliveries. *)
(* The memory tier of dedup is left out: it holds ledger ids only          *)
(* (CacheIsLedgered), so known to either tier is known to the ledger.      *)
(* Windows without unflushed contributions are left out: closing one only  *)
(* sets is_closed.  The clock stands still at Now: the group is catching   *)
(* up with a backlog.                                                      *)
(***************************************************************************)
EXTENDS EventTime, Sequences, FiniteSets

CONSTANTS
    Members,      \* the instances
    Partitions,
    Nobody,       \* the owner of a partition between two assignments
    Events,       \* event ids
    OccurredAt,   \* [Events -> Nat]: event time
    Log,          \* [Partitions -> Seq(Events)]
    Now,          \* wall clock
    Faults,       \* bound of the model: which faults happen
    MaxFaults,    \* bound of the model: how many of them
    MaxMoves      \* bound of the model: revocations and idle advances

FaultKinds ==
    {"crash",     \* an instance is killed
     "expel",     \* the coordinator gives up on an instance that is alive
     "write"}     \* a flush transaction is rolled back

ASSUME GroupAssumption ==
    /\ Nobody \notin Members
    /\ OccurredAt \in [Events -> Nat]
    /\ Log \in [Partitions -> Seq(Events)]
    /\ \A p, q \in Partitions : \A i \in 1..Len(Log[p]), j \in 1..Len(Log[q]) :
           Log[p][i] = Log[q][j] => p = q /\ i = j
    /\ Now \in Nat
    /\ Faults \subseteq FaultKinds
    /\ MaxFaults \in Nat
    /\ MaxMoves \in Nat

VARIABLES
    mem,          \* the instances: what each holds in memory
    owner,        \* the coordinator: partition -> member
    committed,    \* the broker: partition -> offset of the last record done
    agg,          \* agg_orders_minute: contributions per event
    ledger,       \* dedup_ledger
    refused,      \* ids in late_events or dlq_events
    faults, moves,
    seen          \* which faults, and which other circumstances, occurred

storeVars == <<agg, ledger, refused>>
vars == <<mem, owner, committed, storeVars, faults, moves, seen>>

In(p, e) == \E o \in 1..Len(Log[p]) : Log[p][o] = e

NothingHeld == [e \in Events |-> 0]

\* ProcessorService.__init__, and a consumer that owns nothing yet.
Fresh ==
    [pc        |-> "poll",   \* or "flush", "commit"
     stopping  |-> FALSE,    \* in run()'s finally block, after an exception
     leaving   |-> {},       \* the partitions on_revoke was called with
     owns      |-> {},       \* the assignment as the client knows it
     at        |-> [p \in Partitions |-> 0],
     watermark |-> NoWatermark,
     heard     |-> {},       \* the partitions that moved the watermark
     held      |-> NothingHeld, \* contributions beyond the last snapshot
     pending   |-> FALSE,    \* _pending is not None
     ids       |-> {},       \* _pending_ids
     late      |-> {}]       \* ids in _pending.late_rows or .dead_letters

Init ==
    /\ mem = [m \in Members |-> Fresh]
    /\ owner = [p \in Partitions |-> Nobody]
    /\ committed = [p \in Partitions |-> 0]
    /\ agg = NothingHeld
    /\ ledger = {}
    /\ refused = {}
    /\ faults = 0
    /\ moves = 0
    /\ seen = {}

\* Partitions that are given up but stay assigned.
ReleasedNothing(m, ps) == owner

\* The coordinator takes ps from m.
Released(m, ps) ==
    [p \in Partitions |-> IF p \in ps /\ owner[p] = m THEN Nobody ELSE owner[p]]

\* A broker that takes offsets from anybody.
NeverFenced(m) == FALSE

\* The client believes in an assignment the coordinator has taken back.
Fenced(m) == \E p \in mem[m].owns : owner[p] # m

Fault(kind) ==
    /\ kind \in Faults
    /\ faults < MaxFaults
    /\ faults' = faults + 1
    /\ seen' = seen \cup {kind}
-----------------------------------------------------------------------------
(***************************************************************************)
(* The loop of instance m.                                                 *)
(***************************************************************************)

\* Deduplication by what the instance itself has seen.
AfterMemoryOnly(r, p) ==
    LET e       == Log[p][r.at[p] + 1]
        read    == [r EXCEPT !.at[p] = @ + 1, !.pending = TRUE]
        outcome == Classify(OccurredAt[e], r.watermark, Now)
    IN  IF e \in r.ids THEN read
        ELSE IF Accepted(outcome)
        THEN [read EXCEPT !.ids = @ \cup {e},
                          !.held[e] = @ + 1,
                          !.watermark = AdvanceWatermark(@, OccurredAt[e]),
                          !.heard = @ \cup {p}]
        ELSE [read EXCEPT !.ids = @ \cup {e}, !.late = @ \cup {e}]

\* What becomes of the memory of r when it reads the next record of p:
\* filter_batch, then _route.  The ids that wait in _pending are in no tier.
After(r, p) ==
    LET e       == Log[p][r.at[p] + 1]
        read    == [r EXCEPT !.at[p] = @ + 1, !.pending = TRUE]
        outcome == Classify(OccurredAt[e], r.watermark, Now)
    IN  IF e \in ledger THEN read
        ELSE IF Accepted(outcome)
        THEN [read EXCEPT !.ids = @ \cup {e},
                          !.held[e] = @ + 1,
                          !.watermark = AdvanceWatermark(@, OccurredAt[e]),
                          !.heard = @ \cup {p}]
        ELSE [read EXCEPT !.ids = @ \cup {e}, !.late = @ \cup {e}]

\* consume hands out by the client's view of the assignment, and the ledger is
\* asked before anything of it is written.
Poll(m) ==
    /\ mem[m].pc = "poll"
    /\ \E p \in mem[m].owns :
         /\ mem[m].at[p] < Len(Log[p])
         /\ mem' = [mem EXCEPT ![m] = After(@, p)]
         /\ seen' = IF mem[m].heard \subseteq {p} THEN seen ELSE seen \cup {"shared"}
    /\ UNCHANGED <<owner, committed, storeVars, faults, moves>>

\* No record for watermark_idle_seconds, because there is none to read: the
\* partitions of m are at their ends, or m has none yet.
IdleAdvance(m) ==
    /\ mem[m].pc = "poll"
    /\ \A p \in mem[m].owns : mem[m].at[p] = Len(Log[p])
    /\ moves < MaxMoves
    /\ moves' = moves + 1
    /\ mem' = [mem EXCEPT ![m].watermark = AdvanceWatermark(@, Now)]
    /\ seen' = seen \cup {"idle"}
    /\ UNCHANGED <<owner, committed, storeVars, faults>>

(***************************************************************************)
(* The flush.  Where it returns to depends on its caller: _tick, run()'s   *)
(* finally block (then the process ends), or _on_revoke, which swallows an *)
(* exception and gives the partitions up either way.                       *)
(***************************************************************************)
\* What close_expired leaves of the unflushed contributions.
KeepLive(r) ==
    [e \in Events |-> IF IsWindowClosed(WindowStartFor(OccurredAt[e]), r.watermark)
                      THEN 0 ELSE r.held[e]]

\* The loop flushes when its interval has passed and there is something to do
\* (_should_flush); the other callers have set pc.
Flushing(r) == r.pc = "flush" \/ (r.pc = "poll" /\ (r.pending \/ r.held # NothingHeld))

NothingToWrite(r) == r.held = NothingHeld /\ ~r.pending

\* incremental_unassign.
Unassigned(r) ==
    [r EXCEPT !.pc = "poll", !.owns = @ \ r.leaving, !.leaving = {},
              !.at = [p \in Partitions |-> IF p \in r.leaving THEN 0 ELSE @[p]]]

Return(m, r) ==
    /\ mem' = [mem EXCEPT ![m] = IF r.stopping THEN Fresh ELSE Unassigned(r)]
    /\ owner' = Released(m, IF r.stopping THEN Partitions ELSE r.leaving)

\* An exception inside on_revoke that is swallowed in front of the commit.
RaiseCommitting(m, r) ==
    IF r.leaving # {}
    THEN mem' = [mem EXCEPT ![m] = [r EXCEPT !.pc = "commit"]] /\ UNCHANGED owner
    ELSE IF r.stopping
    THEN Return(m, r)
    ELSE /\ mem' = [mem EXCEPT ![m] = [r EXCEPT !.pc = "flush", !.stopping = TRUE]]
         /\ UNCHANGED owner

Raise(m, r) ==
    IF r.stopping \/ r.leaving # {}
    THEN Return(m, r)
    ELSE /\ mem' = [mem EXCEPT ![m] = [r EXCEPT !.pc = "flush", !.stopping = TRUE]]
         /\ UNCHANGED owner

FlushNothing(m) ==
    /\ mem[m].pc = "flush"
    /\ NothingToWrite(mem[m])
    /\ Return(m, mem[m])
    /\ UNCHANGED <<committed, storeVars, faults, moves, seen>>

\* A transaction that leaves out the rows of partitions the instance has lost.
WriteOwnedRows(m) ==
    /\ Flushing(mem[m])
    /\ ~NothingToWrite(mem[m])
    /\ agg' = [e \in Events |-> IF \E p \in Partitions : In(p, e) /\ owner[p] = m
                                THEN agg[e] + mem[m].held[e] ELSE agg[e]]
    /\ ledger' = ledger \cup mem[m].ids
    /\ refused' = refused \cup mem[m].late
    /\ mem' = [mem EXCEPT ![m] = [@ EXCEPT !.pc = "commit", !.held = NothingHeld]]
    /\ UNCHANGED <<owner, committed, faults, moves, seen>>

\* One transaction, whoever owns the rows by now; then mark_flushed.
Write(m) ==
    /\ Flushing(mem[m])
    /\ ~NothingToWrite(mem[m])
    /\ agg' = [e \in Events |-> agg[e] + mem[m].held[e]]
    /\ ledger' = ledger \cup mem[m].ids
    /\ refused' = refused \cup mem[m].late
    /\ mem' = [mem EXCEPT ![m] = [@ EXCEPT !.pc = "commit", !.held = NothingHeld]]
    /\ UNCHANGED <<owner, committed, faults, moves, seen>>

\* Rolled back; the contributions of the windows it was closing are lost.
WriteFail(m) ==
    /\ Flushing(mem[m])
    /\ ~NothingToWrite(mem[m])
    /\ Fault("write")
    /\ Raise(m, [mem[m] EXCEPT !.held = KeepLive(mem[m])])
    /\ UNCHANGED <<committed, storeVars, moves>>

\* The positions of everything the client owns, not only of what it gives up.
Commit(m) ==
    /\ mem[m].pc = "commit"
    /\ ~Fenced(m)
    /\ mem[m].owns # {}
    /\ committed' = [p \in Partitions |-> IF p \in mem[m].owns THEN mem[m].at[p]
                                                               ELSE committed[p]]
    /\ Return(m, [mem[m] EXCEPT !.pending = FALSE, !.ids = {}, !.late = {}])
    /\ UNCHANGED <<storeVars, faults, moves, seen>>

\* The broker takes no offsets from an expelled member; without an assignment
\* there is none to commit.  _pending is kept.
CommitRefused(m) ==
    /\ mem[m].pc = "commit"
    /\ Fenced(m) \/ mem[m].owns = {}
    /\ Raise(m, mem[m])
    /\ UNCHANGED <<committed, storeVars, faults, moves, seen>>
-----------------------------------------------------------------------------
(***************************************************************************)
(* The group.  Callbacks run inside consume, before it returns records.    *)
(***************************************************************************)

\* Offsets that count from the next record, read as the last one.
AssignOneBefore(m, p) ==
    /\ mem[m].pc = "poll"
    /\ ~Fenced(m)
    /\ owner[p] = Nobody
    /\ owner' = [owner EXCEPT ![p] = m]
    /\ mem' = [mem EXCEPT ![m].owns = @ \cup {p},
                          ![m].at[p] = committed[p] - 1]
    /\ UNCHANGED <<committed, storeVars, faults, moves, seen>>

\* on_assign: incremental_assign keeps what is in memory for the others; the
\* position of the new partition is its committed offset.
Assign(m, p) ==
    /\ mem[m].pc = "poll"
    /\ ~Fenced(m)
    /\ owner[p] = Nobody
    /\ owner' = [owner EXCEPT ![p] = m]
    /\ mem' = [mem EXCEPT ![m].owns = @ \cup {p},
                          ![m].at[p] = committed[p]]
    /\ UNCHANGED <<committed, storeVars, faults, moves, seen>>

\* on_revoke that only commits.
OnRevokeUnflushed(m, ps) ==
    mem' = [mem EXCEPT ![m].pc = "commit", ![m].leaving = ps]

OnRevoke(m, ps) == mem' = [mem EXCEPT ![m].pc = "flush", ![m].leaving = ps]

\* A rebalance moves partitions away (cooperative: some of them).
Revoke(m) ==
    /\ mem[m].pc = "poll"
    /\ ~Fenced(m)
    /\ moves < MaxMoves
    /\ moves' = moves + 1
    /\ \E ps \in SUBSET mem[m].owns : ps # {} /\ OnRevoke(m, ps)
    /\ UNCHANGED <<owner, committed, storeVars, faults, seen>>

\* The coordinator hears nothing of m for too long.
Expel(m) ==
    /\ \E p \in Partitions : owner[p] = m
    /\ Fault("expel")
    /\ owner' = Released(m, Partitions)
    /\ UNCHANGED <<mem, committed, storeVars, moves>>

\* m learns that its partitions are lost: no on_lost is registered, so the
\* client calls on_revoke.
Lost(m) ==
    /\ mem[m].pc = "poll"
    /\ Fenced(m)
    /\ OnRevoke(m, mem[m].owns)
    /\ UNCHANGED <<owner, committed, storeVars, faults, moves, seen>>

\* A restart that takes the watermark over (consumer_checkpoint has it).
CrashRestored(m) ==
    /\ Fault("crash")
    /\ mem' = [mem EXCEPT ![m] = [Fresh EXCEPT !.watermark = mem[m].watermark]]
    /\ owner' = Released(m, Partitions)
    /\ UNCHANGED <<committed, storeVars, moves>>

\* Killed; the supervisor starts it again.
Crash(m) ==
    /\ Fault("crash")
    /\ mem' = [mem EXCEPT ![m] = Fresh]
    /\ owner' = Released(m, Partitions)
    /\ UNCHANGED <<committed, storeVars, moves>>
-----------------------------------------------------------------------------
Run(m) == \/ Poll(m) \/ FlushNothing(m) \/ Write(m)
          \/ Commit(m) \/ CommitRefused(m) \/ Lost(m)

Next ==
    \E m \in Members :
        \/ Run(m)
        \/ IdleAdvance(m) \/ WriteFail(m)
        \/ Revoke(m) \/ Expel(m) \/ Crash(m)
        \/ \E p \in Partitions : Assign(m, p)

Spec == Init /\ [][Next]_vars

(***************************************************************************)
(* Fairness.  Every instance keeps running its loop, and a partition that  *)
(* nobody owns is assigned when there is, again and again, an instance to  *)
(* take it.  Nothing forces a revocation, an idle advance or a fault.      *)
(***************************************************************************)
FairSpec ==
    /\ Spec
    /\ \A m \in Members : WF_vars(Run(m))
    /\ \A p \in Partitions : SF_vars(\E m \in Members : Assign(m, p))
-----------------------------------------------------------------------------
Instance ==
    [pc : {"poll", "flush", "commit"}, stopping : BOOLEAN,
     leaving : SUBSET Partitions, owns : SUBSET Partitions,
     at : [Partitions -> Nat],
     watermark : Int, heard : SUBSET Partitions,
     held : [Events -> Nat], pending : BOOLEAN,
     ids : SUBSET Events, late : SUBSET Events]

\* The type invariant.
TypeOK ==
    /\ mem \in [Members -> Instance]
    /\ owner \in [Partitions -> Members \cup {Nobody}]
    /\ committed \in [Partitions -> Nat]
    /\ agg \in [Events -> Nat]
    /\ ledger \subseteq Events
    /\ refused \subseteq Events
    /\ faults \in 0..MaxFaults
    /\ moves \in 0..MaxMoves
    /\ seen \subseteq Faults \cup {"shared", "idle"}

\* Offsets are committed last, on every way out of a flush: whoever is
\* assigned a partition next, and whatever failed before, nothing at or below
\* its committed offset is unhandled (service.py:260-275).
CommittedIsHandled ==
    \A p \in Partitions : \A o \in 1..committed[p] :
        /\ o <= Len(Log[p])
        /\ Log[p][o] \in ledger

Calm == seen \cap {"expel", "write"} = {}

\* "Two instances process the same key: cannot happen" (failure_modes.md:109):
\* what an instance has yet to write belongs to a partition it owns.  An
\* expulsion breaks this, and a failed flush inside on_revoke.
SingleWriter ==
    Calm =>
        \A m \in Members, e \in Events :
            mem[m].held[e] > 0 => \E p \in mem[m].owns : In(p, e) /\ owner[p] = m

\* A handover or a crash never counts an event twice: the redelivery finds its
\* id in the ledger (delivery_semantics.md:22).
CountedOnce ==
    Calm => \A e \in Events : agg[e] <= 1

\* An id in the ledger stands for a contribution or a refusal on record, in
\* spite of every handover, crash and expulsion.
LedgeredHasEffect ==
    "write" \notin seen => \A e \in ledger : agg[e] > 0 \/ e \in refused

\* The records of e's partition before e.
Before(e) == {d \in Events : \E p \in Partitions : \E o \in 1..Len(Log[p]) :
                  Log[p][o] = e /\ \E i \in 1..(o - 1) : Log[p][i] = d}

\* An event is refused for being in the future, or for what its own partition
\* said before it.  The watermark belongs to the instance (windowing.py:149):
\* reading two partitions, and an idle advance in front of a backlog, break
\* this, and so does reading a partition again with the watermark of the
\* first time, after a failed flush.
RefusedIsLate ==
    seen \cap {"shared", "idle", "write"} = {} =>
        \A e \in refused :
            \/ OccurredAt[e] > Now + MaxFutureSkew
            \/ \E d \in Before(e) :
                 /\ OccurredAt[d] <= Now + MaxFutureSkew
                 /\ IsWindowClosed(WindowStartFor(OccurredAt[e]),
                                   OccurredAt[d] - AllowedLateness)

\* A member that has been expelled never takes the offset of a partition back
\* behind what its new owner has committed.
OffsetsNeverGoBack ==
    [][\A p \in Partitions : committed'[p] >= committed[p]]_vars

\* Rebalances, crashes and expulsions end, and every partition is worked off.
EventuallyCommitted ==
    \A p \in Partitions : <>[](committed[p] = Len(Log[p]))

(***************************************************************************)
(* The promise of docs/delivery_semantics.md, partition by partition.  To  *)
(* the machine ExactlyOnce of a partition all the instances together are   *)
(* one processor; a transaction settles records of several partitions at   *)
(* once, which is one step of each of their machines.                      *)
(***************************************************************************)
EventsOf(p) == {e \in Events : In(p, e)}

Promise(p) ==
    INSTANCE ExactlyOnce
        WITH Ids <- EventsOf(p), Logs <- {Log[p]}, log <- Log[p],
             applied <- [e \in EventsOf(p) |-> agg[e]],
             refused <- {o \in 1..Len(Log[p]) : Log[p][o] \in refused},
             acknowledged <- committed[p]

\* "No matter how many times the consumer restarts, or where a crash lands",
\* and on however many instances the records are delivered: an event counts
\* once or is refused, never both, and is acknowledged only then.
HandoversKeepThePromise ==
    /\ \A p \in Partitions : Promise(p)!Init
    /\ [][Calm' => \A p \in Partitions : [Promise(p)!Next]_(Promise(p)!vars)]_vars
-----------------------------------------------------------------------------
\* delivery_semantics.md:22: a rebalance that redelivers records in flight to
\* a different instance is caught by the durable ledger.
RedeliveryIsCaught == \A e \in Events : agg[e] <= 1
=============================================================================
