------------------------------- MODULE Replay -------------------------------
(***************************************************************************)
(* What comes back: dead letters that `orders-processor replay-dlq`        *)
(* (processor/cli.py) produces to the source topic again, and a consumer   *)
(* group that is set back to the start, against the ledger that forgets    *)
(* ids after its retention (Repository.purge_dedup_ledger).                *)
(*                                                                         *)
(* A record is its payload: a replayed letter is the same record at a new  *)
(* offset.  The processor handles one record in one step, flush included;  *)
(* its own faults are in ProcessorService.  Time is counted in units of    *)
(* which Retention make up dedup_ledger_retention_hours.                   *)
(***************************************************************************)
EXTENDS Integers, Sequences, FiniteSets

CONSTANTS
    Records,      \* payloads
    Undecodable,  \* records without an event_id: MalformedRecord
    Violating,    \* records the contract in force refuses, until it is fixed
    TooLate,      \* records whose window has closed by the time they are read
    Topics,       \* the topic contents to start from
    Commands,     \* runs of replay-dlq
    Retention,    \* settings.dedup_ledger_retention_hours
    Faults,       \* bound of the model: which faults happen
    MaxFaults,    \* bound of the model: how many of them
    MaxClock      \* bound of the model: the last instant

FaultKinds ==
    {"abort",     \* a command ends with an exception, or is killed
     "timeout",   \* its producer.flush(30.0) gives up with letters queued
     "restart",   \* the processor starts again, with an empty memory tier
     "seek"}      \* an operator sets the group back to the start

ASSUME ReplayAssumption ==
    /\ Undecodable \subseteq Records
    /\ Violating \subseteq Records \ Undecodable
    /\ TooLate \subseteq Records \ (Undecodable \cup Violating)
    /\ Topics \subseteq Seq(Records)
    /\ Retention \in Nat
    /\ Faults \subseteq FaultKinds
    /\ MaxFaults \in Nat
    /\ MaxClock \in Nat

VARIABLES
    topic,        \* the source topic
    done,         \* the offset of the last record handled
    fixed,        \* the contract accepts Violating now
    cache,        \* the memory tier
    ledger,       \* dedup_ledger: record -> seen_at, or Never
    applied,      \* record -> how often it was added to its window
    appliedAt,    \* record -> when last, or Never
    letters,      \* dlq_events: offsets
    replayed,     \* the letters with replayed_at set
    cmd,          \* the commands: [pc, rows, marked, queue]
    sent,         \* offset of a letter -> how often it was republished
    clock, faults,
    seen          \* the faults, and whether two commands overlapped

procVars == <<done, fixed, cache, ledger, applied, appliedAt>>
dlqVars  == <<letters, replayed, cmd, sent>>
vars == <<topic, procVars, dlqVars, clock, faults, seen>>

Never == -1

Ended == [pc |-> "ended", rows |-> {}, marked |-> {}, queue |-> <<>>]

Init ==
    /\ topic \in Topics
    /\ done = 0
    /\ fixed = FALSE
    /\ cache = {}
    /\ ledger = [r \in Records |-> Never]
    /\ applied = [r \in Records |-> 0]
    /\ appliedAt = [r \in Records |-> Never]
    /\ letters = {}
    /\ replayed = {}
    /\ cmd = [c \in Commands |-> [Ended EXCEPT !.pc = "new"]]
    /\ sent = [o \in 1..Len(topic) |-> 0]
    /\ clock = 0
    /\ faults = 0
    /\ seen = {}

Fault(kind) ==
    /\ kind \in Faults
    /\ faults < MaxFaults
    /\ faults' = faults + 1
    /\ seen' = seen \cup {kind}
-----------------------------------------------------------------------------
(***************************************************************************)
(* The processor.                                                          *)
(***************************************************************************)

\* _parse refuses these before dedup is asked.
RefusedByParse(r) == r \in Undecodable \/ (r \in Violating /\ ~fixed)

Known(r) == r \in cache \/ ledger[r] # Never

\* INSERT ... ON CONFLICT DO NOTHING: an id keeps its first seen_at.  Without
\* an id there is no row.
Remember(r) ==
    IF r \in Undecodable THEN UNCHANGED <<ledger, cache>>
    ELSE /\ ledger' = [ledger EXCEPT ![r] = IF @ = Never THEN clock ELSE @]
         /\ cache' = cache \cup {r}

\* dlq_events with a row per payload instead of one per offset.
LetterPerPayload(o) ==
    letters' = IF \E p \in letters : topic[p] = topic[o] THEN letters
                                                         ELSE letters \cup {o}

\* The letter under the offset that would be committed.
LetterAtNextOffset(o) == letters' = letters \cup {o + 1}

\* dlq_events is unique by offset, and a replayed record has a new one.
Letter(o) == letters' = letters \cup {o}

Consume ==
    /\ done < Len(topic)
    /\ done' = done + 1
    /\ LET r == topic[done + 1] IN
         \/ /\ RefusedByParse(r)
            /\ Letter(done + 1)
            /\ Remember(r)
            /\ UNCHANGED <<applied, appliedAt>>
         \/ /\ ~RefusedByParse(r)
            /\ Known(r)
            /\ UNCHANGED <<letters, ledger, cache, applied, appliedAt>>
         \/ /\ ~RefusedByParse(r)
            /\ ~Known(r)
            /\ Remember(r)
            /\ IF r \in TooLate
               THEN Letter(done + 1) /\ UNCHANGED <<applied, appliedAt>>
               ELSE /\ applied' = [applied EXCEPT ![r] = @ + 1]
                    /\ appliedAt' = [appliedAt EXCEPT ![r] = clock]
                    /\ UNCHANGED letters
    /\ UNCHANGED <<topic, fixed, replayed, cmd, sent, clock, faults, seen>>

\* A row that is exactly as old as the retention goes too.
PurgeAtRetention ==
    /\ \E rows \in SUBSET {r \in Records : /\ ledger[r] # Never
                                           /\ ledger[r] <= clock - Retention} :
         /\ rows # {}
         /\ ledger' = [r \in Records |-> IF r \in rows THEN Never ELSE ledger[r]]
    /\ UNCHANGED <<topic, done, fixed, cache, applied, appliedAt, dlqVars, clock,
                   faults, seen>>

\* purge_dedup_ledger deletes in batches, each in a transaction of its own.
Purge ==
    /\ \E rows \in SUBSET {r \in Records : /\ ledger[r] # Never
                                           /\ ledger[r] < clock - Retention} :
         /\ rows # {}
         /\ ledger' = [r \in Records |-> IF r \in rows THEN Never ELSE ledger[r]]
    /\ UNCHANGED <<topic, done, fixed, cache, applied, appliedAt, dlqVars, clock,
                   faults, seen>>

Restart ==
    /\ Fault("restart")
    /\ cache' = {}
    /\ UNCHANGED <<topic, done, fixed, ledger, applied, appliedAt, dlqVars, clock>>

Seek ==
    /\ Fault("seek")
    /\ done' = 0
    /\ cache' = {}
    /\ UNCHANGED <<topic, fixed, ledger, applied, appliedAt, dlqVars, clock>>

\* The cause of the violations is repaired, as the runbook asks before a
\* replay: the service comes back with a contract that accepts them.
Fix ==
    /\ ~fixed
    /\ fixed' = TRUE
    /\ cache' = {}
    /\ UNCHANGED <<topic, done, ledger, applied, appliedAt, dlqVars, clock, faults,
                   seen>>
-----------------------------------------------------------------------------
(***************************************************************************)
(* replay-dlq.                                                             *)
(***************************************************************************)

\* A selection that does not look at replayed_at.
SelectAny(c) ==
    /\ cmd[c].pc = "new"
    /\ \E rows \in SUBSET letters :
         /\ rows # {}
         /\ cmd' = [cmd EXCEPT ![c] = [@ EXCEPT !.pc = "run", !.rows = rows]]
    /\ seen' = IF \E d \in Commands \ {c} : cmd[d].pc = "run"
               THEN seen \cup {"overlap"} ELSE seen
    /\ UNCHANGED <<topic, procVars, letters, replayed, sent, clock, faults>>

\* SELECT ... WHERE replayed_at IS NULL, narrowed by --reason and --limit; no
\* row is locked.
Select(c) ==
    /\ cmd[c].pc = "new"
    /\ \E rows \in SUBSET (letters \ replayed) :
         /\ rows # {}
         /\ cmd' = [cmd EXCEPT ![c] = [@ EXCEPT !.pc = "run", !.rows = rows]]
    /\ seen' = IF \E d \in Commands \ {c} : cmd[d].pc = "run"
               THEN seen \cup {"overlap"} ELSE seen
    /\ UNCHANGED <<topic, procVars, letters, replayed, sent, clock, faults>>

\* Oldest first: produce() queues the letter, then the row is updated, which
\* waits for another command that holds it.
Produce(c) ==
    /\ cmd[c].pc = "run"
    /\ \E o \in cmd[c].rows :
         /\ \A p \in cmd[c].rows : o <= p
         /\ \A d \in Commands \ {c} : o \notin cmd[d].marked
         /\ cmd' = [cmd EXCEPT ![c].rows = @ \ {o},
                               ![c].marked = @ \cup {o},
                               ![c].queue = Append(@, o)]
    /\ UNCHANGED <<topic, procVars, letters, replayed, sent, clock, faults, seen>>

\* The client's background thread.
Deliver(c) ==
    /\ cmd[c].queue # <<>>
    /\ LET o == Head(cmd[c].queue) IN
         /\ topic' = Append(topic, topic[o])
         /\ sent' = Append([sent EXCEPT ![o] = @ + 1], 0)
    /\ cmd' = [cmd EXCEPT ![c].queue = Tail(@)]
    /\ UNCHANGED <<procVars, letters, replayed, clock, faults, seen>>

\* flush(30.0), then the connection's block ends and commits the updates.
Commit(c) ==
    /\ replayed' = replayed \cup cmd[c].marked
    /\ cmd' = [cmd EXCEPT ![c] = Ended]
    /\ UNCHANGED <<topic, procVars, letters, sent, clock>>

\* A command that does not wait for its producer.
FinishUnflushed(c) ==
    /\ cmd[c].pc = "run"
    /\ cmd[c].rows = {}
    /\ Commit(c)
    /\ UNCHANGED <<faults, seen>>

Finish(c) ==
    /\ cmd[c].pc = "run"
    /\ cmd[c].rows = {}
    /\ cmd[c].queue = <<>>
    /\ Commit(c)
    /\ UNCHANGED <<faults, seen>>

\* The number of letters left in the queue is not looked at.
FinishTimeout(c) ==
    /\ cmd[c].pc = "run"
    /\ cmd[c].rows = {}
    /\ cmd[c].queue # <<>>
    /\ Fault("timeout")
    /\ Commit(c)

\* The updates are rolled back; what was delivered stays delivered.
Abort(c) ==
    /\ cmd[c].pc = "run"
    /\ Fault("abort")
    /\ cmd' = [cmd EXCEPT ![c] = Ended]
    /\ UNCHANGED <<topic, procVars, letters, replayed, sent, clock>>

Tick ==
    /\ clock < MaxClock
    /\ clock' = clock + 1
    /\ UNCHANGED <<topic, procVars, dlqVars, faults, seen>>
-----------------------------------------------------------------------------
Next ==
    \/ Consume \/ Purge \/ Restart \/ Seek \/ Fix
    \/ \E c \in Commands : \/ Select(c) \/ Produce(c) \/ Deliver(c)
                           \/ Finish(c) \/ FinishTimeout(c) \/ Abort(c)
    \/ Tick

Spec == Init /\ [][Next]_vars
-----------------------------------------------------------------------------
Offsets == 1..Len(topic)

Times == 0..MaxClock \cup {Never}

Command == [pc : {"new", "run", "ended"}, rows : SUBSET Nat, marked : SUBSET Nat,
            queue : Seq(Nat)]

\* The type invariant.
TypeOK ==
    /\ topic \in Seq(Records)
    /\ done \in 0..Len(topic)
    /\ fixed \in BOOLEAN
    /\ cache \subseteq Records \ Undecodable
    /\ ledger \in [Records -> Times]
    /\ applied \in [Records -> Nat]
    /\ appliedAt \in [Records -> Times]
    /\ letters \subseteq Offsets
    /\ replayed \subseteq letters
    /\ cmd \in [Commands -> Command]
    /\ \A c \in Commands :
         /\ cmd[c].rows \subseteq letters
         /\ cmd[c].marked \subseteq letters
         /\ \A i \in 1..Len(cmd[c].queue) : cmd[c].queue[i] \in cmd[c].marked
    /\ sent \in Seq(Nat) /\ Len(sent) = Len(topic)
    /\ clock \in 0..MaxClock
    /\ faults \in 0..MaxFaults
    /\ seen \subseteq Faults \cup {"overlap"}

\* A copy of r has yet to be read, or to be delivered.
OnItsWay(r) ==
    \/ \E o \in (done + 1)..Len(topic) : topic[o] = r
    \/ \E c \in Commands, o \in letters : /\ topic[o] = r
                                         /\ cmd[c].pc = "run"
                                         /\ o \in cmd[c].rows \cup cmd[c].marked

\* A dead letter that nobody has replayed says r is outstanding.
Listed(r) == \E o \in letters \ replayed : topic[o] = r

Outstanding(r) == applied[r] = 0 /\ \E o \in letters : topic[o] = r

\* A record that fails again is listed again (runbook.md:158: "a malformed
\* record replayed unchanged fails identically"): whatever replays overlap or
\* abort, it never disappears from the work list, unless a flush gave up.
StaysListed ==
    "timeout" \notin seen =>
        \A r \in Records :
            RefusedByParse(r) /\ Outstanding(r) => Listed(r) \/ OnItsWay(r)

\* replayed_at says that the record is on the topic again (cli.py:137-141).
\* An unread flush timeout breaks this.
ReplayedIsDelivered ==
    "timeout" \notin seen => \A o \in replayed : sent[o] > 0

\* A letter is republished at most once.  A command that aborts after a
\* delivery breaks this, and two that run at the same time.
ReplayedOnce ==
    seen \cap {"abort", "overlap"} = {} => \A o \in Offsets : sent[o] <= 1

\* For the retention of the ledger, nothing counts an event again: not a group
\* set back to the start, not a replay, not a restart (delivery_semantics.md,
\* "Infinite dedup"; runbook.md:181-185).
ProtectedForRetention ==
    [][\A r \in Records :
          applied'[r] > applied[r] /\ appliedAt[r] # Never
              => clock - appliedAt[r] > Retention]_vars
-----------------------------------------------------------------------------
\* README.md:236, "fix the producer, then replay-dlq": a record that was
\* refused counts in the end, or is still listed.
ReplayIsNotSilent ==
    \A r \in Records : Outstanding(r) => Listed(r) \/ OnItsWay(r)
=============================================================================
