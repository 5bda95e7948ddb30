---------------------------- MODULE ExactlyOnce ----------------------------
(***************************************************************************)
(* What the processor promises, without saying how: "every event moves the *)
(* aggregates exactly once, no matter how many times Kafka delivers it,    *)
(* how many times the consumer restarts, or where a crash lands"           *)
(* (docs/delivery_semantics.md), or else it is refused and its record is   *)
(* kept as a dead letter; and a record is acknowledged to Kafka only after *)
(* that has happened.  No process, no memory and no failure appears here.  *)
(***************************************************************************)
EXTENDS Naturals, Sequences

CONSTANTS Ids,    \* event ids
          Logs    \* the partition contents to start from

VARIABLES
    log,          \* the records, one per offset: an id or something unreadable
    applied,      \* id -> how often it has moved the aggregates
    refused,      \* offsets kept as dead letters
    acknowledged  \* the highest offset acknowledged to Kafka

vars == <<log, applied, refused, acknowledged>>

Offsets == 1..Len(log)

IsRefused(id) == \E o \in refused : log[o] = id

\* The record needs nothing more to be done.
Settled(o) ==
    \/ o \in refused
    \/ log[o] \in Ids /\ (applied[log[o]] = 1 \/ IsRefused(log[o]))

Init ==
    /\ log \in Logs
    /\ applied = [id \in Ids |-> 0]
    /\ refused = {}
    /\ acknowledged = 0

\* Some events move the aggregates, some records are refused, all at once; an
\* event does one or the other, and moves the aggregates once.
Settle ==
    \E A \in SUBSET Ids, R \in SUBSET Offsets :
        /\ \A id \in A : /\ \E o \in Offsets : log[o] = id
                         /\ applied[id] = 0
                         /\ ~IsRefused(id)
        /\ \A o \in R : log[o] \in Ids => /\ log[o] \notin A
                                          /\ applied[log[o]] = 0
        /\ applied' = [id \in Ids |-> IF id \in A THEN 1 ELSE applied[id]]
        /\ refused' = refused \cup R
        /\ UNCHANGED <<log, acknowledged>>

Acknowledge ==
    \E n \in acknowledged..Len(log) :
        /\ \A o \in 1..n : Settled(o)
        /\ acknowledged' = n
        /\ UNCHANGED <<log, applied, refused>>

Next == Settle \/ Acknowledge

Spec == Init /\ [][Next]_vars
=============================================================================
