----------------------------- MODULE Windowing -----------------------------
(***************************************************************************)
(* The arithmetic of the aggregates: WindowManager and its WindowStates    *)
(* (orders_stream/windowing.py) on one side, the additive upsert of the    *)
(* sink (orders_stream/store/repository.py) on the other, column by        *)
(* column.  ProcessorService keeps a row as how often each event has been  *)
(* added to it; here the row has its counters, sums, timestamps, distinct  *)
(* users and revision, and the events arrive deduplicated: an event is     *)
(* handed to the window manager unless it is pending or in the ledger.     *)
(*                                                                         *)
(* The flush is one step; a failed one is rolled back.  A restart forgets  *)
(* the windows.  Aggregate.revision is left out: only the row's is ever    *)
(* written.                                                                *)
(***************************************************************************)
EXTENDS EventTime, FiniteSets, FiniteSetsExt

CONSTANTS
    Events,      \* event ids
    TimeOf,      \* event -> occurred_at
    MerchantOf,  \* event -> merchant_id
    UserOf,      \* event -> user_id, or NoUser
    TypeOf,      \* event -> event_type
    AmountOf,    \* event -> amount_minor (0 when it has none)
    NoUser,
    Retention,   \* settings.dedup_ledger_retention_hours
    MaxClock     \* bound of the model: the last second of wall clock

Types == {"placed", "paid", "cancelled", "refunded"}

ASSUME WindowingAssumption ==
    /\ TimeOf \in [Events -> Nat]
    /\ TypeOf \in [Events -> Types]
    /\ AmountOf \in [Events -> Nat]
    /\ Retention \in Nat
    /\ MaxClock \in Nat

VARIABLES
    watermark,     \* WindowManager.watermark
    windows,       \* WindowManager.windows: key -> [agg, flushed, dirty]
    pendIds,       \* ids of the events handled since the last flush
    table,         \* agg_orders_minute: key -> row
    members,       \* window_user: pairs of a key and a user
    ledger,        \* dedup_ledger
    watermarkAt,   \* consumer_checkpoint.watermark_at
    clock,
    \* history: no guard reads it
    held,          \* accepted events of the live windows, not yet in the table
    counted,       \* events that some row has been told about
    late,          \* events accepted behind the watermark
    purged,        \* keys whose membership has been purged
    restarted      \* a process has lost its memory

procVars == <<watermark, windows, pendIds>>
storeVars == <<table, members, ledger, watermarkAt>>
vars == <<procVars, storeVars, clock, held, counted, late, purged, restarted>>

Key(e) == <<WindowStartFor(TimeOf[e]), MerchantOf[e]>>

Keys == {Key(e) : e \in Events}

NoTime == -1  \* first_event_at and last_event_at before the first event

MinTime(s, t) == IF s = NoTime \/ t < s THEN t ELSE s
MaxTime(s, t) == IF s = NoTime \/ t > s THEN t ELSE s

\* A new Aggregate, and what a WindowState has flushed at first.
Blank == [events |-> 0, orders |-> [t \in Types |-> 0], gross |-> 0,
          refunded |-> 0, late |-> 0, users |-> {},
          first |-> NoTime, last |-> NoTime]

Init ==
    /\ watermark = NoWatermark
    /\ windows = [k \in {} |-> Blank]
    /\ pendIds = {}
    /\ table = [k \in {} |-> Blank]
    /\ members = {}
    /\ ledger = {}
    /\ watermarkAt = NoWatermark
    /\ clock = 0
    /\ held = {}
    /\ counted = {}
    /\ late = {}
    /\ purged = {}
    /\ restarted = FALSE
-----------------------------------------------------------------------------
\* WindowManager._apply.
Apply(a, e, isLate) ==
    LET paid   == IF TypeOf[e] = "paid" THEN AmountOf[e] ELSE 0
        refund == IF TypeOf[e] = "refunded" THEN AmountOf[e] ELSE 0
    IN  [events   |-> a.events + 1,
         orders   |-> [a.orders EXCEPT ![TypeOf[e]] = @ + 1],
         gross    |-> a.gross + paid,
         refunded |-> a.refunded + refund,
         late     |-> IF isLate THEN a.late + 1 ELSE a.late,
         users    |-> a.users \cup ({UserOf[e]} \ {NoUser}),
         first    |-> MinTime(a.first, TimeOf[e]),
         last     |-> MaxTime(a.last, TimeOf[e])]

\* windows.get(key), or a new state.
StateOf(k) ==
    IF k \in DOMAIN windows THEN windows[k]
    ELSE [agg |-> Blank, flushed |-> Blank, dirty |-> TRUE]

\* WindowManager.add, for an event that dedup has let through.
Add(e) ==
    LET outcome == Classify(TimeOf[e], watermark, clock)
        isLate  == outcome = "late_accepted"
    IN  /\ e \notin pendIds \cup ledger
        /\ pendIds' = pendIds \cup {e}
        /\ IF Accepted(outcome)
           THEN /\ windows' = [k \in DOMAIN windows \cup {Key(e)} |->
                                 IF k = Key(e)
                                 THEN [StateOf(k) EXCEPT
                                         !.agg = Apply(@, e, isLate),
                                         !.dirty = TRUE]
                                 ELSE windows[k]]
                /\ watermark' = AdvanceWatermark(watermark, TimeOf[e])
                /\ held' = held \cup {e}
                /\ late' = IF isLate THEN late \cup {e} ELSE late \ {e}
           ELSE UNCHANGED <<windows, watermark, held, late>>
        /\ UNCHANGED <<storeVars, clock, counted, purged, restarted>>

AdvanceOnIdle ==
    /\ AdvanceWatermark(watermark, clock) # watermark
    /\ watermark' = AdvanceWatermark(watermark, clock)
    /\ UNCHANGED <<windows, pendIds, storeVars, clock, held, counted, late,
                   purged, restarted>>
-----------------------------------------------------------------------------
Expired == {k \in DOMAIN windows : IsWindowClosed(k[1], watermark)}

\* The windows a flush has a delta for: changed ones, and those being closed.
Touched == {k \in DOMAIN windows : windows[k].dirty} \cup Expired

\* WindowState.delta.
DeltaOf(k) ==
    LET a == windows[k].agg
        f == windows[k].flushed
    IN  [events   |-> a.events - f.events,
         orders   |-> [t \in Types |-> a.orders[t] - f.orders[t]],
         gross    |-> a.gross - f.gross,
         refunded |-> a.refunded - f.refunded,
         late     |-> a.late - f.late,
         distinct |-> Cardinality(a.users),
         newUsers |-> a.users \ f.users,
         first    |-> a.first,
         last     |-> a.last,
         closed   |-> k \in Expired]

\* An INSERT half whose revision starts at zero.
InsertedUnrevised(d) ==
    [events |-> d.events, orders |-> d.orders, gross |-> d.gross,
     refunded |-> d.refunded, net |-> d.gross - d.refunded, late |-> d.late,
     distinct |-> d.distinct, first |-> d.first, last |-> d.last,
     revision |-> 0, closed |-> d.closed]

\* UPSERT_AGGREGATE, the INSERT half.
Inserted(d) ==
    [events |-> d.events, orders |-> d.orders, gross |-> d.gross,
     refunded |-> d.refunded, net |-> d.gross - d.refunded, late |-> d.late,
     distinct |-> d.distinct, first |-> d.first, last |-> d.last,
     revision |-> 1, closed |-> d.closed]

\* Two wrong rules for the revision: every update counts, or only one of a row
\* that has been closed.
RevisedByUpdates(a, d) == a.revision + 1

RevisedWhenClosed(a, d) == a.revision + (IF a.closed THEN 1 ELSE 0)

\* Only a restatement bumps the revision.
Revised(a, d) == a.revision + (IF d.late > 0 THEN 1 ELSE 0)

\* UPSERT_AGGREGATE, the ON CONFLICT half, on the existing row a.
Upserted(a, d) ==
    [events   |-> a.events + d.events,
     orders   |-> [t \in Types |-> a.orders[t] + d.orders[t]],
     gross    |-> a.gross + d.gross,
     refunded |-> a.refunded + d.refunded,
     net      |-> (a.gross + d.gross) - (a.refunded + d.refunded),
     late     |-> a.late + d.late,
     distinct |-> IF d.distinct > a.distinct THEN d.distinct ELSE a.distinct,
     first    |-> MinTime(a.first, d.first),
     last     |-> MaxTime(a.last, d.last),
     revision |-> Revised(a, d),
     closed   |-> a.closed \/ d.closed]

\* INSERT_WINDOW_USER for the users each delta brings.
NewMembers == UNION {{<<k, u>> : u \in DeltaOf(k).newUsers} : k \in Touched}

\* Without the recount the process's own count would stand.
NotRecounted(row, k) == row

\* RECOUNT_DISTINCT_USERS, for every window of the flush once any has new users.
Recounted(row, k) ==
    IF NewMembers = {} THEN row
    ELSE [row EXCEPT !.distinct =
             Cardinality({m \in members \cup NewMembers : m[1] = k})]

Written(k) ==
    IF k \notin Touched THEN table[k]
    ELSE Recounted(IF k \in DOMAIN table THEN Upserted(table[k], DeltaOf(k))
                                         ELSE Inserted(DeltaOf(k)), k)

\* A snapshot that resets the dirty flag and forgets the totals.
Undirtied(state) == [state EXCEPT !.dirty = FALSE]

\* mark_flushed, on the windows that close_expired has left.
Snapshot(state) == [state EXCEPT !.flushed = state.agg, !.dirty = FALSE]

Live == DOMAIN windows \ Expired

Flush ==
    /\ Touched # {} \/ pendIds # {}
    /\ table' = [k \in DOMAIN table \cup Touched |-> Written(k)]
    /\ members' = members \cup NewMembers
    /\ ledger' = ledger \cup pendIds
    /\ watermarkAt' = IF pendIds # {} THEN watermark ELSE watermarkAt
    /\ windows' = [k \in Live |-> Snapshot(windows[k])]
    /\ pendIds' = {}
    /\ counted' = counted \cup held
    /\ held' = {}
    /\ UNCHANGED <<watermark, clock, late, purged, restarted>>

\* The transaction is rolled back: the windows it was to close are gone, the
\* other deltas and all ids stay for the next flush.
FlushFails ==
    /\ Touched # {} \/ pendIds # {}
    /\ windows' = [k \in Live |-> windows[k]]
    /\ held' = {e \in held : Key(e) \in Live}
    /\ UNCHANGED <<watermark, pendIds, storeVars, clock, counted, late, purged,
                   restarted>>

Restart ==
    /\ watermark' = NoWatermark
    /\ windows' = [k \in {} |-> Blank]
    /\ pendIds' = {}
    /\ held' = {}
    /\ restarted' = TRUE
    /\ UNCHANGED <<storeVars, clock, counted, late, purged>>

\* The second half of purge_dedup_ledger, by wall clock.  (The first half
\* forgets ids; nothing is delivered again here, Replay has that.)
Purge ==
    LET old == {m \in members : m[1][1] < clock - Retention} IN
    /\ old # {}
    /\ members' = members \ old
    /\ purged' = purged \cup {m[1] : m \in old}
    /\ UNCHANGED <<procVars, table, ledger, watermarkAt, clock, held, counted, late,
                   restarted>>

Tick ==
    /\ clock < MaxClock
    /\ clock' = clock + 1
    /\ UNCHANGED <<procVars, storeVars, held, counted, late, purged, restarted>>

Next ==
    \/ \E e \in Events : Add(e)
    \/ AdvanceOnIdle
    \/ Flush
    \/ FlushFails
    \/ Restart
    \/ Purge
    \/ Tick

Spec == Init /\ [][Next]_vars
-----------------------------------------------------------------------------
Aggregates ==
    [events : Nat, orders : [Types -> Nat], gross : Nat, refunded : Nat,
     late : Nat, users : SUBSET {UserOf[e] : e \in Events},
     first : Nat \cup {NoTime}, last : Nat \cup {NoTime}]

TypeOK ==
    /\ watermark \in Int /\ watermarkAt \in Int
    /\ DOMAIN windows \subseteq Keys
    /\ \A k \in DOMAIN windows :
          /\ windows[k].agg \in Aggregates
          /\ windows[k].flushed \in Aggregates
          /\ windows[k].dirty \in BOOLEAN
    /\ DOMAIN table \subseteq Keys
    /\ \A k \in DOMAIN table :
          /\ table[k].events \in Nat \ {0}
          /\ table[k].net \in Int
          /\ table[k].revision \in Nat \ {0}
    /\ members \subseteq Keys \X {UserOf[e] : e \in Events}
    /\ pendIds \subseteq Events /\ ledger \subseteq Events
    /\ held \subseteq pendIds
    /\ purged \subseteq Keys
    /\ counted \subseteq ledger

(***************************************************************************)
(* What a row should say: computed from the set S of the events it stands  *)
(* for, all at once.                                                       *)
(***************************************************************************)
SumOver(S) == MapThenSumSet(LAMBDA e : AmountOf[e], S)

OfType(S, t) == {e \in S : TypeOf[e] = t}

UsersOf(S) == {UserOf[e] : e \in S} \ {NoUser}

CountedIn(k) == {e \in counted : Key(e) = k}

RowSays(row, S, isPurged) ==
    /\ row.events = Cardinality(S)
    /\ \A t \in Types : row.orders[t] = Cardinality(OfType(S, t))
    /\ row.gross = SumOver(OfType(S, "paid"))
    /\ row.refunded = SumOver(OfType(S, "refunded"))
    /\ row.net = row.gross - row.refunded
    /\ row.distinct <= Cardinality(UsersOf(S))
    /\ isPurged \/ row.distinct = Cardinality(UsersOf(S))
    /\ row.late = Cardinality(S \cap late)
    /\ \A e \in S : row.first <= TimeOf[e] /\ TimeOf[e] <= row.last
    /\ {row.first, row.last} \subseteq {TimeOf[e] : e \in S}

\* Deltas, whatever flushes fail and whatever memory is lost between them, add
\* up to the aggregate of the events they stand for (windowing.py:69-76): the
\* sums do not overwrite, the timestamps do not regress, a user seen by two
\* processes counts once (repository.py:84-85).  The purge breaks the last of
\* these: a window whose event time is behind the retention may still be open
\* when a backlog is read, and the next recount sees the new users only.
RowsAreTheSumOfTheirEvents ==
    /\ DOMAIN table = {Key(e) : e \in counted}
    /\ \A k \in DOMAIN table : RowSays(table[k], CountedIn(k), k \in purged)

\* And nothing is left behind in memory: an accepted event is in its window's
\* unflushed part until a row has it.
HeldIsUnflushed ==
    \A k \in DOMAIN windows :
        /\ windows[k].agg.events - windows[k].flushed.events =
               Cardinality({e \in held : Key(e) = k})
        /\ windows[k].dirty <=> \E e \in held : Key(e) = k

\* State is bounded: a merchant has, beside what the next flush evicts, at most
\* one window more than fit into allowed_lateness (windowing.py:308-310).
LiveWindowsAreFew ==
    \A m \in {MerchantOf[e] : e \in Events} :
        Cardinality({k \in Live : k[2] = m}) <=
            (AllowedLateness + WindowSize - 1) \div WindowSize + 1

\* A reader who has seen a row, and the watermark of the checkpoint written with
\* it, sees a higher revision when an event older than that watermark changes
\* the row (windowing.py:273-278).  A restart breaks this: the watermark starts
\* over, the straggler counts as on time.
RestatementIsVisible ==
    [][\A e \in counted' \ counted :
          /\ ~restarted
          /\ Key(e) \in DOMAIN table
          /\ TimeOf[e] < watermarkAt
          => table'[Key(e)].revision = table[Key(e)].revision + 1]_vars

\* The other way round: filling a window in order is not a correction
\* (repository.py:69-71).
FillingIsNotARestatement ==
    [][\A k \in DOMAIN table :
          table'[k].revision # table[k].revision =>
              \E e \in counted' \ counted : Key(e) = k /\ e \in late]_vars
=============================================================================
