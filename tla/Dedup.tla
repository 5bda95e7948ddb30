------------------------------- MODULE Dedup -------------------------------
(***************************************************************************)
(* orders_stream/dedup.py: the LruSet with its order, filter_batch and its *)
(* statistics, and commit, together with what the service does around them *)
(* (processor/service.py): the ids let through wait in _pending_ids until  *)
(* a flush has put them into the ledger, and only then enter the memory.   *)
(*                                                                         *)
(* A batch is a sequence of event ids.                                     *)
(***************************************************************************)
EXTENDS DedupMemory, SequencesExt

CONSTANTS
    Ids,        \* event ids
    Violating,  \* ids of records that _parse refuses: ledgered, never filtered
    MaxBatch,   \* settings.max_batch_size
    MaxCommits  \* bound of the model: ids committed to one process's memory

ASSUME DedupAssumption ==
    /\ IsFiniteSet(Ids)
    /\ Violating \subseteq Ids
    /\ MaxBatch \in Nat \ {0}
    /\ MaxCommits \in Nat

VARIABLES
    items,      \* LruSet._items, the oldest first
    pendIds,    \* _pending_ids: let through and not yet flushed
    ledger,     \* dedup_ledger
    stopping,   \* an exception has ended the loop; one more flush follows
    \* history: no guard but the bound reads it
    commits     \* every id this process has committed to its memory, in order

vars == <<items, pendIds, ledger, stopping, commits>>

Batches == BoundedSeq(Ids, MaxBatch)

Init ==
    /\ items = <<>>
    /\ pendIds = <<>>
    /\ ledger = {}
    /\ stopping = FALSE
    /\ commits = <<>>
-----------------------------------------------------------------------------
\* OrderedDict.move_to_end.
MovedToEnd(lru, id) ==
    LET i == CHOOSE i \in DOMAIN lru : lru[i] = id
    IN  Append(RemoveAt(lru, i), id)

\* Three wrong ways to add: never evict, evict the newest, and leave an id that
\* is added again where it was.
LruAddUnbounded(lru, id) ==
    IF Contains(lru, id) THEN MovedToEnd(lru, id) ELSE Append(lru, id)

LruAddEvictNewest(lru, id) ==
    IF Contains(lru, id) THEN MovedToEnd(lru, id)
    ELSE IF Len(lru) < CacheSize THEN Append(lru, id)
    ELSE Append(Front(lru), id)

LruAddInPlace(lru, id) ==
    IF Contains(lru, id) THEN lru
    ELSE IF Len(lru) < CacheSize THEN Append(lru, id)
    ELSE Append(Tail(lru), id)

\* LruSet.add.
LruAdd(lru, id) ==
    IF Contains(lru, id) THEN MovedToEnd(lru, id)
    ELSE IF Len(lru) < CacheSize THEN Append(lru, id)
    ELSE Append(Tail(lru), id)

\* LruSet.update.
LruUpdate(lru, ids) == FoldLeft(LruAdd, lru, ids)

\* filter_batch, one event: a is what the loop has so far.  Variants: without
\* the in-batch tier, and without the answer of the ledger.
FilterStepAcrossBatches(a, id) ==
    IF Contains(items, id) THEN [a EXCEPT !.inMemory = @ + 1]
    ELSE IF id \in ledger THEN [a EXCEPT !.inLedger = @ + 1]
    ELSE [a EXCEPT !.new = Append(@, id)]

FilterStepInMemory(a, id) ==
    IF Contains(a.new, id) THEN [a EXCEPT !.inBatch = @ + 1]
    ELSE IF Contains(items, id) THEN [a EXCEPT !.inMemory = @ + 1]
    ELSE [a EXCEPT !.new = Append(@, id)]

FilterStep(a, id) ==
    IF Contains(a.new, id) THEN [a EXCEPT !.inBatch = @ + 1]
    ELSE IF Contains(items, id) THEN [a EXCEPT !.inMemory = @ + 1]
    ELSE IF id \in ledger THEN [a EXCEPT !.inLedger = @ + 1]
    ELSE [a EXCEPT !.new = Append(@, id)]

FilterBatch(batch) ==
    FoldLeft(FilterStep, [new |-> <<>>, inBatch |-> 0, inMemory |-> 0, inLedger |-> 0],
             batch)
-----------------------------------------------------------------------------
\* processor.process and _accumulate: of a batch, _parse refuses some records,
\* and their ids come first.
Process ==
    /\ ~stopping
    /\ \E refused \in BoundedSeq(Violating, MaxBatch),
          parsed \in BoundedSeq(Ids \ Violating, MaxBatch) :
         /\ Len(refused) + Len(parsed) <= MaxBatch
         /\ Len(commits) + Len(pendIds) + Len(refused) + Len(parsed) <= MaxCommits
         /\ pendIds' = pendIds \o refused \o FilterBatch(parsed).new
    /\ UNCHANGED <<items, ledger, stopping, commits>>

\* commit.
Commit ==
    /\ items' = LruUpdate(items, pendIds)
    /\ commits' = commits \o pendIds

\* The transaction lands, and then the ids enter the memory.
Flush ==
    /\ ~stopping
    /\ ledger' = ledger \cup ToSet(pendIds)
    /\ Commit
    /\ pendIds' = <<>>
    /\ UNCHANGED stopping

\* The flush raises: in the transaction, with or without its rows in place, or
\* while it commits the offsets, when the memory has been updated already.
FlushFails ==
    /\ ~stopping
    /\ stopping' = TRUE
    /\ \/ UNCHANGED <<items, ledger, commits>>
       \/ ledger' = ledger \cup ToSet(pendIds) /\ UNCHANGED <<items, commits>>
       \/ ledger' = ledger \cup ToSet(pendIds) /\ Commit
    /\ UNCHANGED pendIds

\* The flush of run()'s finally block, and then the process that replaces this
\* one; or a crash.
Restart ==
    /\ ledger' \in {ledger} \cup
                   (IF stopping THEN {ledger \cup ToSet(pendIds)} ELSE {})
    /\ items' = <<>>
    /\ pendIds' = <<>>
    /\ stopping' = FALSE
    /\ commits' = <<>>

Next == Process \/ Flush \/ FlushFails \/ Restart

Spec == Init /\ [][Next]_vars
-----------------------------------------------------------------------------
\* The type invariant: the memory is a list without repetitions, never longer
\* than CacheSize.
TypeOK ==
    /\ items \in BoundedSeq(Ids, CacheSize)
    /\ \A i, j \in DOMAIN items : items[i] = items[j] => i = j
    /\ pendIds \in Seq(Ids)
    /\ ledger \subseteq Ids
    /\ stopping \in BOOLEAN
    /\ commits \in BoundedSeq(Ids, MaxCommits)

(***************************************************************************)
(* The reference for the LruSet: computed from the whole history at once.  *)
(***************************************************************************)
LastAdded(id) == CHOOSE i \in DOMAIN commits :
                    /\ commits[i] = id
                    /\ \A j \in DOMAIN commits : commits[j] = id => j <= i

AddedAfter(id) == {commits[j] : j \in {j \in DOMAIN commits : j > LastAdded(id)}}

\* dedup.py:35 and test_lru_readding_refreshes_recency: the memory holds exactly
\* the ids that fewer than CacheSize others have been added after, the one
\* added longest ago in front.
MemoryIsTheMostRecent ==
    /\ ToSet(items) = {id \in ToSet(commits) : Cardinality(AddedAfter(id)) < CacheSize}
    /\ \A i, j \in DOMAIN items :
          i < j => LastAdded(items[i]) < LastAdded(items[j])

(***************************************************************************)
(* The reference for filter_batch.                                         *)
(***************************************************************************)
Known(id) == Contains(items, id) \/ id \in ledger

FirstCopies(batch) ==
    {i \in DOMAIN batch : \A j \in DOMAIN batch : batch[j] = batch[i] => i <= j}

\* dedup.py:84-89: whatever the tiers hold, filter_batch keeps the first copy of
\* every id that neither knows, in the order of the batch, and the three
\* counters account for everything else: the memory for each copy of what it
\* holds, the ledger for what only it holds, the batch for further copies.
FilterKeepsFirstUnknown ==
    \A batch \in Batches :
        LET kept    == {i \in FirstCopies(batch) : ~Known(batch[i])}
            result  == FilterBatch(batch)
            inMemory == {i \in DOMAIN batch : Contains(items, batch[i])}
            known   == {i \in DOMAIN batch : Known(batch[i])}
        IN  /\ Len(result.new) = Cardinality(kept)
            /\ \A i \in kept :
                  result.new[Cardinality({j \in kept : j <= i})] = batch[i]
            /\ result.inMemory = Cardinality(inMemory)
            /\ result.inLedger = Cardinality(known) - Cardinality(inMemory)
            /\ result.inBatch = Len(batch) - Cardinality(known) - Cardinality(kept)

\* Whatever flush failed and however its rows fared, while a process still takes
\* batches nothing it has let through is in the ledger already: a replay of what
\* a flush has put on record gets no second time into a window.  (Refused ids
\* are not looked up: they are pending again on every replay.)
PendingIsUnknown == ~stopping => ToSet(pendIds) \cap ledger \subseteq Violating

\* The set that ProcessorService keeps in place of the list is a sound
\* abstraction of it.
MemoryIsCacheAfter ==
    [][commits' # commits /\ commits' # <<>> =>
          ToSet(items') \in CacheAfter(ToSet(items), ToSet(pendIds))]_vars
=============================================================================
