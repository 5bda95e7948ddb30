---------------------------- MODULE DedupMemory ----------------------------
(***************************************************************************)
(* The memory tier of dedup.py seen as a set: what ProcessorService needs  *)
(* of LruSet.  Module Dedup has the LruSet itself, with its order, and     *)
(* checks that its contents always are one of these sets.                  *)
(***************************************************************************)
EXTENDS Naturals, FiniteSets

CONSTANT CacheSize  \* settings.dedup_cache_size

\* LruSet rejects a max_size below one.
ASSUME DedupMemoryAssumption == CacheSize \in Nat \ {0}

\* What the memory can be after ids are added to it one by one, evicting the
\* oldest beyond CacheSize.  The order of old ids is left open, and so is the
\* order in which ids are added.
CacheAfter(old, ids) ==
    LET all == old \cup ids
    IN  {S \in SUBSET all :
            /\ Cardinality(S) = (IF Cardinality(all) < CacheSize
                                 THEN Cardinality(all) ELSE CacheSize)
            /\ ids \subseteq S \/ S \subseteq ids}
=============================================================================
