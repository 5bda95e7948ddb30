------------------------------ MODULE MCDedup ------------------------------
(***************************************************************************)
(* Four ids, one of them only on refused records, and a memory of two:     *)
(* every order of adding, adding again and evicting, with batches that     *)
(* repeat ids.                                                             *)
(***************************************************************************)
EXTENDS Dedup

MCIds == {"a", "b", "c", "v"}

MCViolating == {"v"}
=============================================================================
