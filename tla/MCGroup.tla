------------------------------ MODULE MCGroup ------------------------------
(***************************************************************************)
(* Two instances and two partitions.  Windows are two seconds long, late-  *)
(* ness and skew one second, and it is second 3.  In "p" the first record  *)
(* closes the window of the second; in "q" nothing comes before the only   *)
(* record, but the watermark of "p", or of an idle instance, closes its    *)
(* window too.                                                             *)
(***************************************************************************)
EXTENDS Group

MCNoWatermark == -10

MCOccurredAt == [a |-> 3, b |-> 0, c |-> 1]

MCLog == [p |-> <<"a", "b">>, q |-> <<"c">>]
=============================================================================
