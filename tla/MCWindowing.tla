---------------------------- MODULE MCWindowing ----------------------------
(***************************************************************************)
(* One merchant, windows of two seconds, two seconds of lateness: seconds  *)
(* 0 to 5 spread over three windows, two of which can be live at once.     *)
(* "e2" is late after "e4" (watermark 3) or after an idle advance; its     *)
(* window has two users, the last window one user twice.                   *)
(***************************************************************************)
EXTENDS Windowing

MCNoWatermark == -10

MCEvents == {"e1", "e2", "e3", "e4", "e5"}

MCTimeOf == [e1 |-> 0, e2 |-> 2, e3 |-> 3, e4 |-> 5, e5 |-> 4]

MCMerchantOf == [e \in MCEvents |-> "m"]

MCUserOf == [e1 |-> "none", e2 |-> "u", e3 |-> "w", e4 |-> "u", e5 |-> "u"]

MCTypeOf == [e1 |-> "placed", e2 |-> "paid", e3 |-> "refunded", e4 |-> "paid",
             e5 |-> "paid"]

MCAmountOf == [e1 |-> 0, e2 |-> 5, e3 |-> 7, e4 |-> 1, e5 |-> 2]
=============================================================================
