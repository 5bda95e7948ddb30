------------------------------ MODULE MCReplay ------------------------------
(***************************************************************************)
(* Three records of which one is fine, one does not decode, and one is     *)
(* refused by the contract until it is fixed, or too late; the good one    *)
(* occurs twice in one of the topics (a producer retry).                   *)
(***************************************************************************)
EXTENDS Replay

MCTopics == {<<"good", "garbage", "good">>, <<"wrong", "late">>}

MCTopicsWrong == {<<"wrong">>}
=============================================================================
