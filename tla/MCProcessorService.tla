------------------------- MODULE MCProcessorService -------------------------
(***************************************************************************)
(* Small instances of ProcessorService.  Windows are two seconds long, the *)
(* lateness allowance and the tolerated skew one second, so that within a  *)
(* few seconds of clock an event can be on time, late, too late or in the  *)
(* future: accepting "b" (second 3) moves the watermark to 2 and closes    *)
(* the window of "a" and "c"; "b" is refused before second 2.              *)
(***************************************************************************)
EXTENDS ProcessorService

\* Any time before the first window would do.
MCNoWatermark == -10

MCEvents == {"a", "b", "c", "v"}

MCOccurredAt == [a |-> 0, b |-> 3, c |-> 1, v |-> 0]

MCMerchantOf == [a |-> "m", b |-> "n", c |-> "m", v |-> "m"]

MCViolating == {"v"}

MCGarbage == "garbage"

\* Every order of on-time, late and refused records, and producer retries one
\* record apart and two records apart.
TopicsMixed ==
    {<<"a", "b", "a">>, <<"b", "a", "c">>, <<"a", "a", "b">>,
     <<"a", "c", "b">>, <<"v", "b", "v">>, <<"garbage", "b", "a">>}

\* No producer retries: the only duplicates are replays.
TopicsDistinct ==
    {<<"a", "b", "c">>, <<"b", "a", "v">>, <<"garbage", "b", "a">>,
     <<"v", "a", "b">>}

\* A retry right behind its original.
TopicsRetry == {<<"a", "a">>}

\* A window, and then silence.
TopicsQuiet == {<<"a">>}
=============================================================================
