----------------------------- MODULE EventTime -----------------------------
(***************************************************************************)
(* Event time: how an event is assigned to a tumbling window and how it is *)
(* judged against the watermark.  These are the rules of                   *)
(* orders_stream/windowing.py and models.window_start_for as operators     *)
(* without state; the modules that keep a watermark take it as an          *)
(* argument.                                                               *)
(*                                                                         *)
(* Times are whole seconds (the unit window_start_for rounds to), counted  *)
(* from an epoch.  The code's `watermark is None` is NoWatermark, a value  *)
(* below every time the code can compute: None is tested in three places   *)
(* (_advance_watermark / advance_on_idle, is_window_closed, the is_late    *)
(* test of add) and each of them treats it exactly as minus infinity.      *)
(***************************************************************************)
EXTENDS Integers

CONSTANTS WindowSize,       \* settings.window_size_seconds
          AllowedLateness,  \* settings.allowed_lateness_seconds
          MaxFutureSkew,    \* settings.max_future_skew_seconds
          NoWatermark       \* the watermark before the first accepted event

ASSUME EventTimeAssumption ==
    /\ WindowSize \in Nat \ {0}
    /\ AllowedLateness \in Nat
    /\ MaxFutureSkew \in Nat
    /\ NoWatermark \in Int
    /\ NoWatermark < -AllowedLateness

\* The bucket an event time falls into, aligned to the epoch.
WindowStartFor(t) == t - (t % WindowSize)

\* Off by one: the window would outlive a watermark at its end.
IsWindowPassed(start, watermark) == start + WindowSize < watermark

\* A window closes when the watermark passes its end.
IsWindowClosed(start, watermark) == start + WindowSize <= watermark

\* The watermark after it has heard of time t; it only ever moves forward.
AdvanceWatermark(watermark, t) ==
    IF t - AllowedLateness > watermark THEN t - AllowedLateness ELSE watermark

\* Classification without the guard against future event times.
ClassifyUnguarded(t, watermark, now) ==
    IF IsWindowClosed(WindowStartFor(t), watermark) THEN "too_late"
    ELSE IF t < watermark THEN "late_accepted" ELSE "on_time"

\* WindowManager.add up to the point where it touches any state: the early
\* returns in their order, the event judged by the watermark as it is before
\* the event itself moves it.
Classify(t, watermark, now) ==
    IF t > now + MaxFutureSkew THEN "future_skew"
    ELSE IF IsWindowClosed(WindowStartFor(t), watermark) THEN "too_late"
    ELSE IF t < watermark THEN "late_accepted" ELSE "on_time"

\* A late event for a closed window opens it again.
AcceptedOrTooLate(outcome) == outcome \in {"on_time", "late_accepted", "too_late"}

Accepted(outcome) == outcome \in {"on_time", "late_accepted"}
=============================================================================
