----------------------------- MODULE FrameGrid ------------------------------
(***************************************************************************)
(* on_frame_grid() in task_video.cpp: the filter that resamples the 30 fps *)
(* sensor to H264_TARGET_FPS.  It is called once per captured frame, at    *)
(* times the sensor and the scheduler choose; time is esp_timer_get_time() *)
(* in any unit.                                                            *)
(*                                                                         *)
(* A window of consecutive passed frames is observed, chosen by the        *)
(* specification: it opens at any passed frame and counts the ones after.  *)
(***************************************************************************)
EXTENDS Integers

CONSTANTS
    Interval,          \* VIDEO_FRAME_INTERVAL_US
    MaxGap,            \* longest time between two captured frames
    Horizon            \* bound: the device is up for this long

ASSUME IntervalAssumption == Interval \in Nat \ {0}
ASSUME GapAssumption == MaxGap \in Nat \ {0}
ASSUME HorizonAssumption == Horizon \in Nat

VARIABLES
    now,               \* the clock, as the last call read it
    next_us,           \* the static: the grid point the next frame waits for
    started,           \* history: some frame has passed since boot
    last,              \* history: when the last frame passed
    mark,              \* history: when the window's first frame passed
    grid0,             \* history: next_us just after it
    passes,            \* history: frames passed in the window after the first
    gap                \* history: longest time between two calls in the window

window == <<mark, grid0, passes>>
gridVars == <<now, next_us, started, last, window, gap>>

GridInit ==
    /\ now = 0 /\ next_us = 0
    /\ started = FALSE /\ last = 0
    /\ mark = 0 /\ grid0 = 0 /\ passes = 0 /\ gap = 0

\* Mutant: the grid is never restarted after a late frame.
Advance_NoRestart(t) == next_us + Interval

\* Mutant: every frame restarts the grid from its own time.
Advance_FromNow(t) == t + Interval

\* next_us after a frame passed at t: the next grid point, or a new grid from t.
Advance(t) == IF next_us + Interval <= t THEN t + Interval ELSE next_us + Interval

Longest(t) == IF t - now > gap THEN t - now ELSE gap

Passed(t) ==
    /\ t >= next_us
    /\ next_us' = Advance(t)
    /\ started' = TRUE /\ last' = t
    /\ \/ /\ started
          /\ passes' = passes + 1 /\ gap' = Longest(t)
          /\ UNCHANGED <<mark, grid0>>
       \/ /\ mark' = t /\ grid0' = Advance(t)
          /\ passes' = 0 /\ gap' = 0

\* Mutant: a frame that is dropped uses up a grid point as well.
Dropped_Advances(t) ==
    /\ t < next_us
    /\ next_us' = next_us + Interval
    /\ gap' = Longest(t)
    /\ UNCHANGED <<started, last, window>>

Dropped(t) ==
    /\ t < next_us
    /\ gap' = Longest(t)
    /\ UNCHANGED <<next_us, started, last, window>>

\* One call, at most MaxGap after the one before.
Call ==
    \E t \in now .. now + MaxGap :
        /\ t <= Horizon
        /\ now' = t
        /\ Passed(t) \/ Dropped(t)

\* The device restarts; the static and the clock start from zero.
Reboot ==
    /\ now' = 0 /\ next_us' = 0
    /\ started' = FALSE /\ last' = 0
    /\ mark' = 0 /\ grid0' = 0 /\ passes' = 0 /\ gap' = 0

GridNext == Call \/ Reboot

GridSpec == GridInit /\ [][GridNext]_gridVars

-----------------------------------------------------------------------------
(* Properties                                                              *)

\* Every variable is a natural number, and nothing is counted before the first frame.
GridTypeOK ==
    /\ now \in Nat /\ next_us \in Nat
    /\ last \in Nat /\ mark \in Nat /\ grid0 \in Nat /\ passes \in Nat
    /\ gap \in 0 .. MaxGap
    /\ started \in BOOLEAN

\* No burst: n + 1 frames take more than n - 1 intervals, however late and bunched the
\* frames come ("instead of letting the accumulated deficit pass a burst",
\* task_video.cpp:81), so the encoder is never fed faster than H264_TARGET_FPS for long.
NoBurst == started /\ passes > 0 => last - mark > (passes - 1) * Interval

\* No drift: in a window where the sensor is never a whole interval late, the n-th frame
\* passes at or after the n-th grid point, by less than the longest time between two
\* frames; so the rate is H264_TARGET_FPS (app_config.h:141).
NoDrift ==
    started /\ passes > 0 /\ gap <= Interval =>
        LET point == grid0 + (passes - 1) * Interval IN
        point <= last /\ last < point + gap

\* No gap: a frame is never dropped a whole interval after the last one that passed.
NoGap == started => now < last + Interval
=============================================================================
