------------------------------ MODULE MCTimedWait ------------------------------
(* Finite instances of TimedWait.  At 500 ticks per second and 2 subs to the   *)
(* millisecond a tick lasts 4 subs; 16 values of _Vx_ticks_t wrap at 64 subs.  *)
EXTENDS TimedWait

\* Every phase of the call within its tick, across a change of the second.
MCStarts == 1994 .. 1997

\* Negative, shorter than 1 ms, shorter than a tick, up to 15 ticks
\* (WAIT_FOREVER) and past the wrap of _Vx_ticks_t.
MCDurations == -6 .. 70

\* Passed, close, and too far for a _Vx_ticks_t (from 57 subs on).
MCOffsets == -6 .. 70
===============================================================================
