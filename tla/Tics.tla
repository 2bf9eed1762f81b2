--------------------------------- MODULE Tics ---------------------------------
(***************************************************************************)
(* chrono2tic.hpp: how every timed call of the library turns a             *)
(* std::chrono duration or time point into a count of system ticks.        *)
(*                                                                         *)
(* Time is counted in "subs", SubPerMs to the millisecond: the sub is the  *)
(* Period of the caller's duration type when it is finer than 1 ms.  A     *)
(* duration is any integer (a std::chrono count is signed).  The moduli    *)
(* are those of the C++ types: TickMod = 2^32 values of _Vx_ticks_t and    *)
(* LongMod = 2^64 of unsigned long long; TLC takes small ones.             *)
(***************************************************************************)
EXTENDS Integers

CONSTANTS
  CLOCKS_PER_SEC,  \* rate of the system clock, in ticks per second
  TickMod,         \* number of values of the unsigned type _Vx_ticks_t
  LongMod,         \* number of values of unsigned long long
  SubPerMs         \* subs in a millisecond

ASSUME TicsAssumption ==
  /\ CLOCKS_PER_SEC \in Nat \ {0}
  /\ TickMod \in Nat /\ TickMod > 2
  /\ LongMod \in Nat /\ LongMod > TickMod
  /\ SubPerMs \in Nat \ {0}

\* The two values of a timeout that are not a count (event.hpp:151, :154).
NO_WAIT      == 0
WAIT_FOREVER == TickMod - 1

_Vx_ticks_t == 0 .. (TickMod - 1)

SubPerSec == 1000 * SubPerMs

\* Integer division of C++ and of duration_cast: towards zero.
TruncDiv(a, b) == IF a >= 0 THEN a \div b ELSE -((-a) \div b)

\* duration_cast<milliseconds>(_Rel_time).count()
milliseconds(d) == TruncDiv(d, SubPerMs)

\* Slips of the conversion that the properties of TimedWait catch: one tick
\* added "to be safe", a division before the multiplication, a missing cast.
chrono2tic_PlusOne(d) ==
  (((CLOCKS_PER_SEC * milliseconds(d)) % LongMod) \div 1000 + 1) % TickMod
chrono2tic_DivideFirst(d) ==
  (CLOCKS_PER_SEC * ((milliseconds(d) % LongMod) \div 1000)) % TickMod
chrono2tic_NoCast(d) ==
  ((CLOCKS_PER_SEC * milliseconds(d)) % LongMod) \div 1000

(***************************************************************************)
(* The product is formed in unsigned long long (a negative count wraps),   *)
(* divided by 1000, and the quotient cast to _Vx_ticks_t.                  *)
(***************************************************************************)
chrono2tic(d) ==
  (((CLOCKS_PER_SEC * milliseconds(d)) % LongMod) \div 1000) % TickMod

(***************************************************************************)
(* clock_absTimeoutCalc (external, clockLibP.h): the ticks from `now', a   *)
(* reading of CLOCK_REALTIME, to the absolute time sec + frac, rounded up  *)
(* to a whole tick and 0 for a time that has passed.  It rejects a         *)
(* negative tv_nsec and then writes nothing: what the caller finds in its  *)
(* uninitialised sysTicks is any value.  So is the count for a deadline    *)
(* too far away for a _Vx_ticks_t, which the header does not define.       *)
(***************************************************************************)
CeilTicks(subs) == (subs * CLOCKS_PER_SEC + SubPerSec - 1) \div SubPerSec

clock_absTimeoutCalc(sec, frac, now) ==
  LET left == sec * SubPerSec + frac - now
  IN  IF frac < 0 THEN _Vx_ticks_t
      ELSE IF left <= 0 THEN {NO_WAIT}
      ELSE IF CeilTicks(left) < WAIT_FOREVER THEN {CeilTicks(left)}
      ELSE _Vx_ticks_t

\* A slip: the fraction of a second left out of the timespec.
time_point2tic_WholeSeconds(tp, now) ==
  clock_absTimeoutCalc(TruncDiv(tp, SubPerSec), 0, now)

(***************************************************************************)
(* time_point2tic: the values sysTicks may have.  tp counts subs since the *)
(* epoch of ITS clock; the function hands it to CLOCK_REALTIME as it is,   *)
(* whichever clock that was, and ignores the status of the calculation.    *)
(***************************************************************************)
time_point2tic(tp, now) ==
  LET secs == TruncDiv(tp, SubPerSec)
      ns   == tp - secs * SubPerSec
  IN  clock_absTimeoutCalc(secs, ns, now)

-------------------------------------------------------------------------------
\* The durations chrono2tic handles without wrap: the exact tick count fits
\* below WAIT_FOREVER.
InRange(d) ==
  /\ d >= 0
  /\ CLOCKS_PER_SEC * milliseconds(d) < LongMod
  /\ (CLOCKS_PER_SEC * milliseconds(d)) \div 1000 < WAIT_FOREVER
===============================================================================
