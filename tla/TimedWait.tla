------------------------------- MODULE TimedWait -------------------------------
(***************************************************************************)
(* One timed call of the library against a running clock: the caller asks  *)
(* for a duration or a deadline, the wrapper converts it with the helpers  *)
(* of chrono2tic.hpp, the kernel counts ticks.  timed_mutex, in mutex.hpp, *)
(* has the two forms of call; shared_timed_mutex, the semaphores, the      *)
(* queues and event convert their durations and deadlines in the same way. *)
(***************************************************************************)
EXTENDS Tics

CONSTANTS
  Starts,      \* instants (CLOCK_REALTIME, in subs) at which the call is made
  Durations,   \* durations asked for
  Offsets,     \* deadlines asked for, relative to the instant of the call
  Boot         \* realtime at which steady_clock read 0

ASSUME TimedWaitAssumption ==
  /\ CLOCKS_PER_SEC <= SubPerSec        \* at most one tick per sub
  /\ Starts \subseteq Nat
  /\ Durations \subseteq Int
  /\ Offsets \subseteq Int
  /\ Boot \in Nat

VARIABLES
  pc,     \* "running", "pended", or the value returned: "true", "false"
  form,   \* what was asked for: "for", "until", "until_steady"
  asked,  \* the duration; for a deadline the realtime instant it denotes
  began,  \* instant of the call
  now,    \* CLOCK_REALTIME
  left    \* ticks the pended call has left, or WAIT_FOREVER

vars == <<pc, form, asked, began, now, left>>

Init ==
  /\ pc = "running" /\ form = "none"
  /\ now \in Starts /\ began = now
  /\ asked = 0 /\ left = NO_WAIT

-------------------------------------------------------------------------------
(***************************************************************************)
(* semMTake and its kin (external) with a timeout of n ticks: the resource *)
(* is free and taken at once, or the caller pends, or with NO_WAIT gets    *)
(* ERROR.                                                                  *)
(***************************************************************************)
semMTake(n) ==
  /\ began' = now /\ left' = n
  /\ \/ pc' = "true"
     \/ pc' = IF n = NO_WAIT THEN "false" ELSE "pended"
  /\ UNCHANGED now

\* timed_mutex::try_lock_for(relTime)
try_lock_for(d) ==
  /\ pc = "running"
  /\ form' = "for" /\ asked' = d
  /\ semMTake(chrono2tic(d))

\* timed_mutex::try_lock_until(abs_time).  The time point tp is counted from
\* the epoch of its clock, which lies `epoch' subs after that of
\* CLOCK_REALTIME.  Both branches on tics == 0 pass tics (NO_WAIT is 0).
try_lock_until(f, tp, epoch) ==
  /\ pc = "running"
  /\ form' = f /\ asked' = tp + epoch
  /\ \E tics \in time_point2tic(tp, now) : semMTake(tics)

(***************************************************************************)
(* The clock (external).  Time passes one sub at a time; a tick interrupt  *)
(* comes each time the number of whole ticks since the epoch grows.  Only  *)
(* a wait that counts ticks needs time to pass.                            *)
(***************************************************************************)
TickCount(t) == (t * CLOCKS_PER_SEC) \div SubPerSec

Advance ==
  /\ pc = "pended" /\ left # WAIT_FOREVER
  /\ now' = now + 1
  /\ IF TickCount(now + 1) > TickCount(now)
       THEN /\ left' = left - 1
            /\ pc' = IF left = 1 THEN "false" ELSE "pended"
       ELSE UNCHANGED <<left, pc>>
  /\ UNCHANGED <<form, asked, began>>

\* Another task gives the resource before the time is up (external).
Given ==
  /\ pc = "pended"
  /\ pc' = "true"
  /\ UNCHANGED <<form, asked, began, now, left>>

Next ==
  \/ \E d \in Durations : try_lock_for(d)
  \/ \E k \in Offsets : try_lock_until("until", now + k, 0)
  \/ \E k \in Offsets : try_lock_until("until_steady", now - Boot + k, Boot)
  \/ Advance
  \/ Given

Spec == Init /\ [][Next]_vars

-------------------------------------------------------------------------------
\* The types of the variables.
TypeOK ==
  /\ pc \in {"running", "pended", "true", "false"}
  /\ form \in {"none", "for", "until", "until_steady"}
  /\ asked \in Int /\ began \in Int /\ now \in Int
  /\ left \in _Vx_ticks_t

Elapsed == now - began

\* n ticks, in units of which a sub is CLOCKS_PER_SEC.
Scaled(subs) == subs * CLOCKS_PER_SEC

(***************************************************************************)
(* A call of try_lock_for that fails has not kept its caller longer than   *)
(* the duration asked for: chrono2tic only rounds down.                    *)
(***************************************************************************)
NeverOverruns ==
  form = "for" /\ InRange(asked) /\ pc = "false" => Elapsed <= asked

(***************************************************************************)
(* Nor has it come back much too soon: what the truncation to milliseconds *)
(* and to ticks and the tick already under way take from the wait is less  *)
(* than two ticks and a millisecond.                                       *)
(***************************************************************************)
ShortfallBounded ==
  form = "for" /\ InRange(asked) /\ pc = "false" =>
    Scaled(asked - Elapsed) < 2 * SubPerSec + Scaled(SubPerMs)

(***************************************************************************)
(* try_lock_until with a time point of the system clock, near enough for a *)
(* _Vx_ticks_t, fails less than a tick before its deadline and, up to the  *)
(* sub in which the tick comes, less than a tick after; at once only when  *)
(* the deadline has passed.                                                *)
(***************************************************************************)
DeadlineKept ==
  /\ form = "until" /\ asked >= 0 /\ pc \in {"pended", "false"}
  /\ CeilTicks(asked - began) < WAIT_FOREVER
  =>
  /\ pc = "pended" => asked > began /\ Scaled(now - asked) < SubPerSec
  /\ pc = "false" => /\ Scaled(now - asked) > -SubPerSec
                     /\ Scaled(now - 1 - asked) < SubPerSec \/ now = began
===============================================================================
