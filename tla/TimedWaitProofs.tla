--------------------------- MODULE TimedWaitProofs ---------------------------
(***************************************************************************)
(* Proofs about TimedWait, for every rate of the system clock, resolution  *)
(* of the caller's durations and width of the tick count: how far from the *)
(* time asked for a timed call may come back.  The inductive invariant     *)
(* counts in ticks: the ticks a pended call has had and those it has left  *)
(* add up to what the conversion made of the request, and a call that      *)
(* timed out did so in the very sub of its last tick.  That ticks bound    *)
(* the time asked for is then arithmetic.                                  *)
(***************************************************************************)
EXTENDS TimedWait, TLAPS

-------------------------------------------------------------------------------
(***************************************************************************)
(* Integer division.                                                       *)
(***************************************************************************)
\* The quotient is the last multiple of the divisor not above the dividend.
LEMMA DivBounds ==
  ASSUME NEW a \in Int, NEW b \in Nat \ {0}
  PROVE  /\ a \div b \in Int
         /\ b * (a \div b) <= a
         /\ a < b * (a \div b) + b
  OBVIOUS

\* A positive factor common to both sides may be cancelled.
LEMMA Cancel ==
  ASSUME NEW a \in Int, NEW b \in Int, NEW n \in Nat \ {0}, n * a < n * b
  PROVE  a < b
<1> SUFFICES ASSUME a >= b PROVE FALSE
  OBVIOUS
<1> PICK k \in Nat : a = b + k
  OBVIOUS
<1> n * a = n * b + n * k
  OBVIOUS
<1> n * k >= 0
  OBVIOUS
<1> QED
  OBVIOUS

\* A positive factor may be put on both sides.
LEMMA Scale ==
  ASSUME NEW a \in Int, NEW b \in Int, NEW n \in Nat, a <= b
  PROVE  n * a <= n * b
<1> PICK k \in Nat : b = a + k
  OBVIOUS
<1> n * b = n * a + n * k
  OBVIOUS
<1> n * k >= 0
  OBVIOUS
<1> QED
  OBVIOUS

\* What the rest of the proof needs of the constants.
LEMMA Constants ==
  /\ CLOCKS_PER_SEC \in Nat \ {0}
  /\ SubPerMs \in Nat \ {0}
  /\ SubPerSec \in Nat \ {0}
  /\ CLOCKS_PER_SEC <= SubPerSec
  /\ SubPerSec = 1000 * SubPerMs
  /\ TickMod \in Nat /\ LongMod \in Nat
  /\ TickMod > 2 /\ LongMod > TickMod
  BY TicsAssumption, TimedWaitAssumption DEF SubPerSec

-------------------------------------------------------------------------------
(***************************************************************************)
(* The tick interrupt.                                                     *)
(***************************************************************************)
\* The ticks up to an instant, and the time they stand for.
LEMMA TickBounds ==
  ASSUME NEW t \in Int
  PROVE  /\ TickCount(t) \in Int
         /\ SubPerSec * TickCount(t) <= Scaled(t)
         /\ Scaled(t) < SubPerSec * TickCount(t) + SubPerSec
         /\ Scaled(t) \in Int
<1> DEFINE a == t * CLOCKS_PER_SEC
<1>1. a \in Int
  BY Constants
<1>2. TickCount(t) = a \div SubPerSec /\ Scaled(t) = a
  BY DEF TickCount, Scaled
<1> HIDE DEF a
<1>3. /\ a \div SubPerSec \in Int
      /\ SubPerSec * (a \div SubPerSec) <= a
      /\ a < SubPerSec * (a \div SubPerSec) + SubPerSec
  <2> SubPerSec \in Nat \ {0}
    BY Constants
  <2> QED
    BY <1>1, DivBounds
<1> QED
  BY <1>1, <1>2, <1>3

\* A sub brings no tick or one.
LEMMA OneTickAtMost ==
  ASSUME NEW t \in Int
  PROVE  TickCount(t + 1) \in {TickCount(t), TickCount(t) + 1}
<1> DEFINE p == TickCount(t)
           q == TickCount(t + 1)
           S == SubPerSec
<1>1. /\ p \in Int /\ S * p <= Scaled(t) /\ Scaled(t) < S * p + S
      /\ Scaled(t) \in Int
  BY TickBounds
<1>2. /\ q \in Int /\ S * q <= Scaled(t + 1) /\ Scaled(t + 1) < S * q + S
      /\ Scaled(t + 1) \in Int
  BY TickBounds
<1>3. Scaled(t + 1) = Scaled(t) + CLOCKS_PER_SEC
  BY Constants DEF Scaled
<1>4. S \in Nat \ {0} /\ CLOCKS_PER_SEC \in Nat /\ CLOCKS_PER_SEC <= S
  BY Constants
<1> HIDE DEF p, q, S
<1>5. q < p + 2
  <2>1. S * (p + 2) = S * p + 2 * S
    BY <1>1, <1>4
  <2>2. S * q < S * (p + 2)
    BY <1>1, <1>2, <1>3, <1>4, <2>1
  <2> QED
    BY <1>1, <1>2, <1>4, <2>2, Cancel
<1>6. p < q + 1
  <2>1. S * (q + 1) = S * q + S
    BY <1>2, <1>4
  <2>2. S * p < S * (q + 1)
    BY <1>1, <1>2, <1>3, <1>4, <2>1
  <2> QED
    BY <1>1, <1>2, <1>4, <2>2, Cancel
<1>7. q \in {p, p + 1}
  BY <1>1, <1>2, <1>5, <1>6
<1> QED
  BY <1>7 DEF p, q

\* Fewer than n ticks take less time than n ticks; n ticks and the part of
\* one under way take more time than n - 1.
LEMMA TicksBetween ==
  ASSUME NEW a \in Int, NEW t \in Int, NEW n \in Int
  PROVE  /\ TickCount(t) - TickCount(a) < n => Scaled(t - a) < n * SubPerSec
         /\ TickCount(t) - TickCount(a) >= n =>
              Scaled(t - a) > (n - 1) * SubPerSec
<1> DEFINE p == TickCount(a)
           q == TickCount(t)
           S == SubPerSec
<1>1. /\ p \in Int /\ S * p <= Scaled(a) /\ Scaled(a) < S * p + S
      /\ Scaled(a) \in Int
  BY TickBounds
<1>2. /\ q \in Int /\ S * q <= Scaled(t) /\ Scaled(t) < S * q + S
      /\ Scaled(t) \in Int
  BY TickBounds
<1>3. Scaled(t - a) = Scaled(t) - Scaled(a)
  BY Constants DEF Scaled
<1>4. S \in Nat \ {0}
  BY Constants
<1> HIDE DEF p, q, S
<1>5. ASSUME q - p < n
      PROVE  Scaled(t - a) < n * S
  <2>1. S * (q + 1) <= S * (n + p)
    <3>1. q + 1 <= n + p
      BY <1>1, <1>2, <1>5
    <3> QED
      BY <1>1, <1>2, <1>4, <3>1, Scale
  <2>2. S * (q + 1) = S * q + S /\ S * (n + p) = n * S + S * p
    BY <1>1, <1>2, <1>4
  <2>3. S * q \in Int /\ S * p \in Int /\ n * S \in Int
    BY <1>1, <1>2, <1>4
  <2> QED
    BY <1>1, <1>2, <1>3, <1>4, <2>1, <2>2, <2>3
<1>6. ASSUME q - p >= n
      PROVE  Scaled(t - a) > (n - 1) * S
  <2>1. S * (n + p) <= S * q
    <3>1. n + p <= q
      BY <1>1, <1>2, <1>6
    <3> QED
      BY <1>1, <1>2, <1>4, <3>1, Scale
  <2>2. S * (n + p) = n * S + S * p /\ (n - 1) * S = n * S - S
    BY <1>1, <1>2, <1>4
  <2>3. S * q \in Int /\ S * p \in Int /\ n * S \in Int
    BY <1>1, <1>2, <1>4
  <2> QED
    BY <1>1, <1>2, <1>3, <1>4, <2>1, <2>2, <2>3
<1> QED
  BY <1>5, <1>6 DEF p, q, S

-------------------------------------------------------------------------------
(***************************************************************************)
(* The conversions.                                                        *)
(***************************************************************************)
\* A cast changes nothing of a number the unsigned type has.
LEMMA ModOfSmall ==
  ASSUME NEW a \in Int, NEW n \in Nat, 0 <= a, a < n
  PROVE  a % n = a
  OBVIOUS

\* A cast to an unsigned type yields one of its values.
LEMMA CastInRange ==
  ASSUME NEW a \in Int, NEW n \in Nat \ {0}
  PROVE  a % n \in 0 .. (n - 1)
  OBVIOUS

\* duration_cast<milliseconds> yields a count, the whole milliseconds of a
\* duration that is not negative.
LEMMA MillisecondsOf ==
  ASSUME NEW d \in Int
  PROVE  /\ milliseconds(d) \in Int
         /\ d >= 0 => /\ SubPerMs * milliseconds(d) <= d
                      /\ d < SubPerMs * milliseconds(d) + SubPerMs
                      /\ milliseconds(d) >= 0
<1>1. SubPerMs \in Nat \ {0}
  BY Constants
<1>2. d >= 0 => milliseconds(d) = d \div SubPerMs
  BY DEF milliseconds, TruncDiv
<1>3. ~(d >= 0) => milliseconds(d) = -((-d) \div SubPerMs)
  BY DEF milliseconds, TruncDiv
<1>4. /\ d \div SubPerMs \in Int
      /\ SubPerMs * (d \div SubPerMs) <= d
      /\ d < SubPerMs * (d \div SubPerMs) + SubPerMs
  BY <1>1, DivBounds
<1>5. (-d) \div SubPerMs \in Int
  BY <1>1, DivBounds
<1>6. d >= 0 => d \div SubPerMs >= 0
  <2> HAVE d >= 0
  <2> DEFINE q == d \div SubPerMs
  <2>1. q \in Int /\ d < SubPerMs * q + SubPerMs
    BY <1>4
  <2> HIDE DEF q
  <2>2. SubPerMs * 0 < SubPerMs * (q + 1)
    BY <1>1, <2>1
  <2>3. 0 < q + 1
    BY <1>1, <2>1, <2>2, Cancel
  <2>4. q >= 0
    BY <2>1, <2>3
  <2> QED
    BY <2>4 DEF q
<1> QED
  BY <1>2, <1>3, <1>4, <1>5, <1>6

\* The exact number of ticks in the milliseconds of a duration.
WholeTicks(d) == (CLOCKS_PER_SEC * milliseconds(d)) \div 1000

\* chrono2tic returns a _Vx_ticks_t and, of a duration in its range, the
\* exact number of whole ticks.
LEMMA Chrono2ticExact ==
  ASSUME NEW d \in Int
  PROVE  /\ chrono2tic(d) \in _Vx_ticks_t
         /\ InRange(d) => /\ chrono2tic(d) = WholeTicks(d)
                          /\ chrono2tic(d) < WAIT_FOREVER
<1> DEFINE p == CLOCKS_PER_SEC * milliseconds(d)
           r == p % LongMod
           q == r \div 1000
<1>1. p \in Int /\ (d >= 0 => p >= 0)
  <2> DEFINE m == milliseconds(d)
  <2>1. m \in Int /\ (d >= 0 => m >= 0)
    BY MillisecondsOf
  <2> HIDE DEF m
  <2>2. CLOCKS_PER_SEC \in Nat
    BY Constants
  <2>3. CLOCKS_PER_SEC * m \in Int
    BY <2>1, <2>2
  <2>4. m >= 0 => CLOCKS_PER_SEC * 0 <= CLOCKS_PER_SEC * m
    BY <2>1, <2>2, Scale
  <2> QED
    BY <2>1, <2>2, <2>3, <2>4 DEF m
<1>2. chrono2tic(d) = q % TickMod /\ WholeTicks(d) = p \div 1000
  BY DEF chrono2tic, WholeTicks
<1>3. InRange(d) => d >= 0 /\ p < LongMod /\ p \div 1000 < WAIT_FOREVER
  BY DEF InRange
<1> HIDE DEF p
<1>4. r \in Int
  BY <1>1, Constants, CastInRange
<1>5. q \in Int
  BY <1>4
<1>6. InRange(d) => r = p
  BY <1>1, <1>3, Constants, ModOfSmall
<1>7. p >= 0 => p \div 1000 >= 0
  BY <1>1
<1> HIDE DEF r
<1>8. InRange(d) => q = p \div 1000
  BY <1>6
<1> HIDE DEF q
<1>9. q % TickMod \in 0 .. (TickMod - 1)
  BY <1>5, Constants, CastInRange
<1>10. InRange(d) => q >= 0 /\ q < TickMod - 1
  BY <1>1, <1>3, <1>7, <1>8 DEF WAIT_FOREVER
<1>11. InRange(d) => q % TickMod = q
  BY <1>5, <1>10, Constants, ModOfSmall
<1> QED
  BY <1>2, <1>3, <1>8, <1>9, <1>10, <1>11 DEF _Vx_ticks_t

\* CeilTicks is the least number of ticks that is not less than a time.
LEMMA CeilBounds ==
  ASSUME NEW k \in Int
  PROVE  /\ CeilTicks(k) \in Int
         /\ Scaled(k) <= CeilTicks(k) * SubPerSec
         /\ CeilTicks(k) * SubPerSec < Scaled(k) + SubPerSec
         /\ k > 0 => CeilTicks(k) >= 1
<1> DEFINE s == Scaled(k)
           a == s + SubPerSec - 1
           c == CeilTicks(k)
<1>1. s \in Int /\ (k > 0 => s > 0)
  <2>1. CLOCKS_PER_SEC \in Nat \ {0}
    BY Constants
  <2>2. k * CLOCKS_PER_SEC \in Int
    BY <2>1
  <2>3. k >= 1 => CLOCKS_PER_SEC * 1 <= CLOCKS_PER_SEC * k
    BY <2>1, Scale
  <2> QED
    BY <2>1, <2>2, <2>3 DEF Scaled
<1>2. c = a \div SubPerSec
  BY DEF CeilTicks, Scaled
<1>3. SubPerSec \in Nat \ {0}
  BY Constants
<1> HIDE DEF s
<1>4. a \in Int
  BY <1>1, <1>3
<1>5. /\ c \in Int
      /\ SubPerSec * c <= a
      /\ a < SubPerSec * c + SubPerSec
  BY <1>2, <1>3, <1>4, DivBounds
<1> HIDE DEF c
<1>6. c * SubPerSec = SubPerSec * c /\ SubPerSec * c \in Int
  BY <1>3, <1>5
<1>7. s <= c * SubPerSec /\ c * SubPerSec < s + SubPerSec
  BY <1>1, <1>3, <1>5, <1>6
<1>8. k > 0 => c >= 1
  <2> HAVE k > 0
  <2>1. SubPerSec * 0 < SubPerSec * c
    BY <1>1, <1>3, <1>6, <1>7
  <2>2. 0 < c
    BY <1>3, <1>5, <2>1, Cancel
  <2> QED
    BY <1>5, <2>2
<1> QED
  BY <1>5, <1>7, <1>8 DEF c, s

\* The ticks to a deadline: none to one that has passed.
TicksUntil(tp, t) == IF tp <= t THEN NO_WAIT ELSE CeilTicks(tp - t)

\* time_point2tic leaves _Vx_ticks_ts in sysTicks and, of a deadline after
\* the epoch and near enough, the exact number of ticks, rounded up.
LEMMA TimePoint2ticExact ==
  ASSUME NEW tp \in Int, NEW t \in Int
  PROVE  /\ time_point2tic(tp, t) \subseteq _Vx_ticks_t
         /\ tp >= 0 /\ CeilTicks(tp - t) < WAIT_FOREVER =>
              time_point2tic(tp, t) = {TicksUntil(tp, t)}
<1> DEFINE secs == TruncDiv(tp, SubPerSec)
           ns   == tp - secs * SubPerSec
           rest == secs * SubPerSec + ns - t
<1>1. secs \in Int /\ ns \in Int /\ (tp >= 0 => ns >= 0)
  <2>1. SubPerSec \in Nat \ {0}
    BY Constants
  <2>2. /\ tp \div SubPerSec \in Int
        /\ SubPerSec * (tp \div SubPerSec) <= tp
    BY <2>1, DivBounds
  <2>3. (-tp) \div SubPerSec \in Int
    BY <2>1, DivBounds
  <2>4. secs \in Int
    BY <2>2, <2>3 DEF TruncDiv
  <2>5. tp >= 0 => secs = tp \div SubPerSec
    BY DEF TruncDiv
  <2> HIDE DEF secs
  <2>6. secs * SubPerSec = SubPerSec * secs /\ secs * SubPerSec \in Int
    BY <2>1, <2>4
  <2> QED
    BY <2>2, <2>4, <2>5, <2>6
<1>2. rest = tp - t
  <2> HIDE DEF secs
  <2>1. secs * SubPerSec \in Int
    BY <1>1, Constants
  <2> QED
    BY <2>1
<1>3. time_point2tic(tp, t) =
        IF ns < 0 THEN _Vx_ticks_t
        ELSE IF rest <= 0 THEN {NO_WAIT}
        ELSE IF CeilTicks(rest) < WAIT_FOREVER THEN {CeilTicks(rest)}
        ELSE _Vx_ticks_t
  BY DEF time_point2tic, clock_absTimeoutCalc
<1> HIDE DEF secs, ns, rest
<1>4. NO_WAIT \in _Vx_ticks_t
  BY Constants DEF NO_WAIT, _Vx_ticks_t
<1>5. rest > 0 /\ CeilTicks(rest) < WAIT_FOREVER =>
        CeilTicks(rest) \in _Vx_ticks_t
  <2>1. /\ rest \in Int /\ CeilTicks(rest) \in Int
        /\ rest > 0 => CeilTicks(rest) >= 1
    BY <1>2, CeilBounds
  <2> QED
    BY <2>1, Constants DEF WAIT_FOREVER, _Vx_ticks_t
<1>6. rest <= 0 \/ rest > 0
  BY <1>2
<1>7. time_point2tic(tp, t) \subseteq _Vx_ticks_t
  BY <1>3, <1>4, <1>5, <1>6
<1>8. ASSUME tp >= 0, CeilTicks(tp - t) < WAIT_FOREVER
      PROVE  time_point2tic(tp, t) = {TicksUntil(tp, t)}
  <2>1. ~(ns < 0)
    BY <1>1, <1>8
  <2>2. rest <= 0 <=> tp <= t
    BY <1>2
  <2> QED
    BY <1>2, <1>3, <1>8, <2>1, <2>2 DEF TicksUntil
<1> QED
  BY <1>7, <1>8
-------------------------------------------------------------------------------
(***************************************************************************)
(* The inductive invariant.                                                *)
(***************************************************************************)
\* The calls whose ticks can be told: a duration in the range of chrono2tic,
\* or a time point of the system clock, after the epoch and near enough.
Counted ==
  \/ form = "for" /\ InRange(asked)
  \/ form = "until" /\ asked >= 0 /\ CeilTicks(asked - began) < WAIT_FOREVER

\* What the conversion makes of the request.
Due == IF form = "for" THEN WholeTicks(asked) ELSE TicksUntil(asked, began)

TicksSince(t) == TickCount(t) - TickCount(began)

\* Ticks had and ticks left add up; the time was up with the last tick.
CountInv ==
  Counted =>
    /\ pc = "pended" => /\ left # WAIT_FOREVER
                        /\ left + TicksSince(now) = Due /\ Due >= 1
    /\ pc = "false" => \/ Due = 0 /\ now = began
                       \/ /\ TicksSince(now) = Due /\ Due >= 1
                          /\ TicksSince(now - 1) = Due - 1

PendedInv == pc = "pended" => left >= 1

IInv == TypeOK /\ PendedInv /\ CountInv

\* The invariant holds before the call.
LEMMA InitIInv == Init => IInv
<1> HAVE Init
<1>1. now \in Int /\ began \in Int
  BY TimedWaitAssumption DEF Init
<1>2. left \in _Vx_ticks_t
  BY Constants DEF Init, NO_WAIT, _Vx_ticks_t
<1>3. pc = "running" /\ form = "none" /\ asked = 0
  BY DEF Init
<1> QED
  BY <1>1, <1>2, <1>3 DEF IInv, TypeOK, PendedInv, CountInv

\* A call whose conversion gave the ticks due keeps the invariant: it has had
\* none of them yet.
LEMMA CallKeepsIInv ==
  ASSUME IInv, NEW n \in _Vx_ticks_t, semMTake(n), asked' \in Int,
         form' \in {"none", "for", "until", "until_steady"},
         Counted' => n = Due' /\ n # WAIT_FOREVER
  PROVE  IInv'
<1>1. began' = now /\ left' = n /\ now' = now
  BY DEF semMTake
<1>2. pc' = "true" \/ (n = 0 /\ pc' = "false") \/ (n # 0 /\ pc' = "pended")
  BY DEF semMTake, NO_WAIT
<1>3. now \in Int /\ n \in Int /\ n >= 0
  BY DEF IInv, TypeOK, _Vx_ticks_t
<1>4. TicksSince(now)' = 0
  <2>1. TickCount(now) \in Int
    BY <1>3, TickBounds
  <2>2. TicksSince(now)' = TickCount(now) - TickCount(now)
    BY <1>1 DEF TicksSince, TickCount
  <2> QED
    BY <2>1, <2>2
<1>5. TypeOK'
  BY <1>1, <1>2, <1>3 DEF TypeOK
<1>6. PendedInv'
  BY <1>1, <1>2, <1>3 DEF PendedInv
<1>7. CountInv'
  <2> SUFFICES ASSUME Counted' PROVE CountInv'
    BY DEF CountInv
  <2>1. n = Due' /\ n # WAIT_FOREVER
    OBVIOUS
  <2>2. CASE pc' = "true"
    BY <2>2 DEF CountInv
  <2>3. CASE n = 0 /\ pc' = "false"
    BY <1>1, <2>1, <2>3 DEF CountInv
  <2>4. CASE n # 0 /\ pc' = "pended"
    <3>1. left' + 0 = Due'
      <4>1. n + 0 = n
        BY <1>3
      <4> QED
        BY <1>1, <2>1, <4>1
    <3>2. left' # WAIT_FOREVER
      BY <1>1, <2>1
    <3>3. Due' >= 1
      BY <1>3, <2>1, <2>4
    <3> QED
      BY <1>4, <2>4, <3>1, <3>2, <3>3 DEF CountInv, WAIT_FOREVER
  <2> QED
    BY <1>2, <2>2, <2>3, <2>4
<1> QED
  BY <1>5, <1>6, <1>7 DEF IInv

\* try_lock_for keeps the invariant.
LEMMA ForKeepsIInv ==
  ASSUME IInv, NEW d \in Int, try_lock_for(d)
  PROVE  IInv'
<1>1. form' = "for" /\ asked' = d /\ semMTake(chrono2tic(d))
  BY DEF try_lock_for
<1>2. chrono2tic(d) \in _Vx_ticks_t
  BY Chrono2ticExact
<1>3. Counted' => chrono2tic(d) = Due' /\ chrono2tic(d) # WAIT_FOREVER
  <2> HAVE Counted'
  <2>1. InRange(d)
    BY <1>1 DEF Counted, InRange, milliseconds, TruncDiv, WAIT_FOREVER
  <2>2. chrono2tic(d) = WholeTicks(d) /\ chrono2tic(d) < WAIT_FOREVER
    BY <2>1, Chrono2ticExact
  <2>3. Due' = WholeTicks(d)
    BY <1>1 DEF Due, WholeTicks, milliseconds, TruncDiv
  <2>4. chrono2tic(d) # WAIT_FOREVER
    BY <1>2, <2>2, Constants DEF WAIT_FOREVER, _Vx_ticks_t
  <2> QED
    BY <2>2, <2>3, <2>4
<1> QED
  BY <1>1, <1>2, <1>3, CallKeepsIInv

\* try_lock_until keeps the invariant; of a steady time point it promises
\* nothing.
LEMMA UntilKeepsIInv ==
  ASSUME IInv, NEW f \in {"until", "until_steady"}, NEW tp \in Int,
         NEW epoch \in Int, f = "until" => epoch = 0,
         try_lock_until(f, tp, epoch)
  PROVE  IInv'
<1>1. form' = f /\ asked' = tp + epoch
  BY DEF try_lock_until
<1>2. PICK n \in time_point2tic(tp, now) : semMTake(n)
  BY DEF try_lock_until
<1>3. now \in Int
  BY DEF IInv, TypeOK
<1>4. n \in _Vx_ticks_t
  BY <1>2, <1>3, TimePoint2ticExact
<1>5. began' = now
  BY <1>2 DEF semMTake
<1>6. Counted' => n = Due' /\ n # WAIT_FOREVER
  <2> HAVE Counted'
  <2>1. form' = "until" /\ asked' = tp
    BY <1>1 DEF Counted
  <2>2. tp >= 0 /\ CeilTicks(tp - now) < WAIT_FOREVER
    BY <1>5, <2>1 DEF Counted, CeilTicks, WAIT_FOREVER, SubPerSec
  <2>3. n = TicksUntil(tp, now)
    BY <1>2, <1>3, <2>2, TimePoint2ticExact
  <2>4. Due' = TicksUntil(tp, now)
    BY <1>5, <2>1 DEF Due, TicksUntil, CeilTicks, NO_WAIT, SubPerSec
  <2>5. n # WAIT_FOREVER
    <3>1. CeilTicks(tp - now) \in Int
      BY <1>3, CeilBounds
    <3>2. n < WAIT_FOREVER
      BY <2>2, <2>3, Constants DEF TicksUntil, NO_WAIT, WAIT_FOREVER
    <3> QED
      BY <1>4, <3>2, Constants DEF WAIT_FOREVER, _Vx_ticks_t
  <2> QED
    BY <2>3, <2>4, <2>5
<1>7. asked' \in Int
  BY <1>1
<1> QED
  BY <1>1, <1>2, <1>4, <1>6, <1>7, CallKeepsIInv

\* A sub that passes keeps the invariant: the tick it may bring is one had and
\* one no longer left.
LEMMA AdvanceKeepsIInv ==
  ASSUME IInv, Advance
  PROVE  IInv'
<1>1. /\ pc = "pended" /\ left # WAIT_FOREVER /\ now' = now + 1
      /\ form' = form /\ asked' = asked /\ began' = began
  BY DEF Advance
<1>2. /\ now \in Int /\ began \in Int /\ left \in _Vx_ticks_t
      /\ left \in Int /\ left >= 1
  BY <1>1 DEF IInv, TypeOK, PendedInv, _Vx_ticks_t
<1>3. TypeOK'
  <2>1. /\ asked' \in Int /\ began' \in Int /\ now' \in Int
        /\ form' \in {"none", "for", "until", "until_steady"}
    BY <1>1, <1>2 DEF IInv, TypeOK
  <2>2. pc' \in {"pended", "false"} /\ left' \in {left, left - 1}
    BY <1>1 DEF Advance
  <2>3. left' \in _Vx_ticks_t
    BY <1>2, <2>2, Constants DEF _Vx_ticks_t
  <2> QED
    BY <2>1, <2>2, <2>3 DEF TypeOK
<1> DEFINE p == TickCount(began)
           q == TickCount(now)
           r == TickCount(now + 1)
<1>4. p \in Int /\ q \in Int /\ r \in {q, q + 1}
  BY <1>2, TickBounds, OneTickAtMost
<1>5. /\ TicksSince(now) = q - p
      /\ TicksSince(now)' = r - p
      /\ TicksSince(now - 1)' = q - p
  <2>1. now' - 1 = now
    BY <1>1, <1>2
  <2> QED
    BY <1>1, <2>1 DEF TicksSince, TickCount
<1>6. IF r > q THEN left' = left - 1 /\ pc' = IF left = 1 THEN "false" ELSE pc
               ELSE left' = left /\ pc' = pc
  BY <1>1 DEF Advance
<1>7. (Counted' <=> Counted) /\ Due' = Due
  BY <1>1 DEF Counted, Due, InRange, WholeTicks, TicksUntil, CeilTicks,
              milliseconds, TruncDiv, NO_WAIT, WAIT_FOREVER, SubPerSec
<1> HIDE DEF p, q, r
<1>8. PendedInv'
  BY <1>1, <1>2, <1>6 DEF PendedInv
<1>9. CountInv'
  <2> SUFFICES ASSUME Counted' PROVE CountInv'
    BY DEF CountInv
  <2>1. left + (q - p) = Due /\ Due >= 1
    BY <1>1, <1>5, <1>7 DEF IInv, CountInv
  <2>2. CASE pc' = "pended"
    <3>1. left' + (r - p) = Due
      BY <1>1, <1>2, <1>4, <1>6, <2>1, <2>2
    <3>2. left' # WAIT_FOREVER'
      BY <1>2, <1>6, <1>1 DEF WAIT_FOREVER, _Vx_ticks_t
    <3> QED
      BY <1>5, <1>7, <2>1, <2>2, <3>1, <3>2 DEF CountInv
  <2>3. CASE pc' = "false"
    <3>1. left = 1 /\ r = q + 1
      BY <1>1, <1>4, <1>6, <2>3
    <3>2. r - p = Due /\ q - p = Due - 1
      BY <1>4, <2>1, <3>1
    <3> QED
      BY <1>5, <1>7, <2>1, <2>3, <3>2 DEF CountInv
  <2> QED
    BY <1>1, <1>6, <2>2, <2>3
<1> QED
  BY <1>3, <1>8, <1>9 DEF IInv

\* So does every step.
LEMMA NextIInv == IInv /\ [Next]_vars => IInv'
<1> SUFFICES ASSUME IInv, [Next]_vars PROVE IInv'
  OBVIOUS
<1>1. now \in Int /\ Boot \in Int
  BY TimedWaitAssumption DEF IInv, TypeOK
<1>2. ASSUME NEW d \in Durations, try_lock_for(d) PROVE IInv'
  BY <1>2, TimedWaitAssumption, ForKeepsIInv
<1>3. ASSUME NEW k \in Offsets, try_lock_until("until", now + k, 0)
      PROVE  IInv'
  <2>1. k \in Int /\ now + k \in Int
    BY <1>1, TimedWaitAssumption
  <2> QED
    BY <1>3, <2>1, UntilKeepsIInv
<1>4. ASSUME NEW k \in Offsets,
             try_lock_until("until_steady", now - Boot + k, Boot)
      PROVE  IInv'
  <2>1. k \in Int /\ now - Boot + k \in Int
    BY <1>1, TimedWaitAssumption
  <2> QED
    BY <1>1, <1>4, <2>1, UntilKeepsIInv
<1>5. CASE Advance
  BY <1>5, AdvanceKeepsIInv
<1>6. CASE Given
  BY <1>6 DEF Given, IInv, TypeOK, PendedInv, CountInv
<1>7. CASE UNCHANGED vars
  BY <1>7 DEF vars, IInv, TypeOK, PendedInv, CountInv, Counted, Due, TicksSince,
              InRange, WholeTicks, TicksUntil, CeilTicks, milliseconds,
              TruncDiv, NO_WAIT, WAIT_FOREVER, SubPerSec, TickCount,
              _Vx_ticks_t
<1> QED
  BY <1>2, <1>3, <1>4, <1>5, <1>6, <1>7 DEF Next
(***************************************************************************)
(* Every state a call reaches has the invariant.                           *)
(***************************************************************************)
THEOREM Invariance == Spec => []IInv
<1>1. Init => IInv
  BY InitIInv
<1>2. IInv /\ [Next]_vars => IInv'
  BY NextIInv
<1> QED
  BY <1>1, <1>2, PTL DEF Spec

-------------------------------------------------------------------------------
(***************************************************************************)
(* From ticks to time.                                                     *)
(***************************************************************************)
\* The whole ticks of a duration stand for no more than it, and for less than
\* a tick and a millisecond less.
LEMMA WholeTicksBounds ==
  ASSUME NEW d \in Int, d >= 0
  PROVE  /\ WholeTicks(d) \in Int
         /\ WholeTicks(d) * SubPerSec <= Scaled(d)
         /\ Scaled(d) < WholeTicks(d) * SubPerSec + SubPerSec + Scaled(SubPerMs)
<1> DEFINE C == CLOCKS_PER_SEC
           P == SubPerMs
           m == milliseconds(d)
           n == WholeTicks(d)
<1>1. /\ C \in Nat \ {0} /\ P \in Nat \ {0} /\ SubPerSec = 1000 * P
      /\ Scaled(d) = C * d /\ Scaled(P) = C * P
  BY Constants DEF Scaled
<1>2. m \in Int /\ P * m <= d /\ d < P * m + P
  BY MillisecondsOf
<1>3. n = (C * m) \div 1000
  BY DEF WholeTicks
<1> HIDE DEF C, P, m, n
<1>4. C * m \in Int
  BY <1>1, <1>2
<1>5. n \in Int /\ 1000 * n <= C * m /\ C * m < 1000 * n + 1000
  BY <1>3, <1>4, DivBounds
<1>6. P * (1000 * n) <= P * (C * m) /\ P * (C * m + 1) <= P * (1000 * n + 1000)
  <2>1. /\ 1000 * n \in Int /\ C * m + 1 \in Int /\ 1000 * n + 1000 \in Int
        /\ C * m + 1 <= 1000 * n + 1000
    BY <1>4, <1>5
  <2> QED
    BY <1>1, <1>4, <1>5, <2>1, Scale
<1>7. C * (P * m) <= C * d /\ C * (d + 1) <= C * (P * m + P)
  <2>1. /\ P * m \in Int /\ d + 1 \in Int /\ P * m + P \in Int
        /\ d + 1 <= P * m + P
    BY <1>1, <1>2
  <2> QED
    BY <1>1, <1>2, <2>1, Scale
<1>8. /\ P * (1000 * n) = n * SubPerSec
      /\ P * (1000 * n + 1000) = n * SubPerSec + SubPerSec
      /\ P * (C * m) = C * (P * m)
      /\ P * (C * m + 1) = C * (P * m) + P
      /\ C * (d + 1) = C * d + C
      /\ C * (P * m + P) = C * (P * m) + C * P
  BY <1>1, <1>2, <1>5
<1>9. /\ n * SubPerSec \in Int /\ C * (P * m) \in Int /\ C * d \in Int
      /\ C * P \in Int /\ SubPerSec \in Int
  BY <1>1, <1>2, <1>5
<1>10. /\ n * SubPerSec <= C * d
       /\ C * d < n * SubPerSec + SubPerSec + C * P
  BY <1>1, <1>6, <1>7, <1>8, <1>9
<1> QED
  BY <1>1, <1>5, <1>10 DEF n, P

\* A call that timed out has waited for its ticks, the last of which came in
\* the last sub.
LEMMA TimedOut ==
  ASSUME IInv, Counted, pc = "false"
  PROVE  \/ Due = 0 /\ now = began
         \/ /\ Due \in Int /\ Due >= 1
            /\ Scaled(now - began) > (Due - 1) * SubPerSec
            /\ Scaled(now - 1 - began) < Due * SubPerSec
<1> SUFFICES ASSUME ~(Due = 0 /\ now = began)
             PROVE  /\ Due \in Int /\ Due >= 1
                    /\ Scaled(now - began) > (Due - 1) * SubPerSec
                    /\ Scaled(now - 1 - began) < Due * SubPerSec
  OBVIOUS
<1>1. now \in Int /\ began \in Int /\ now - 1 \in Int
  BY DEF IInv, TypeOK
<1>2. TickCount(now) \in Int /\ TickCount(began) \in Int
      /\ TickCount(now - 1) \in Int
  BY <1>1, TickBounds
<1>3. /\ TickCount(now) - TickCount(began) = Due /\ Due >= 1
      /\ TickCount(now - 1) - TickCount(began) = Due - 1
  BY DEF IInv, CountInv, TicksSince
<1>4. Due \in Int
  BY <1>2, <1>3
<1>5. Scaled(now - began) > (Due - 1) * SubPerSec
  BY <1>1, <1>2, <1>3, <1>4, TicksBetween
<1>6. Scaled(now - 1 - began) < Due * SubPerSec
  <2>1. TickCount(now - 1) - TickCount(began) < Due
    BY <1>2, <1>3, <1>4
  <2> QED
    BY <1>1, <1>4, <2>1, TicksBetween
<1> QED
  BY <1>3, <1>4, <1>5, <1>6

(***************************************************************************)
(* A duration of try_lock_for is an upper bound: chrono2tic rounds down.   *)
(***************************************************************************)
THEOREM NoOverrun == Spec => []NeverOverruns
<1>1. IInv => NeverOverruns
  <2> SUFFICES ASSUME IInv, form = "for", InRange(asked), pc = "false"
               PROVE  Elapsed <= asked
    BY DEF NeverOverruns
  <2>1. /\ now \in Int /\ began \in Int /\ asked \in Int /\ asked >= 0
    BY DEF IInv, TypeOK, InRange
  <2>2. Counted /\ Due = WholeTicks(asked)
    BY DEF Counted, Due
  <2>3. CASE now = began
    BY <2>1, <2>3 DEF Elapsed
  <2>4. CASE now # began
    <3> DEFINE n == WholeTicks(asked) * SubPerSec
               e == now - 1 - began
    <3>1. Scaled(e) < n
      BY <2>2, <2>4, TimedOut
    <3>2. n <= Scaled(asked)
      BY <2>1, WholeTicksBounds
    <3>3. n \in Int /\ e \in Int
      BY <2>1, WholeTicksBounds, Constants
    <3> HIDE DEF n, e
    <3>4. /\ Scaled(e) = CLOCKS_PER_SEC * e
          /\ Scaled(asked) = CLOCKS_PER_SEC * asked
          /\ CLOCKS_PER_SEC \in Nat \ {0}
      BY <2>1, <3>3, Constants DEF Scaled
    <3>5. CLOCKS_PER_SEC * e < CLOCKS_PER_SEC * asked
      BY <2>1, <3>1, <3>2, <3>3, <3>4
    <3>6. e < asked
      BY <2>1, <3>3, <3>4, <3>5, Cancel
    <3> QED
      BY <2>1, <3>6 DEF e, Elapsed
  <2> QED
    BY <2>3, <2>4
<1> QED
  BY <1>1, Invariance, PTL

(***************************************************************************)
(* And the bound is nearly met: what truncation to milliseconds and ticks  *)
(* and the tick under way at the call take from the wait is bounded.       *)
(***************************************************************************)
THEOREM ShortfallIsBounded == Spec => []ShortfallBounded
<1>1. IInv => ShortfallBounded
  <2> SUFFICES ASSUME IInv, form = "for", InRange(asked), pc = "false"
               PROVE  Scaled(asked - Elapsed) < 2 * SubPerSec + Scaled(SubPerMs)
    BY DEF ShortfallBounded
  <2>1. /\ now \in Int /\ began \in Int /\ asked \in Int /\ asked >= 0
        /\ Elapsed = now - began /\ Elapsed \in Int
    BY DEF IInv, TypeOK, InRange, Elapsed
  <2>2. Counted /\ Due = WholeTicks(asked)
    BY DEF Counted, Due
  <2> DEFINE w == WholeTicks(asked)
             n == w * SubPerSec
  <2>3. /\ w \in Int
        /\ Scaled(asked) < n + SubPerSec + Scaled(SubPerMs)
    BY <2>1, WholeTicksBounds
  <2>4. (w = 0 /\ now = began) \/ Scaled(Elapsed) > (w - 1) * SubPerSec
    BY <2>1, <2>2, TimedOut
  <2> HIDE DEF w
  <2>5. /\ Scaled(asked - Elapsed) = Scaled(asked) - Scaled(Elapsed)
        /\ Scaled(asked) \in Int /\ Scaled(Elapsed) \in Int
        /\ Scaled(SubPerMs) \in Int /\ SubPerSec \in Nat /\ n \in Int
        /\ (w - 1) * SubPerSec = n - SubPerSec
    BY <2>1, <2>3, Constants DEF Scaled
  <2>6. w = 0 /\ now = began => n = 0 /\ Scaled(Elapsed) = 0
    BY <2>1, Constants DEF Scaled
  <2>7. Scaled(Elapsed) > n - SubPerSec \/ (n = 0 /\ Scaled(Elapsed) = 0)
    BY <2>4, <2>5, <2>6
  <2> HIDE DEF n
  <2> QED
    BY <2>3, <2>5, <2>7
<1> QED
  BY <1>1, Invariance, PTL

(***************************************************************************)
(* A deadline of the system clock is kept to within a tick on either side. *)
(***************************************************************************)
THEOREM DeadlineIsKept == Spec => []DeadlineKept
<1>1. IInv => DeadlineKept
  <2> SUFFICES ASSUME IInv, form = "until", asked >= 0,
                      pc \in {"pended", "false"},
                      CeilTicks(asked - began) < WAIT_FOREVER
               PROVE  /\ pc = "pended" =>
                           asked > began /\ Scaled(now - asked) < SubPerSec
                      /\ pc = "false" =>
                           /\ Scaled(now - asked) > -SubPerSec
                           /\ Scaled(now - 1 - asked) < SubPerSec \/ now = began
    BY DEF DeadlineKept
  <2>1. /\ now \in Int /\ began \in Int /\ asked \in Int
        /\ left \in Int /\ (pc = "pended" => left >= 1)
    BY DEF IInv, TypeOK, PendedInv, _Vx_ticks_t
  <2>2. Counted /\ Due = TicksUntil(asked, began)
    BY DEF Counted, Due
  <2> DEFINE w == CeilTicks(asked - began)
             n == w * SubPerSec
             k == Scaled(asked - began)
  <2>3. w \in Int /\ k <= n /\ n < k + SubPerSec
    BY <2>1, CeilBounds
  <2>4. (asked <= began => Due = 0) /\ (~(asked <= began) => Due = w)
    BY <2>2 DEF TicksUntil, NO_WAIT
  <2> HIDE DEF w
  <2>5. /\ n \in Int /\ k \in Int /\ SubPerSec \in Nat \ {0}
        /\ (w - 1) * SubPerSec = n - SubPerSec
    BY <2>1, <2>3, Constants DEF Scaled
  <2>6. /\ Scaled(now - asked) = Scaled(now - began) - k
        /\ Scaled(now - 1 - asked) = Scaled(now - 1 - began) - k
        /\ Scaled(now - began) \in Int /\ Scaled(now - 1 - began) \in Int
    BY <2>1, Constants DEF Scaled
  <2> HIDE DEF n, k
  <2>7. ASSUME pc = "pended"
        PROVE  asked > began /\ Scaled(now - asked) < SubPerSec
    <3>1. left + TicksSince(now) = Due /\ Due >= 1
      BY <2>2, <2>7 DEF IInv, CountInv
    <3>2. asked > began /\ Due = w
      BY <2>1, <2>4, <3>1
    <3>3. TickCount(now) \in Int /\ TickCount(began) \in Int
      BY <2>1, TickBounds
    <3>4. TickCount(now) - TickCount(began) < w
      BY <2>1, <2>3, <2>7, <3>1, <3>2, <3>3 DEF TicksSince
    <3>5. Scaled(now - began) < w * SubPerSec
      BY <2>1, <2>3, <3>4, TicksBetween
    <3>6. Scaled(now - began) < n
      BY <3>5 DEF n
    <3> QED
      BY <2>3, <2>5, <2>6, <3>2, <3>6
  <2>8. ASSUME pc = "false"
        PROVE  /\ Scaled(now - asked) > -SubPerSec
               /\ Scaled(now - 1 - asked) < SubPerSec \/ now = began
    <3>1. CASE Due = 0 /\ now = began
      <4>1. asked <= began
        <5>1. asked > began => w >= 1
          BY <2>1, CeilBounds DEF w
        <5> QED
          BY <2>1, <2>3, <2>4, <3>1, <5>1
      <4>2. now - asked >= 0 /\ now - asked \in Int
        BY <2>1, <3>1, <4>1
      <4>3. CLOCKS_PER_SEC * 0 <= CLOCKS_PER_SEC * (now - asked)
        BY <4>2, Constants, Scale
      <4>4. /\ Scaled(now - asked) = CLOCKS_PER_SEC * (now - asked)
            /\ Scaled(now - asked) \in Int
            /\ CLOCKS_PER_SEC * 0 = 0
        BY <4>2, Constants DEF Scaled
      <4> QED
        BY <2>5, <3>1, <4>3, <4>4
    <3>2. CASE /\ Due >= 1
               /\ Scaled(now - began) > (Due - 1) * SubPerSec
               /\ Scaled(now - 1 - began) < Due * SubPerSec
      <4>1. Due = w
        BY <2>1, <2>4, <3>2
      <4>2. /\ Scaled(now - began) > n - SubPerSec
            /\ Scaled(now - 1 - began) < n
        BY <2>5, <3>2, <4>1 DEF n
      <4> QED
        BY <2>3, <2>5, <2>6, <4>2
    <3> QED
      BY <2>2, <2>8, <3>1, <3>2, TimedOut
  <2> QED
    BY <2>7, <2>8
<1> QED
  BY <1>1, Invariance, PTL
===============================================================================
