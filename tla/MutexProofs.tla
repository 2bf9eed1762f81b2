----------------------------- MODULE MutexProofs -----------------------------
(***************************************************************************)
(* Proofs about Mutex, for any tasks, priorities, classes, options, calls, *)
(* timeouts and tick widths.  IInv is the inductive invariant: the state   *)
(* is well typed, whoever pends waits for an owner of a live mutex, and    *)
(* every level a caller counts on is a level of the semaphore it owns.     *)
(* DueInv, of failures, and KnowInv, of what an owner knows, are inductive *)
(* relative to it.                                                         *)
(***************************************************************************)
EXTENDS Mutex, TLAPS

-------------------------------------------------------------------------------
(***************************************************************************)
(* The conversions of Tics yield ticks.                                    *)
(***************************************************************************)
\* The remainder of a cast to an unsigned type is a value of that type.
LEMMA ModInRange ==
  ASSUME NEW a \in Int, NEW n \in Nat \ {0}
  PROVE  a % n \in 0 .. (n - 1)
  OBVIOUS

\* Integer division of a count by a positive number is a count.
LEMMA DivNat ==
  ASSUME NEW a \in Nat, NEW b \in Nat \ {0}
  PROVE  a \div b \in Nat
  OBVIOUS

\* duration_cast<milliseconds> yields a count, whatever the sign.
LEMMA MillisecondsInt ==
  ASSUME NEW d \in Int
  PROVE  milliseconds(d) \in Int
  BY TicsAssumption DEF milliseconds, TruncDiv

\* chrono2tic returns a _Vx_ticks_t, whatever it is given.
LEMMA Chrono2ticType ==
  ASSUME NEW d \in Int
  PROVE  chrono2tic(d) \in _Vx_ticks_t
<1> DEFINE p == CLOCKS_PER_SEC * milliseconds(d)
<1>1. p \in Int
  BY MillisecondsInt, TicsAssumption
<1> HIDE DEF p
<1>2. LongMod \in Nat \ {0}
  BY TicsAssumption
<1>3. p % LongMod \in Nat
  BY <1>1, <1>2, ModInRange
<1>4. (p % LongMod) \div 1000 \in Int
  BY <1>3, DivNat
<1> DEFINE q == (p % LongMod) \div 1000
<1> HIDE DEF q
<1>5. q % TickMod \in 0 .. (TickMod - 1)
  <2>1. q \in Int /\ TickMod \in Nat \ {0}
    BY <1>4, TicsAssumption DEF q
  <2> QED
    BY <2>1, ModInRange
<1> QED
  BY <1>5 DEF p, q, chrono2tic, _Vx_ticks_t

\* A division by the subs of a second is a division by a positive number.
LEMMA SubPerSecPositive == SubPerSec \in Nat \ {0}
  BY TicsAssumption DEF SubPerSec

\* sysTicks holds a _Vx_ticks_t, whatever the calculation was given.
LEMMA AbsTimeoutType ==
  ASSUME NEW sec \in Int, NEW frac \in Int, NEW now \in Int
  PROVE  clock_absTimeoutCalc(sec, frac, now) \subseteq _Vx_ticks_t
<1> DEFINE left == sec * SubPerSec + frac - now
<1>1. left \in Int
  BY SubPerSecPositive
<1>2. NO_WAIT \in _Vx_ticks_t
  BY TicsAssumption DEF NO_WAIT, _Vx_ticks_t
<1>3. left > 0 /\ CeilTicks(left) < WAIT_FOREVER =>
        CeilTicks(left) \in _Vx_ticks_t
  <2> HIDE DEF left
  <2> HAVE left > 0 /\ CeilTicks(left) < WAIT_FOREVER
  <2>1. left * CLOCKS_PER_SEC \in Nat
    BY <1>1, TicsAssumption
  <2> DEFINE num == left * CLOCKS_PER_SEC + SubPerSec - 1
  <2>2. num \in Nat
    BY <2>1, SubPerSecPositive
  <2> HIDE DEF num
  <2>3. num \div SubPerSec \in Nat
    BY <2>2, SubPerSecPositive, DivNat
  <2> QED
    BY <2>3, TicsAssumption DEF num, CeilTicks, WAIT_FOREVER, _Vx_ticks_t
<1>4. clock_absTimeoutCalc(sec, frac, now) =
        IF frac < 0 THEN _Vx_ticks_t
        ELSE IF left <= 0 THEN {NO_WAIT}
        ELSE IF CeilTicks(left) < WAIT_FOREVER THEN {CeilTicks(left)}
        ELSE _Vx_ticks_t
  BY DEF clock_absTimeoutCalc
<1> HIDE DEF left
<1>5. left <= 0 \/ left > 0
  BY <1>1
<1> QED
  BY <1>2, <1>3, <1>4, <1>5

\* time_point2tic leaves a _Vx_ticks_t in sysTicks, whatever it is given.
LEMMA TimePoint2ticType ==
  ASSUME NEW tp \in Int, NEW now \in Int
  PROVE  time_point2tic(tp, now) \subseteq _Vx_ticks_t
<1> DEFINE secs == TruncDiv(tp, SubPerSec)
<1>1. secs \in Int
  BY SubPerSecPositive DEF TruncDiv
<1> HIDE DEF secs
<1>2. tp - secs * SubPerSec \in Int
  BY <1>1, SubPerSecPositive
<1>3. clock_absTimeoutCalc(secs, tp - secs * SubPerSec, now) \subseteq _Vx_ticks_t
  BY <1>1, <1>2, AbsTimeoutType
<1> QED
  BY <1>3 DEF time_point2tic, secs

-------------------------------------------------------------------------------
IInv == TypeOK /\ NoLostHandOver /\ HoldingsBacked

\* The methods that ask for the semaphore.
Asking == Takers \cup {"give_quickly_for"}

\* The methods, spelled out.
LEMMA MethodsTyped ==
  /\ Methods = CommonMethods \cup {"take_quickly", "give_quickly", "take",
                 "try_lock_for", "try_lock_until", "take_quickly_for",
                 "give_quickly_for"}
  /\ Takers \subseteq Methods
<1>1. /\ MethodsOf["mutex"] = CommonMethods \cup {"take_quickly", "give_quickly"}
      /\ MethodsOf["timed_mutex"] =
           CommonMethods \cup {"take", "try_lock_for", "try_lock_until",
                               "take_quickly_for", "give_quickly_for"}
      /\ MethodsOf["recursive_timed_mutex"] = MethodsOf["timed_mutex"]
      /\ MethodsOf["mutexCommon"] = CommonMethods
      /\ MethodsOf["recursive_mutex"] = CommonMethods
  BY DEF MethodsOf, Classes
<1> QED
  BY <1>1 DEF Methods, Classes, CommonMethods, Takers

\* The invariant holds of a mutex that has just been made.
LEMMA InitIInv == Init => IInv
<1> HAVE Init
<1>1. class \in Classes
  BY MutexAssumption DEF Init, Classes
<1>2. NO_WAIT \in _Vx_ticks_t
  BY TicsAssumption DEF NO_WAIT, _Vx_ticks_t
<1>3. TypeOK
  BY <1>1, <1>2 DEF Init, TypeOK
<1>4. NoLostHandOver
  BY DEF Init, NoLostHandOver, Pended
<1>5. HoldingsBacked
  BY MutexAssumption
  DEF Init, HoldingsBacked, HoldersOwn, LevelsCounted, InFlight
<1> QED
  BY <1>3, <1>4, <1>5 DEF IInv

-------------------------------------------------------------------------------
(***************************************************************************)
(* Each step preserves IInv.                                               *)
(***************************************************************************)
\* A call that asks for the semaphore: it is answered at once or pends.
LEMMA AskingKeepsIInv ==
  ASSUME IInv, NEW t \in Tasks, NEW m \in Asking, NEW n \in _Vx_ticks_t,
         NEW flags, Enter(t, m), semMTake(t, n, flags),
         \/ UNCHANGED held
         \/ held' = [held EXCEPT ![t] = IF @ > 0 THEN @ - 1 ELSE 0]
  PROVE  IInv'
<1> USE DEF IInv
<1>0. m \in Methods
  BY MethodsTyped DEF Asking
<1>1. TypeOK'
  BY <1>0 DEF TypeOK, Enter, semMTake, Answer, kernel, object
<1>2. NoLostHandOver'
  BY MutexAssumption
  DEF TypeOK, NoLostHandOver, Pended, Enter, semMTake, Answer, kernel
<1>3. HoldersOwn'
  BY MutexAssumption DEF TypeOK, HoldingsBacked, HoldersOwn, InFlight, Enter,
    semMTake, Answer, kernel
<1>4. LevelsCounted'
  BY MutexAssumption DEF TypeOK, HoldingsBacked, HoldersOwn, LevelsCounted,
    InFlight, Enter, semMTake, Answer, kernel
<1> QED
  BY <1>1, <1>2, <1>3, <1>4 DEF HoldingsBacked

\* The methods that ask for nothing.
Letting == {"unlock", "operator++", "give", "give_quickly"}

\* A call that gives the semaphore back: to nobody, to the first in the queue,
\* or, given back inconsistent, to nobody ever.
LEMMA GivingKeepsIInv ==
  ASSUME IInv, NEW t \in Tasks, NEW m \in Letting,
         Giving(t, m), semMGive(t), UNCHANGED timeout
  PROVE  IInv'
<1> USE DEF IInv
<1>0. m \in Methods /\ m \notin Takers
  BY MethodsTyped DEF Letting, CommonMethods, Takers
<1>1. TypeOK'
  BY <1>0 DEF TypeOK, Giving, Enter, semMGive, HandOver, FailPended, Answer,
    kernel, object, Heirs, Pended
<1>2. NoLostHandOver'
  BY MutexAssumption DEF TypeOK, NoLostHandOver, Pended, Heirs, Giving, Enter,
    semMGive, HandOver, FailPended, Answer, kernel
<1>3. HoldingsBacked'
  <2>1. CASE owner # t \/ depth > 1
    BY <1>0, <2>1, MutexAssumption DEF TypeOK, HoldingsBacked, HoldersOwn,
      LevelsCounted, InFlight, Giving, Enter, semMGive, Answer, kernel
  <2>2. ASSUME owner = t, depth = 1 PROVE \A u \in Tasks : held'[u] = 0
    BY <2>2 DEF TypeOK, HoldingsBacked, HoldersOwn, LevelsCounted, Giving
  <2>3. CASE owner = t /\ depth = 1 /\ health = "consistent"
    <3>1. \A u \in Tasks : InFlight(u)' =>
            u \in Heirs(Pended \ {t}) /\ owner' = u /\ depth' = 1
      BY <1>0, <2>3 DEF TypeOK, HoldingsBacked, HoldersOwn, InFlight, Giving,
        Enter, semMGive, HandOver, Heirs, Pended
    <3>2. owner' \in Tasks => depth' = 1
      BY <2>3, MutexAssumption DEF semMGive, HandOver
    <3>3. health' = "consistent"
      BY <2>3 DEF semMGive
    <3> QED
      BY <2>2, <2>3, <3>1, <3>2, <3>3
      DEF HoldingsBacked, HoldersOwn, LevelsCounted
  <2>4. CASE owner = t /\ depth = 1 /\ health = "inconsistent"
    <3>1. owner' = NoTask
      BY <2>4 DEF semMGive
    <3>2. \A u \in Tasks : ~InFlight(u)'
      <4> TAKE u \in Tasks
      <4>1. /\ pc[t] = "ready" /\ FailPended(t, "returning")
            /\ method' = [method EXCEPT ![t] = m]
        BY <2>4 DEF Giving, Enter, semMGive
      <4>2. CASE u = t
        BY <1>0, <4>1, <4>2 DEF TypeOK, InFlight
      <4>3. CASE u # t /\ u \in Pended
        BY <4>1, <4>3 DEF InFlight, FailPended
      <4>4. CASE u # t /\ u \notin Pended
        <5>1. ~InFlight(u)
          BY <2>4, <4>4 DEF HoldingsBacked, HoldersOwn
        <5>2. pc'[u] = pc[u] /\ status'[u] = status[u] /\ method'[u] = method[u]
          BY <4>1, <4>4 DEF FailPended, TypeOK
        <5> QED
          BY <5>1, <5>2 DEF InFlight
      <4> QED
        BY <4>2, <4>3, <4>4
    <3> QED
      BY <2>2, <2>4, <3>1, <3>2, MutexAssumption
      DEF HoldingsBacked, HoldersOwn, LevelsCounted
  <2> QED
    BY <2>1, <2>3, <2>4 DEF semMGive
<1> QED
  BY <1>1, <1>2, <1>3

\* consistent(): the level of the dead owner becomes one its caller counts on.
LEMMA ConsistentKeepsIInv ==
  ASSUME IInv, NEW t \in Tasks, consistent(t)
  PROVE  IInv'
<1> USE DEF IInv
<1>0. "consistent" \in Methods
  BY MethodsTyped DEF CommonMethods
<1>1. TypeOK'
  BY <1>0 DEF TypeOK, consistent, semMConsistent, Enter, Answer, kernel, object
<1>2. NoLostHandOver'
  BY DEF TypeOK, NoLostHandOver, Pended, consistent, semMConsistent, Enter,
    Answer, kernel
<1>3. HoldingsBacked'
  BY MutexAssumption DEF TypeOK, HoldingsBacked, HoldersOwn, LevelsCounted,
    InFlight, consistent, semMConsistent, Enter, Answer, kernel
<1> QED
  BY <1>1, <1>2, <1>3

\* A timeout takes a task from the queue and nothing else.
LEMMA TimeoutKeepsIInv ==
  ASSUME IInv, NEW t \in Tasks, Timeout(t)
  PROVE  IInv'
  BY DEF IInv, TypeOK, NoLostHandOver, Pended, HoldingsBacked, HoldersOwn,
    LevelsCounted, InFlight, Timeout, Answer, object, kernel, call, caller

\* A return moves a level in flight among those held.
LEMMA ReturnKeepsIInv ==
  ASSUME IInv, NEW t \in Tasks, return_ok(t) \/ return_error(t)
  PROVE  IInv'
<1> USE DEF IInv
<1>0. NO_WAIT \in _Vx_ticks_t
  BY TicsAssumption DEF NO_WAIT, _Vx_ticks_t
<1>1. TypeOK'
  <2>1. CASE return_ok(t)
    BY <1>0, <2>1 DEF TypeOK, return_ok, Resume, object, kernel
  <2>2. CASE return_error(t)
    BY <1>0, <2>2 DEF TypeOK, return_error, Resume, object, kernel
  <2> QED
    BY <2>1, <2>2
<1>2. NoLostHandOver'
  BY DEF TypeOK, NoLostHandOver, Pended, return_ok, return_error, Resume, kernel
<1>3. HoldingsBacked'
  BY DEF TypeOK, HoldingsBacked, HoldersOwn, LevelsCounted, InFlight,
    return_ok, return_error, Resume, kernel
<1> QED
  BY <1>1, <1>2, <1>3

\* A task that dies counts on nothing; what it owned becomes inconsistent and
\* passes on, or stays owned for good.
LEMMA DieKeepsIInv ==
  ASSUME IInv, NEW t \in Tasks, Die(t), pc[t] # "dead",
         UNCHANGED <<object, life>>
  PROVE  IInv'
<1> USE DEF IInv
<1>0. NO_WAIT \in _Vx_ticks_t
  BY TicsAssumption DEF NO_WAIT, _Vx_ticks_t
<1>1. TypeOK'
  BY <1>0 DEF TypeOK, Die, HandOver, Heirs, Pended, object, kernel
<1>2. NoLostHandOver'
  BY MutexAssumption
  DEF TypeOK, NoLostHandOver, Die, HandOver, Heirs, Pended, kernel
<1>3. HoldingsBacked'
  BY MutexAssumption DEF TypeOK, HoldingsBacked, HoldersOwn, LevelsCounted,
    InFlight, Die, HandOver, Heirs, Pended, kernel
<1> QED
  BY <1>1, <1>2, <1>3

\* The destructor leaves nobody pended.
LEMMA DtorKeepsIInv ==
  ASSUME IInv, NEW t \in Tasks, dtor(t)
  PROVE  IInv'
  BY DEF IInv, TypeOK, NoLostHandOver, Pended, HoldingsBacked, HoldersOwn,
    LevelsCounted, InFlight, dtor, FailPended, object, kernel, call, caller

\* Whatever method a task calls, with whatever argument, the invariant stays.
LEMMA CallKeepsIInv ==
  ASSUME IInv, NEW t \in Tasks, CallStep(t)
  PROVE  IInv'
<1>0. NO_WAIT \in _Vx_ticks_t /\ WAIT_FOREVER \in _Vx_ticks_t
  BY TicsAssumption DEF NO_WAIT, WAIT_FOREVER, _Vx_ticks_t
<1>1. ASSUME NEW m \in Asking, NEW n \in _Vx_ticks_t, NEW flags,
             Taking(t, m, n, flags)
      PROVE  IInv'
  BY <1>1, AskingKeepsIInv DEF Taking
<1>2. CASE lock(t)
  BY <1>0, <1>1, <1>2 DEF lock, Asking, Takers
<1>3. CASE op_decrement(t)
  BY <1>0, <1>1, <1>3 DEF op_decrement, Asking, Takers
<1>4. CASE try_lock(t)
  BY <1>0, <1>1, <1>4 DEF try_lock, Asking, Takers
<1>5. CASE Gives(t)
  BY <1>5, GivingKeepsIInv
  DEF Gives, unlock, op_increment, give, give_quickly, Letting
<1>6. CASE consistent(t)
  BY <1>6, ConsistentKeepsIInv
<1>7. CASE take_quickly(t)
  BY <1>0, <1>1, <1>7 DEF take_quickly, Asking, Takers
<1>8. ASSUME NEW n \in Timeouts, take(t, n) \/ take_quickly_for(t, n)
      PROVE  IInv'
  BY <1>1, <1>8, MutexAssumption DEF take, take_quickly_for, Asking, Takers
<1>9. ASSUME NEW n \in Timeouts, give_quickly_for(t, n)
      PROVE  IInv'
  BY <1>9, AskingKeepsIInv, MutexAssumption DEF give_quickly_for, Giving, Asking
<1>10. ASSUME NEW d \in Durations, try_lock_for(t, d)
       PROVE  IInv'
  BY <1>1, <1>10, Chrono2ticType, MutexAssumption DEF try_lock_for, Asking,
    Takers
<1>11. ASSUME NEW tp \in Deadlines, try_lock_until(t, tp)
       PROVE  IInv'
  <2>1. PICK tics \in time_point2tic(tp, Now) :
               Taking(t, "try_lock_until", tics, opts)
    BY <1>11 DEF try_lock_until
  <2>2. tics \in _Vx_ticks_t
    BY TimePoint2ticType, MutexAssumption
  <2> QED
    BY <2>1, <2>2, <1>1 DEF Asking, Takers
<1> QED
  BY <1>2, <1>3, <1>4, <1>5, <1>6, <1>7, <1>8, <1>9, <1>10, <1>11 DEF CallStep

\* IInv is inductive.
LEMMA NextIInv == IInv /\ [Next]_vars => IInv'
<1> SUFFICES ASSUME IInv, [Next]_vars PROVE IInv'
  OBVIOUS
<1>1. CASE UNCHANGED vars
  BY <1>1 DEF vars, IInv, TypeOK, NoLostHandOver, Pended, HoldingsBacked,
    HoldersOwn, LevelsCounted, InFlight
<1>2. ASSUME NEW t \in Tasks, CallStep(t) PROVE IInv'
  BY <1>2, CallKeepsIInv
<1>3. ASSUME NEW t \in Tasks, ReturnStep(t) PROVE IInv'
  BY <1>3, ReturnKeepsIInv, DieKeepsIInv DEF ReturnStep, throw
<1>4. ASSUME NEW t \in Tasks, Timeout(t) PROVE IInv'
  BY <1>4, TimeoutKeepsIInv
<1>5. ASSUME NEW t \in Tasks, exit(t) PROVE IInv'
  BY <1>5, DieKeepsIInv DEF exit
<1>6. ASSUME NEW t \in Tasks, dtor(t) PROVE IInv'
  BY <1>6, DtorKeepsIInv
<1> QED
  BY <1>1, <1>2, <1>3, <1>4, <1>5, <1>6 DEF Next

\* Whatever the tasks call and however they interleave, the invariant holds.
THEOREM Invariance == Spec => []IInv
  BY InitIInv, NextIInv, PTL DEF Spec

\* Every variable keeps its type; in particular every timeout handed to the
\* kernel is a _Vx_ticks_t, whatever duration or deadline it came from.
THEOREM TypeCorrect == Spec => []TypeOK
<1>1. IInv => TypeOK
  BY DEF IInv
<1> QED
  BY <1>1, Invariance, PTL

\* Two tasks never both count on holding the mutex.
THEOREM Exclusion == Spec => []MutualExclusion
<1>1. IInv => MutualExclusion
  BY DEF IInv, HoldingsBacked, HoldersOwn, MutualExclusion
<1> QED
  BY <1>1, Invariance, PTL

\* Nobody pends on a mutex that nobody owns, or on one that is gone.
THEOREM HandOverNotLost == Spec => []NoLostHandOver
<1>1. IInv => NoLostHandOver
  BY DEF IInv
<1> QED
  BY <1>1, Invariance, PTL

\* What the callers count on is backed by the semaphore.
THEOREM Backed == Spec => []HoldingsBacked
<1>1. IInv => HoldingsBacked
  BY DEF IInv
<1> QED
  BY <1>1, Invariance, PTL

-------------------------------------------------------------------------------
(***************************************************************************)
(* The mutex implements the abstract lock: a step of a task is a step of   *)
(* LockSpec under LockMode, or changes nothing that LockSpec sees.         *)
(***************************************************************************)
\* t alone goes to mode b; other tasks that change pc go from pended to
\* returning, in the same call.
LEMMA ModeOfOne ==
  ASSUME TypeOK, NEW t \in Tasks, NEW b \in {"idle", "asking", "dead"},
         LockMode'[t] = b,
         \A u \in Tasks \ {t} :
           /\ method'[u] = method[u]
           /\ pc'[u] = pc[u] \/ (pc[u] = "pended" /\ pc'[u] = "returning")
  PROVE  LockMode' = [LockMode EXCEPT ![t] = b]
<1>1. \A u \in Tasks \ {t} : LockMode'[u] = LockMode[u]
  BY DEF LockMode
<1> QED
  BY <1>1 DEF LockMode

\* A mutex that has just been made is an abstract lock nobody holds.
LEMMA InitLock == Init => Abstract!Init
  BY DEF Init, Abstract!Init, LockMode

\* A call that asks is a Request.
LEMMA AskingIsRequest ==
  ASSUME IInv, NEW t \in Tasks, NEW m \in Takers,
         Enter(t, m), pc' = [pc EXCEPT ![t] = pc'[t]],
         pc'[t] \in {"pended", "returning"}, UNCHANGED held
  PROVE  Abstract!Request(t)
<1>1. LockMode[t] = "idle"
  BY DEF Enter, LockMode
<1>2. LockMode'[t] = "asking"
  BY DEF Enter, LockMode, IInv, TypeOK
<1>3. LockMode' = [LockMode EXCEPT ![t] = "asking"]
  BY <1>2, ModeOfOne DEF Enter, IInv, TypeOK
<1> QED
  BY <1>1, <1>3 DEF Abstract!Request

\* A call that does not acquire is a Release, if its caller counted on a level,
\* or a stutter.
LEMMA GivingIsRelease ==
  ASSUME IInv, NEW t \in Tasks, NEW m \in Methods \ Takers, Giving(t, m),
         pc'[t] \in {"pended", "returning"},
         \A u \in Tasks \ {t} :
           pc'[u] = pc[u] \/ (pc[u] = "pended" /\ pc'[u] = "returning")
  PROVE  Abstract!Release(t) \/ UNCHANGED <<LockMode, held>>
<1>1. LockMode[t] = "idle"
  BY DEF Giving, Enter, LockMode
<1>2. LockMode'[t] = "idle"
  BY DEF Giving, Enter, LockMode, IInv, TypeOK
<1>3. LockMode' = [LockMode EXCEPT ![t] = "idle"]
  BY <1>2, ModeOfOne DEF Giving, Enter, IInv, TypeOK
<1>4. LockMode' = LockMode
  BY <1>1, <1>3 DEF LockMode
<1>5. CASE held[t] > 0
  BY <1>1, <1>4, <1>5 DEF Abstract!Release, Giving, IInv, TypeOK
<1>6. CASE ~(held[t] > 0)
  <2>1. held[t] = 0 /\ held' = [held EXCEPT ![t] = 0]
    BY <1>6 DEF Giving, IInv, TypeOK
  <2>2. held' = held
    BY <2>1 DEF IInv, TypeOK
  <2> QED
    BY <1>4, <2>2
<1> QED
  BY <1>5, <1>6

\* A return is a Grant or a Refuse, or, from a call that does not acquire, a
\* stutter.  A Grant is due to nobody else holding the lock.
LEMMA ReturnIsGrantOrRefuse ==
  ASSUME IInv, NEW t \in Tasks, return_ok(t) \/ return_error(t)
  PROVE  \/ Abstract!Grant(t) \/ Abstract!Refuse(t)
         \/ UNCHANGED <<LockMode, held>>
<1>1. /\ pc[t] = "returning"
      /\ LockMode'[t] = "idle"
      /\ LockMode' = [LockMode EXCEPT ![t] = "idle"]
  <2>1. /\ pc[t] = "returning"
        /\ pc' = [pc EXCEPT ![t] = "ready"]
        /\ method' = [method EXCEPT ![t] = "none"]
    BY DEF return_ok, return_error, Resume
  <2>2. LockMode'[t] = "idle"
    BY <2>1 DEF LockMode, IInv, TypeOK
  <2> QED
    BY <2>1, <2>2, ModeOfOne DEF IInv, TypeOK
<1>2. CASE method[t] \in Takers
  <2>1. LockMode[t] = "asking"
    BY <1>1, <1>2 DEF LockMode
  <2>2. CASE return_ok(t)
    <3>1. owner = t
      BY <1>2, <2>2
      DEF return_ok, IInv, HoldingsBacked, HoldersOwn, InFlight
    <3>2. \A u \in Tasks \ {t} : held[u] = 0
      BY <3>1 DEF IInv, TypeOK, HoldingsBacked, HoldersOwn
    <3>3. held' = [held EXCEPT ![t] = @ + 1]
      BY <1>2, <2>2 DEF return_ok
    <3> QED
      BY <1>1, <2>1, <3>2, <3>3 DEF Abstract!Grant
  <2>3. CASE return_error(t)
    BY <1>1, <2>1, <2>3 DEF Abstract!Refuse, return_error
  <2> QED
    BY <2>2, <2>3
<1>3. CASE method[t] \notin Takers
  <2>1. LockMode' = LockMode
    BY <1>1, <1>3 DEF LockMode
  <2>2. held' = held
    BY <1>3 DEF return_ok, return_error, IInv, TypeOK
  <2> QED
    BY <2>1, <2>2
<1> QED
  BY <1>2, <1>3

\* A death is a Perish.
LEMMA DieIsPerish ==
  ASSUME IInv, NEW t \in Tasks, Die(t), pc[t] # "dead"
  PROVE  Abstract!Perish(t)
<1>1. LockMode[t] # "dead"
  BY DEF LockMode
<1>2. LockMode'[t] = "dead"
  BY DEF Die, HandOver, Heirs, Pended, LockMode, IInv, TypeOK
<1>3. \A u \in Tasks \ {t} :
        /\ method'[u] = method[u]
        /\ pc'[u] = pc[u] \/ (pc[u] = "pended" /\ pc'[u] = "returning")
  BY DEF Die, HandOver, Heirs, Pended, IInv, TypeOK
<1>4. LockMode' = [LockMode EXCEPT ![t] = "dead"]
  BY <1>2, <1>3, ModeOfOne DEF IInv
<1> QED
  BY <1>1, <1>4 DEF Abstract!Perish, Die

\* What the kernel does to pended tasks, and the destructor, show nothing.
LEMMA KernelStutters ==
  ASSUME IInv, NEW t \in Tasks, Timeout(t) \/ dtor(t)
  PROVE  UNCHANGED <<LockMode, held>>
<1>1. UNCHANGED <<method, held>>
  BY DEF Timeout, dtor, call, caller
<1>2. \A u \in Tasks :
        pc'[u] = pc[u] \/ (pc[u] = "pended" /\ pc'[u] = "returning")
  BY DEF Timeout, dtor, Answer, FailPended, Pended, IInv, TypeOK
<1>3. LockMode' = LockMode
  BY <1>1, <1>2 DEF LockMode
<1> QED
  BY <1>1, <1>3

\* A call is a Request, a Release or a stutter of the abstract lock.
LEMMA CallImplements ==
  ASSUME IInv, NEW t \in Tasks, CallStep(t)
  PROVE  Abstract!Next \/ UNCHANGED <<LockMode, held>>
<1>1. ASSUME NEW m \in Takers, NEW n, NEW flags, Taking(t, m, n, flags)
      PROVE  Abstract!Request(t)
  BY <1>1, AskingIsRequest DEF Taking, semMTake, Answer, IInv, TypeOK
<1>2. ASSUME NEW m \in Letting, Giving(t, m), semMGive(t)
      PROVE  Abstract!Release(t) \/ UNCHANGED <<LockMode, held>>
  <2>1. m \in Methods \ Takers
    BY MethodsTyped DEF Letting, CommonMethods, Takers
  <2>2. /\ pc[t] = "ready"
        /\ pc'[t] = "returning"
        /\ \A u \in Tasks \ {t} :
             pc'[u] = pc[u] \/ (pc[u] = "pended" /\ pc'[u] = "returning")
    BY <1>2 DEF Giving, Enter, semMGive, HandOver, FailPended, Answer, Heirs,
      Pended, IInv, TypeOK
  <2> QED
    BY <1>2, <2>1, <2>2, GivingIsRelease
<1>3. ASSUME NEW n \in Timeouts, give_quickly_for(t, n)
      PROVE  Abstract!Release(t) \/ UNCHANGED <<LockMode, held>>
  <2>1. "give_quickly_for" \in Methods \ Takers
    BY MethodsTyped DEF Takers
  <2>2. /\ pc'[t] \in {"pended", "returning"}
        /\ \A u \in Tasks \ {t} : pc'[u] = pc[u]
    BY <1>3 DEF give_quickly_for, semMTake, Answer, IInv, TypeOK
  <2> QED
    BY <1>3, <2>1, <2>2, GivingIsRelease DEF give_quickly_for
<1>4. CASE consistent(t)
  BY <1>4, AskingIsRequest DEF consistent, semMConsistent, Answer, Takers, IInv,
    TypeOK, Abstract!Next
<1>5. CASE Gives(t)
  BY <1>2, <1>5
  DEF Gives, unlock, op_increment, give, give_quickly, Letting, Abstract!Next
<1>6. CASE lock(t) \/ op_decrement(t) \/ try_lock(t) \/ take_quickly(t)
  BY <1>1, <1>6
  DEF lock, op_decrement, try_lock, take_quickly, Takers, Abstract!Next
<1>7. CASE \E n \in Timeouts : take(t, n) \/ take_quickly_for(t, n)
  BY <1>1, <1>7 DEF take, take_quickly_for, Takers, Abstract!Next
<1>8. CASE \E d \in Durations : try_lock_for(t, d)
  BY <1>1, <1>8 DEF try_lock_for, Takers, Abstract!Next
<1>9. CASE \E tp \in Deadlines : try_lock_until(t, tp)
  BY <1>1, <1>9 DEF try_lock_until, Takers, Abstract!Next
<1> QED
  BY <1>3, <1>4, <1>5, <1>6, <1>7, <1>8, <1>9 DEF CallStep, Abstract!Next

\* From a state of the invariant every step is one of the abstract lock.
LEMMA NextImplements == IInv /\ [Next]_vars => [Abstract!Next]_<<LockMode, held>>
<1> SUFFICES ASSUME IInv, [Next]_vars
             PROVE  Abstract!Next \/ UNCHANGED <<LockMode, held>>
  OBVIOUS
<1>1. CASE UNCHANGED vars
  BY <1>1 DEF vars, LockMode
<1>2. ASSUME NEW t \in Tasks, CallStep(t)
      PROVE  Abstract!Next \/ UNCHANGED <<LockMode, held>>
  BY <1>2, CallImplements
<1>3. ASSUME NEW t \in Tasks, ReturnStep(t)
      PROVE  Abstract!Next \/ UNCHANGED <<LockMode, held>>
  BY <1>3, ReturnIsGrantOrRefuse, DieIsPerish
  DEF ReturnStep, throw, Abstract!Next
<1>4. ASSUME NEW t \in Tasks, Timeout(t) \/ dtor(t)
      PROVE  Abstract!Next \/ UNCHANGED <<LockMode, held>>
  BY <1>4, KernelStutters
<1>5. ASSUME NEW t \in Tasks, exit(t)
      PROVE  Abstract!Next \/ UNCHANGED <<LockMode, held>>
  BY <1>5, DieIsPerish DEF exit, Abstract!Next
<1> QED
  BY <1>1, <1>2, <1>3, <1>4, <1>5 DEF Next

\* What the callers of the mutex see is what callers of the abstract lock see.
THEOREM Refinement == Spec => ImplementsLock
<1>1. Init => Abstract!Init
  BY InitLock
<1>2. IInv /\ [Next]_vars => [Abstract!Next]_(Abstract!vars)
  BY NextImplements DEF Abstract!vars
<1> QED
  BY <1>1, <1>2, Invariance, PTL DEF Spec, ImplementsLock, Abstract!Spec

-------------------------------------------------------------------------------
(***************************************************************************)
(* Failures.  DueInv says of each call that is failing why it may.         *)
(***************************************************************************)
Robust == "SEM_ROBUST" \in opts

\* Only a robust mutex is ever left behind by a dead owner.
RobustOnly ==
  ~Robust =>
    /\ health = "consistent"
    /\ \A t \in Tasks : ~notified[t] /\ status[t] # "EOWNERDEAD"

\* Whoever pends asked for the semaphore, and lock() asked with no timeout.
PendedMeanIt ==
  \A t \in Tasks : pc[t] = "pended" =>
    /\ method[t] \in Takers \/ t \in QuickGivers
    /\ method[t] \in Asking
    /\ method[t] \in {"lock", "operator--"} => timeout[t] = WAIT_FOREVER

\* What a dead owner has left: whoever is told of it has the mutex, and a mutex
\* that cannot be recovered has no owner.
LeftBehind ==
  /\ health = "unrecoverable" => owner = NoTask
  /\ \A t \in Tasks :
       /\ pc[t] = "returning" /\ status[t] = "EOWNERDEAD" =>
            owner = t /\ health = "inconsistent"
       /\ pc[t] = "ready" /\ notified[t] => owner = t

\* A call that is going to end in `throw;' failed for one of these reasons.
FailuresDue ==
  \A t \in Tasks :
    /\ pc[t] = "returning" /\ status[t] # "OK" /\ method[t] \in Throwing
    => \/ t \in Careless /\ method[t] \in {"unlock", "operator++"}
       \/ life = "deleted"
       \/ health = "unrecoverable" \/ status[t] = "EOWNERDEAD"

DueInv == RobustOnly /\ LeftBehind /\ PendedMeanIt /\ FailuresDue

\* Nobody has failed before anybody calls.
LEMMA InitDue == Init => DueInv
  BY DEF Init, DueInv, RobustOnly, LeftBehind, PendedMeanIt, FailuresDue

\* NO_WAIT and WAIT_FOREVER are two values of a timeout.
LEMMA TicksDiffer == NO_WAIT # WAIT_FOREVER
  BY TicsAssumption DEF NO_WAIT, WAIT_FOREVER

\* A call that asks without a timeout is refused by an unrecoverable mutex only.
LEMMA AskingKeepsDue ==
  ASSUME IInv, DueInv, NEW t \in Tasks, NEW m \in Asking, NEW n, NEW flags,
         m \in Takers \/ t \in QuickGivers,
         m \in {"lock", "operator--"} => n = WAIT_FOREVER,
         Enter(t, m), semMTake(t, n, flags)
  PROVE  DueInv'
<1> USE DEF IInv, DueInv
<1>1. RobustOnly'
  BY DEF TypeOK, RobustOnly, Robust, Enter, semMTake, Answer, kernel, object
<1>2. PendedMeanIt'
  BY DEF TypeOK, PendedMeanIt, Enter, semMTake, Answer
<1>3. LeftBehind'
  BY MutexAssumption DEF TypeOK, LeftBehind, Enter, semMTake, Answer, kernel
<1>4. FailuresDue'
  BY TicksDiffer DEF TypeOK, FailuresDue, Enter, semMTake, Answer, Asking,
    Takers, Throwing, kernel
<1> QED
  BY <1>1, <1>2, <1>3, <1>4

\* A give fails for those that do not own the mutex.
LEMMA GivingKeepsDue ==
  ASSUME IInv, DueInv, NEW t \in Tasks, NEW m \in Letting,
         Giving(t, m), semMGive(t), UNCHANGED timeout
  PROVE  DueInv'
<1> USE DEF IInv, DueInv
<1>1. RobustOnly'
  BY DEF TypeOK, RobustOnly, Robust, Giving, Enter, semMGive, HandOver,
    FailPended, Answer, Heirs, Pended, kernel, object
<1>2. PendedMeanIt'
  BY DEF TypeOK, PendedMeanIt, Giving, Enter, semMGive, HandOver, FailPended,
    Answer, Heirs, Pended
<1>3. LeftBehind'
  BY MutexAssumption DEF TypeOK, LeftBehind, Giving, Enter, semMGive, HandOver,
    FailPended, Answer, Heirs, Pended, kernel
<1>4. FailuresDue'
  <2>1. owner = t \/ t \in Careless
    BY DEF TypeOK, HoldingsBacked, HoldersOwn, LeftBehind, Giving, Enter
  <2>2. m \in Throwing => m \in {"unlock", "operator++"}
    BY DEF Letting, Throwing
  <2> QED
    BY <2>1, <2>2 DEF TypeOK, LeftBehind, FailuresDue, Giving, Enter, semMGive,
      HandOver, FailPended, Answer, Heirs, Pended, kernel
<1> QED
  BY <1>1, <1>2, <1>3, <1>4

\* consistent() does not throw, and nobody else is to be told of a dead owner.
LEMMA ConsistentKeepsDue ==
  ASSUME IInv, DueInv, NEW t \in Tasks, consistent(t)
  PROVE  DueInv'
  BY DEF IInv, DueInv, TypeOK, RobustOnly, Robust, LeftBehind, PendedMeanIt,
    FailuresDue, consistent, semMConsistent, Enter, Answer, Throwing, kernel,
    object

\* What times out is a call that returns its failure.
LEMMA TimeoutKeepsDue ==
  ASSUME IInv, DueInv, NEW t \in Tasks, Timeout(t)
  PROVE  DueInv'
<1> USE DEF IInv, DueInv
<1>1. method[t] \notin Throwing
  BY DEF Timeout, PendedMeanIt, Asking, Takers, Throwing
<1> QED
  BY <1>1 DEF TypeOK, RobustOnly, Robust, LeftBehind, PendedMeanIt, FailuresDue,
    Timeout, Answer, kernel, object, call, caller

\* EOWNERDEAD is news of a robust mutex.
LEMMA ReturnKeepsDue ==
  ASSUME IInv, DueInv, NEW t \in Tasks, return_ok(t) \/ return_error(t)
  PROVE  DueInv'
<1> USE DEF IInv, DueInv
<1>1. LeftBehind'
  BY DEF TypeOK, LeftBehind, return_ok, return_error, Resume, kernel
<1> QED
  BY <1>1 DEF TypeOK, RobustOnly, Robust, PendedMeanIt, FailuresDue, return_ok,
    return_error, Resume, kernel, object

\* A death makes a mutex inconsistent only for the one that is told.
LEMMA DieKeepsDue ==
  ASSUME IInv, DueInv, NEW t \in Tasks, Die(t), UNCHANGED <<object, life>>
  PROVE  DueInv'
<1> USE DEF IInv, DueInv
<1>1. RobustOnly' /\ PendedMeanIt'
  BY DEF TypeOK, RobustOnly, Robust, PendedMeanIt, Die, HandOver, Heirs, Pended,
    kernel, object
<1>2. LeftBehind'
  BY MutexAssumption DEF TypeOK, LeftBehind, Die, HandOver, Heirs, Pended,
    kernel
<1>3. FailuresDue'
  BY MutexAssumption DEF TypeOK, LeftBehind, FailuresDue, Die, HandOver, Heirs,
    Pended, kernel
<1> QED
  BY <1>1, <1>2, <1>3

\* The destructor fails the pended calls of a mutex that is gone.
LEMMA DtorKeepsDue ==
  ASSUME IInv, DueInv, NEW t \in Tasks, dtor(t)
  PROVE  DueInv'
  BY DEF IInv, DueInv, TypeOK, RobustOnly, Robust, LeftBehind, PendedMeanIt,
    FailuresDue, dtor, FailPended, Pended, kernel, object, call, caller

\* DueInv is inductive relative to IInv.
LEMMA NextDue == IInv /\ DueInv /\ [Next]_vars => DueInv'
<1> SUFFICES ASSUME IInv, DueInv, [Next]_vars PROVE DueInv'
  OBVIOUS
<1>1. CASE UNCHANGED vars
  BY <1>1 DEF vars, DueInv, RobustOnly, Robust, LeftBehind, PendedMeanIt,
    FailuresDue
<1>2. ASSUME NEW t \in Tasks, CallStep(t) PROVE DueInv'
  <2>1. ASSUME NEW m \in Takers, NEW n, NEW flags, Taking(t, m, n, flags),
               m \in {"lock", "operator--"} => n = WAIT_FOREVER
        PROVE  DueInv'
    BY <2>1, AskingKeepsDue DEF Taking, Asking
  <2>2. CASE lock(t) \/ op_decrement(t) \/ try_lock(t) \/ take_quickly(t)
    BY <2>1, <2>2 DEF lock, op_decrement, try_lock, take_quickly, Takers
  <2>3. CASE Gives(t)
    BY <2>3, GivingKeepsDue
    DEF Gives, unlock, op_increment, give, give_quickly, Letting
  <2>4. CASE consistent(t)
    BY <2>4, ConsistentKeepsDue
  <2>5. CASE \E n \in Timeouts : take(t, n) \/ take_quickly_for(t, n)
    BY <2>1, <2>5 DEF take, take_quickly_for, Takers
  <2>6. CASE \E n \in Timeouts : give_quickly_for(t, n)
    BY <2>6, AskingKeepsDue DEF give_quickly_for, Giving, Asking
  <2>7. CASE \E d \in Durations : try_lock_for(t, d)
    BY <2>1, <2>7 DEF try_lock_for, Takers
  <2>8. CASE \E tp \in Deadlines : try_lock_until(t, tp)
    BY <2>1, <2>8 DEF try_lock_until, Takers
  <2> QED
    BY <1>2, <2>2, <2>3, <2>4, <2>5, <2>6, <2>7, <2>8 DEF CallStep
<1>3. ASSUME NEW t \in Tasks, ReturnStep(t) PROVE DueInv'
  BY <1>3, ReturnKeepsDue, DieKeepsDue DEF ReturnStep, throw
<1>4. ASSUME NEW t \in Tasks, Timeout(t) PROVE DueInv'
  BY <1>4, TimeoutKeepsDue
<1>5. ASSUME NEW t \in Tasks, exit(t) PROVE DueInv'
  BY <1>5, DieKeepsDue DEF exit
<1>6. ASSUME NEW t \in Tasks, dtor(t) PROVE DueInv'
  BY <1>6, DtorKeepsDue
<1> QED
  BY <1>1, <1>2, <1>3, <1>4, <1>5, <1>6 DEF Next

\* While the mutex exists and no dead owner has left it inconsistent, `throw;'
\* ends nobody but a task that gives what it does not hold.
THEOREM ThrowsForMisuse == Spec => NoSpuriousThrow
<1>1. DueInv /\ [Next]_vars
        => [\A t \in Tasks : throw(t) =>
              \/ t \in Careless /\ method[t] \in {"unlock", "operator++"}
              \/ life = "deleted"
              \/ health # "consistent"]_vars
  BY DEF DueInv, LeftBehind, FailuresDue, throw
<1> QED
  BY <1>1, InitDue, NextDue, Invariance, PTL DEF Spec, NoSpuriousThrow

-------------------------------------------------------------------------------
(***************************************************************************)
(* What callers that look at errno know of a mutex whose owner died: who   *)
(* has it from the dead owner has it once, and knows that it is            *)
(* inconsistent or is about to be told.                                    *)
(***************************************************************************)
OrphanKnown ==
  /\ health = "unrecoverable" => owner = NoTask
  /\ \A t \in Tasks :
       /\ owner = t /\ health = "inconsistent" =>
            /\ depth = 1
            /\ \/ pc[t] = "ready" /\ notified[t]
               \/ pc[t] = "returning" /\ status[t] = "EOWNERDEAD"
               \/ pc[t] = "dead"
       /\ pc[t] = "returning" /\ status[t] = "EOWNERDEAD" =>
            owner = t /\ health = "inconsistent"
       /\ pc[t] = "ready" /\ notified[t] /\ owner = t => health = "inconsistent"

\* t owns a level that held[t] does not count: granted and not yet returned,
\* or known from errno alone.
Unsaid(t) ==
  \/ InFlight(t)
  \/ pc[t] = "returning" /\ status[t] = "EOWNERDEAD"
  \/ pc[t] = "ready" /\ notified[t]

Known ==
  \A t \in Tasks \ QuickGivers :
    owner = t /\ pc[t] # "dead" => depth = held[t] + IF Unsaid(t) THEN 1 ELSE 0

KnowInv == OrphanKnown /\ Known

\* A mutex that nobody owns is known to be so.
LEMMA InitKnow == Init => KnowInv
  BY MutexAssumption DEF Init, KnowInv, OrphanKnown, Known, Unsaid, InFlight

\* A take adds a level that is about to be told; who has been notified of a dead
\* owner does not take again.
LEMMA AskingKeepsKnow ==
  ASSUME ErrnoAware, IInv, DueInv, KnowInv,
         NEW t \in Tasks, NEW m \in Asking, NEW n, NEW flags,
         m \in Takers \/ t \in QuickGivers, m # "consistent",
         Enter(t, m), semMTake(t, n, flags),
         \/ UNCHANGED held
         \/ /\ t \in QuickGivers
            /\ held' = [held EXCEPT ![t] = IF @ > 0 THEN @ - 1 ELSE 0]
  PROVE  KnowInv'
<1> USE DEF IInv, KnowInv
<1>0. ~notified[t]
  BY DEF Enter, Asking, Takers
<1>1. OrphanKnown'
  BY <1>0, MutexAssumption DEF TypeOK, OrphanKnown, Enter, semMTake, Answer,
    kernel, object
<1>2. Known'
  BY <1>0, MutexAssumption DEF TypeOK, HoldingsBacked, HoldersOwn, OrphanKnown,
    Known, Unsaid, InFlight, Enter, semMTake, Answer, kernel, object
<1> QED
  BY <1>1, <1>2

\* A give takes the level of the owner that it no longer counts on.
LEMMA GivingKeepsKnow ==
  ASSUME ErrnoAware, IInv, DueInv, KnowInv, NEW t \in Tasks, NEW m \in Letting,
         Giving(t, m), semMGive(t), UNCHANGED timeout
  PROVE  KnowInv'
<1> USE DEF IInv, KnowInv
<1>0. m \notin Takers
  BY DEF Letting, Takers
<1>1. OrphanKnown'
  BY <1>0, MutexAssumption DEF TypeOK, HoldingsBacked, LevelsCounted,
    OrphanKnown, Giving, Enter, semMGive, HandOver, FailPended, Answer, Heirs,
    Pended, kernel, object
<1>2. Known'
  BY <1>0, MutexAssumption DEF TypeOK, HoldingsBacked, HoldersOwn,
    LevelsCounted, OrphanKnown, DueInv, PendedMeanIt, Known, Unsaid, InFlight,
    Giving, Enter, semMGive, HandOver, FailPended, Answer, Heirs, Pended,
    kernel, object
<1> QED
  BY <1>1, <1>2

\* consistent() turns the level known from errno into one that is counted on.
LEMMA ConsistentKeepsKnow ==
  ASSUME ErrnoAware, IInv, DueInv, KnowInv, NEW t \in Tasks, consistent(t)
  PROVE  KnowInv'
<1> USE DEF IInv, KnowInv
<1>1. OrphanKnown'
  BY MutexAssumption DEF TypeOK, OrphanKnown, consistent, semMConsistent, Enter,
    Answer, kernel, object
<1>2. Known'
  BY MutexAssumption DEF TypeOK, OrphanKnown, Known, Unsaid, InFlight, Takers,
    consistent, semMConsistent, Enter, Answer, kernel, object
<1> QED
  BY <1>1, <1>2

\* A timeout grants nothing.
LEMMA TimeoutKeepsKnow ==
  ASSUME IInv, KnowInv, NEW t \in Tasks, Timeout(t)
  PROVE  KnowInv'
  BY DEF IInv, KnowInv, TypeOK, OrphanKnown, Known, Unsaid, InFlight,
    Timeout, Answer, kernel, object, call, caller

\* A return tells of the level that was granted, or of the dead owner.
LEMMA ReturnKeepsKnow ==
  ASSUME IInv, KnowInv, NEW t \in Tasks, return_ok(t) \/ return_error(t)
  PROVE  KnowInv'
<1> USE DEF IInv, KnowInv
<1>1. OrphanKnown'
  <2>1. /\ pc[t] = "returning" /\ pc' = [pc EXCEPT ![t] = "ready"]
        /\ status' = [status EXCEPT ![t] = "OK"]
        /\ UNCHANGED <<owner, depth, health>>
    BY DEF return_ok, return_error, Resume, kernel
  <2>2. notified' = [notified EXCEPT ![t] = (status[t] = "EOWNERDEAD")]
    BY DEF TypeOK, return_ok, return_error
  <2> QED
    BY <2>1, <2>2 DEF TypeOK, OrphanKnown
<1>2. Known'
  <2>1. CASE return_ok(t)
    BY <2>1 DEF TypeOK, OrphanKnown, Known, Unsaid, InFlight, return_ok, Resume,
      kernel
  <2>2. CASE return_error(t)
    <3>1. notified' = [notified EXCEPT ![t] = (status[t] = "EOWNERDEAD")]
      BY <2>2 DEF return_error
    <3>2. /\ pc[t] = "returning" /\ pc' = [pc EXCEPT ![t] = "ready"]
          /\ status[t] # "OK" /\ UNCHANGED <<owner, depth, held>>
      BY <2>2 DEF return_error, Resume, kernel
    <3>3. \A u \in Tasks \ {t} : Unsaid(u)' <=> Unsaid(u)
      BY <2>2, <3>1, <3>2 DEF TypeOK, return_error, Resume, Unsaid, InFlight
    <3>4. Unsaid(t)' <=> Unsaid(t)
      BY <3>1, <3>2 DEF TypeOK, Unsaid, InFlight
    <3> QED
      BY <3>2, <3>3, <3>4 DEF TypeOK, Known
  <2> QED
    BY <2>1, <2>2
<1> QED
  BY <1>1, <1>2

\* A death leaves one level to the first in the queue, and nothing to others.
LEMMA DieKeepsKnow ==
  ASSUME IInv, DueInv, KnowInv, NEW t \in Tasks, Die(t),
         UNCHANGED <<object, life>>, pc[t] # "dead"
  PROVE  KnowInv'
<1> USE DEF IInv, KnowInv
<1>1. OrphanKnown'
  BY MutexAssumption DEF TypeOK, DueInv, RobustOnly, Robust, OrphanKnown, Die,
    HandOver, Heirs, Pended, kernel, object
<1>2. Known'
  BY MutexAssumption DEF TypeOK, HoldingsBacked, HoldersOwn, OrphanKnown, Known,
    Unsaid, InFlight, Die, HandOver, Heirs, Pended, kernel, object
<1> QED
  BY <1>1, <1>2

\* The destructor grants nothing.
LEMMA DtorKeepsKnow ==
  ASSUME IInv, DueInv, KnowInv, NEW t \in Tasks, dtor(t)
  PROVE  KnowInv'
  BY DEF IInv, KnowInv, TypeOK, OrphanKnown, Known, Unsaid, InFlight, dtor,
    FailPended, Pended, kernel, object, call, caller

\* KnowInv is inductive relative to IInv and DueInv, with callers that look at
\* errno: one that took a second time without consistent() would not know.
LEMMA NextKnow ==
  ASSUME ErrnoAware
  PROVE  IInv /\ DueInv /\ KnowInv /\ [Next]_vars => KnowInv'
<1> SUFFICES ASSUME IInv, DueInv, KnowInv, [Next]_vars PROVE KnowInv'
  OBVIOUS
<1>1. CASE UNCHANGED vars
  BY <1>1 DEF vars, KnowInv, OrphanKnown, Known, Unsaid, InFlight
<1>2. ASSUME NEW t \in Tasks, CallStep(t) PROVE KnowInv'
  <2>1. ASSUME NEW m \in Takers \ {"consistent"}, NEW n, NEW flags,
               Taking(t, m, n, flags)
        PROVE  KnowInv'
    BY <2>1, AskingKeepsKnow DEF Taking, Asking
  <2>2. CASE lock(t) \/ op_decrement(t) \/ try_lock(t) \/ take_quickly(t)
    BY <2>1, <2>2 DEF lock, op_decrement, try_lock, take_quickly, Takers
  <2>3. CASE Gives(t)
    BY <2>3, GivingKeepsKnow
    DEF Gives, unlock, op_increment, give, give_quickly, Letting
  <2>4. CASE consistent(t)
    BY <2>4, ConsistentKeepsKnow
  <2>5. CASE \E n \in Timeouts : take(t, n) \/ take_quickly_for(t, n)
    BY <2>1, <2>5 DEF take, take_quickly_for, Takers
  <2>6. CASE \E n \in Timeouts : give_quickly_for(t, n)
    BY <2>6, AskingKeepsKnow DEF give_quickly_for, Giving, Asking
  <2>7. CASE \E d \in Durations : try_lock_for(t, d)
    BY <2>1, <2>7 DEF try_lock_for, Takers
  <2>8. CASE \E tp \in Deadlines : try_lock_until(t, tp)
    BY <2>1, <2>8 DEF try_lock_until, Takers
  <2> QED
    BY <1>2, <2>2, <2>3, <2>4, <2>5, <2>6, <2>7, <2>8 DEF CallStep
<1>3. ASSUME NEW t \in Tasks, ReturnStep(t) PROVE KnowInv'
  BY <1>3, ReturnKeepsKnow, DieKeepsKnow DEF ReturnStep, throw
<1>4. ASSUME NEW t \in Tasks, Timeout(t) PROVE KnowInv'
  BY <1>4, TimeoutKeepsKnow
<1>5. ASSUME NEW t \in Tasks, exit(t) PROVE KnowInv'
  BY <1>5, DieKeepsKnow DEF exit
<1>6. ASSUME NEW t \in Tasks, dtor(t) PROVE KnowInv'
  BY <1>6, DtorKeepsKnow
<1> QED
  BY <1>1, <1>2, <1>3, <1>4, <1>5, <1>6 DEF Next

\* With callers that look at errno both invariants hold throughout.
LEMMA KnowInvariance == ErrnoAware /\ Spec => [](IInv /\ KnowInv)
<1> SUFFICES ASSUME ErrnoAware PROVE Spec => [](IInv /\ KnowInv)
  OBVIOUS
<1>1. IInv /\ DueInv /\ KnowInv /\ [Next]_vars => KnowInv'
  BY NextKnow
<1> QED
  BY <1>1, InitDue, NextDue, InitKnow, Invariance, PTL DEF Spec

\* A task that runs knows how deep it owns the mutex, whatever failed, timed out
\* or was given in between.
THEOREM OwnersKnow == ErrnoAware /\ Spec => []OwnerKnows
<1>1. IInv /\ KnowInv => OwnerKnows
  BY DEF IInv, TypeOK, KnowInv, Known, Unsaid, InFlight, OwnerKnows
<1> QED
  BY <1>1, KnowInvariance, PTL

\* Nobody works under a robust mutex before declaring its data consistent.
THEOREM DataConsistent == ErrnoAware /\ Spec => []HeldIsConsistent
<1>1. IInv /\ KnowInv => HeldIsConsistent
  BY MutexAssumption DEF IInv, TypeOK, HoldingsBacked, HoldersOwn,
    LevelsCounted, KnowInv,
    OrphanKnown, HeldIsConsistent
<1> QED
  BY <1>1, KnowInvariance, PTL
===============================================================================
