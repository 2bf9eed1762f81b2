---------------------------- MODULE SemaphoreProofs ----------------------------
(***************************************************************************)
(* Proofs about Semaphore, for any tasks, priorities, limits, counts and   *)
(* timeouts.  IInv is the inductive invariant of what is granted and       *)
(* refused; PermitsAddUp needs no more than the types and that there are   *)
(* finitely many tasks.                                                    *)
(***************************************************************************)
EXTENDS Semaphore, FiniteSetTheorems, TLAPS

States ==
  {"ready", "pended", "returning", "releasing", "checking", "dead"}

\* The part of TypeOK that the proofs rest on.
Typed ==
  /\ class \in Classes /\ count \in Nat
  /\ pc \in [Tasks -> States]
  /\ method \in [Tasks -> Methods \cup {"none"}]
  /\ status \in [Tasks -> {"OK", "ERROR"}]
  /\ DOMAIN timeout = Tasks /\ DOMAIN found = Tasks

\* A task that pends is in a take, and has a timeout only in one that returns
\* an ERROR; in the loop it is in release(n); before
\* a call and before a give, it has no error to answer for.
PendedMeanIt ==
  \A t \in Tasks :
    /\ pc[t] = "pended" => method[t] \in Takers
    /\ pc[t] = "pended" /\ method[t] \in Throwing => timeout[t] = WAIT_FOREVER
    /\ pc[t] \in {"releasing", "checking"} => method[t] = "release(n)"
    /\ pc[t] = "returning" => method[t] \in Methods
    /\ pc[t] \in {"ready", "releasing"} => status[t] = "OK"

\* A call that throws and has failed was due to fail.
FailuresDue ==
  \A t \in Tasks :
    /\ pc[t] \in {"returning", "checking"} /\ status[t] = "ERROR"
    /\ method[t] \in Throwing
    => Due(t)

\* The inductive invariant.
IInv == Typed /\ PendedMeanIt /\ FailuresDue /\ NoLostWakeUp

\* A semaphore is made with a count.
LEMMA InitialCount == Init => count \in Nat
<1>1. \A n \in Initial : n \in Nat
  BY SemaphoreAssumption
<1> QED
  BY <1>1 DEF Init

\* A give leaves a count.
LEMMA GiveCounts ==
  ASSUME count \in Nat, NEW t, NEW p, semGive(t, p)
  PROVE  count' \in Nat
<1>1. \/ count' = count
      \/ count' = IF class = "binary" THEN 1 ELSE count + 1
  BY DEF semGive
<1> QED
  BY <1>1

\* The semaphore starts out live, with nobody in a call.
LEMMA InitIInv == Init => IInv
<1> SUFFICES ASSUME Init PROVE IInv
  OBVIOUS
<1>1. Typed
  BY SemaphoreAssumption, InitialCount DEF Init, Typed, States
<1>2. PendedMeanIt /\ FailuresDue /\ NoLostWakeUp
  BY DEF Init, Pended, PendedMeanIt, FailuresDue, NoLostWakeUp
<1> QED
  BY <1>1, <1>2 DEF IInv

\* A timeout of no ticks is not one of any length.
LEMMA TicksDiffer == NO_WAIT # WAIT_FOREVER
  BY TicsAssumption DEF NO_WAIT, WAIT_FOREVER

\* A take has a permit, pends for one, or fails at once if it was not to pend.
LEMMA TakingKeeps ==
  ASSUME IInv, NEW t \in Tasks, NEW m \in Takers, NEW n, Taking(t, m, n),
         m \in Throwing => \/ n = WAIT_FOREVER
                           \/ m = "try_aquire" /\ n = NO_WAIT
  PROVE  IInv'
  BY TicksDiffer DEF Taking, Enter, semTake, Fails, object, Pended, IInv, Typed,
    PendedMeanIt, FailuresDue, NoLostWakeUp, Due, States, Methods, Takers,
    Givers, Throwing, Classes

\* A give lets an heir through or adds a permit that nobody waits for; only a
\* counting semaphore at its limit can fail it.
LEMMA GiveKeeps ==
  ASSUME IInv, NEW t \in Tasks, NEW p \in {"returning", "checking"},
         NEW m \in Givers, p = "checking" => m = "release(n)",
         pc[t] \in {"ready", "releasing"}, life = "live", semGive(t, p),
         method' = [method EXCEPT ![t] = m],
         UNCHANGED <<object, life, timeout>>
  PROVE  IInv'
<1>1. CASE Pended = {}
  <2>1. /\ Pended' = {} /\ pc' = [pc EXCEPT ![t] = p]
        /\ \/ status' = [status EXCEPT ![t] = "OK"] /\ found' = found
           \/ /\ class = "counting" /\ count = MaxCount
              /\ status' = [status EXCEPT ![t] = "ERROR"]
              /\ Fails(t, "live")
    BY <1>1 DEF semGive, Pended, Heirs, IInv, Typed
  <2>2. Typed'
    <3>1. count' \in Nat
      BY GiveCounts DEF IInv, Typed
    <3> QED
      BY <2>1, <3>1 DEF Fails, object, IInv, Typed, States, Methods, Takers,
        Givers
  <2>3. FailuresDue'
    BY <2>1 DEF Fails, object, IInv, Typed, FailuresDue, Due
  <2>4. PendedMeanIt' /\ NoLostWakeUp'
    BY <2>1 DEF IInv, Typed, PendedMeanIt, NoLostWakeUp, States, Methods,
      Takers, Givers, Throwing
  <2> QED
    BY <2>2, <2>3, <2>4 DEF IInv
<1>2. ASSUME NEW h \in Heirs, UNCHANGED <<count, found>>,
             pc' = [pc EXCEPT ![t] = p, ![h] = "returning"],
             status' = [status EXCEPT ![t] = "OK", ![h] = "OK"]
      PROVE  IInv'
  <2>1. h \in Tasks /\ pc[h] = "pended" /\ h # t /\ Pended' \subseteq Pended
    BY <1>2 DEF Heirs, Pended, IInv, Typed
  <2> QED
    BY <1>2, <2>1 DEF object, IInv, Typed, PendedMeanIt, FailuresDue,
      NoLostWakeUp, Due, States, Methods, Takers, Givers, Throwing, Classes
<1> QED
  BY <1>1, <1>2 DEF semGive

\* The loop of release(n) is entered.
LEMMA ReleaseNKeeps ==
  ASSUME IInv, NEW t \in Tasks, NEW n, release_n(t, n)
  PROVE  IInv'
  BY DEF release_n, Enter, object, Pended, IInv, Typed, PendedMeanIt,
    FailuresDue, NoLostWakeUp, Due, States, Methods, Takers, Givers, Throwing,
    Classes

\* A turn of the loop gives, or finds the semaphore deleted.
LEMMA ReleaseGiveKeeps ==
  ASSUME IInv, NEW t \in Tasks, release_give(t)
  PROVE  IInv'
<1>1. CASE life = "live" /\ semGive(t, "checking")
  <2>1. method' = [method EXCEPT ![t] = "release(n)"]
    BY DEF release_give, IInv, PendedMeanIt, Typed
  <2> QED
    BY <1>1, <2>1, GiveKeeps DEF release_give, Givers
<1>2. CASE /\ life = "deleted" /\ UNCHANGED count
           /\ pc' = [pc EXCEPT ![t] = "checking"]
           /\ status' = [status EXCEPT ![t] = "ERROR"]
           /\ Fails(t, "deleted")
  BY <1>2 DEF release_give, Fails, object, Pended, IInv, Typed, PendedMeanIt,
    FailuresDue, NoLostWakeUp, Due, States, Methods, Takers, Givers, Throwing,
    Classes
<1> QED
  BY <1>1, <1>2 DEF release_give

\* ... and counts down.
LEMMA ReleaseNextKeeps ==
  ASSUME IInv, NEW t \in Tasks, release_next(t)
  PROVE  IInv'
  BY DEF release_next, CountsDown, object, Pended, IInv, Typed, PendedMeanIt,
    FailuresDue, NoLostWakeUp, Due, States, Methods, Takers, Givers, Throwing,
    Classes

\* A wait that was to last for ever does not run out.
LEMMA TimeoutKeeps ==
  ASSUME IInv, NEW t \in Tasks, Timeout(t)
  PROVE  IInv'
  BY DEF Timeout, Fails, object, Pended, IInv, Typed, PendedMeanIt, FailuresDue,
    NoLostWakeUp, Due, States, Methods, Takers, Givers, Throwing, Classes

\* A call that is over leaves nothing behind.
LEMMA ReturnKeeps ==
  ASSUME IInv, NEW t \in Tasks, ReturnStep(t)
  PROVE  IInv'
<1>1. /\ \E p \in {"ready", "dead"} : Over(t, p)
      /\ pc[t] \in {"returning", "releasing", "checking"}
  BY DEF ReturnStep, return_ok, release_return, return_error, throw, Ends
<1> QED
  BY <1>1 DEF Over, object, Pended, IInv, Typed, PendedMeanIt, FailuresDue,
    NoLostWakeUp, Due, States, Methods, Takers, Givers, Throwing, Classes

\* The destructor fails everybody who pends.
LEMMA DtorKeeps ==
  ASSUME IInv, NEW t \in Tasks, dtor(t)
  PROVE  IInv'
  BY DEF dtor, Destroys, object, Pended, IInv, Typed, PendedMeanIt, FailuresDue,
    NoLostWakeUp, Due, States, Methods, Takers, Givers, Throwing, Classes

\* Every step keeps the invariant.
LEMMA NextIInv == IInv /\ [Next]_vars => IInv'
<1> SUFFICES ASSUME IInv, [Next]_vars PROVE IInv'
  OBVIOUS
<1>1. CASE UNCHANGED vars
  BY <1>1 DEF vars, object, Pended, IInv, Typed, PendedMeanIt, FailuresDue,
    NoLostWakeUp, Due, States
<1>2. ASSUME NEW t \in Tasks, acquire(t) \/ op_decrement(t) \/ try_aquire(t)
      PROVE  IInv'
  BY <1>2, TakingKeeps DEF acquire, op_decrement, try_aquire, Takers
<1>3. ASSUME NEW t \in Tasks, NEW n, Taking(t, "take", n) PROVE IInv'
  BY <1>3, TakingKeeps DEF Takers, Throwing
<1>4. ASSUME NEW t \in Tasks, give(t) \/ release(t) \/ op_increment(t)
      PROVE  IInv'
  BY <1>4, GiveKeeps DEF give, release, op_increment, Giving, Enter, Givers
<1>5. ASSUME NEW t \in Tasks, CallStep(t) PROVE IInv'
  BY <1>2, <1>3, <1>4, <1>5, ReleaseNKeeps DEF CallStep, take, take_for
<1> QED
  BY <1>1, <1>5, ReleaseGiveKeeps, ReleaseNextKeeps, TimeoutKeeps, ReturnKeeps,
    DtorKeeps DEF Next

-------------------------------------------------------------------------------
\* The invariant holds throughout.
THEOREM Invariance == Spec => []IInv
  BY InitIInv, NextIInv, PTL DEF Spec

\* Nobody pends while there is a permit, or on a deleted semaphore.
THEOREM WakeUpNotLost == Spec => []NoLostWakeUp
<1>1. IInv => NoLostWakeUp
  BY DEF IInv
<1> QED
  BY <1>1, Invariance, PTL

\* Whoever dies does so in `throw;'.
LEMMA DeathThrows ==
  ASSUME IInv, [Next]_vars, NEW t \in Tasks, pc[t] # "dead", pc'[t] = "dead"
  PROVE  throw(t)
<1>1. CASE UNCHANGED vars
  BY <1>1 DEF vars
<1>2. ASSUME NEW u \in Tasks, NEW p \in States \ {"dead"}, semGive(u, p)
      PROVE  FALSE
  BY <1>2 DEF semGive, Heirs, Pended, IInv, Typed
<1>3. ASSUME NEW u \in Tasks, NEW n, semTake(u, n) PROVE FALSE
  BY <1>3 DEF semTake, IInv, Typed
<1>4. ASSUME NEW u \in Tasks, CallStep(u) PROVE FALSE
  BY <1>2, <1>3, <1>4 DEF CallStep, acquire, op_decrement, try_aquire, take,
    take_for, give, release, op_increment, Taking, Giving, release_n, IInv,
    Typed, States
<1>5. ASSUME NEW u \in Tasks,
             \/ release_give(u) \/ release_next(u) \/ Timeout(u) \/ dtor(u)
             \/ return_ok(u) \/ release_return(u) \/ return_error(u)
      PROVE  FALSE
  BY <1>2, <1>5 DEF release_give, release_next, CountsDown, Timeout, dtor,
    return_ok, release_return, return_error, Over, IInv, Typed, States
<1>6. ASSUME NEW u \in Tasks, throw(u) PROVE throw(t)
  BY <1>6 DEF throw, Ends, Over, IInv, Typed
<1> QED
  BY <1>1, <1>4, <1>5, <1>6 DEF Next, ReturnStep

\* `throw;' ends a task only in a call that was due to fail.
THEOREM ThrowsDue == Spec => ThrowsAreDue
<1>1. IInv /\ [Next]_vars
        => [\A t \in Tasks : pc[t] # "dead" /\ pc'[t] = "dead" => Due(t)]_vars
  BY DeathThrows DEF throw, Ends, IInv, FailuresDue
<1> QED
  BY <1>1, Invariance, PTL DEF Spec, ThrowsAreDue
-------------------------------------------------------------------------------
(***************************************************************************)
(* The ledger of permits.                                                  *)
(***************************************************************************)
\* A remainder is told by its range.
LEMMA ModUnique ==
  ASSUME NEW m \in Nat \ {0}, NEW q \in Int, NEW r \in 0 .. (m - 1)
  PROVE  (m * q + r) % m = r
<1> DEFINE x == m * q + r
           d == x \div m
           s == x % m
<1>1. x \in Int /\ d \in Int /\ s \in 0 .. (m - 1) /\ x = m * d + s
  OBVIOUS
<1>2. m * (q - d) = s - r
  BY <1>1
<1>3. CASE q = d
  BY <1>1, <1>3
<1>4. CASE q > d
  <2>1. m * (q - d) >= m
    BY <1>1, <1>4
  <2> QED
    BY <1>1, <1>2, <2>1
<1>5. CASE q < d
  <2>1. m * (q - d) <= -m
    BY <1>1, <1>5
  <2> QED
    BY <1>1, <1>2, <2>1
<1> QED
  BY <1>1, <1>3, <1>4, <1>5

\* What is added to a remainder may be added before it is taken.
LEMMA ModSum ==
  ASSUME NEW m \in Nat \ {0}, NEW x \in Int, NEW k \in Int
  PROVE  ((x % m) + k) % m = (x + k) % m
<1> DEFINE q == x \div m
           y == (x % m) + k
           d == y \div m
           s == y % m
<1>1. q \in Int /\ x % m \in Int /\ x = m * q + (x % m)
  OBVIOUS
<1>2. d \in Int /\ s \in 0 .. (m - 1) /\ y = m * d + s
  BY <1>1
<1>3. x + k = m * (q + d) + s
  BY <1>1, <1>2
<1>4. (m * (q + d) + s) % m = s
  <2>1. \A a \in Int, r \in 0 .. (m - 1) : (m * a + r) % m = r
    BY ModUnique
  <2>2. q + d \in Int
    BY <1>1, <1>2
  <2> HIDE DEF q, d, s
  <2> QED
    BY <1>2, <2>1, <2>2
<1> QED
  BY <1>3, <1>4

\* The calls that Unreported counts: the kernel has granted them and the
\* callers do not know yet.
InReturn(ms) ==
  {t \in Tasks : /\ pc[t] \in {"returning", "checking"} /\ status[t] = "OK"
                 /\ method[t] \in ms}
Took == InReturn(Takers)
Gave == InReturn(Givers)

\* One task more in a set of tasks.
LEMMA Joins ==
  ASSUME IsFiniteSet(Tasks), NEW A \in SUBSET Tasks, NEW t \in Tasks \ A
  PROVE  Cardinality(A \cup {t}) = Cardinality(A) + 1
  BY FS_Subset, FS_AddElement

\* One task less.
LEMMA RemovedOne ==
  ASSUME IsFiniteSet(Tasks), NEW A \in SUBSET Tasks, NEW t \in A
  PROVE  Cardinality(A \ {t}) = Cardinality(A) - 1
  BY FS_Subset, FS_RemoveElement

\* Tasks can be counted.
LEMMA Counted ==
  ASSUME IsFiniteSet(Tasks), NEW A \in SUBSET Tasks
  PROVE  Cardinality(A) \in Nat
  BY FS_Subset, FS_CardinalityType

\* What the ledger stands for.
Balance == count + Cardinality(Took) - Cardinality(Gave)

\* The ledger and what it stands for move together.
Balanced ==
  \/ ledger' = ledger /\ Balance' = Balance
  \/ \E k \in {1, -1} : Credit(k) /\ Balance' = Balance + k

\* A take takes the permit from the count.
LEMMA TakingBalanced ==
  ASSUME IsFiniteSet(Tasks), IInv, NEW t \in Tasks, NEW m \in Takers, NEW n,
         Taking(t, m, n)
  PROVE  Balanced
<1>1. /\ ledger' = ledger /\ Gave' = Gave
      /\ t \in Tasks \ Took
  BY DEF Taking, Enter, semTake, InReturn, Took, Gave, Methods, Takers, Givers,
    IInv, Typed
<1>2. CASE Took' = Took /\ count' = count
  BY <1>1, <1>2 DEF Balanced, Balance
<1>3. CASE Took' = Took \cup {t} /\ count' = count - 1
  <2>1. Cardinality(Took') = Cardinality(Took) + 1
    BY <1>1, <1>3, Joins DEF InReturn, Took, Gave
  <2>2. Cardinality(Took) \in Nat /\ Cardinality(Gave) \in Nat
    BY Counted DEF InReturn, Took, Gave
  <2> QED
    BY <1>1, <1>3, <2>1, <2>2 DEF Balanced, Balance, IInv, Typed
<1>4. \/ Took' = Took /\ count' = count
      \/ Took' = Took \cup {t} /\ count' = count - 1
  BY DEF Taking, Enter, semTake, InReturn, Took, Gave, Methods, Takers, Givers,
    IInv, Typed
<1> QED
  BY <1>2, <1>3, <1>4

\* A give lets an heir take the permit, or adds it to the count.
LEMMA GiveMoves ==
  ASSUME IsFiniteSet(Tasks), IInv, NEW t \in Tasks,
         NEW p \in {"returning", "checking"}, NEW m \in Givers,
         pc[t] \in {"ready", "releasing"}, semGive(t, p),
         method' = [method EXCEPT ![t] = m], class = "counting"
  PROVE  /\ status'[t] = "OK" =>
              count' + Cardinality(Took')
                = count + Cardinality(Took) + 1
         /\ status'[t] # "OK" =>
              count' = count /\ Took' = Took
         /\ Gave' = IF status'[t] = "OK" THEN Gave \cup {t} ELSE Gave
         /\ t \notin Gave
<1>1. CASE Pended = {}
  <2>1. /\ pc' = [pc EXCEPT ![t] = p]
        /\ \/ status' = [status EXCEPT ![t] = "OK"] /\ count' = count + 1
           \/ status' = [status EXCEPT ![t] = "ERROR"] /\ count' = count
    BY <1>1 DEF semGive, Heirs
  <2>2. /\ Took' = Took
        /\ Gave' = IF status'[t] = "OK" THEN Gave \cup {t} ELSE Gave
        /\ t \notin Gave
    BY <2>1 DEF InReturn, Took, Gave, Methods, Takers, Givers, IInv, Typed
  <2>3. Cardinality(Took) \in Nat
    BY Counted DEF InReturn, Took, Gave
  <2> QED
    BY <2>1, <2>2, <2>3 DEF IInv, Typed
<1>2. ASSUME NEW h \in Heirs, UNCHANGED count,
             pc' = [pc EXCEPT ![t] = p, ![h] = "returning"],
             status' = [status EXCEPT ![t] = "OK", ![h] = "OK"]
      PROVE  /\ status'[t] = "OK"
             /\ Took' = Took \cup {h} /\ h \in Tasks \ Took
             /\ Gave' = Gave \cup {t}
             /\ t \notin Gave
  BY <1>2 DEF Pended, Heirs, InReturn, Took, Gave, Methods, Takers, Givers,
    IInv, Typed,
    PendedMeanIt
<1>3. ASSUME NEW h \in Tasks \ Took, Took' = Took \cup {h},
             count' = count
      PROVE  count' + Cardinality(Took')
               = count + Cardinality(Took) + 1
  <2>1. Cardinality(Took') = Cardinality(Took) + 1
    BY <1>3, Joins DEF InReturn, Took, Gave
  <2>2. Cardinality(Took) \in Nat
    BY Counted DEF InReturn, Took, Gave
  <2> QED
    BY <1>3, <2>1, <2>2 DEF IInv, Typed
<1> QED
  BY <1>1, <1>2, <1>3 DEF semGive

\* A give that the caller does not know of yet.
LEMMA GiveBalanced ==
  ASSUME IsFiniteSet(Tasks), IInv, NEW t \in Tasks,
         NEW p \in {"returning", "checking"}, NEW m \in Givers,
         pc[t] \in {"ready", "releasing"}, semGive(t, p),
         method' = [method EXCEPT ![t] = m], class = "counting",
         UNCHANGED ledger
  PROVE  Balanced
<1>1. /\ Cardinality(Gave) \in Nat /\ Cardinality(Took) \in Nat
      /\ Cardinality(Took') \in Nat /\ count \in Nat /\ count' \in Nat
  <2>1. Took' \in SUBSET Tasks
    BY DEF InReturn, Took
  <2>2. count' \in Nat
    BY GiveCounts DEF IInv, Typed
  <2> QED
    BY <2>1, <2>2, Counted DEF InReturn, Took, Gave, IInv, Typed
<1>2. CASE status'[t] = "OK"
  <2>1. Gave' = Gave \cup {t} /\ t \in Tasks \ Gave
    BY <1>2, GiveMoves
  <2>2. Cardinality(Gave') = Cardinality(Gave) + 1
    BY <2>1, Joins DEF InReturn, Gave
  <2>3. count' + Cardinality(Took') = count + Cardinality(Took) + 1
    BY <1>2, GiveMoves
  <2> QED
    BY <1>1, <2>2, <2>3 DEF Balanced, Balance
<1>3. CASE status'[t] # "OK"
  <2>1. Gave' = Gave /\ Took' = Took /\ count' = count
    BY <1>3, GiveMoves
  <2> QED
    BY <2>1 DEF Balanced, Balance
<1> QED
  BY <1>2, <1>3

\* A turn of the loop gives as any other call does.
LEMMA ReleaseGiveBalanced ==
  ASSUME IsFiniteSet(Tasks), IInv, NEW t \in Tasks, release_give(t),
         class = "counting"
  PROVE  Balanced
<1>1. /\ method' = [method EXCEPT ![t] = "release(n)"] /\ pc[t] = "releasing"
      /\ ledger' = ledger
  BY DEF release_give, IInv, Typed, PendedMeanIt
<1>2. CASE semGive(t, "checking")
  BY <1>1, <1>2, GiveBalanced DEF Givers
<1>3. CASE /\ status' = [status EXCEPT ![t] = "ERROR"]
           /\ pc' = [pc EXCEPT ![t] = "checking"] /\ UNCHANGED count
  <2>1. Took' = Took /\ Gave' = Gave
    BY <1>1, <1>3 DEF InReturn, Took, Gave, IInv, Typed
  <2> QED
    BY <1>1, <1>3, <2>1 DEF Balanced, Balance
<1> QED
  BY <1>2, <1>3 DEF release_give

\* One give fewer that the caller does not know of.
LEMMA GiveTold ==
  ASSUME IsFiniteSet(Tasks), IInv, NEW t \in Gave, count' = count,
         Took' = Took, Gave' = Gave \ {t}, Credit(1)
  PROVE  Balanced
<1>1. Cardinality(Gave') = Cardinality(Gave) - 1
  BY RemovedOne DEF InReturn, Gave
<1>2. /\ Cardinality(Took) \in Nat /\ Cardinality(Gave) \in Nat
      /\ count \in Nat
  BY Counted DEF InReturn, Took, Gave, IInv, Typed
<1>3. Balance' = Balance + 1
  BY <1>1, <1>2 DEF Balance
<1> QED
  BY <1>3 DEF Balanced

\* The loop counts what it gave.
LEMMA ReleaseNextBalanced ==
  ASSUME IsFiniteSet(Tasks), IInv, NEW t \in Tasks, release_next(t)
  PROVE  Balanced
<1>1. /\ t \in Gave /\ count' = count /\ Credit(1)
      /\ Took' = Took /\ Gave' = Gave \ {t}
  BY DEF release_next, CountsDown, InReturn, Took, Gave, IInv, Typed,
    PendedMeanIt, Methods, Takers, Givers
<1> QED
  BY <1>1, GiveTold

\* What is told is told once.
LEMMA ReturnBalanced ==
  ASSUME IsFiniteSet(Tasks), IInv, NEW t \in Tasks, ReturnStep(t)
  PROVE  Balanced
<1>1. CASE return_ok(t)
  <2>1. /\ pc[t] = "returning" /\ status[t] = "OK" /\ count' = count
        /\ Took' = Took \ {t}
        /\ Gave' = Gave \ {t}
    BY <1>1 DEF return_ok, Over, InReturn, Took, Gave, IInv, Typed
  <2>2. \/ method[t] \in Givers /\ Credit(1) /\ t \in Gave /\ t \notin Took
        \/ method[t] \in Takers /\ Credit(-1) /\ t \in Took /\ t \notin Gave
    BY <1>1 DEF return_ok, InReturn, Took, Gave, Methods, Takers, Givers, IInv,
      Typed,
      PendedMeanIt
  <2>3. Cardinality(Took) \in Nat /\ Cardinality(Gave) \in Nat
        /\ count \in Nat
    BY Counted DEF InReturn, Took, Gave, IInv, Typed
  <2>4. CASE t \in Gave /\ t \notin Took /\ Credit(1)
    BY <2>1, <2>4, GiveTold
  <2>5. CASE t \in Took /\ t \notin Gave /\ Credit(-1)
    <3>1. Gave' = Gave
      BY <2>1, <2>5
    <3>2. Cardinality(Took') = Cardinality(Took) - 1
      BY <2>1, <2>5, RemovedOne DEF InReturn, Took, Gave
    <3>3. count' = count
      BY <2>1
    <3>4. Balance' = Balance + (-1)
      BY <2>3, <3>1, <3>2, <3>3 DEF Balance
    <3> QED
      BY <2>5, <3>4 DEF Balanced
  <2> QED
    BY <2>2, <2>4, <2>5
<1>2. CASE release_return(t) \/ return_error(t) \/ throw(t)
  <2>1. Took' = Took /\ Gave' = Gave
    BY <1>2 DEF InReturn, Took, Gave, release_return, return_error, throw,
      Ends, Over, IInv, Typed, PendedMeanIt
  <2> QED
    BY <1>2, <2>1 DEF Balanced, Balance, release_return, return_error, throw,
      Ends, Over
<1> QED
  BY <1>1, <1>2 DEF ReturnStep

\* Every step of a counting semaphore keeps its books.
LEMMA NextBalanced ==
  ASSUME IsFiniteSet(Tasks), IInv, [Next]_vars, class = "counting"
  PROVE  Balanced
<1>1. CASE UNCHANGED vars
  BY <1>1 DEF vars, object, Balanced, Balance, InReturn, Took, Gave
<1>2. ASSUME NEW t \in Tasks, NEW m \in Takers, NEW n, Taking(t, m, n)
      PROVE  Balanced
  BY <1>2, TakingBalanced
<1>3. ASSUME NEW t \in Tasks, NEW m \in Givers, Giving(t, m) PROVE Balanced
  BY <1>3, GiveBalanced DEF Giving, Enter
<1>4. ASSUME NEW t \in Tasks, CallStep(t) PROVE Balanced
  <2>1. CASE \E n : release_n(t, n)
    <3>1. Took' = Took /\ Gave' = Gave
      BY <2>1 DEF InReturn, Took, Gave, release_n, Enter, IInv, Typed
    <3> QED
      BY <2>1, <3>1 DEF Balanced, Balance, release_n, Enter
  <2> QED
    BY <1>2, <1>3, <1>4, <2>1 DEF CallStep, acquire, op_decrement, try_aquire,
       take, take_for, give, release, op_increment, Takers, Givers
<1>5. ASSUME NEW t \in Tasks, Timeout(t) \/ dtor(t) PROVE Balanced
  <2>1. Took' = Took /\ Gave' = Gave
    BY <1>5 DEF InReturn, Took, Gave, Timeout, dtor, Destroys, Pended, IInv,
      Typed
  <2> QED
    BY <1>5, <2>1 DEF Balanced, Balance, Timeout, dtor, Destroys
<1> QED
  BY <1>1, <1>4, <1>5, ReleaseGiveBalanced, ReleaseNextBalanced,
    ReturnBalanced DEF Next

\* No permit of a counting semaphore is lost or made up.
THEOREM NothingLost == IsFiniteSet(Tasks) /\ Spec => []PermitsAddUp
<1> SUFFICES ASSUME IsFiniteSet(Tasks) PROVE Spec => []PermitsAddUp
  OBVIOUS
<1>1. Init => PermitsAddUp
  <2> SUFFICES ASSUME Init PROVE ledger = Balance % LedgerMod
    BY DEF PermitsAddUp, Balance, Unreported, InReturn, Took, Gave
  <2>1. Took = {} /\ Gave = {} /\ count \in Nat
    BY InitialCount DEF Init, InReturn, Took, Gave
  <2>2. Cardinality({}) = 0
    BY FS_EmptySet
  <2> QED
    BY <2>1, <2>2 DEF Init, Balance
<1>2. IInv /\ PermitsAddUp /\ [Next]_vars => PermitsAddUp'
  <2> SUFFICES ASSUME IInv, PermitsAddUp, [Next]_vars, class' = "counting"
               PROVE  ledger' = Balance' % LedgerMod
    BY DEF PermitsAddUp, Balance, Unreported, InReturn, Took, Gave
  <2>1. class = "counting"
    BY DEF Next, vars, CallStep, acquire, op_decrement, try_aquire, take,
       take_for, give, release, op_increment, Taking, Giving, release_n, Enter,
       release_give, release_next, CountsDown, Timeout, ReturnStep, return_ok,
       release_return, return_error, throw, Ends, Over, dtor, Destroys, object
  <2>2. Balanced
    BY <2>1, NextBalanced
  <2>3. /\ Balance \in Int /\ LedgerMod \in Nat \ {0}
        /\ ledger = Balance % LedgerMod
    BY <2>1, Counted, SemaphoreAssumption DEF Balance, InReturn, Took, Gave,
      PermitsAddUp,
      Unreported, IInv, Typed
  <2> QED
    BY <2>2, <2>3, ModSum DEF Balanced, Credit
<1> QED
  BY <1>1, <1>2, Invariance, PTL DEF Spec
===============================================================================
