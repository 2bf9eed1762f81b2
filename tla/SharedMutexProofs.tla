--------------------------- MODULE SharedMutexProofs ---------------------------
(***************************************************************************)
(* Proofs about SharedMutex, for any tasks, priorities, limits, options    *)
(* and timeouts.  IInv is the inductive invariant: what a task counts on,  *)
(* what the kernel has for it and what the call it is in will tell it go   *)
(* together; who writes is alone; and somebody holds what others wait for. *)
(***************************************************************************)
EXTENDS SharedMutex, FiniteSetTheorems, TLAPS

States == {"ready", "pended", "returning", "dead"}
Takers == WriteTakers \cup ReadTakers

\* The part of TypeOK that the proofs rest on.
Typed ==
  /\ limit \in Nat \ {0}
  /\ writer \in Tasks \cup {NoTask}
  /\ level \in [Tasks -> Nat]
  /\ pc \in [Tasks -> States]
  /\ method \in [Tasks -> Methods \cup {"none"}]
  /\ status \in [Tasks -> {"OK", "ERROR"}]
  /\ exclusive \in [Tasks -> Nat] /\ shared \in [Tasks -> Nat]

\* The writer has a level, and nobody else has one.
WriterAlone ==
  writer # NoTask =>
    level[writer] > 0 /\ \A u \in Tasks \ {writer} : level[u] = 0

\* A take that was granted and not yet told is the one level t does not
\* count on.
Untold(t) ==
  IF pc[t] = "returning" /\ status[t] = "OK" /\ method[t] \in Takers
  THEN 1 ELSE 0

\* The levels of a task that lives are those it counts on or is about to.
LevelsCounted ==
  \A t \in Tasks :
    /\ pc[t] # "dead" => level[t] = exclusive[t] + shared[t] + Untold(t)
    /\ pc[t] = "dead" => exclusive[t] = 0 /\ shared[t] = 0

\* Who counts on writing, or is about to, is the writer.
WritersWrite ==
  \A t \in Tasks :
    \/ exclusive[t] > 0
    \/ pc[t] = "returning" /\ status[t] = "OK" /\ method[t] \in WriteTakers
    => writer = t

\* A task that pends is in a take, for its first level if it is to read; one
\* that is ready is in no call.
CallsMeanIt ==
  \A t \in Tasks :
    /\ pc[t] = "ready" => method[t] = "none"
    /\ pc[t] = "pended" => method[t] \in Takers
    /\ pc[t] = "pended" /\ method[t] \in ReadTakers => level[t] = 0

\* The inductive invariant.
IInv ==
  /\ Typed /\ WriterAlone /\ LevelsCounted /\ WritersWrite /\ CallsMeanIt
  /\ NoLostHandOver

\* With finitely many tasks: no more readers than may be.
ReadersLimited == Cardinality(Readers) <= limit
\* Nobody counts on anything before anybody calls.
LEMMA InitIInv == Init => IInv
<1> SUFFICES ASSUME Init PROVE IInv
  OBVIOUS
<1>1. limit \in Nat \ {0}
  BY SharedMutexAssumption DEF Init, Allowed, defaultMaxReaders
<1> QED
  BY <1>1, SharedMutexAssumption DEF Init, IInv, Typed, WriterAlone,
    LevelsCounted, WritersWrite, CallsMeanIt, NoLostHandOver, Untold, States,
    Readers, Pended

\* Who asks to write has the semaphore alone, once more, or waits for others.
LEMMA WritingKeeps ==
  ASSUME IInv, NEW t \in Tasks, NEW m \in WriteTakers, NEW n, Writing(t, m, n)
  PROVE  IInv'
  BY SharedMutexAssumption DEF Writing, semWTake, Enter, object, kernel, held,
    Answer, Taken, Refused, Pend, call, IInv, Typed, WriterAlone, LevelsCounted,
    WritersWrite, CallsMeanIt, NoLostHandOver, Untold, States, Readers, Pended,
    Methods, Takers, WriteTakers, ReadTakers, Throwing

\* Who asks to read reads beside readers, once more, or waits.
LEMMA ReadingKeeps ==
  ASSUME IInv, NEW t \in Tasks, NEW m \in ReadTakers, NEW n, Reading(t, m, n)
  PROVE  IInv'
<1>1. Enter(t, m) /\ semRTake(t, n) /\ UNCHANGED held
  BY DEF Reading
<1>2. CASE (level[t] > 0 \/ writer = NoTask) /\ Taken(t) /\ UNCHANGED writer
  BY <1>1, <1>2, SharedMutexAssumption DEF Enter, object, kernel, held, Answer,
    Taken, Refused, Pend, call, IInv, Typed, WriterAlone, LevelsCounted,
    WritersWrite, CallsMeanIt, NoLostHandOver, Untold, States, Readers, Pended,
    Methods, Takers, WriteTakers, ReadTakers, Throwing
<1>3. CASE Refused(t)
  BY <1>1, <1>3 DEF Enter, object, kernel, held, Answer, Taken, Refused, Pend,
    call, IInv, Typed, WriterAlone, LevelsCounted, WritersWrite, CallsMeanIt,
    NoLostHandOver, Untold, States, Readers, Pended, Methods, Takers,
    WriteTakers, ReadTakers, Throwing
<1>4. CASE level[t] = 0 /\ Pend(t, n) /\ (writer # NoTask \/ Readers # {})
  BY <1>1, <1>4 DEF Enter, object, kernel, held, Answer, Taken, Refused, Pend,
    call, IInv, Typed, WriterAlone, LevelsCounted, WritersWrite, CallsMeanIt,
    NoLostHandOver, Untold, States, Readers, Pended, Methods, Takers,
    WriteTakers, ReadTakers, Throwing
<1>5. \/ ~(writer = NoTask /\ Cardinality(Readers) < limit)
      \/ PendedWriters # {}
      => writer # NoTask \/ Readers # {}
  BY FS_EmptySet DEF PendedWriters, IInv, Typed, NoLostHandOver
<1> QED
  BY <1>1, <1>2, <1>3, <1>4, <1>5 DEF semRTake

\* The last level goes to readers, to a writer or to nobody.
LEMMA LetInKeeps ==
  ASSUME IInv, NEW t \in Tasks, NEW m \in Methods \ Takers, NEW kinds,
         NEW w \in Tasks \cup {NoTask}, NEW S \in SUBSET Pended,
         Enter(t, m), Drops(t, kinds), level[t] = 1, LetIn(t, w, S),
         \/ w = NoTask /\ S \subseteq PendedReaders
         \/ w \in PendedWriters /\ S = {w} /\ Readers \subseteq {t},
         Pended # {} => w # NoTask \/ (Readers \ {t}) \cup S # {}
  PROVE  IInv'
<1>1. /\ pc[t] = "ready" /\ method' = [method EXCEPT ![t] = m] /\ life = "live"
      /\ UNCHANGED <<limit, life>> /\ method[t] = "none"
  BY DEF Enter, object, IInv, CallsMeanIt
<1>2. \A u \in S : /\ u \in Tasks /\ pc[u] = "pended"
                    /\ u # t /\ method[u] \in Takers
  BY <1>1 DEF Pended, IInv, CallsMeanIt
<1>3. \A u \in S : level[u] = 0 /\ u # writer
  <2>1. CASE S \subseteq PendedReaders
    BY <1>2, <2>1, SharedMutexAssumption
    DEF PendedReaders, IInv, CallsMeanIt, WriterAlone
  <2>2. CASE Readers \subseteq {t}
    BY <1>2, <2>2, SharedMutexAssumption DEF Readers, IInv, Typed, WriterAlone
  <2> QED
    BY <2>1, <2>2
<1>4. \A u \in Tasks \ {t} : exclusive[u] = 0 /\ writer # u
  BY SharedMutexAssumption DEF IInv, WriterAlone, WritersWrite, Typed
<1>5. /\ exclusive' \in [Tasks -> Nat] /\ shared' \in [Tasks -> Nat]
      /\ exclusive'[t] = 0 /\ shared'[t] = 0
      /\ \A u \in Tasks \ {t} :
           exclusive'[u] = exclusive[u] /\ shared'[u] = shared[u]
  <2>1. /\ exclusive \in [Tasks -> Nat] /\ shared \in [Tasks -> Nat]
        /\ exclusive[t] + shared[t] = 1
    BY <1>1 DEF IInv, Typed, LevelsCounted, Untold
  <2>2. \/ /\ exclusive[t] = 1 /\ shared[t] = 0 /\ shared' = shared
           /\ exclusive' = [exclusive EXCEPT ![t] = @ - 1]
        \/ /\ exclusive[t] = 0 /\ shared[t] = 1 /\ exclusive' = exclusive
           /\ shared' = [shared EXCEPT ![t] = @ - 1]
    BY <2>1 DEF Drops
  <2> QED
    BY <2>1, <2>2
<1>6. /\ level' \in [Tasks -> Nat] /\ level'[t] = 0
      /\ \A u \in S : level'[u] = 1
      /\ \A u \in Tasks \ S : u # t => level'[u] = level[u]
  BY <1>2 DEF LetIn, IInv, Typed
<1>7. /\ pc' \in [Tasks -> States] /\ status' \in [Tasks -> {"OK", "ERROR"}]
      /\ \A u \in S \cup {t} : pc'[u] = "returning" /\ status'[u] = "OK"
      /\ \A u \in Tasks \ (S \cup {t}) :
           pc'[u] = pc[u] /\ status'[u] = status[u]
  <2>1. S \subseteq Tasks /\ "returning" \in States
    BY <1>2 DEF States
  <2>2. pc \in [Tasks -> States] /\ status \in [Tasks -> {"OK", "ERROR"}]
    BY DEF IInv, Typed
  <2> QED
    BY <2>1, <2>2 DEF LetIn
<1>8. /\ method' \in [Tasks -> Methods \cup {"none"}] /\ method'[t] = m
      /\ \A u \in Tasks \ {t} : method'[u] = method[u]
  BY <1>1 DEF IInv, Typed
<1>9. Typed'
  BY <1>1, <1>5, <1>6, <1>7, <1>8 DEF LetIn, IInv, Typed
<1>10. LevelsCounted'
  BY <1>1, <1>2, <1>3, <1>5, <1>6, <1>7, <1>8 DEF LevelsCounted, Untold, IInv,
    Typed
<1>11. CallsMeanIt'
  BY <1>1, <1>2, <1>5, <1>6, <1>7, <1>8 DEF CallsMeanIt, IInv, Typed
<1>12. CASE w = NoTask /\ S \subseteq PendedReaders
  <2>1. writer' = NoTask
    BY <1>12 DEF LetIn
  <2>2. WriterAlone'
    BY <2>1 DEF WriterAlone
  <2>3. WritersWrite'
    BY <1>2, <1>4, <1>5, <1>7, <1>8, <1>12 DEF WritersWrite, PendedReaders,
      IInv, Methods, Takers, WriteTakers, ReadTakers, Throwing
  <2>4. NoLostHandOver'
    <3>1. Pended' \subseteq Pended
      BY <1>2, <1>7 DEF Pended
    <3>2. (Readers \ {t}) \cup S \subseteq Readers'
      BY <1>2, <1>6, <2>1, SharedMutexAssumption DEF Readers
    <3> QED
      BY <1>1, <1>12, <3>1, <3>2 DEF NoLostHandOver
  <2> QED
    BY <1>9, <1>10, <1>11, <2>2, <2>3, <2>4 DEF IInv
<1>13. CASE w \in PendedWriters /\ S = {w} /\ Readers \subseteq {t}
  <2>1. writer' = w /\ w \in Tasks /\ w # NoTask
    BY <1>2, <1>13, SharedMutexAssumption DEF LetIn
  <2>2. WriterAlone'
    BY <1>4, <1>6, <1>13, <2>1 DEF WriterAlone, Readers, Typed, IInv
  <2>3. WritersWrite'
    BY <1>2, <1>4, <1>5, <1>7, <1>8, <1>13, <2>1 DEF WritersWrite, IInv,
      Methods, Takers, WriteTakers, ReadTakers, Throwing
  <2>4. NoLostHandOver'
    BY <1>1, <2>1 DEF NoLostHandOver
  <2> QED
    BY <1>9, <1>10, <1>11, <2>2, <2>3, <2>4 DEF IInv
<1> QED
  BY <1>12, <1>13

\* A give lets go of one level, or is refused to who has none.
LEMMA GivingKeeps ==
  ASSUME IInv, NEW t \in Tasks, NEW m \in Methods \ Takers, NEW kinds,
         Giving(t, m, kinds)
  PROVE  IInv'
<1>1. Enter(t, m) /\ Drops(t, kinds) /\ semRWGive(t)
  BY DEF Giving
<1>2. CASE level[t] = 0 /\ Refused(t)
  BY <1>1, <1>2, SharedMutexAssumption DEF Drops, Enter, object, kernel, held,
    Answer, Taken, Refused, Pend, call, IInv, Typed, WriterAlone, LevelsCounted,
    WritersWrite, CallsMeanIt, NoLostHandOver, Untold, States, Readers, Pended,
    Methods, Takers, WriteTakers, ReadTakers, Throwing
<1>3. CASE /\ level[t] > 1
           /\ level' = [level EXCEPT ![t] = @ - 1]
           /\ Answer(t, "OK")
           /\ UNCHANGED writer
  BY <1>1, <1>3, SharedMutexAssumption DEF Drops, Enter, object, kernel, held,
    Answer, Taken, Refused, Pend, call, IInv, Typed, WriterAlone, LevelsCounted,
    WritersWrite, CallsMeanIt, NoLostHandOver, Untold, States, Readers, Pended,
    Methods, Takers, WriteTakers, ReadTakers, Throwing
<1>4. CASE level[t] = 1 /\ Pended = {} /\ LetIn(t, NoTask, {})
  BY <1>1, <1>4, LetInKeeps
<1>5. ASSUME level[t] = 1, Readers \subseteq {t}, NEW w \in PendedWriters,
             LetIn(t, w, {w})
      PROVE  IInv'
  <2>1. w \in Tasks /\ w # NoTask /\ {w} \in SUBSET Pended
    BY SharedMutexAssumption DEF PendedWriters, Pended
  <2> QED
    BY <1>1, <1>5, <2>1, LetInKeeps
<1>6. ASSUME level[t] = 1, NEW S \in Admissible(Readers \ {t}),
             LetIn(t, NoTask, S)
      PROVE  IInv'
  <2>1. /\ S \in SUBSET Pended
        /\ S \subseteq PendedReaders
        /\ (Readers \ {t}) \cup S # {}
    BY DEF Admissible, PendedReaders
  <2> QED
    BY <1>1, <1>6, <2>1, LetInKeeps
<1> QED
  BY <1>1, <1>2, <1>3, <1>4, <1>5, <1>6 DEF semRWGive

\* A wait that ran out is told to have failed.
LEMMA TimeoutKeeps ==
  ASSUME IInv, NEW t \in Tasks, Timeout(t)
  PROVE  IInv'
  BY SharedMutexAssumption DEF Timeout, Enter, object, kernel, held, Answer,
    Taken, Refused, Pend, call, IInv, Typed, WriterAlone, LevelsCounted,
    WritersWrite, CallsMeanIt, NoLostHandOver, Untold, States, Readers, Pended,
    Methods, Takers, WriteTakers, ReadTakers, Throwing

\* What was granted is counted on.
LEMMA ReturnKeeps ==
  ASSUME IInv, NEW t \in Tasks, return_ok(t) \/ return_error(t)
  PROVE  IInv'
<1>1. CASE return_error(t)
  BY <1>1 DEF return_error, Resume, Enter, object, kernel, held, Answer, Taken,
    Refused, Pend, call, IInv, Typed, WriterAlone, LevelsCounted, WritersWrite,
    CallsMeanIt, NoLostHandOver, Untold, States, Readers, Pended, Methods,
    Takers, WriteTakers, ReadTakers, Throwing
<1>2. CASE return_ok(t)
  <2>1. /\ pc[t] = "returning" /\ status[t] = "OK"
        /\ pc' = [pc EXCEPT ![t] = "ready"]
        /\ status' = [status EXCEPT ![t] = "OK"]
        /\ method' = [method EXCEPT ![t] = "none"]
        /\ UNCHANGED <<limit, life, writer, level>>
    BY <1>2 DEF return_ok, Resume, object, kernel
  <2>2. /\ exclusive' = [exclusive EXCEPT
                         ![t] = @ + IF method[t] \in WriteTakers THEN 1 ELSE 0]
        /\ shared' = [shared EXCEPT
                      ![t] = @ + IF method[t] \in ReadTakers THEN 1 ELSE 0]
    BY <1>2 DEF return_ok, Count
  <2>3. exclusive'[t] + shared'[t] = exclusive[t] + shared[t] + Untold(t)
    BY <2>1, <2>2 DEF IInv, Typed, Untold, Methods, Takers, WriteTakers,
      ReadTakers, Throwing
  <2>4. Typed' /\ WriterAlone' /\ CallsMeanIt' /\ NoLostHandOver'
    BY <2>1, <2>2 DEF IInv, Typed, WriterAlone, LevelsCounted, WritersWrite,
      CallsMeanIt, NoLostHandOver, Untold, States, Readers, Pended
  <2>5. LevelsCounted'
    BY <2>1, <2>2, <2>3 DEF IInv, Typed, LevelsCounted, Untold
  <2>6. WritersWrite'
    BY <2>1, <2>2 DEF IInv, Typed, WritersWrite
  <2> QED
    BY <2>4, <2>5, <2>6 DEF IInv
<1> QED
  BY <1>1, <1>2

\* A task that dies counts on nothing; what it owned stays owned.
LEMMA ThrowKeeps ==
  ASSUME IInv, NEW t \in Tasks, throw(t)
  PROVE  IInv'
  BY SharedMutexAssumption DEF throw, Die, Enter, object, kernel, held, Answer,
    Taken, Refused, Pend, call, IInv, Typed, WriterAlone, LevelsCounted,
    WritersWrite, CallsMeanIt, NoLostHandOver, Untold, States, Readers, Pended,
    Methods, Takers, WriteTakers, ReadTakers, Throwing

\* The destructor fails everybody who pends.
LEMMA DtorKeeps ==
  ASSUME IInv, NEW t \in Tasks, dtor(t)
  PROVE  IInv'
  BY SharedMutexAssumption DEF dtor, Enter, object, kernel, held, Answer, Taken,
    Refused, Pend, call, IInv, Typed, WriterAlone, LevelsCounted, WritersWrite,
    CallsMeanIt, NoLostHandOver, Untold, States, Readers, Pended, Methods,
    Takers, WriteTakers, ReadTakers, Throwing

\* What CallStep comes to: a request of one kind or the other, or a give.
LEMMA CallKinds ==
  ASSUME NEW t \in Tasks, CallStep(t)
  PROVE  \/ \E m \in WriteTakers : \E n : Writing(t, m, n)
         \/ \E m \in ReadTakers : \E n : Reading(t, m, n)
         \/ \E m \in Methods \ Takers : \E kinds : Giving(t, m, kinds)
  BY DEF CallStep, lock, op_decrement, try_lock, lock_shared, try_lock_shared,
    unlock, op_increment, unlock_shared, give, take, take_shared,
    try_lock_for, try_lock_shared_for, try_lock_until,
    try_lock_shared_until, Methods, Takers, WriteTakers, ReadTakers,
    Throwing

\* Every step keeps the invariant.
LEMMA NextIInv == IInv /\ [Next]_vars => IInv'
<1> SUFFICES ASSUME IInv, [Next]_vars PROVE IInv'
  OBVIOUS
<1>1. CASE UNCHANGED vars
  BY <1>1 DEF vars, IInv, Typed, WriterAlone, LevelsCounted, WritersWrite,
    CallsMeanIt, NoLostHandOver, Untold, States, Readers, Pended
<1>2. ASSUME NEW t \in Tasks, CallStep(t) PROVE IInv'
  BY <1>2, CallKinds, WritingKeeps, ReadingKeeps, GivingKeeps
<1> QED
  BY <1>1, <1>2, TimeoutKeeps, ReturnKeeps, ThrowKeeps, DtorKeeps DEF Next

-------------------------------------------------------------------------------
\* The invariant holds throughout.
THEOREM Invariance == Spec => []IInv
  BY InitIInv, NextIInv, PTL DEF Spec

\* Nobody pends on a mutex that nobody holds, or on one that is gone.
THEOREM HandOverNotLost == Spec => []NoLostHandOver
<1>1. IInv => NoLostHandOver
  BY DEF IInv
<1> QED
  BY <1>1, Invariance, PTL

\* One give serves both modes: what callers count on is what the kernel has.
THEOREM Backed == Spec => []LevelsBacked
<1>1. IInv => LevelsBacked
  BY DEF IInv, Typed, LevelsCounted, WritersWrite, Untold, LevelsBacked
<1> QED
  BY <1>1, Invariance, PTL

\* Who counts on the mutex in either mode has a level of it.
LEMMA HoldersHaveLevels ==
  ASSUME IInv, NEW t \in Tasks, exclusive[t] > 0 \/ shared[t] > 0
  PROVE  level[t] > 0
<1>1. /\ exclusive[t] \in Nat /\ shared[t] \in Nat
      /\ Untold(t) \in Nat /\ level[t] \in Nat
  BY DEF IInv, Typed, Untold
<1>2. level[t] = exclusive[t] + shared[t] + Untold(t)
  BY <1>1 DEF IInv, LevelsCounted
<1> QED
  BY <1>1, <1>2

\* While one task counts on writing, no other counts on writing or reading.
THEOREM Exclusion ==
  Spec => [](\A t, u \in Tasks : exclusive[t] > 0 /\ u # t =>
               exclusive[u] = 0 /\ shared[u] = 0)
<1>1. IInv => \A t, u \in Tasks : exclusive[t] > 0 /\ u # t =>
                exclusive[u] = 0 /\ shared[u] = 0
  <2> SUFFICES ASSUME IInv, NEW t \in Tasks, NEW u \in Tasks,
                      exclusive[t] > 0, u # t
               PROVE  exclusive[u] = 0 /\ shared[u] = 0
    OBVIOUS
  <2>1. writer = t /\ t # NoTask
    BY SharedMutexAssumption DEF IInv, WritersWrite
  <2>2. level[u] = 0
    BY <2>1 DEF IInv, WriterAlone
  <2>3. ~(exclusive[u] > 0 \/ shared[u] > 0)
    BY <2>2, HoldersHaveLevels
  <2> QED
    BY <2>3 DEF IInv, Typed
<1> QED
  BY <1>1, Invariance, PTL

-------------------------------------------------------------------------------
(***************************************************************************)
(* The limit on readers, and when a request to share is granted.           *)
(***************************************************************************)
\* Fewer tasks are no more.
LEMMA Fewer ==
  ASSUME IsFiniteSet(Tasks), NEW A \in SUBSET Tasks, NEW B \in SUBSET A
  PROVE  /\ Cardinality(A) \in Nat /\ Cardinality(B) \in Nat
         /\ Cardinality(B) <= Cardinality(A)
  BY FS_Subset, FS_CardinalityType

\* A step that lets nobody in keeps the limit.
LEMMA FewerLimited ==
  ASSUME IsFiniteSet(Tasks), IInv, ReadersLimited, Readers' \subseteq Readers,
         limit' = limit
  PROVE  ReadersLimited'
<1>1. Readers \in SUBSET Tasks /\ Readers' \in SUBSET Readers
  BY DEF Readers
<1>2. /\ Cardinality(Readers') <= Cardinality(Readers)
      /\ Cardinality(Readers) \in Nat
      /\ Cardinality(Readers') \in Nat
  BY <1>1, Fewer
<1> QED
  BY <1>2 DEF ReadersLimited, IInv, Typed

\* A reader comes in where there is room.
LEMMA ReadingLimited ==
  ASSUME IsFiniteSet(Tasks), IInv, ReadersLimited, NEW t \in Tasks, NEW m,
         NEW n,
         Reading(t, m, n)
  PROVE  ReadersLimited'
<1>1. limit' = limit /\ writer' = writer
  BY DEF Reading, Enter, object, semRTake, Pend, Refused, kernel
<1>2. CASE /\ level[t] = 0
           /\ writer = NoTask
           /\ Cardinality(Readers) < limit
           /\ level' = [level EXCEPT ![t] = @ + 1]
  <2>1. /\ Readers' = Readers \cup {t}
        /\ t \notin Readers
        /\ Readers \in SUBSET Tasks
    BY <1>1, <1>2, SharedMutexAssumption DEF Readers, IInv, Typed
  <2>2. IsFiniteSet(Readers)
    BY <2>1, FS_Subset
  <2>3. /\ Cardinality(Readers') = Cardinality(Readers) + 1
        /\ Cardinality(Readers) \in Nat
    BY <2>1, <2>2, FS_AddElement, FS_CardinalityType
  <2> QED
    BY <1>1, <1>2, <2>3 DEF ReadersLimited, IInv, Typed
<1>3. CASE \/ level' = level
           \/ level[t] > 0 /\ level' = [level EXCEPT ![t] = @ + 1]
  <2>1. Readers' = Readers
    BY <1>1, <1>3 DEF Readers, IInv, Typed
  <2> QED
    BY <1>1, <2>1, FewerLimited
<1>4. \/ level' = level
      \/ /\ level' = [level EXCEPT ![t] = @ + 1]
         /\ level[t] > 0 \/ (writer = NoTask /\ Cardinality(Readers) < limit)
  <2>1. CASE /\ \/ level[t] > 0
                \/ writer = NoTask /\ Cardinality(Readers) < limit
             /\ Taken(t)
    BY <2>1 DEF Taken
  <2>2. CASE Refused(t) \/ Pend(t, n)
    BY <2>2 DEF Refused, Pend, kernel
  <2> QED
    BY <2>1, <2>2 DEF Reading, semRTake
<1>5. level[t] > 0 \/ level[t] = 0
  BY DEF IInv, Typed
<1> QED
  <2>1. CASE level[t] > 0
    BY <1>3, <1>4, <2>1
  <2>2. CASE level[t] = 0
    BY <1>2, <1>3, <1>4, <2>2
  <2> QED
    BY <1>5, <2>1, <2>2

\* A writer comes in when there are no readers.
LEMMA WritingLimited ==
  ASSUME IsFiniteSet(Tasks), IInv, ReadersLimited, NEW t \in Tasks, NEW m,
         NEW n,
         Writing(t, m, n)
  PROVE  ReadersLimited'
<1>1. limit' = limit
  BY DEF Writing, Enter, object
<1>2. Readers' \subseteq Readers
  BY SharedMutexAssumption DEF Writing, semWTake, Taken, Pend, Refused, kernel,
    Readers, IInv, Typed
<1> QED
  BY <1>1, <1>2, FewerLimited

\* Those let in by a give stay within the limit.
LEMMA GivingLimited ==
  ASSUME IsFiniteSet(Tasks), IInv, ReadersLimited, NEW t \in Tasks, NEW m,
         NEW kinds,
         Giving(t, m, kinds)
  PROVE  ReadersLimited'
<1>1. limit' = limit
  BY DEF Giving, Enter, object
<1>2. ASSUME NEW S \in Admissible(Readers \ {t}), LetIn(t, NoTask, S),
             level[t] = 1
      PROVE  ReadersLimited'
  <2>1. Readers' \subseteq (Readers \ {t}) \cup S
    BY <1>2 DEF LetIn, Readers, IInv, Typed, WriterAlone
  <2>2. /\ (Readers \ {t}) \cup S \in SUBSET Tasks
        /\ Cardinality((Readers \ {t}) \cup S) <= limit
    BY DEF Admissible, PendedReaders, Pended, Readers
  <2>3. /\ Cardinality(Readers') <= Cardinality((Readers \ {t}) \cup S)
        /\ Cardinality(Readers') \in Nat
        /\ Cardinality((Readers \ {t}) \cup S) \in Nat
    BY <2>1, <2>2, Fewer
  <2> QED
    BY <1>1, <2>2, <2>3 DEF ReadersLimited, IInv, Typed
<1>3. ASSUME NEW w \in PendedWriters, LetIn(t, w, {w}), Readers \subseteq {t},
             level[t] = 1
      PROVE  Readers' \subseteq Readers
  BY <1>3, SharedMutexAssumption DEF LetIn, Readers, IInv, Typed, WriterAlone
<1>4. CASE LetIn(t, NoTask, {}) /\ level[t] = 1
  BY <1>1, <1>4, FewerLimited, SharedMutexAssumption DEF LetIn, Readers, IInv,
    Typed, WriterAlone
<1>5. CASE \/ Refused(t)
           \/ /\ level[t] > 1
              /\ level' = [level EXCEPT ![t] = @ - 1]
              /\ UNCHANGED writer
  <2>1. Readers' \subseteq Readers
    BY <1>5 DEF Refused, kernel, Readers, IInv, Typed
  <2> QED
    BY <1>1, <2>1, FewerLimited
<1> QED
  BY <1>1, <1>2, <1>3, <1>4, <1>5, FewerLimited DEF Giving, semRWGive

\* No step lets in more readers than may be.
LEMMA NextLimited ==
  ASSUME IsFiniteSet(Tasks)
  PROVE  IInv /\ ReadersLimited /\ [Next]_vars => ReadersLimited'
<1> SUFFICES ASSUME IInv, ReadersLimited, [Next]_vars PROVE ReadersLimited'
  OBVIOUS
<1>1. ASSUME NEW t \in Tasks, CallStep(t) PROVE ReadersLimited'
  BY <1>1, CallKinds, ReadingLimited, WritingLimited, GivingLimited
<1>2. CASE UNCHANGED <<limit, writer, level>>
  BY <1>2 DEF ReadersLimited, Readers
<1> QED
  BY <1>1, <1>2 DEF Next, vars, return_ok, return_error, throw, Timeout, dtor,
    Resume, Die, object, kernel

\* There are never more readers than the semaphore was made for.
LEMMA LimitInvariance ==
  IsFiniteSet(Tasks) /\ Spec => [](IInv /\ ReadersLimited)
<1> SUFFICES ASSUME IsFiniteSet(Tasks) PROVE Spec => [](IInv /\ ReadersLimited)
  OBVIOUS
<1>1. Init => ReadersLimited
  <2> SUFFICES ASSUME Init PROVE ReadersLimited
    OBVIOUS
  <2>1. Readers = {} /\ limit \in Nat
    BY InitIInv DEF Init, Readers, IInv, Typed
  <2> QED
    BY <2>1, FS_EmptySet DEF ReadersLimited
<1>2. IInv /\ ReadersLimited /\ [Next]_vars => ReadersLimited'
  BY NextLimited
<1> QED
  BY <1>1, <1>2, Invariance, PTL DEF Spec

\* Never do more tasks count on sharing the mutex than it was made for, with
\* those that share it while they write.
THEOREM SharersLimited ==
  IsFiniteSet(Tasks) /\ Spec =>
    [](Cardinality({t \in Tasks : shared[t] > 0}) <= limit)
<1> SUFFICES ASSUME IsFiniteSet(Tasks)
             PROVE  Spec =>
                      [](Cardinality({t \in Tasks : shared[t] > 0}) <= limit)
  OBVIOUS
<1>1. IInv /\ ReadersLimited =>
        Cardinality({t \in Tasks : shared[t] > 0}) <= limit
  <2> SUFFICES ASSUME IInv, ReadersLimited
               PROVE  Cardinality({t \in Tasks : shared[t] > 0}) <= limit
    OBVIOUS
  <2> DEFINE Sharers == {t \in Tasks : shared[t] > 0}
  <2>1. \A t \in Sharers : level[t] > 0
    BY HoldersHaveLevels
  <2>2. limit \in Nat /\ limit >= 1
    BY DEF IInv, Typed
  <2>3. CASE writer = NoTask
    <3>1. Sharers \in SUBSET Readers /\ Readers \in SUBSET Tasks
      BY <2>1, <2>3, SharedMutexAssumption DEF Readers
    <3> HIDE DEF Sharers
    <3>2. /\ Cardinality(Readers) \in Nat /\ Cardinality(Sharers) \in Nat
          /\ Cardinality(Sharers) <= Cardinality(Readers)
      BY <3>1, Fewer
    <3>3. Cardinality(Sharers) <= limit
      BY <2>2, <3>2 DEF ReadersLimited
    <3> QED
      BY <3>3 DEF Sharers
  <2>4. CASE writer # NoTask
    <3>1. \A t \in Sharers : t = writer
      BY <2>1, <2>4 DEF IInv, Typed, WriterAlone
    <3>2. Sharers \in SUBSET {writer}
      BY <3>1
    <3>3. IsFiniteSet({writer}) /\ Cardinality({writer}) = 1
      BY FS_Singleton
    <3> HIDE DEF Sharers
    <3>4. Cardinality(Sharers) \in Nat /\ Cardinality(Sharers) <= 1
      BY <3>2, <3>3, FS_Subset, FS_CardinalityType
    <3>5. Cardinality(Sharers) <= limit
      BY <2>2, <3>4
    <3> QED
      BY <3>5 DEF Sharers
  <2> QED
    BY <2>3, <2>4
<1> QED
  BY <1>1, LimitInvariance, PTL

\* A request to share waits, or is refused, only for a writer or for room.
THEOREM SharingGranted == IsFiniteSet(Tasks) /\ Spec => SharingIsShared
<1> SUFFICES ASSUME IsFiniteSet(Tasks) PROVE Spec => SharingIsShared
  OBVIOUS
<1> DEFINE Due(t) == \/ writer # NoTask
                     \/ PendedWriters # {}
                     \/ Cardinality(Readers) >= limit
           Wanted == \A t \in Tasks :
             /\ pc[t] = "ready" /\ method'[t] \in ReadTakers
             /\ pc'[t] = "pended" \/ status'[t] = "ERROR"
             => Due(t)
<1>1. ASSUME IInv, [Next]_vars, NEW t \in Tasks, pc[t] = "ready",
             method'[t] \in ReadTakers,
             pc'[t] = "pended" \/ status'[t] = "ERROR"
      PROVE  Due(t)
  <2>1. method[t] = "none" /\ method[t] \notin ReadTakers
    BY <1>1 DEF IInv, CallsMeanIt, ReadTakers
  <2>2. PICK m \in ReadTakers : \E n : Reading(t, m, n)
    <3>1. ASSUME NEW u \in Tasks, NEW m \in Methods, Enter(u, m)
          PROVE  u = t /\ m \in ReadTakers
      BY <1>1, <2>1, <3>1 DEF Enter, IInv, Typed
    <3>2. PICK u \in Tasks : CallStep(u)
      BY <1>1, <2>1 DEF Next, vars, return_ok, return_error, throw, Timeout,
        dtor, Resume, Die, call, IInv, Typed, ReadTakers
    <3> QED
      BY <3>1, <3>2, CallKinds DEF Reading, Writing, Giving, Methods, Takers,
        WriteTakers, ReadTakers, Throwing
  <2>3. Cardinality(Readers) \in Nat /\ limit \in Nat
    BY <1>1, Fewer DEF Readers, IInv, Typed
  <2>4. ~Taken(t)
    BY <1>1 DEF Taken, Answer, IInv, Typed
  <2> QED
    BY <2>2, <2>3, <2>4 DEF Reading, semRTake
<1>2. IInv /\ [Next]_vars => [Wanted]_vars
  BY <1>1
<1> QED
  BY <1>2, Invariance, PTL DEF Spec, SharingIsShared

-------------------------------------------------------------------------------
(***************************************************************************)
(* Each step is one of the abstract lock, or none.                         *)
(***************************************************************************)
\* What the callers see.
Seen == <<limit, RWMode, exclusive, shared>>

\* A step of the abstract lock, or none.
Simulates == Abstract!Next \/ UNCHANGED Seen

\* The lock starts as the mutex does.
LEMMA InitLock == Init => Abstract!Init
<1> SUFFICES ASSUME Init PROVE Abstract!Init
  OBVIOUS
<1>1. limit \in Nat \ {0}
  BY InitIInv DEF IInv, Typed
<1>2. RWMode = [t \in Tasks |-> "idle"]
  BY DEF Init, RWMode
<1> QED
  BY <1>1, <1>2 DEF Init, Abstract!Init

\* The mode of one task changes.
LEMMA ModeOfOne ==
  ASSUME NEW t \in Tasks, \A u \in Tasks \ {t} : RWMode'[u] = RWMode[u]
  PROVE  RWMode' = [RWMode EXCEPT ![t] = RWMode'[t]]
  BY DEF RWMode

\* A call of a take is a request, whatever the kernel answers.
LEMMA AskingIsRequest ==
  ASSUME IInv, NEW t \in Tasks, NEW m \in Takers, Enter(t, m), UNCHANGED held,
         \A u \in Tasks \ {t} : pc'[u] = pc[u],
         pc'[t] \in {"pended", "returning"}
  PROVE  Abstract!Request(t)
<1>1. /\ pc[t] = "ready" /\ method' = [method EXCEPT ![t] = m]
      /\ UNCHANGED <<limit, exclusive, shared>>
  BY DEF Enter, object, held
<1>2. \A u \in Tasks \ {t} : RWMode'[u] = RWMode[u]
  BY <1>1 DEF RWMode, IInv, Typed
<1>3. /\ RWMode[t] = "idle" /\ RWMode'[t] \in {"asking", "asking shared"}
  BY <1>1 DEF RWMode, IInv, Typed, Takers
<1> QED
  BY <1>1, <1>2, <1>3, ModeOfOne DEF Abstract!Request, Abstract!Goes

\* A give is a release, and lets nobody see what else it does.
LEMMA GivingIsRelease ==
  ASSUME IInv, NEW t \in Tasks, NEW m \in Methods \ Takers, NEW kinds,
         Giving(t, m, kinds)
  PROVE  Simulates
<1>1. /\ pc[t] = "ready" /\ method' = [method EXCEPT ![t] = m] /\ limit' = limit
      /\ Drops(t, kinds)
  BY DEF Giving, Enter, object
<1>2. \A u \in Tasks \ {t} : \/ pc'[u] = pc[u]
                             \/ pc[u] = "pended" /\ pc'[u] = "returning"
  <2>1. CASE Answer(t, "OK") \/ Refused(t)
    BY <2>1 DEF Refused, Answer, IInv, Typed
  <2>2. ASSUME NEW w, NEW S \in SUBSET Pended, LetIn(t, w, S)
        PROVE  \A u \in Tasks \ {t} :
                 \/ pc'[u] = pc[u]
                 \/ pc[u] = "pended" /\ pc'[u] = "returning"
    BY <2>2 DEF LetIn, Pended
  <2>3. \A w \in PendedWriters : {w} \in SUBSET Pended
    BY DEF PendedWriters
  <2>4. \A S \in Admissible(Readers \ {t}) : S \in SUBSET Pended
    BY DEF Admissible, PendedReaders
  <2>5. {} \in SUBSET Pended
    OBVIOUS
  <2> QED
    BY <2>1, <2>2, <2>3, <2>4, <2>5 DEF Giving, semRWGive
<1>3. pc'[t] = "returning"
  BY DEF Giving, semRWGive, Refused, Answer, LetIn, IInv, Typed
<1>4. RWMode' = RWMode /\ RWMode[t] = "idle"
  BY <1>1, <1>2, <1>3 DEF RWMode, IInv, Typed, Takers
<1>5. CASE /\ exclusive[t] > 0
           /\ exclusive' = [exclusive EXCEPT ![t] = @ - 1]
           /\ UNCHANGED shared
  BY <1>1, <1>4, <1>5 DEF Simulates, Abstract!Next, Abstract!Release
<1>6. CASE /\ shared[t] > 0
           /\ shared' = [shared EXCEPT ![t] = @ - 1]
           /\ UNCHANGED exclusive
  BY <1>1, <1>4, <1>6 DEF Simulates, Abstract!Next, Abstract!Release
<1>7. CASE UNCHANGED held
  BY <1>1, <1>4, <1>7 DEF Simulates, Seen, held
<1> QED
  BY <1>1, <1>5, <1>6, <1>7 DEF Drops

\* The abstract lock counts as FiniteSets does.
LEMMA SameCount == \A S : Abstract!Cardinality(S) = Cardinality(S)
  BY DEF Abstract!Cardinality, Cardinality

\* The return of a take that was granted is the grant: who writes is alone, who
\* reads has no writer beside it, and is one of no more than `limit'.
LEMMA ReturnIsGrant ==
  ASSUME IsFiniteSet(Tasks), IInv, ReadersLimited, NEW t \in Tasks, return_ok(t)
  PROVE  Simulates
<1>1. /\ pc[t] = "returning" /\ status[t] = "OK" /\ limit' = limit
      /\ pc' = [pc EXCEPT ![t] = "ready"]
      /\ method' = [method EXCEPT ![t] = "none"]
      /\ Count(t)
  BY DEF return_ok, Resume, object
<1>2. \A u \in Tasks \ {t} : RWMode'[u] = RWMode[u]
  BY <1>1 DEF RWMode, IInv, Typed
<1>3. RWMode'[t] = "idle"
  BY <1>1 DEF RWMode, IInv, Typed
<1>4. RWMode' = [RWMode EXCEPT ![t] = "idle"]
  BY <1>2, <1>3, ModeOfOne
<1>5. CASE method[t] \in WriteTakers
  <2>1. /\ method[t] \notin ReadTakers /\ RWMode[t] = "asking"
    BY <1>1, <1>5 DEF WriteTakers, ReadTakers, RWMode
  <2>2. exclusive' = [exclusive EXCEPT ![t] = @ + 1] /\ shared' = shared
    BY <1>1, <1>5, <2>1 DEF Count, IInv, Typed
  <2>3. \A u \in Tasks \ {t} : level[u] = 0
    BY <1>1, <1>5, SharedMutexAssumption DEF IInv, WritersWrite, WriterAlone
  <2>4. \A u \in Tasks \ {t} : exclusive[u] = 0 /\ shared[u] = 0
    BY <2>3 DEF IInv, Typed, LevelsCounted, Untold
  <2>5. Abstract!Grant(t)
    BY <1>1, <1>4, <2>1, <2>2, <2>4 DEF Abstract!Grant, Abstract!Goes,
      Abstract!Others, Abstract!Holds
  <2> QED
    BY <2>5 DEF Simulates, Abstract!Next
<1>6. CASE method[t] \in ReadTakers
  <2> DEFINE R == {u \in Tasks \ {t} : shared[u] > 0}
  <2>1. /\ method[t] \notin WriteTakers /\ RWMode[t] = "asking shared"
    BY <1>1, <1>6 DEF WriteTakers, ReadTakers, RWMode
  <2>2. shared' = [shared EXCEPT ![t] = @ + 1] /\ exclusive' = exclusive
    <3>1. shared' = [shared EXCEPT ![t] = @ + 1]
      BY <1>1, <1>6 DEF Count
    <3>2. exclusive' = [exclusive EXCEPT ![t] = @ + 0]
      BY <1>1, <2>1 DEF Count
    <3> QED
      BY <3>1, <3>2 DEF IInv, Typed
  <2>3. level[t] > 0
    BY <1>1, <1>6 DEF IInv, Typed, LevelsCounted, Untold, Takers
  <2>4. \A u \in Tasks \ {t} : exclusive[u] = 0 /\ writer # u
    BY <2>3, SharedMutexAssumption DEF IInv, Typed, WritersWrite, WriterAlone
  <2>5. \A u \in R : level[u] > 0 /\ u # writer
    BY <2>4 DEF IInv, Typed, LevelsCounted, Untold
  <2>6. Cardinality(R) < limit
    <3>1. CASE writer = t
      <4>1. R = {}
        BY <2>5, <3>1, SharedMutexAssumption DEF IInv, WriterAlone
      <4> QED
        BY <4>1, FS_EmptySet DEF IInv, Typed
    <3>2. CASE writer # t
      <4>1. /\ t \in Readers
            /\ R \subseteq Readers \ {t}
            /\ Readers \in SUBSET Tasks
        BY <2>3, <2>5, <3>2 DEF Readers
      <4>2. IsFiniteSet(Readers) /\ Readers \ {t} \in SUBSET Tasks
        BY <4>1, FS_Subset
      <4>3. Cardinality(Readers \ {t}) = Cardinality(Readers) - 1
        BY <4>1, <4>2, FS_RemoveElement
      <4>4. /\ Cardinality(R) <= Cardinality(Readers \ {t})
            /\ Cardinality(R) \in Nat
            /\ Cardinality(Readers) \in Nat
        BY <4>1, <4>2, Fewer
      <4> QED
        BY <4>3, <4>4 DEF ReadersLimited, IInv, Typed
    <3> QED
      BY <3>1, <3>2
  <2>7. Abstract!GrantShared(t)
    <3>1. Abstract!Goes(t, "asking shared", "idle")
      BY <1>4, <2>1 DEF Abstract!Goes
    <3>2. UNCHANGED <<limit, exclusive>>
      BY <1>1, <2>2
    <3>3. \A u \in Tasks \ {t} : exclusive[u] = 0
      BY <2>4
    <3>4. Cardinality({u \in Tasks \ {t} : shared[u] > 0}) < limit
      BY <2>6
    <3>5. shared' = [shared EXCEPT ![t] = @ + 1]
      BY <2>2
    <3> QED
      BY <3>1, <3>2, <3>3, <3>4, <3>5, SameCount
      DEF Abstract!GrantShared, Abstract!Others
  <2> QED
    BY <2>7 DEF Simulates, Abstract!Next
<1>7. CASE method[t] \notin Takers
  <2>1. exclusive' = exclusive /\ shared' = shared
    BY <1>1, <1>7 DEF Count, Takers, IInv, Typed
  <2>2. RWMode[t] = "idle"
    BY <1>1, <1>7 DEF RWMode, Takers
  <2>3. RWMode' = RWMode
    BY <1>4, <2>2 DEF RWMode
  <2> QED
    BY <1>1, <2>1, <2>3 DEF Simulates, Seen
<1> QED
  BY <1>5, <1>6, <1>7 DEF Takers

\* An ERROR that is returned refuses the request, if there was one.
LEMMA ErrorIsRefusal ==
  ASSUME IInv, NEW t \in Tasks, return_error(t)
  PROVE  Simulates
<1>1. /\ pc[t] = "returning" /\ UNCHANGED <<limit, exclusive, shared>>
      /\ pc' = [pc EXCEPT ![t] = "ready"]
      /\ method' = [method EXCEPT ![t] = "none"]
  BY DEF return_error, Resume, object, held
<1>2. \A u \in Tasks \ {t} : RWMode'[u] = RWMode[u]
  BY <1>1 DEF RWMode, IInv, Typed
<1>3. RWMode'[t] = "idle" /\ RWMode[t] \in {"asking", "asking shared", "idle"}
  BY <1>1 DEF RWMode, IInv, Typed
<1>4. RWMode' = [RWMode EXCEPT ![t] = "idle"]
  BY <1>2, <1>3, ModeOfOne
<1>5. CASE RWMode[t] \in {"asking", "asking shared"}
  BY <1>1, <1>4, <1>5 DEF Simulates, Abstract!Next, Abstract!Refuse,
    Abstract!Goes
<1>6. CASE RWMode[t] = "idle"
  <2>1. RWMode' = RWMode
    BY <1>4, <1>6 DEF RWMode
  <2> QED
    BY <1>1, <2>1 DEF Simulates, Seen
<1> QED
  BY <1>3, <1>5, <1>6

\* A throw is the end of a task.
LEMMA ThrowIsPerish ==
  ASSUME IInv, NEW t \in Tasks, throw(t)
  PROVE  Simulates
<1>1. /\ pc[t] = "returning" /\ limit' = limit
      /\ pc' = [pc EXCEPT ![t] = "dead"]
      /\ method' = [method EXCEPT ![t] = "none"]
      /\ exclusive' = [exclusive EXCEPT ![t] = 0]
      /\ shared' = [shared EXCEPT ![t] = 0]
  BY DEF throw, Die, object
<1>2. \A u \in Tasks \ {t} : RWMode'[u] = RWMode[u]
  BY <1>1 DEF RWMode, IInv, Typed
<1>3. RWMode'[t] = "dead" /\ RWMode[t] # "dead"
  BY <1>1 DEF RWMode, IInv, Typed
<1> QED
  BY <1>1, <1>2, <1>3, ModeOfOne DEF Simulates, Abstract!Next, Abstract!Perish

\* The end of a wait, by itself or with the mutex, is not seen.
LEMMA KernelStutters ==
  ASSUME IInv, UNCHANGED <<limit, method, exclusive, shared>>,
         \A u \in Tasks :
           pc'[u] = pc[u] \/ (pc[u] = "pended" /\ pc'[u] = "returning")
  PROVE  Simulates
<1>1. RWMode' = RWMode
  BY DEF RWMode
<1> QED
  BY <1>1 DEF Simulates, Seen

\* Every step is one of the abstract lock, or none.
LEMMA NextSimulates ==
  ASSUME IsFiniteSet(Tasks), IInv, ReadersLimited, [Next]_vars
  PROVE  Simulates
<1>1. CASE UNCHANGED vars
  BY <1>1, KernelStutters DEF vars
<1>2. ASSUME NEW t \in Tasks, NEW m \in WriteTakers, NEW n, Writing(t, m, n)
      PROVE  Simulates
  <2>1. /\ Enter(t, m) /\ UNCHANGED held
        /\ \A u \in Tasks \ {t} : pc'[u] = pc[u]
        /\ pc'[t] \in {"pended", "returning"}
    BY <1>2 DEF Writing, semWTake, Taken, Refused, Answer, Pend, IInv, Typed
  <2> QED
    BY <2>1, AskingIsRequest DEF Simulates, Abstract!Next, Takers
<1>3. ASSUME NEW t \in Tasks, NEW m \in ReadTakers, NEW n, Reading(t, m, n)
      PROVE  Simulates
  <2>1. /\ Enter(t, m) /\ UNCHANGED held
        /\ \A u \in Tasks \ {t} : pc'[u] = pc[u]
        /\ pc'[t] \in {"pended", "returning"}
    BY <1>3 DEF Reading, semRTake, Taken, Refused, Answer, Pend, IInv, Typed
  <2> QED
    BY <2>1, AskingIsRequest DEF Simulates, Abstract!Next, Takers
<1>4. ASSUME NEW t \in Tasks, CallStep(t) PROVE Simulates
  BY <1>2, <1>3, <1>4, CallKinds, GivingIsRelease
<1>5. ASSUME NEW t \in Tasks, Timeout(t) \/ dtor(t) PROVE Simulates
  <2>1. /\ UNCHANGED <<limit, method, exclusive, shared>>
        /\ \A u \in Tasks :
             pc'[u] = pc[u] \/ (pc[u] = "pended" /\ pc'[u] = "returning")
    BY <1>5 DEF Timeout, Answer, dtor, Pended, object, held, call, IInv, Typed
  <2> QED
    BY <2>1, KernelStutters
<1> QED
  BY <1>1, <1>4, <1>5, ReturnIsGrant, ErrorIsRefusal, ThrowIsPerish DEF Next

\* The callers see a readers-writer lock.
THEOREM Refinement == IsFiniteSet(Tasks) /\ Spec => ImplementsRWLock
<1> SUFFICES ASSUME IsFiniteSet(Tasks) PROVE Spec => ImplementsRWLock
  OBVIOUS
<1>1. Init => Abstract!Init
  BY InitLock
<1>2. IInv /\ ReadersLimited /\ [Next]_vars => [Abstract!Next]_(Abstract!vars)
  BY NextSimulates DEF Simulates, Seen, Abstract!vars
<1> QED
  BY <1>1, <1>2, LimitInvariance, PTL DEF Spec, ImplementsRWLock, Abstract!Spec
================================================================================
