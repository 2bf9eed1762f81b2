------------------------------ MODULE SharedMutex ------------------------------
(***************************************************************************)
(* One unnamed readers-writer mutex of shared_mutex.hpp and the tasks that *)
(* call it.                                                                *)
(*                                                                         *)
(* As in Mutex a method is the call of the semRWLib routine, which is      *)
(* atomic and may leave the task pended, and the return from it; `throw;'  *)
(* ends the task.  semRWLib is external: what it takes from the wrapper    *)
(* and what the header says of it is modelled; who is let in first among   *)
(* equals, whether a reader may pass a writer that waits, and whether a    *)
(* reader that asks to write is refused or waits is left open.             *)
(***************************************************************************)
EXTENDS Tics, FiniteSets

CONSTANTS
  Tasks, NoTask, \* the tasks that share the mutex; "nobody"
  Prio,          \* Prio[t], the VxWorks priority of t; 0 is the highest
  Instantiated,  \* classes the mutex may be of
  MaxReaders,    \* values of maxReaders handed to the second constructor
  OptionSets,    \* option sets handed to it
  SEM_RW_MAX_CONCURRENT_READERS,  \* the limit of the system
  Careless,      \* tasks that may give a mutex they do not hold
  Upgraders,     \* tasks that may ask to write while they read
  Destroyer,     \* tasks that may run the destructor
  MaxDepth,      \* bound on nested acquisitions
  Timeouts, Durations, Deadlines, Now  \* arguments of the timed calls

Classes == {"shared_mutex", "shared_timed_mutex"}

ASSUME SharedMutexAssumption ==
  /\ NoTask \notin Tasks
  /\ Prio \in [Tasks -> Nat]
  /\ Instantiated \subseteq Classes
  /\ MaxReaders \subseteq Nat \ {0}
  /\ SEM_RW_MAX_CONCURRENT_READERS \in Nat \ {0}
  /\ Careless \subseteq Tasks /\ Upgraders \subseteq Tasks
  /\ Destroyer \subseteq Tasks
  /\ MaxDepth \in Nat \ {0}
  /\ Timeouts \subseteq _Vx_ticks_t
  /\ Durations \subseteq Int /\ Deadlines \subseteq Int /\ Now \in Nat

VARIABLES
  class, opts,  \* the class of the object and its options
  limit,        \* how many readers it admits
  life,         \* "live" or "deleted"
  writer,       \* the task that owns the semaphore in write mode
  level,        \* level[t]: how many times t has taken it, in either mode
  pc,           \* pc[t]: "ready", "pended", "returning" or "dead"
  method,       \* method[t]: the call t is in
  timeout,      \* timeout[t]: the timeout t pends with
  status,       \* status[t]: what the routine answered
  exclusive,    \* exclusive[t], shared[t]: acquisitions of each kind that t
  shared        \*   counts on, from the values returned

object == <<class, opts, limit>>
kernel == <<writer, level>>
call   == <<method, timeout>>
held   == <<exclusive, shared>>
vars   == <<class, opts, limit, life, writer, level,
            pc, method, timeout, status, exclusive, shared>>

-------------------------------------------------------------------------------
saved_options     == {"SEM_Q_PRIORITY", "SEM_INVERSION_SAFE"}
defaultMaxReaders == 20

\* The kernel cuts maxReaders down to the limit of the system.
Allowed(maxReaders) ==
  IF maxReaders < SEM_RW_MAX_CONCURRENT_READERS
  THEN maxReaders ELSE SEM_RW_MAX_CONCURRENT_READERS

WriteTakers == {"lock", "operator--", "try_lock", "take", "try_lock_for",
                "try_lock_until"}
ReadTakers  == {"lock_shared", "try_lock_shared", "take_shared",
                "try_lock_shared_for", "try_lock_shared_until"}
TimedCalls  == {"take", "take_shared", "try_lock_for", "try_lock_until",
                "try_lock_shared_for", "try_lock_shared_until"}
Throwing    == {"lock", "unlock", "operator++", "operator--",
                "lock_shared", "unlock_shared"}
Methods     == WriteTakers \cup ReadTakers \cup Throwing \cup {"give"}

-------------------------------------------------------------------------------
(***************************************************************************)
(* The semaphore (external).                                               *)
(***************************************************************************)
Readers == {t \in Tasks : level[t] > 0 /\ t # writer}

Pended        == {t \in Tasks : pc[t] = "pended"}
PendedReaders == {t \in Pended : method[t] \in ReadTakers}
PendedWriters == Pended \ PendedReaders

\* The order of the queue; without SEM_Q_PRIORITY the model allows any.
Ahead(t, u) == "SEM_Q_PRIORITY" \in opts => Prio[t] <= Prio[u]

\* The routine called by t answers s at once; t pends with a timeout of n.
Answer(t, s) ==
  /\ pc' = [pc EXCEPT ![t] = "returning"]
  /\ status' = [status EXCEPT ![t] = s]
  /\ UNCHANGED timeout
Pend(t, n) ==
  /\ n # NO_WAIT
  /\ pc' = [pc EXCEPT ![t] = "pended"]
  /\ timeout' = [timeout EXCEPT ![t] = n]
  /\ UNCHANGED <<status, kernel>>
Refused(t) == Answer(t, "ERROR") /\ UNCHANGED kernel

Taken(t) == level' = [level EXCEPT ![t] = @ + 1] /\ Answer(t, "OK")

\* semWTake: to write alone, or once more by the writer.
semWTake(t, n) ==
  \/ /\ writer = NoTask /\ Readers = {}
     /\ writer' = t /\ Taken(t)
  \/ writer = t /\ Taken(t) /\ UNCHANGED writer
  \/ /\ writer \notin {t, NoTask} \/ Readers # {}
     /\ \/ (n = NO_WAIT \/ level[t] > 0) /\ Refused(t)
        \/ Pend(t, n)

\* semRTake: to read with others, or once more by who holds it in any mode.
semRTake(t, n) ==
  LET room == writer = NoTask /\ Cardinality(Readers) < limit
  IN  \/ (level[t] > 0 \/ room) /\ Taken(t) /\ UNCHANGED writer
      \/ /\ level[t] = 0
         /\ ~room \/ PendedWriters # {}
         /\ (n = NO_WAIT /\ Refused(t)) \/ Pend(t, n)

\* Readers that are let in beside those that stay, from the front of the
\* queue: all up to the limit, or up to a writer.
Admissible(stay) ==
  {S \in SUBSET PendedReaders :
     /\ \A t \in S, u \in Pended \ S : Ahead(t, u)
     /\ Cardinality(stay \cup S) <= limit
     /\ stay \cup S # {}
     /\ \/ S = Pended \/ Cardinality(stay \cup S) = limit
        \/ \E w \in PendedWriters : \A u \in Pended \ S : Ahead(w, u)}

\* t lets go of its last level: w, if any, is the new writer, S are let in.
LetIn(t, w, S) ==
  /\ writer' = w
  /\ level' = [u \in Tasks |->
                 IF u = t THEN 0 ELSE IF u \in S THEN 1 ELSE level[u]]
  /\ pc' = [u \in Tasks |-> IF u \in S \cup {t} THEN "returning" ELSE pc[u]]
  /\ status' = [u \in Tasks |-> IF u \in S \cup {t} THEN "OK" ELSE status[u]]

\* semRWGive, whatever the mode.
semRWGive(t) ==
  \/ level[t] = 0 /\ Refused(t)
  \/ /\ level[t] > 1
     /\ level' = [level EXCEPT ![t] = @ - 1]
     /\ Answer(t, "OK") /\ UNCHANGED writer
  \/ /\ level[t] = 1
     /\ \/ Pended = {} /\ LetIn(t, NoTask, {})
        \/ /\ Readers \subseteq {t}
           /\ \E w \in PendedWriters :
                (\A u \in Pended : Ahead(w, u)) /\ LetIn(t, w, {w})
        \/ /\ Pended # {}
           /\ \E S \in Admissible(Readers \ {t}) : LetIn(t, NoTask, S)
     /\ UNCHANGED timeout

-------------------------------------------------------------------------------
(***************************************************************************)
(* The methods.                                                            *)
(***************************************************************************)
Enter(t, m) ==
  /\ life = "live" /\ pc[t] = "ready"
  /\ m \in TimedCalls => class = "shared_timed_mutex"
  /\ method' = [method EXCEPT ![t] = m]
  /\ UNCHANGED <<object, life>>

Writing(t, m, n) ==
  /\ Enter(t, m)
  /\ level[t] < MaxDepth
  /\ level[t] > 0 /\ writer # t => t \in Upgraders
  /\ semWTake(t, n)
  /\ UNCHANGED held

Reading(t, m, n) ==
  /\ Enter(t, m) /\ level[t] < MaxDepth
  /\ semRTake(t, n)
  /\ UNCHANGED held

lock(t)         == Writing(t, "lock", WAIT_FOREVER)
op_decrement(t) == Writing(t, "operator--", WAIT_FOREVER)

try_lock(t)     == Writing(t, "try_lock", NO_WAIT)
lock_shared(t)  == Reading(t, "lock_shared", WAIT_FOREVER)

\* A slip: the routine of the other mode.
try_lock_shared_Writes(t) == Writing(t, "try_lock_shared", NO_WAIT)

try_lock_shared(t) == Reading(t, "try_lock_shared", NO_WAIT)

\* m drops a hold of one of the given kinds; a careless task without any
\* hold calls it all the same.
Drops(t, kinds) ==
  \/ /\ "exclusive" \in kinds /\ exclusive[t] > 0
     /\ exclusive' = [exclusive EXCEPT ![t] = @ - 1] /\ UNCHANGED shared
  \/ /\ "shared" \in kinds /\ shared[t] > 0
     /\ shared' = [shared EXCEPT ![t] = @ - 1] /\ UNCHANGED exclusive
  \/ /\ t \in Careless /\ exclusive[t] = 0 /\ shared[t] = 0
     /\ UNCHANGED held

Giving(t, m, kinds) == Enter(t, m) /\ Drops(t, kinds) /\ semRWGive(t)

unlock(t)       == Giving(t, "unlock", {"exclusive"})
op_increment(t) == Giving(t, "operator++", {"exclusive"})

\* A slip: an unlock_shared that never reaches semRWGive.
unlock_shared_Noop(t) ==
  /\ Enter(t, "unlock_shared") /\ Drops(t, {"shared"})
  /\ Answer(t, "OK") /\ UNCHANGED kernel

unlock_shared(t) == Giving(t, "unlock_shared", {"shared"})
give(t)          == Giving(t, "give", {"exclusive", "shared"})

take(t, n)        == Writing(t, "take", n)
take_shared(t, n) == Reading(t, "take_shared", n)

try_lock_for(t, d)        == Writing(t, "try_lock_for", chrono2tic(d))
try_lock_shared_for(t, d) == Reading(t, "try_lock_shared_for", chrono2tic(d))

\* Both branches on tics == 0 pass tics (NO_WAIT is 0).
try_lock_until(t, tp) ==
  \E tics \in time_point2tic(tp, Now) : Writing(t, "try_lock_until", tics)
try_lock_shared_until(t, tp) ==
  \E tics \in time_point2tic(tp, Now) :
    Reading(t, "try_lock_shared_until", tics)

Timeout(t) ==
  /\ pc[t] = "pended" /\ timeout[t] # WAIT_FOREVER
  /\ Answer(t, "ERROR")
  /\ UNCHANGED <<object, life, kernel, method, held>>

-------------------------------------------------------------------------------
\* The rest of the wrapper: OK is true, OK or a plain return, ...
Resume(t) ==
  /\ pc' = [pc EXCEPT ![t] = "ready"]
  /\ status' = [status EXCEPT ![t] = "OK"]
  /\ method' = [method EXCEPT ![t] = "none"]
  /\ timeout' = [timeout EXCEPT ![t] = NO_WAIT]
  /\ UNCHANGED <<object, life, kernel>>

Count(t) ==
  /\ exclusive' = [exclusive EXCEPT ![t] =
                     @ + IF method[t] \in WriteTakers THEN 1 ELSE 0]
  /\ shared' = [shared EXCEPT ![t] =
                  @ + IF method[t] \in ReadTakers THEN 1 ELSE 0]

\* A slip: `return true' whatever the status.
return_ok_Always(t) == pc[t] = "returning" /\ Count(t) /\ Resume(t)

return_ok(t) ==
  /\ pc[t] = "returning" /\ status[t] = "OK"
  /\ Count(t) /\ Resume(t)

\* ... ERROR is false or the status ...
return_error(t) ==
  /\ pc[t] = "returning" /\ status[t] = "ERROR" /\ method[t] \notin Throwing
  /\ Resume(t) /\ UNCHANGED held

\* t is gone; what it owned stays owned.
Die(t) ==
  /\ pc' = [pc EXCEPT ![t] = "dead"]
  /\ status' = [status EXCEPT ![t] = "OK"]
  /\ method' = [method EXCEPT ![t] = "none"]
  /\ timeout' = [timeout EXCEPT ![t] = NO_WAIT]
  /\ exclusive' = [exclusive EXCEPT ![t] = 0]
  /\ shared' = [shared EXCEPT ![t] = 0]
  /\ UNCHANGED <<object, life, kernel>>

\* ... or `throw;'.
throw(t) ==
  /\ pc[t] = "returning" /\ status[t] = "ERROR" /\ method[t] \in Throwing
  /\ Die(t)

\* A slip: the destructor forgets the C object.
dtor_Leak(t) ==
  /\ t \in Destroyer /\ pc[t] = "ready" /\ life = "live"
  /\ life' = "deleted"
  /\ UNCHANGED <<object, kernel, pc, status, call, held>>

\* ~shared_mutex(): semDelete fails every pended take.
dtor(t) ==
  /\ t \in Destroyer /\ pc[t] = "ready" /\ life = "live"
  /\ life' = "deleted"
  /\ pc' = [u \in Tasks |-> IF u \in Pended THEN "returning" ELSE pc[u]]
  /\ status' = [u \in Tasks |-> IF u \in Pended THEN "ERROR" ELSE status[u]]
  /\ UNCHANGED <<object, kernel, call, held>>

-------------------------------------------------------------------------------
\* shared_mutex(), or shared_mutex(int options, int maxReaders), which the
\* derived class does not have.
Init ==
  /\ class \in Instantiated
  /\ \/ opts = saved_options /\ limit = Allowed(defaultMaxReaders)
     \/ /\ class = "shared_mutex"
        /\ opts \in OptionSets
        /\ \E m \in MaxReaders : limit = Allowed(m)
  /\ life = "live"
  /\ writer = NoTask /\ level = [t \in Tasks |-> 0]
  /\ pc = [t \in Tasks |-> "ready"]
  /\ method = [t \in Tasks |-> "none"]
  /\ timeout = [t \in Tasks |-> NO_WAIT]
  /\ status = [t \in Tasks |-> "OK"]
  /\ exclusive = [t \in Tasks |-> 0]
  /\ shared = [t \in Tasks |-> 0]

CallStep(t) ==
  \/ lock(t) \/ op_decrement(t) \/ try_lock(t)
  \/ lock_shared(t) \/ try_lock_shared(t)
  \/ unlock(t) \/ op_increment(t) \/ unlock_shared(t) \/ give(t)
  \/ \E n \in Timeouts : take(t, n) \/ take_shared(t, n)
  \/ \E d \in Durations : try_lock_for(t, d) \/ try_lock_shared_for(t, d)
  \/ \E tp \in Deadlines : try_lock_until(t, tp) \/ try_lock_shared_until(t, tp)

Next ==
  \E t \in Tasks :
    \/ CallStep(t)
    \/ return_ok(t) \/ return_error(t) \/ throw(t)
    \/ Timeout(t)
    \/ dtor(t)

Spec == Init /\ [][Next]_vars

-------------------------------------------------------------------------------
\* The types of the variables.
TypeOK ==
  /\ class \in Classes /\ life \in {"live", "deleted"}
  /\ limit \in 1 .. SEM_RW_MAX_CONCURRENT_READERS
  /\ writer \in Tasks \cup {NoTask}
  /\ level \in [Tasks -> Nat]
  /\ pc \in [Tasks -> {"ready", "pended", "returning", "dead"}]
  /\ method \in [Tasks -> Methods \cup {"none"}]
  /\ timeout \in [Tasks -> _Vx_ticks_t]
  /\ status \in [Tasks -> {"OK", "ERROR"}]
  /\ exclusive \in [Tasks -> Nat] /\ shared \in [Tasks -> Nat]

\* Nobody pends on a mutex that nobody holds, or on one that is gone.
NoLostHandOver ==
  Pended # {} => (writer # NoTask \/ Readers # {}) /\ life = "live"

\* One give serves both modes: a task that runs has given as many levels as it
\* let go of, whether it released them by unlock, unlock_shared or give and in
\* whatever order, and who counts on writing is the writer.
LevelsBacked ==
  \A t \in Tasks :
    /\ pc[t] = "ready" => level[t] = exclusive[t] + shared[t]
    /\ exclusive[t] > 0 => writer = t

\* A request to share is refused or made to wait for a reason only: somebody
\* writes or waits to write, or the readers are as many as they may be.
SharingIsShared ==
  [][\A t \in Tasks :
       /\ pc[t] = "ready" /\ method'[t] \in ReadTakers
       /\ pc'[t] = "pended" \/ status'[t] = "ERROR"
       => \/ writer # NoTask
          \/ PendedWriters # {}
          \/ Cardinality(Readers) >= limit]_vars

\* A call that may acquire is a request until it has returned.
RWMode ==
  [t \in Tasks |->
     IF pc[t] = "dead" THEN "dead"
     ELSE IF pc[t] \in {"pended", "returning"} /\ method[t] \in WriteTakers
       THEN "asking"
     ELSE IF pc[t] \in {"pended", "returning"} /\ method[t] \in ReadTakers
       THEN "asking shared" ELSE "idle"]

\* The callers see the abstract readers-writer lock.
Abstract == INSTANCE RWLockSpec WITH mode <- RWMode

ImplementsRWLock == Abstract!Spec
===============================================================================
