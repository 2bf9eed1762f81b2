------------------------------- MODULE Semaphore -------------------------------
(***************************************************************************)
(* One unnamed semaphore of semaphore.hpp, counting or binary, and the     *)
(* tasks that call it.                                                     *)
(*                                                                         *)
(* The two classes differ in the routine they wrap, semCLib or semBLib     *)
(* (external), and in nothing else that changes state, so that each action *)
(* stands for the method of both.  As in Mutex a method is the call of the *)
(* routine, which may leave the task pended, and the return from it;       *)
(* release(n) is a loop of such calls.  `throw;' ends the task.            *)
(***************************************************************************)
EXTENDS Tics, FiniteSets

CONSTANTS
  Tasks, Prio,   \* the tasks and their priorities; 0 is the highest
  Instantiated,  \* classes the semaphore may be of: "counting", "binary"
  Options,       \* options of the constructors: the order of the queue
  Initial,       \* initial counts, or states (0 empty, 1 full), of constructors
  MaxCount,      \* the largest count semCLib keeps
  Calls,         \* methods the tasks call
  Counts,        \* arguments of release(n)
  Destroyer,     \* tasks that may run the destructor
  Timeouts, Durations,  \* arguments of the two forms of take
  LedgerMod      \* the ledger is kept modulo this number

Classes      == {"counting", "binary"}
QueueOptions == {"SEM_Q_PRIORITY", "SEM_Q_FIFO"}

ASSUME SemaphoreAssumption ==
  /\ Prio \in [Tasks -> Nat]
  /\ Instantiated \subseteq Classes
  /\ MaxCount \in Nat \ {0}
  /\ Options \subseteq QueueOptions
  /\ Initial \subseteq 0 .. MaxCount
  /\ Destroyer \subseteq Tasks
  /\ Counts \subseteq Int
  /\ Timeouts \subseteq _Vx_ticks_t /\ Durations \subseteq Int
  /\ LedgerMod \in Nat \ {0}

VARIABLES
  class, opts,  \* the class and the order of the queue
  life,         \* "live" or "deleted"
  count,        \* the count; 0 or 1 of a binary semaphore
  ahead,    \* ahead[t]: tasks that pended before t did, and pend still
  pc,       \* pc[t]: "ready", "pended", "returning", "dead", or in the loop
            \*   of release(n), "releasing" before a give and "checking" after
  method,   \* method[t]: the call t is in, or "none"
  timeout,  \* timeout[t]: the timeout t pends with
  status,   \* status[t]: what the routine answered
  left,     \* left[t]: n in the loop of release(n)
  ledger,   \* history: permits given, as told to the callers, less those taken
  found     \* history: found[t], the semaphore as it was when it failed t

object == <<class, opts>>
vars   == <<class, opts, life, count, ahead, pc, method, timeout, status, left,
            ledger, found>>

Takers   == {"acquire", "operator--", "take", "try_aquire"}
Givers   == {"give", "release", "release(n)", "operator++"}
Methods  == Takers \cup Givers
Throwing == Methods \ {"take", "give"}

-------------------------------------------------------------------------------
(***************************************************************************)
(* semCLib and semBLib (external).                                         *)
(***************************************************************************)
Pended == {t \in Tasks : pc[t] = "pended"}

\* Who is let through first: in the order of the queue, nobody is before t.
Heirs ==
  {t \in Pended : IF opts = "SEM_Q_FIFO"
                    THEN ahead[t] = {}
                    ELSE \A u \in Pended : Prio[t] <= Prio[u]}

Unqueue(S) ==
  ahead' = [u \in Tasks |-> IF u \in S THEN {} ELSE ahead[u] \ S]

\* What t is failed for, where l is the state of the object.
Fails(t, l) == found' = [found EXCEPT ![t] = [life |-> l, count |-> count]]
Unfound == [life |-> "live", count |-> 0]

\* semCGive, semBGive: the first pended task is let through, or the count
\* rises.  A full binary semaphore stays full; a count at its limit is an
\* ERROR.  t goes on at p.
semGive(t, p) ==
  \/ \E h \in Heirs :
       /\ pc' = [pc EXCEPT ![t] = p, ![h] = "returning"]
       /\ status' = [status EXCEPT ![t] = "OK", ![h] = "OK"]
       /\ Unqueue({h})
       /\ UNCHANGED <<count, found>>
  \/ /\ Pended = {}
     /\ pc' = [pc EXCEPT ![t] = p]
     /\ IF class = "counting" /\ count = MaxCount
          THEN /\ status' = [status EXCEPT ![t] = "ERROR"]
               /\ Fails(t, "live")
               /\ UNCHANGED count
          ELSE /\ status' = [status EXCEPT ![t] = "OK"]
               /\ count' = IF class = "binary" THEN 1 ELSE count + 1
               /\ UNCHANGED found
     /\ UNCHANGED ahead

\* semCTake, semBTake with a timeout of n ticks.
semTake(t, n) ==
  \/ /\ count > 0
     /\ count' = count - 1
     /\ pc' = [pc EXCEPT ![t] = "returning"]
     /\ status' = [status EXCEPT ![t] = "OK"]
     /\ UNCHANGED <<ahead, timeout, found>>
  \/ /\ count = 0 /\ n = NO_WAIT
     /\ pc' = [pc EXCEPT ![t] = "returning"]
     /\ status' = [status EXCEPT ![t] = "ERROR"]
     /\ Fails(t, "live")
     /\ UNCHANGED <<count, ahead, timeout>>
  \/ /\ count = 0 /\ n # NO_WAIT
     /\ ahead' = [ahead EXCEPT ![t] = Pended]
     /\ pc' = [pc EXCEPT ![t] = "pended"]
     /\ timeout' = [timeout EXCEPT ![t] = n]
     /\ UNCHANGED <<count, status, found>>

-------------------------------------------------------------------------------
Enter(t, m) ==
  /\ life = "live" /\ pc[t] = "ready"
  /\ m \in Calls
  /\ method' = [method EXCEPT ![t] = m]
  /\ UNCHANGED <<object, life, ledger>>

Taking(t, m, n) == Enter(t, m) /\ semTake(t, n) /\ UNCHANGED left
Giving(t, m) ==
  Enter(t, m) /\ semGive(t, "returning") /\ UNCHANGED <<timeout, left>>

acquire(t)      == Taking(t, "acquire", WAIT_FOREVER)
op_decrement(t) == Taking(t, "operator--", WAIT_FOREVER)
try_aquire(t)   == Taking(t, "try_aquire", NO_WAIT)
take(t, n)      == Taking(t, "take", n)

take_for(t, d)  == Taking(t, "take", chrono2tic(d))
give(t)         == Giving(t, "give")
release(t)      == Giving(t, "release")
op_increment(t) == Giving(t, "operator++")

\* release(n): the loop is entered ...
release_n(t, n) ==
  /\ Enter(t, "release(n)")
  /\ pc' = [pc EXCEPT ![t] = "releasing"]
  /\ left' = [left EXCEPT ![t] = n]
  /\ UNCHANGED <<count, ahead, timeout, status, found>>

\* A slip: a turn that gives nothing.
release_give_Skip(t) ==
  /\ pc[t] = "releasing" /\ left[t] # 0
  /\ pc' = [pc EXCEPT ![t] = "checking"]
  /\ UNCHANGED <<object, life, count, ahead, method, timeout, status, left,
                 ledger, found>>

\* ... one turn gives once: on a semaphore deleted meanwhile the give fails.
release_give(t) ==
  /\ pc[t] = "releasing" /\ left[t] # 0
  /\ \/ life = "live" /\ semGive(t, "checking")
     \/ /\ life = "deleted"
        /\ pc' = [pc EXCEPT ![t] = "checking"]
        /\ status' = [status EXCEPT ![t] = "ERROR"]
        /\ Fails(t, "deleted")
        /\ UNCHANGED <<count, ahead>>
  /\ UNCHANGED <<object, life, method, timeout, left, ledger>>

Credit(k) == ledger' = (ledger + k) % LedgerMod

CountsDown(t) ==
  /\ pc' = [pc EXCEPT ![t] = "releasing"]
  /\ status' = [status EXCEPT ![t] = "OK"]
  /\ left' = [left EXCEPT ![t] = IF @ > 0 THEN @ - 1 ELSE @]
  /\ Credit(1)
  /\ UNCHANGED <<object, life, count, ahead, method, timeout, found>>

\* A slip: the loop counts a give that failed.
release_next_AnyStatus(t) == pc[t] = "checking" /\ CountsDown(t)

\* ... and if it was given, `--n'.  A negative n is counted away from 0, which
\* it would meet after 2^63 turns: the model leaves it as it is.
release_next(t) == pc[t] = "checking" /\ status[t] = "OK" /\ CountsDown(t)

Timeout(t) ==
  /\ pc[t] = "pended" /\ timeout[t] # WAIT_FOREVER
  /\ pc' = [pc EXCEPT ![t] = "returning"]
  /\ status' = [status EXCEPT ![t] = "ERROR"]
  /\ Unqueue({t})
  /\ Fails(t, "live")
  /\ UNCHANGED <<object, life, count, method, timeout, left, ledger>>

-------------------------------------------------------------------------------
\* The call is over, and t ready for another or dead.
Over(t, p) ==
  /\ pc' = [pc EXCEPT ![t] = p]
  /\ status' = [status EXCEPT ![t] = "OK"]
  /\ method' = [method EXCEPT ![t] = "none"]
  /\ timeout' = [timeout EXCEPT ![t] = NO_WAIT]
  /\ left' = [left EXCEPT ![t] = 0]
  /\ found' = [found EXCEPT ![t] = Unfound]
  /\ UNCHANGED <<object, life, count, ahead>>

return_ok(t) ==
  /\ pc[t] = "returning" /\ status[t] = "OK"
  /\ Credit(IF method[t] \in Givers THEN 1 ELSE -1)
  /\ Over(t, "ready")

release_return(t) ==
  /\ pc[t] = "releasing" /\ left[t] = 0
  /\ Over(t, "ready")
  /\ UNCHANGED ledger

return_error(t) ==
  /\ pc[t] = "returning" /\ status[t] = "ERROR" /\ method[t] \notin Throwing
  /\ Over(t, "ready")
  /\ UNCHANGED ledger

Ends(t) ==
  /\ pc[t] \in {"returning", "checking"} /\ status[t] = "ERROR"
  /\ Over(t, "dead")
  /\ UNCHANGED ledger

\* A slip: take throws as well.
throw_Always(t) == Ends(t)

\* `throw;' with no exception at hand: std::terminate.
throw(t) == method[t] \in Throwing /\ Ends(t)

Destroys(t) ==
  /\ t \in Destroyer /\ pc[t] = "ready" /\ life = "live"
  /\ life' = "deleted"
  /\ UNCHANGED <<object, count, method, timeout, left, ledger>>

\* A slip: the destructor forgets the C object.
dtor_Leak(t) == Destroys(t) /\ UNCHANGED <<ahead, pc, status, found>>

\* The destructor: semDelete fails every pended take.
dtor(t) ==
  /\ Destroys(t)
  /\ pc' = [u \in Tasks |-> IF u \in Pended THEN "returning" ELSE pc[u]]
  /\ status' = [u \in Tasks |-> IF u \in Pended THEN "ERROR" ELSE status[u]]
  /\ found' = [u \in Tasks |-> IF u \in Pended
                                THEN [life |-> "deleted", count |-> count]
                                ELSE found[u]]
  /\ Unqueue(Pended)

-------------------------------------------------------------------------------
Init ==
  /\ class \in Instantiated /\ life = "live"
  /\ \/ opts = "SEM_Q_PRIORITY" /\ count = 0   \* the defaults
     \/ opts \in Options /\ count \in Initial
  /\ class = "binary" => count \in {0, 1}
  /\ ahead = [t \in Tasks |-> {}]
  /\ pc = [t \in Tasks |-> "ready"]
  /\ method = [t \in Tasks |-> "none"]
  /\ timeout = [t \in Tasks |-> NO_WAIT]
  /\ status = [t \in Tasks |-> "OK"]
  /\ left = [t \in Tasks |-> 0]
  /\ ledger = count % LedgerMod
  /\ found = [t \in Tasks |-> Unfound]

CallStep(t) ==
  \/ acquire(t) \/ op_decrement(t) \/ try_aquire(t)
  \/ \E n \in Timeouts : take(t, n)
  \/ \E d \in Durations : take_for(t, d)
  \/ give(t) \/ release(t) \/ op_increment(t)
  \/ \E n \in Counts : release_n(t, n)

ReturnStep(t) ==
  \/ return_ok(t) \/ release_return(t) \/ return_error(t) \/ throw(t)

Next ==
  \E t \in Tasks :
    \/ CallStep(t) \/ release_give(t) \/ release_next(t)
    \/ Timeout(t) \/ ReturnStep(t) \/ dtor(t)

Spec == Init /\ [][Next]_vars

\* A task that is ready to run is run, a timeout that is due comes.
FairSpec ==
  /\ Spec
  /\ \A t \in Tasks : /\ WF_vars(release_give(t) \/ release_next(t))
                      /\ WF_vars(Timeout(t))
                      /\ WF_vars(ReturnStep(t))

-------------------------------------------------------------------------------
\* The types of the variables.
TypeOK ==
  /\ class \in Classes /\ opts \in QueueOptions
  /\ life \in {"live", "deleted"}
  /\ count \in 0 .. (IF class = "binary" THEN 1 ELSE MaxCount)
  /\ ahead \in [Tasks -> SUBSET Tasks]
  /\ pc \in [Tasks -> {"ready", "pended", "returning", "releasing", "checking",
                       "dead"}]
  /\ method \in [Tasks -> Methods \cup {"none"}]
  /\ timeout \in [Tasks -> _Vx_ticks_t]
  /\ status \in [Tasks -> {"OK", "ERROR"}]
  /\ left \in [Tasks -> Int]
  /\ ledger \in 0 .. (LedgerMod - 1)
  /\ found \in [Tasks -> [life : {"live", "deleted"}, count : 0 .. MaxCount]]

\* The calls of the given methods that the kernel has granted and whose
\* callers do not know yet.
Unreported(ms) ==
  Cardinality({t \in Tasks : /\ pc[t] \in {"returning", "checking"}
                             /\ status[t] = "OK"
                             /\ method[t] \in ms})

(***************************************************************************)
(* No permit of a counting semaphore is lost or made up: what the callers  *)
(* have been told, through timeouts that race a give, loops of release(n)  *)
(* that fail half way and deletion, adds up to what the semaphore holds.   *)
(***************************************************************************)
PermitsAddUp ==
  class = "counting" =>
    ledger = (count + Unreported(Takers) - Unreported(Givers)) % LedgerMod

\* Nobody pends while there is a permit, or on a deleted semaphore.
NoLostWakeUp == Pended # {} => count = 0 /\ life = "live"

\* The call of t has failed for a reason that its method is documented to
\* have: the semaphore had been deleted, or was empty when try_aquire looked at
\* it, or was a counting semaphore at its limit when it was given.
Due(t) ==
  \/ found[t].life = "deleted"
  \/ method[t] = "try_aquire" /\ found[t].count = 0
  \/ /\ class = "counting" /\ method[t] \in Givers
     /\ found[t].count = MaxCount

\* `throw;' ends a task only in a call that was due to fail: waiting for a
\* permit, giving below the limit and the calls that return a status never do.
ThrowsAreDue ==
  [][\A t \in Tasks : pc[t] # "dead" /\ pc'[t] = "dead" => Due(t)]_vars

\* u is the next to be let through whoever comes in between: with
\* SEM_Q_PRIORITY it has no rival of its own priority or above, with
\* SEM_Q_FIFO nobody has pended for longer.
IsNext(u) ==
  /\ pc[u] = "pended"
  /\ IF opts = "SEM_Q_FIFO"
       THEN ahead[u] = {}
       ELSE \A v \in Tasks : v # u => Prio[u] < Prio[v]

\* One turn of release(n) is enough for the task that is next in the order
\* that the semaphore was made with, unless the limit has stopped the loop.
ReleaseServesFirst ==
  \A u \in Tasks :
    (IsNext(u) /\ \E t \in Tasks : pc[t] = "releasing" /\ left[t] > 0)
      ~> pc[u] # "pended"
===============================================================================
