-------------------------------- MODULE CondVar --------------------------------
(***************************************************************************)
(* One unnamed condition_variable, the mutexes its callers wait with, and  *)
(* clients that use it as condition_variable.hpp:28-33 describes: a        *)
(* consumer takes its mutex and waits until an event has occurred, a       *)
(* producer lets the event occur under the mutex and notifies.             *)
(*                                                                         *)
(* A mutex is one that Mutex shows to implement LockSpec: take and give,   *)
(* not nested.  condVarWait leaves the task waiting; released, the task    *)
(* takes its mutex again, for which it may pend, and returns.  wait and    *)
(* wait_for are void: the caller goes on as if notified.  `canWrite'       *)
(* (condition_variable.hpp:170,188,207), which nothing declares, is read   *)
(* as the id of the object, and handle(lock) as lock.handle().             *)
(***************************************************************************)
EXTENDS Tics

CONSTANTS
  Producers, Consumers, NoTask,
  Prio,       \* priorities of the tasks; 0 is the highest
  Mutexes,
  Scenes,     \* the clients: records of
              \*   uses, a function from tasks to the mutex of each,
              \*   late: may a producer notify after it has given the mutex?
              \*   consumers: those that take part
  Options,    \* options of the constructor: the order of those that wait
  Destroyer,  \* tasks that may run the destructor
  Timeouts, Durations  \* arguments of the two forms of wait_for; with
                       \* WAIT_FOREVER it is the same call as wait

Tasks == Producers \cup Consumers

QueueOptions == {"CONDVAR_Q_PRIORITY", "CONDVAR_Q_FIFO"}

ASSUME CondVarAssumption ==
  /\ NoTask \notin Tasks
  /\ Prio \in [Tasks -> Nat]
  /\ Scenes \subseteq [uses : [Tasks -> Mutexes], late : BOOLEAN,
                        consumers : SUBSET Consumers]
  /\ Options \subseteq QueueOptions
  /\ Destroyer \subseteq Tasks
  /\ Timeouts \subseteq _Vx_ticks_t \ {WAIT_FOREVER} /\ Durations \subseteq Int

VARIABLES
  scene,       \* which of the Scenes this is
  opts,        \* the order of the queue
  life,        \* "live" or "deleted"
  owner,       \* owner[m]: the task that owns mutex m
  ahead,       \* ahead[t]: tasks that waited before t did, and wait still
  pc,          \* "ready", "locking", "waiting", "relocking" or "returning"
  method,      \* method[t]: the call t is in
  timeout,     \* timeout[t]: the timeout t waits with
  held,        \* held[t]: does t count on holding its mutex?
  event,       \* has the event occurred and not been consumed?
  owes         \* owes[t]: producer t has yet to notify

object == <<scene, opts>>
client == <<event, owes>>
vars   == <<scene, opts, life, owner, ahead, pc, method, timeout, held, event,
            owes>>

uses == scene.uses

-------------------------------------------------------------------------------
(***************************************************************************)
(* The mutexes, semMLib, and the condition variable, condVarLib (both      *)
(* external).  Tasks that pend on a mutex are queued by priority, those    *)
(* that wait on the variable as its options say.                           *)
(***************************************************************************)
First(S)   == {t \in S : \A u \in S : Prio[t] <= Prio[u]}
Heirs(S)   == IF opts = "CONDVAR_Q_FIFO" THEN {t \in S : ahead[t] \cap S = {}}
              ELSE First(S)
Pended(m)  == {t \in Tasks : pc[t] \in {"locking", "relocking"} /\ uses[t] = m}
Waiting    == {t \in Tasks : pc[t] = "waiting"}

\* t, which goes on at p, gives its mutex.
semMGive(t, p) ==
  LET m == uses[t]
  IN  \/ /\ Pended(m) = {}
         /\ owner' = [owner EXCEPT ![m] = NoTask]
         /\ pc' = [pc EXCEPT ![t] = p]
      \/ \E h \in First(Pended(m)) :
           /\ owner' = [owner EXCEPT ![m] = h]
           /\ pc' = [pc EXCEPT ![t] = p, ![h] = "returning"]

\* The tasks of S, all waiting with one mutex, are released: the first of them
\* has the mutex if it is free, the others pend on it.
Release(S) ==
  \/ S = {} /\ UNCHANGED <<owner, ahead, pc>>
  \/ \E h \in Heirs(S) :
       LET free == owner[uses[h]] = NoTask
       IN  /\ ahead' = [t \in Tasks |-> IF t \in S THEN {} ELSE ahead[t] \ S]
           /\ owner' = IF free THEN [owner EXCEPT ![uses[h]] = h] ELSE owner
           /\ pc' = [t \in Tasks |-> IF t \notin S THEN pc[t]
                                     ELSE IF free /\ t = h THEN "returning"
                                     ELSE "relocking"]

\* condVarWait with a timeout of n ticks: refused when somebody waits with
\* another mutex or the variable is gone; with NO_WAIT the task does not pend.
condVarWait(t, n) ==
  IF \/ life = "deleted" \/ n = NO_WAIT
     \/ \E u \in Waiting : uses[u] # uses[t]
  THEN /\ pc' = [pc EXCEPT ![t] = "returning"]
       /\ UNCHANGED <<owner, ahead, timeout, held>>
  ELSE /\ semMGive(t, "waiting")
       /\ ahead' = [ahead EXCEPT ![t] = Waiting]
       /\ timeout' = [timeout EXCEPT ![t] = n]
       /\ held' = [held EXCEPT ![t] = FALSE]

condVarSignal    == \E S \in {{t} : t \in Heirs(Waiting)} \cup
                           {T \in {{}} : Waiting = {}} : Release(S)
condVarBroadcast == Release(Waiting)

\* A wait runs out.
Timeout(t) ==
  /\ pc[t] = "waiting" /\ timeout[t] # WAIT_FOREVER
  /\ Release({t})
  /\ UNCHANGED <<object, life, method, timeout, held, client>>

-------------------------------------------------------------------------------
Lock(t) ==
  /\ pc[t] = "ready" /\ ~held[t]
  /\ t \in Producers \cup scene.consumers /\ ~owes[t]
  /\ method' = [method EXCEPT ![t] = "lock"]
  /\ UNCHANGED <<object, life, ahead, timeout, held, client>>

\* A slip: lock with NO_WAIT and the status not looked at.
lock_Polls(t) ==
  /\ Lock(t)
  /\ pc' = [pc EXCEPT ![t] = "returning"]
  /\ owner' = IF owner[uses[t]] = NoTask THEN [owner EXCEPT ![uses[t]] = t]
              ELSE owner

lock(t) ==
  /\ Lock(t)
  /\ \/ /\ owner[uses[t]] = NoTask
        /\ owner' = [owner EXCEPT ![uses[t]] = t]
        /\ pc' = [pc EXCEPT ![t] = "returning"]
     \/ /\ owner[uses[t]] # NoTask
        /\ pc' = [pc EXCEPT ![t] = "locking"]
        /\ UNCHANGED owner

\* A careful consumer does not leave an event behind.
unlock(t) ==
  /\ pc[t] = "ready" /\ held[t]
  /\ t \in Consumers => ~event
  /\ owes[t] => scene.late
  /\ semMGive(t, "ready")
  /\ held' = [held EXCEPT ![t] = FALSE]
  /\ UNCHANGED <<object, life, ahead, method, timeout, client>>

produce(t) ==
  /\ t \in Producers /\ pc[t] = "ready" /\ held[t] /\ ~owes[t]
  /\ event' = TRUE
  /\ owes' = [owes EXCEPT ![t] = TRUE]
  /\ UNCHANGED <<object, life, owner, ahead, pc, method, timeout, held>>

consume(t) ==
  /\ t \in Consumers /\ pc[t] = "ready" /\ held[t] /\ event
  /\ event' = FALSE
  /\ UNCHANGED <<object, life, owner, ahead, pc, method, timeout, held, owes>>

-------------------------------------------------------------------------------
Waits(t, m, n) ==
  /\ t \in Consumers /\ pc[t] = "ready" /\ held[t] /\ ~event
  /\ condVarWait(t, n)
  /\ method' = [method EXCEPT ![t] = m]
  /\ UNCHANGED <<object, life, client>>

\* Slips: a wait that does not pend, and a wait_for that forgets its timeout.
wait_Polls(t)                == Waits(t, "wait", NO_WAIT)
wait_for_ticks_Forever(t, n) == Waits(t, "wait_for", WAIT_FOREVER)

wait(t)              == Waits(t, "wait", WAIT_FOREVER)
wait_for(t, d)       == Waits(t, "wait_for", chrono2tic(d))
wait_for_ticks(t, n) == Waits(t, "wait_for", n)

Notifies(t) ==
  /\ pc[t] = "ready" /\ owes[t]
  /\ owes' = [owes EXCEPT ![t] = FALSE]
  /\ UNCHANGED <<object, life, method, timeout, held, event>>

\* A slip: the signal is not sent.
notify_one_Noop(t) == Notifies(t) /\ UNCHANGED <<owner, ahead, pc>>

notify_one(t) == Notifies(t) /\ condVarSignal
notify_all(t) == Notifies(t) /\ condVarBroadcast

\* The call is over.  The status of condVarWait is discarded: however the
\* wait ended, the caller counts on the mutex.
return(t) ==
  /\ pc[t] = "returning"
  /\ pc' = [pc EXCEPT ![t] = "ready"]
  /\ method' = [method EXCEPT ![t] = "none"]
  /\ timeout' = [timeout EXCEPT ![t] = NO_WAIT]
  /\ held' = [held EXCEPT ![t] = TRUE]
  /\ UNCHANGED <<object, life, owner, ahead, client>>

\* condVarDelete releases everybody who waits.
dtor(t) ==
  /\ t \in Destroyer /\ pc[t] = "ready" /\ life = "live"
  /\ life' = "deleted"
  /\ Release(Waiting)
  /\ UNCHANGED <<object, method, timeout, held, client>>

-------------------------------------------------------------------------------
Init ==
  /\ scene \in Scenes /\ opts \in Options /\ life = "live"
  /\ ahead = [t \in Tasks |-> {}]
  /\ owner = [m \in Mutexes |-> NoTask]
  /\ pc = [t \in Tasks |-> "ready"]
  /\ method = [t \in Tasks |-> "none"]
  /\ timeout = [t \in Tasks |-> NO_WAIT]
  /\ held = [t \in Tasks |-> FALSE]
  /\ event = FALSE /\ owes = [t \in Tasks |-> FALSE]

WaitStep(t) ==
  \/ wait(t)
  \/ \E d \in Durations : wait_for(t, d)
  \/ \E n \in Timeouts : wait_for_ticks(t, n)

NotifyStep(t) == notify_one(t) \/ notify_all(t)

Next ==
  \E t \in Tasks :
    \/ lock(t) \/ unlock(t) \/ produce(t) \/ consume(t)
    \/ WaitStep(t) \/ NotifyStep(t) \/ Timeout(t) \/ return(t) \/ dtor(t)

Spec == Init /\ [][Next]_vars

\* A task that is ready runs on, a timeout that is due comes, a critical
\* section ends, and a producer notifies.
FairSpec ==
  /\ Spec
  /\ \A t \in Tasks : /\ WF_vars(return(t)) /\ WF_vars(Timeout(t))
                      /\ SF_vars(unlock(t)) /\ WF_vars(consume(t))
                      /\ WF_vars(NotifyStep(t))

-------------------------------------------------------------------------------
\* The types of the variables.
TypeOK ==
  /\ scene \in Scenes /\ opts \in QueueOptions
  /\ life \in {"live", "deleted"}
  /\ ahead \in [Tasks -> SUBSET Tasks]
  /\ owner \in [Mutexes -> Tasks \cup {NoTask}]
  /\ pc \in [Tasks -> {"ready", "locking", "waiting", "relocking", "returning"}]
  /\ method \in [Tasks -> {"none", "lock", "wait", "wait_for"}]
  /\ timeout \in [Tasks -> _Vx_ticks_t]
  /\ held \in [Tasks -> BOOLEAN]
  /\ event \in BOOLEAN /\ owes \in [Tasks -> BOOLEAN]

(***************************************************************************)
(* wait() may be trusted, its return taken for the event, under these      *)
(* conditions and no fewer: it has no timeout, there is one consumer and   *)
(* one mutex, the variable lives, and a producer notifies before it gives  *)
(* the mutex.  Whoever misses one of them has to look at the event again,  *)
(* as the void return tells nothing.                                       *)
(***************************************************************************)
TrustedReturn ==
  \A t \in Consumers :
    /\ scene.consumers = {t} /\ ~scene.late /\ life = "live"
    /\ \A u \in Tasks : uses[u] = uses[t]
    /\ method[t] = "wait" /\ pc[t] = "returning"
    => event

\* The condition variable and its mutexes, as their callers see them.
Monitor ==
  INSTANCE MonitorSpec WITH
    mode <- [t \in Tasks |-> IF held[t] \/ pc[t] = "ready" THEN "idle"
                             ELSE IF pc[t] = "waiting" THEN "waiting"
                             ELSE "asking"]

\* A wait that pends gives its mutex up and, whether it is notified, times out
\* or finds the variable deleted, ends with it; one that is refused, which its
\* caller cannot tell from the void return, keeps it throughout.
ImplementsMonitor == Monitor!Spec

\* No wake-up is lost between the look at the event, the wait and the
\* notification: with one mutex nobody waits on while the event is there,
\* whether producers notify one or all, under the mutex or after it.  In order
\* of arrival the one released may be of low priority: it pends on the mutex to
\* come back, from which rivals may keep it, and the others wait meanwhile.
EventNotMissed ==
  \A t \in Consumers :
    (pc[t] = "waiting" /\ event /\ \A u \in Tasks : uses[u] = uses[t])
      ~> (\/ pc[t] # "waiting" \/ ~event
          \/ opts = "CONDVAR_Q_FIFO" /\ \E u \in Consumers : pc[u] = "relocking")

\* wait_for comes to an end for a task with no rival of its priority or above,
\* though it may pend on the mutex beyond its timeout.  (A rival may keep others
\* from the mutex for ever; a duration beyond the range of chrono2tic, of which
\* there is none in the instance, may become WAIT_FOREVER.)
TimedWaitReturns ==
  \A t \in Consumers :
    (\A u \in Tasks \ {t} : Prio[t] < Prio[u]) =>
      method[t] = "wait_for" ~> method[t] # "wait_for"
===============================================================================
