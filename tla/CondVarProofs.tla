----------------------------- MODULE CondVarProofs -----------------------------
(***************************************************************************)
(* Proofs about CondVar, for any tasks, priorities, mutexes, scenes and    *)
(* timeouts.  IInv is the inductive invariant: a task that counts on its   *)
(* mutex, or is about to, owns it, and a task that is not in a call or on  *)
(* its way out of one counts on nothing.  TrustInv adds what a lone        *)
(* consumer that waits without a timeout may conclude.                     *)
(***************************************************************************)
EXTENDS CondVar, TLAPS

States == {"ready", "locking", "waiting", "relocking", "returning"}

\* The part of TypeOK that the proofs rest on.
Typed ==
  /\ scene \in Scenes
  /\ owner \in [Mutexes -> Tasks \cup {NoTask}]
  /\ pc \in [Tasks -> States]
  /\ held \in [Tasks -> BOOLEAN]

\* A task that counts on its mutex, or will when its call is over, owns it.
HoldersOwn ==
  \A t \in Tasks : held[t] \/ pc[t] = "returning" => owner[uses[t]] = t

\* A task that pends or waits counts on nothing.
PendedHoldNothing ==
  \A t \in Tasks : held[t] => pc[t] \in {"ready", "returning"}

IInv == Typed /\ HoldersOwn /\ PendedHoldNothing

\* The mutexes of the tasks are mutexes.
LEMMA UsesTyped ==
  ASSUME Typed, NEW t \in Tasks
  PROVE  uses[t] \in Mutexes
  BY CondVarAssumption DEF Typed, uses

\* The invariant holds before anybody calls.
LEMMA InitIInv == Init => IInv
  BY DEF Init, IInv, Typed, States, HoldersOwn, PendedHoldNothing

-------------------------------------------------------------------------------
(***************************************************************************)
(* What the kernel does to owners and tasks.                               *)
(***************************************************************************)
\* A give lets one task that pends on the mutex have it, or nobody.
LEMMA GiveSteps ==
  ASSUME IInv, NEW t \in Tasks, NEW p \in {"ready", "waiting"},
         pc[t] = "ready", held[t], semMGive(t, p), UNCHANGED scene,
         held' = [held EXCEPT ![t] = FALSE]
  PROVE  /\ IInv'
         /\ pc'[t] = p
         /\ \A u \in Tasks \ {t} :
              \/ pc'[u] = pc[u]
              \/ pc[u] \in {"locking", "relocking"} /\ pc'[u] = "returning"
<1> DEFINE m == uses[t]
<1>1. m \in Mutexes /\ \A u \in Tasks : uses[u] \in Mutexes
  BY UsesTyped DEF IInv
<1>2. uses' = uses
  BY DEF uses
<1>3. /\ owner \in [Mutexes -> Tasks \cup {NoTask}] /\ pc \in [Tasks -> States]
      /\ held \in [Tasks -> BOOLEAN] /\ t # NoTask /\ p \in States
  BY CondVarAssumption DEF IInv, Typed, States
<1>4. \A u \in Tasks \ {t} : uses[u] = m => ~held[u] /\ pc[u] # "returning"
  BY <1>3 DEF IInv, HoldersOwn
<1>5. /\ ~held'[t] /\ held' \in [Tasks -> BOOLEAN]
      /\ \A u \in Tasks \ {t} : held'[u] = held[u]
  BY <1>3
<1>6. CASE /\ owner' = [owner EXCEPT ![m] = NoTask]
           /\ pc' = [pc EXCEPT ![t] = p]
  <2>1. /\ owner' \in [Mutexes -> Tasks \cup {NoTask}]
        /\ \A k \in Mutexes \ {m} : owner'[k] = owner[k]
    BY <1>1, <1>3, <1>6
  <2>2. /\ pc' \in [Tasks -> States] /\ pc'[t] = p
        /\ \A u \in Tasks \ {t} : pc'[u] = pc[u]
    BY <1>3, <1>6
  <2>3. Typed'
    BY <1>5, <2>1, <2>2 DEF IInv, Typed
  <2>4. HoldersOwn' /\ PendedHoldNothing'
    BY <1>1, <1>2, <1>4, <1>5, <2>1, <2>2
    DEF IInv, HoldersOwn, PendedHoldNothing
  <2> QED
    BY <2>2, <2>3, <2>4 DEF IInv
<1>7. ASSUME NEW h \in First(Pended(m)),
             owner' = [owner EXCEPT ![m] = h],
             pc' = [pc EXCEPT ![t] = p, ![h] = "returning"]
      PROVE  /\ IInv' /\ pc'[t] = p
             /\ \A u \in Tasks \ {t} :
                  \/ pc'[u] = pc[u]
                  \/ pc[u] \in {"locking", "relocking"} /\ pc'[u] = "returning"
  <2>1. h \in Tasks /\ pc[h] \in {"locking", "relocking"} /\ uses[h] = m
    BY DEF First, Pended
  <2>2. h # t /\ "returning" \in States
    BY <2>1 DEF States
  <2>3. /\ owner' \in [Mutexes -> Tasks \cup {NoTask}] /\ owner'[m] = h
        /\ \A k \in Mutexes \ {m} : owner'[k] = owner[k]
    BY <1>1, <1>3, <1>7, <2>1
  <2>4. /\ pc' \in [Tasks -> States] /\ pc'[t] = p /\ pc'[h] = "returning"
        /\ \A u \in Tasks \ {t, h} : pc'[u] = pc[u]
    BY <1>3, <1>7, <2>1, <2>2
  <2>5. Typed'
    BY <1>5, <2>3, <2>4 DEF IInv, Typed
  <2>6. HoldersOwn' /\ PendedHoldNothing'
    BY <1>1, <1>2, <1>4, <1>5, <2>1, <2>3, <2>4
    DEF IInv, HoldersOwn, PendedHoldNothing
  <2> QED
    BY <2>1, <2>4, <2>5, <2>6 DEF IInv
<1> QED
  BY <1>6, <1>7 DEF semMGive

\* Tasks that are released have their mutex if it was free, or pend on it.
LEMMA ReleaseSteps ==
  ASSUME IInv, NEW S \in SUBSET Waiting, Release(S), UNCHANGED <<scene, held>>
  PROVE  /\ IInv'
         /\ \A u \in S : pc'[u] \in {"relocking", "returning"}
         /\ \A u \in Tasks \ S : pc'[u] = pc[u]
<1>1. \A u \in Tasks : uses[u] \in Mutexes
  BY UsesTyped DEF IInv
<1>2. uses' = uses
  BY DEF uses
<1>3. /\ owner \in [Mutexes -> Tasks \cup {NoTask}] /\ pc \in [Tasks -> States]
      /\ NoTask \notin Tasks
  BY CondVarAssumption DEF IInv, Typed
<1>4. \A u \in S : u \in Tasks /\ pc[u] = "waiting" /\ ~held[u]
  BY DEF Waiting, IInv, PendedHoldNothing
<1>5. CASE S = {} /\ UNCHANGED <<owner, pc>>
  BY <1>2, <1>5 DEF IInv, Typed, HoldersOwn, PendedHoldNothing
<1>6. ASSUME NEW h \in Heirs(S),
             owner' = IF owner[uses[h]] = NoTask
                      THEN [owner EXCEPT ![uses[h]] = h] ELSE owner,
             pc' = [u \in Tasks |->
                      IF u \notin S THEN pc[u]
                      ELSE IF owner[uses[h]] = NoTask /\ u = h THEN "returning"
                      ELSE "relocking"]
      PROVE  /\ IInv'
             /\ \A u \in S : pc'[u] \in {"relocking", "returning"}
             /\ \A u \in Tasks \ S : pc'[u] = pc[u]
  <2>1. h \in S /\ h \in Tasks /\ uses[h] \in Mutexes
    BY <1>1, <1>4 DEF Heirs, First
  <2>2. owner' \in [Mutexes -> Tasks \cup {NoTask}]
    BY <1>3, <1>6, <2>1
  <2>3. /\ pc' \in [Tasks -> States]
        /\ \A u \in S : pc'[u] \in {"relocking", "returning"}
        /\ \A u \in S : pc'[u] = "returning" => u = h /\ owner[uses[h]] = NoTask
        /\ \A u \in Tasks \ S : pc'[u] = pc[u]
    BY <1>3, <1>4, <1>6 DEF States
  <2>4. \A u \in Tasks : owner[uses[u]] = u => owner'[uses[u]] = u
    BY <1>1, <1>3, <1>6, <2>1
  <2>5. owner[uses[h]] = NoTask => owner'[uses[h]] = h
    BY <1>3, <1>6, <2>1
  <2>6. HoldersOwn'
    BY <1>2, <1>4, <2>3, <2>4, <2>5 DEF IInv, HoldersOwn
  <2>7. Typed' /\ PendedHoldNothing'
    BY <1>4, <2>2, <2>3 DEF IInv, Typed, PendedHoldNothing
  <2> QED
    BY <2>3, <2>6, <2>7 DEF IInv
<1> QED
  BY <1>5, <1>6 DEF Release

-------------------------------------------------------------------------------
(***************************************************************************)
(* Each step keeps the invariant and is a step of the monitor, or none.    *)
(***************************************************************************)
\* What each task is seen to do, as in Monitor.
Mode == [t \in Tasks |-> IF held[t] \/ pc[t] = "ready" THEN "idle"
                         ELSE IF pc[t] = "waiting" THEN "waiting" ELSE "asking"]

\* What the callers see.
Seen == <<uses, Mode, held>>

\* The invariant is kept, and the step is one of the monitor, or none.
Simulates == IInv' /\ (Monitor!Next \/ UNCHANGED Seen)

\* The monitor starts as the condition variable does.
LEMMA InitMonitor == Init => Monitor!Init
  BY CondVarAssumption DEF Init, Monitor!Init, uses

\* A task that takes its mutex asks for it.
LEMMA LockSimulates ==
  ASSUME IInv, NEW t \in Tasks, lock(t)
  PROVE  Simulates
<1>1. /\ uses' = uses /\ uses[t] \in Mutexes /\ pc[t] = "ready" /\ ~held[t]
      /\ scene' = scene /\ held' = held
  BY UsesTyped DEF lock, Lock, object, uses, IInv
<1>2. /\ owner \in [Mutexes -> Tasks \cup {NoTask}] /\ pc \in [Tasks -> States]
      /\ NoTask \notin Tasks
  BY CondVarAssumption DEF IInv, Typed
<1>3. /\ pc' \in [Tasks -> States] /\ pc'[t] \in {"locking", "returning"}
      /\ \A u \in Tasks \ {t} : pc'[u] = pc[u]
      /\ owner' \in [Mutexes -> Tasks \cup {NoTask}]
      /\ pc'[t] = "returning" => owner'[uses[t]] = t
      /\ \/ owner' = owner
         \/ /\ owner[uses[t]] = NoTask
            /\ owner' = [owner EXCEPT ![uses[t]] = t]
  BY <1>1, <1>2 DEF lock, States
<1>4. \A u \in Tasks : uses[u] \in Mutexes
  BY UsesTyped DEF IInv
<1>5. IInv'
  BY <1>1, <1>2, <1>3, <1>4 DEF IInv, Typed, HoldersOwn, PendedHoldNothing
<1>6. Monitor!Request(t)
  <2>1. Mode' = [Mode EXCEPT ![t] = "asking"]
    BY <1>1, <1>3 DEF Mode
  <2> QED
    BY <1>1, <2>1 DEF Monitor!Request, Mode
<1> QED
  BY <1>5, <1>6 DEF Simulates, Monitor!Next

\* A task that gives its mutex, for good or to wait, lets go of it.
LEMMA GiveSimulates ==
  ASSUME IInv, NEW t \in Tasks, NEW p \in {"ready", "waiting"},
         pc[t] = "ready", held[t], semMGive(t, p), UNCHANGED scene,
         held' = [held EXCEPT ![t] = FALSE]
  PROVE  Simulates
<1>1. /\ IInv' /\ pc'[t] = p
      /\ \A u \in Tasks \ {t} :
           \/ pc'[u] = pc[u]
           \/ pc[u] \in {"locking", "relocking"} /\ pc'[u] = "returning"
  BY GiveSteps
<1>2. uses' = uses /\ held \in [Tasks -> BOOLEAN]
  BY DEF uses, IInv, Typed
<1>3. ~held'[t] /\ \A u \in Tasks \ {t} : held'[u] = held[u]
  BY <1>2
<1>4. \A u \in Tasks \ {t} : Mode'[u] = Mode[u]
  BY <1>1, <1>3 DEF Mode
<1>5. Mode[t] = "idle" /\ Mode'[t] = IF p = "ready" THEN "idle" ELSE "waiting"
  BY <1>1, <1>3 DEF Mode
<1>6. CASE p = "ready"
  <2>1. Mode' = Mode
    BY <1>4, <1>5, <1>6 DEF Mode
  <2>2. Monitor!Release(t)
    BY <1>2, <1>5, <2>1 DEF Monitor!Release, Mode
  <2> QED
    BY <1>1, <2>2 DEF Simulates, Monitor!Next
<1>7. CASE p = "waiting"
  <2>1. Mode' = [Mode EXCEPT ![t] = "waiting"]
    BY <1>4, <1>5, <1>7 DEF Mode
  <2>2. Monitor!Wait(t)
    BY <1>2, <1>5, <2>1 DEF Monitor!Wait, Mode
  <2> QED
    BY <1>1, <2>2 DEF Simulates, Monitor!Next
<1> QED
  BY <1>6, <1>7

\* Tasks that are released ask for their mutex again.
LEMMA ReleaseSimulates ==
  ASSUME IInv, NEW S \in SUBSET Waiting, Release(S), UNCHANGED <<scene, held>>
  PROVE  Simulates
<1>1. /\ IInv'
      /\ \A u \in S : pc'[u] \in {"relocking", "returning"}
      /\ \A u \in Tasks \ S : pc'[u] = pc[u]
  BY ReleaseSteps
<1>2. uses' = uses
  BY DEF uses
<1>3. \A u \in S : u \in Tasks /\ pc[u] = "waiting" /\ ~held[u]
  BY DEF Waiting, IInv, PendedHoldNothing
<1>4. Mode' = [u \in Tasks |-> IF u \in S THEN "asking" ELSE Mode[u]]
  BY <1>1, <1>3 DEF Mode
<1>5. \A u \in S : Mode[u] = "waiting"
  BY <1>3 DEF Mode
<1>6. Monitor!Wake(S)
  BY <1>2, <1>4, <1>5 DEF Monitor!Wake, Mode
<1>7. S \in SUBSET Tasks
  BY <1>3
<1> QED
  BY <1>1, <1>6, <1>7 DEF Simulates, Monitor!Next

\* A wait gives the mutex, or is refused and keeps it.
LEMMA WaitSimulates ==
  ASSUME IInv, NEW t \in Tasks, NEW m, NEW n, Waits(t, m, n)
  PROVE  Simulates
<1>1. pc[t] = "ready" /\ held[t] /\ condVarWait(t, n) /\ scene' = scene
  BY DEF Waits, object
<1>2. CASE semMGive(t, "waiting") /\ held' = [held EXCEPT ![t] = FALSE]
  BY <1>1, <1>2, GiveSimulates
<1>3. CASE pc' = [pc EXCEPT ![t] = "returning"] /\ UNCHANGED <<owner, held>>
  <2>1. /\ uses' = uses /\ pc \in [Tasks -> States] /\ owner[uses[t]] = t
        /\ "returning" \in States
    BY <1>1 DEF uses, IInv, Typed, HoldersOwn, States
  <2>2. /\ pc' \in [Tasks -> States] /\ pc'[t] = "returning"
        /\ \A u \in Tasks \ {t} : pc'[u] = pc[u]
    BY <1>3, <2>1
  <2>3. IInv'
    BY <1>1, <1>3, <2>1, <2>2 DEF IInv, Typed, HoldersOwn, PendedHoldNothing
  <2>4. Mode' = Mode
    BY <1>1, <1>3, <2>2 DEF Mode
  <2> QED
    BY <1>3, <2>1, <2>3, <2>4 DEF Simulates, Seen
<1> QED
  BY <1>1, <1>2, <1>3 DEF condVarWait

\* The end of a call grants the mutex, unless the caller has kept it.
LEMMA ReturnSimulates ==
  ASSUME IInv, NEW t \in Tasks, return(t)
  PROVE  Simulates
<1>1. /\ uses' = uses /\ owner' = owner /\ scene' = scene /\ pc[t] = "returning"
      /\ pc' = [pc EXCEPT ![t] = "ready"] /\ held' = [held EXCEPT ![t] = TRUE]
  BY DEF return, object, uses
<1>2. /\ pc \in [Tasks -> States] /\ held \in [Tasks -> BOOLEAN]
      /\ owner[uses[t]] = t /\ "ready" \in States
  BY <1>1 DEF IInv, Typed, HoldersOwn, States
<1>3. /\ pc' \in [Tasks -> States] /\ pc'[t] = "ready" /\ held'[t]
      /\ held' \in [Tasks -> BOOLEAN]
      /\ \A u \in Tasks \ {t} : pc'[u] = pc[u] /\ held'[u] = held[u]
  BY <1>1, <1>2
<1>4. IInv'
  BY <1>1, <1>2, <1>3 DEF IInv, Typed, HoldersOwn, PendedHoldNothing
<1>5. Mode' = [Mode EXCEPT ![t] = "idle"]
  BY <1>3 DEF Mode
<1>6. CASE held[t]
  <2>1. held' = held /\ Mode' = Mode
    BY <1>1, <1>2, <1>5, <1>6 DEF Mode
  <2> QED
    BY <1>1, <1>4, <2>1 DEF Simulates, Seen
<1>7. CASE ~held[t]
  <2>1. Mode[t] = "asking"
    BY <1>1, <1>7 DEF Mode
  <2>2. \A u \in Tasks \ {t} : uses[u] = uses[t] => ~held[u]
    BY <1>2 DEF IInv, HoldersOwn
  <2>3. Monitor!Grant(t)
    BY <1>1, <1>5, <2>1, <2>2 DEF Monitor!Grant, Mode
  <2> QED
    BY <1>4, <2>3 DEF Simulates, Monitor!Next
<1> QED
  BY <1>6, <1>7

\* What changes neither the mutexes nor the tasks is not seen.
LEMMA StutterSimulates ==
  ASSUME IInv, UNCHANGED <<scene, owner, pc, held>>
  PROVE  Simulates
  BY DEF Simulates, Seen, Mode, uses, IInv, Typed, HoldersOwn, PendedHoldNothing

\* A notification releases one task that waits, or all, if any does.
LEMMA NotifySimulates ==
  ASSUME IInv, NEW t \in Tasks, NotifyStep(t)
  PROVE  Simulates
<1>1. UNCHANGED <<scene, held>>
  BY DEF NotifyStep, notify_one, notify_all, Notifies, object
<1>2. CASE condVarSignal
  <2>1. PICK S \in {{u} : u \in Heirs(Waiting)} \cup
                   {T \in {{}} : Waiting = {}} :
             Release(S)
    BY <1>2 DEF condVarSignal
  <2>2. S \in SUBSET Waiting
    BY <2>1 DEF Heirs, First
  <2> QED
    BY <1>1, <2>1, <2>2, ReleaseSimulates
<1>3. CASE condVarBroadcast
  BY <1>1, <1>3, ReleaseSimulates DEF condVarBroadcast
<1> QED
  BY <1>2, <1>3 DEF NotifyStep, notify_one, notify_all

\* Every step of the condition variable is one of the monitor, or none.
LEMMA NextSimulates == IInv /\ [Next]_vars => Simulates
<1> SUFFICES ASSUME IInv, [Next]_vars PROVE Simulates
  OBVIOUS
<1>1. CASE UNCHANGED vars
  BY <1>1, StutterSimulates DEF vars
<1>2. ASSUME NEW t \in Tasks, lock(t) PROVE Simulates
  BY <1>2, LockSimulates
<1>3. ASSUME NEW t \in Tasks, unlock(t) PROVE Simulates
  BY <1>3, GiveSimulates DEF unlock, object
<1>4. ASSUME NEW t \in Tasks, produce(t) \/ consume(t) PROVE Simulates
  BY <1>4, StutterSimulates DEF produce, consume, object
<1>5. ASSUME NEW t \in Tasks, WaitStep(t) PROVE Simulates
  BY <1>5, WaitSimulates DEF WaitStep, wait, wait_for, wait_for_ticks
<1>6. ASSUME NEW t \in Tasks, NotifyStep(t) PROVE Simulates
  BY <1>6, NotifySimulates
<1>7. ASSUME NEW t \in Tasks, Timeout(t) PROVE Simulates
  <2>1. Release({t}) /\ {t} \in SUBSET Waiting /\ UNCHANGED <<scene, held>>
    BY <1>7 DEF Timeout, object, Waiting
  <2> QED
    BY <2>1, ReleaseSimulates
<1>8. ASSUME NEW t \in Tasks, return(t) PROVE Simulates
  BY <1>8, ReturnSimulates
<1>9. ASSUME NEW t \in Tasks, dtor(t) PROVE Simulates
  <2>1. Release(Waiting) /\ UNCHANGED <<scene, held>>
    BY <1>9 DEF dtor, object
  <2> QED
    BY <2>1, ReleaseSimulates
<1> QED
  BY <1>1, <1>2, <1>3, <1>4, <1>5, <1>6, <1>7, <1>8, <1>9 DEF Next

-------------------------------------------------------------------------------
\* However waits end, the invariant holds.
THEOREM Invariance == Spec => []IInv
<1>1. IInv /\ [Next]_vars => IInv'
  BY NextSimulates DEF Simulates
<1> QED
  BY <1>1, InitIInv, PTL DEF Spec

\* The condition variable and its mutexes, as their callers see them, are a
\* monitor: a wait gives its mutex up and ends with it, and no two tasks ever
\* count on one mutex.
THEOREM Refinement == Spec => ImplementsMonitor
<1>1. Init => Monitor!Init
  BY InitMonitor
<1>2. IInv /\ [Next]_vars => [Monitor!Next]_(Monitor!vars)
  BY NextSimulates DEF Simulates, Seen, Mode, Monitor!vars
<1> QED
  BY <1>1, <1>2, Invariance, PTL DEF Spec, ImplementsMonitor, Monitor!Spec

\* Two tasks that count on their mutexes count on different ones, whatever
\* waits, timeouts and notifications have handed them around.
THEOREM Exclusion ==
  Spec => [](\A t, u \in Tasks :
               held[t] /\ held[u] /\ uses[t] = uses[u] => t = u)
<1>1. IInv => \A t, u \in Tasks :
                held[t] /\ held[u] /\ uses[t] = uses[u] => t = u
  BY DEF IInv, HoldersOwn
<1> QED
  BY <1>1, Invariance, PTL

-------------------------------------------------------------------------------
(***************************************************************************)
(* When the return of wait() may be taken for the event.                   *)
(***************************************************************************)
\* The conditions of TrustedReturn: one consumer, one mutex, a live variable,
\* and producers that notify before they give the mutex.
Alone(t) ==
  /\ scene.consumers = {t} /\ ~scene.late /\ life = "live"
  /\ \A u \in Tasks : uses[u] = uses[t]

\* Then nobody else takes part as a consumer; a producer that has yet to notify
\* still holds the mutex, with the event there; and a task that is in wait()
\* has no timeout and, once released, finds the event.
Trust(t) ==
  /\ \A u \in Consumers \ {t} : pc[u] = "ready" /\ ~held[u]
  /\ \A u \in Tasks : owes[u] =>
       u \in Producers /\ pc[u] = "ready" /\ held[u] /\ event
  /\ method[t] = "wait" =>
       /\ pc[t] # "locking"
       /\ pc[t] = "waiting" => timeout[t] = WAIT_FOREVER
       /\ pc[t] \in {"relocking", "returning"} => event

\* What makes TrustedReturn inductive, relative to IInv.
TrustInv ==
  /\ method \in [Tasks -> {"none", "lock", "wait", "wait_for"}]
  /\ DOMAIN timeout = Tasks /\ owes \in [Tasks -> BOOLEAN]
  /\ \A t \in Consumers : Alone(t) => Trust(t)

\* Nobody has been released before anybody calls.
LEMMA InitTrust == Init => TrustInv
  BY DEF Init, TrustInv, Trust, Tasks

\* A task that is released while the conditions hold was notified, as a wait
\* without a timeout has no other end, and the event outlives the notification:
\* the only consumer has the mutex to come.  A task that were producer and
\* consumer would be a second consumer.
LEMMA NextTrust ==
  ASSUME Producers \cap Consumers = {}
  PROVE  IInv /\ TrustInv /\ [Next]_vars => TrustInv'
<1> SUFFICES ASSUME IInv, TrustInv, [Next]_vars PROVE TrustInv'
  OBVIOUS
<1>1. /\ method' \in [Tasks -> {"none", "lock", "wait", "wait_for"}]
      /\ DOMAIN timeout' = Tasks /\ owes' \in [Tasks -> BOOLEAN]
  BY DEF TrustInv, Next, vars, lock, Lock, unlock, produce, consume, WaitStep,
    wait,
         wait_for, wait_for_ticks, Waits, condVarWait, NotifyStep,
         notify_one, notify_all, Notifies, Timeout, return, dtor, client, object
<1>2. SUFFICES ASSUME NEW t \in Consumers, Alone(t)' PROVE Trust(t)'
  BY <1>1 DEF TrustInv
<1>3. scene' = scene /\ uses' = uses /\ Alone(t)
  BY <1>2 DEF Alone, uses, Next, vars, lock, Lock, unlock, produce, consume,
    WaitStep, wait,
         wait_for, wait_for_ticks, Waits, condVarWait, NotifyStep,
         notify_one, notify_all, Notifies, Timeout, return, dtor, client, object
<1>4. Trust(t) /\ t \in Tasks /\ t \notin Producers
  BY <1>3 DEF TrustInv, Tasks
<1>5. /\ method \in [Tasks -> {"none", "lock", "wait", "wait_for"}]
      /\ DOMAIN timeout = Tasks /\ owes \in [Tasks -> BOOLEAN]
      /\ pc \in [Tasks -> States] /\ held \in [Tasks -> BOOLEAN]
      /\ \A u \in Tasks : owes[u] => ~held[t] /\ pc[t] # "returning"
  BY <1>3, <1>4 DEF TrustInv, IInv, Typed, HoldersOwn, Trust, Alone
<1> HIDE DEF uses
<1>6. CASE UNCHANGED vars
  BY <1>4, <1>6 DEF vars, Trust
<1>7. ASSUME NEW u \in Tasks, lock(u) PROVE Trust(t)'
  BY <1>3, <1>4, <1>5, <1>7 DEF Trust, Alone, lock, Lock, client, object, Tasks
<1>8. ASSUME NEW u \in Tasks, unlock(u) PROVE Trust(t)'
  <2>1. /\ pc[u] = "ready" /\ held[u] /\ ~owes[u] /\ semMGive(u, "ready")
        /\ held' = [held EXCEPT ![u] = FALSE]
        /\ UNCHANGED <<scene, method, timeout, event, owes>>
    BY <1>3, <1>8 DEF unlock, client, object, Alone
  <2>2. /\ pc'[u] = "ready"
        /\ \A v \in Tasks \ {u} :
             \/ pc'[v] = pc[v]
             \/ pc[v] \in {"locking", "relocking"} /\ pc'[v] = "returning"
    BY <2>1, GiveSteps
  <2>3. ~held'[u] /\ \A v \in Tasks \ {u} : held'[v] = held[v]
    BY <1>5, <2>1
  <2> QED
    BY <1>4, <2>1, <2>2, <2>3 DEF Trust, Tasks
<1>9. ASSUME NEW u \in Tasks, produce(u) PROVE Trust(t)'
  BY <1>3, <1>4, <1>5, <1>9 DEF Trust, Alone, produce, Tasks
<1>10. ASSUME NEW u \in Tasks, consume(u) PROVE Trust(t)'
  <2>1. u = t /\ held[t] /\ pc[t] = "ready"
    BY <1>4, <1>10 DEF consume, Trust
  <2>2. /\ \A v \in Tasks : ~owes[v]
        /\ UNCHANGED <<owner, pc, method, timeout, held, owes>>
    BY <1>5, <1>10, <2>1 DEF consume
  <2> QED
    BY <1>4, <2>1, <2>2 DEF Trust
<1>11. ASSUME NEW u \in Tasks, WaitStep(u) PROVE Trust(t)'
  <2>1. PICK m, n : Waits(u, m, n) /\ (m = "wait" => n = WAIT_FOREVER)
    BY <1>11 DEF WaitStep, wait, wait_for, wait_for_ticks
  <2>2. u = t
    BY <1>4, <2>1 DEF Waits, Trust, Tasks
  <2>3. \A v \in Waiting : uses[v] = uses[t]
    BY <1>3 DEF Alone, Waiting
  <2>4. WAIT_FOREVER # NO_WAIT
    BY TicsAssumption DEF WAIT_FOREVER, NO_WAIT
  <2>5. ~ /\ m = "wait"
          /\ \/ life = "deleted" \/ n = NO_WAIT
             \/ \E v \in Waiting : uses[v] # uses[u]
    BY <1>3, <2>1, <2>2, <2>3, <2>4 DEF Alone
  <2> QED
    BY <1>3, <1>4, <1>5, <2>1, <2>2, <2>5 DEF Trust, Waits, condVarWait,
      semMGive, First, Pended, client, Tasks
<1>12. ASSUME NEW S \in SUBSET Waiting, Release(S),
              UNCHANGED <<method, timeout, held, event>>,
              \A u \in Tasks : owes'[u] => owes[u],
              t \in S /\ method[t] = "wait" => event
       PROVE  Trust(t)'
  <2>1. /\ \A u \in S : pc'[u] \in {"relocking", "returning"}
        /\ \A u \in Tasks \ S : pc'[u] = pc[u]
    BY <1>3, <1>12, ReleaseSteps
  <2>2. \A u \in S : u \in Tasks /\ pc[u] = "waiting"
    BY DEF Waiting
  <2> QED
    BY <1>4, <1>5, <1>12, <2>1, <2>2 DEF Trust, Tasks
<1>13. ASSUME NEW u \in Tasks, NotifyStep(u) PROVE Trust(t)'
  <2>1. /\ event /\ UNCHANGED <<method, timeout, held, event>>
        /\ \A v \in Tasks : owes'[v] => owes[v]
    BY <1>4, <1>5, <1>13 DEF NotifyStep, notify_one, notify_all, Notifies, Trust
  <2>2. PICK S \in SUBSET Waiting : Release(S)
    BY <1>13 DEF NotifyStep, notify_one, notify_all, condVarSignal,
      condVarBroadcast, Heirs, First
  <2> QED
    BY <1>12, <2>1, <2>2
<1>14. ASSUME NEW u \in Tasks, Timeout(u) PROVE Trust(t)'
  <2>1. /\ Release({u})
        /\ {u} \in SUBSET Waiting
        /\ UNCHANGED <<method, timeout, held, event, owes>>
        /\ timeout[u] # WAIT_FOREVER /\ pc[u] = "waiting"
    BY <1>14 DEF Timeout, Waiting, client
  <2>2. t \in {u} => method[t] # "wait"
    BY <1>4, <2>1 DEF Trust
  <2> QED
    BY <1>12, <2>1, <2>2
<1>15. ASSUME NEW u \in Tasks, return(u) PROVE Trust(t)'
  BY <1>4, <1>5, <1>15 DEF Trust, return, client, Tasks
<1>16. ASSUME NEW u \in Tasks, dtor(u) PROVE Trust(t)'
  BY <1>2, <1>16 DEF dtor, Alone
<1> QED
  BY <1>6, <1>7, <1>8, <1>9, <1>10, <1>11, <1>13, <1>14, <1>15, <1>16 DEF Next

\* The return of wait() may be trusted for the event when there is one consumer,
\* one mutex, a live variable and a producer that notifies before unlock.
THEOREM TrustIsJustified ==
  Producers \cap Consumers = {} /\ Spec => []TrustedReturn
<1> SUFFICES ASSUME Producers \cap Consumers = {} PROVE Spec => []TrustedReturn
  OBVIOUS
<1>1. IInv /\ TrustInv /\ [Next]_vars => TrustInv'
  BY NextTrust
<1>2. TrustInv => TrustedReturn
  BY DEF TrustInv, Trust, Alone, TrustedReturn
<1> QED
  BY <1>1, <1>2, InitTrust, Invariance, PTL DEF Spec
===============================================================================
