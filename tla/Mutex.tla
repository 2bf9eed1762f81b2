-------------------------------- MODULE Mutex --------------------------------
(***************************************************************************)
(* One mutex object of mutex.hpp and the tasks that call it.               *)
(*                                                                         *)
(* A method of mutexCommon or of a class derived from it is two steps of   *)
(* the calling task: the call of the semMLib routine, which is atomic and  *)
(* may leave the task pended, and, once the routine has answered, the rest *)
(* of the wrapper, which turns the STATUS into what the caller sees.  The  *)
(* semMLib object is external and modelled from how the wrapper uses it    *)
(* and documents it.  `throw;' outside of a handler has no exception to    *)
(* rethrow and calls std::terminate: the task dies.                        *)
(***************************************************************************)
EXTENDS Tics

CONSTANTS
  Tasks,         \* the tasks that share the mutex
  NoTask,        \* "nobody"
  Prio,          \* Prio[t], the VxWorks priority of t; 0 is the highest
  Instantiated,  \* classes of which the mutex may be a default-made object
  OptionSets,    \* option sets handed to mutexCommon(int options)
  Calls,         \* methods the tasks call
  Careless,      \* tasks that may give a mutex they do not hold
  Mortal,        \* tasks that may be deleted
  Destroyer,     \* tasks that may run the destructor
  ErrnoAware,    \* do callers look at errno after a refusal?
  NestQuickly,   \* do callers nest quick takes of a recursive class?
  QuickGivers,   \* tasks that use give_quickly_for
  MaxDepth,      \* bound on nested acquisitions
  Timeouts,      \* tick counts handed to take and the quick calls
  Durations,     \* durations handed to try_lock_for
  Deadlines,     \* time points handed to try_lock_until ...
  Now            \* ... and the reading of CLOCK_REALTIME they are set against

Classes == {"mutexCommon", "mutex", "recursive_mutex",
            "timed_mutex", "recursive_timed_mutex"}

ASSUME MutexAssumption ==
  /\ NoTask \notin Tasks
  /\ Prio \in [Tasks -> Nat]
  /\ Instantiated \subseteq Classes
  /\ Careless \subseteq Tasks /\ Mortal \subseteq Tasks
  /\ Destroyer \subseteq Tasks /\ QuickGivers \subseteq Tasks
  /\ ErrnoAware \in BOOLEAN /\ NestQuickly \in BOOLEAN
  /\ MaxDepth \in Nat \ {0}
  /\ Timeouts \subseteq _Vx_ticks_t
  /\ Durations \subseteq Int /\ Deadlines \subseteq Int /\ Now \in Nat

VARIABLES
  class, opts,  \* the class of the object, the options it was created with
  life,         \* "live" or "deleted"
  owner, depth, \* the task that owns the semaphore, and how many times
  health,       \* state of a robust mutex
  pc,           \* pc[t]: "ready", "pended", "returning" or "dead"
  method,       \* method[t]: the call t is in
  timeout,      \* timeout[t]: the timeout t pends with
  status,       \* status[t]: what the semMLib routine answered
  held,         \* held[t]: acquisitions t counts on, from the values returned
  notified      \* notified[t]: t's last call left errno = EOWNERDEAD

object == <<class, opts>>
kernel == <<owner, depth, health>>
call   == <<method, timeout>>
caller == <<held, notified>>
vars   == <<class, opts, life, owner, depth, health,
            pc, method, timeout, status, held, notified>>

-------------------------------------------------------------------------------
(***************************************************************************)
(* Options.  Every class declares a saved_options of its own; the member   *)
(* of a derived class hides the one it inherits.                           *)
(***************************************************************************)
\* A slip: no queuing option, which is SEM_Q_FIFO.
saved_options_Fifo ==
  [c \in Classes |-> {"SEM_INVERSION_SAFE"} \cup
     IF c \in {"mutex", "timed_mutex"} THEN {"SEM_NO_RECURSE"} ELSE {}]

saved_options ==
  LET base == {"SEM_Q_PRIORITY", "SEM_INVERSION_SAFE"}
  IN  [c \in Classes |->
         IF c \in {"mutex", "timed_mutex"} THEN base \cup {"SEM_NO_RECURSE"}
         ELSE base]

\* mutexCommon(): semMCreate(saved_options).  The constructor is a member of
\* mutexCommon, so the name denotes that class's member, whatever class the
\* object has; no derived class has a constructor of its own.
ctor_options(c) == saved_options["mutexCommon"]

\* timed_mutex::quick_options, as far as it decides who may take again; the
\* member of the same name of recursive_timed_mutex is used by nobody.
quick_options == {"SEM_NO_RECURSE"}

\* Methods whose success is an acquisition, and those that end in `throw;'.
Takers == {"lock", "operator--", "try_lock", "consistent", "take_quickly",
           "take", "try_lock_for", "try_lock_until", "take_quickly_for"}
Throwing == {"lock", "unlock", "operator++", "operator--"}

CommonMethods == {"lock", "operator--", "try_lock", "unlock", "operator++",
                  "give", "consistent"}
MethodsOf ==
  [c \in Classes |->
     CASE c = "mutex" -> CommonMethods \cup {"take_quickly", "give_quickly"}
       [] c \in {"timed_mutex", "recursive_timed_mutex"} ->
            CommonMethods \cup {"take", "try_lock_for", "try_lock_until",
                                "take_quickly_for", "give_quickly_for"}
       [] OTHER -> CommonMethods]
Methods == UNION {MethodsOf[c] : c \in Classes}

-------------------------------------------------------------------------------
(***************************************************************************)
(* The semaphore (external).  With SEM_Q_PRIORITY pended tasks are queued  *)
(* by priority, and among equals any order is allowed; without it the      *)
(* order is that of SEM_Q_FIFO, of which the model allows any.             *)
(***************************************************************************)
Pended == {t \in Tasks : pc[t] = "pended"}

\* Of the tasks W that wait, those that may be the first.
Heirs(W) == {t \in W : "SEM_Q_PRIORITY" \in opts =>
                          \A u \in W : Prio[t] <= Prio[u]}

\* The routine called by t answers s at once.
Answer(t, s) ==
  /\ pc' = [pc EXCEPT ![t] = "returning"]
  /\ status' = [status EXCEPT ![t] = s]

\* t, which goes on at p, lets go of the semaphore: the first other task that
\* pends has it from now on and its take answers w; with none it is free.
HandOver(t, p, w) ==
  \/ /\ Pended \subseteq {t}
     /\ owner' = NoTask /\ depth' = 0
     /\ pc' = [pc EXCEPT ![t] = p]
     /\ status' = [status EXCEPT ![t] = "OK"]
  \/ \E h \in Heirs(Pended \ {t}) :
       /\ owner' = h /\ depth' = 1
       /\ pc' = [pc EXCEPT ![t] = p, ![h] = "returning"]
       /\ status' = [status EXCEPT ![t] = "OK", ![h] = w]

\* Every pended task is woken with ERROR; t answers OK.
FailPended(t, p) ==
  /\ pc' = [u \in Tasks |-> IF u = t THEN p
                            ELSE IF u \in Pended THEN "returning" ELSE pc[u]]
  /\ status' = [u \in Tasks |-> IF u = t THEN "OK"
                                ELSE IF u \in Pended THEN "ERROR" ELSE status[u]]

\* semMTake, and semMTakeScalable with its flags: t asks for the semaphore
\* with a timeout of n ticks.  The taker of an inconsistent robust mutex owns
\* it and gets ERROR with errno S_semLib_EOWNERDEAD.
semMTake(t, n, flags) ==
  \/ /\ health = "unrecoverable"
     /\ Answer(t, "ERROR")
     /\ UNCHANGED <<kernel, timeout>>
  \/ /\ health # "unrecoverable" /\ owner = NoTask
     /\ owner' = t /\ depth' = 1
     /\ Answer(t, IF health = "inconsistent" THEN "EOWNERDEAD" ELSE "OK")
     /\ UNCHANGED <<health, timeout>>
  \/ /\ owner = t /\ "SEM_NO_RECURSE" \notin flags
     /\ depth' = depth + 1
     /\ Answer(t, "OK")
     /\ UNCHANGED <<owner, health, timeout>>
  \/ /\ owner # NoTask /\ (owner = t => "SEM_NO_RECURSE" \in flags)
     /\ n = NO_WAIT
     /\ Answer(t, "ERROR")
     /\ UNCHANGED <<kernel, timeout>>
  \/ /\ owner # NoTask /\ (owner = t => "SEM_NO_RECURSE" \in flags)
     /\ n # NO_WAIT
     /\ pc' = [pc EXCEPT ![t] = "pended"]
     /\ timeout' = [timeout EXCEPT ![t] = n]
     /\ UNCHANGED <<kernel, status>>

\* semMGive and semMGiveScalable.  A robust mutex given back inconsistent can
\* no longer be taken.
semMGive(t) ==
  \/ /\ owner # t
     /\ Answer(t, "ERROR")
     /\ UNCHANGED kernel
  \/ /\ owner = t /\ depth > 1
     /\ depth' = depth - 1
     /\ Answer(t, "OK")
     /\ UNCHANGED <<owner, health>>
  \/ /\ owner = t /\ depth = 1 /\ health = "consistent"
     /\ HandOver(t, "returning", "OK")
     /\ UNCHANGED health
  \/ /\ owner = t /\ depth = 1 /\ health = "inconsistent"
     /\ health' = "unrecoverable"
     /\ owner' = NoTask /\ depth' = 0
     /\ FailPended(t, "returning")

\* semMConsistent.
semMConsistent(t) ==
  \/ /\ owner = t /\ health = "inconsistent"
     /\ health' = "consistent"
     /\ Answer(t, "OK")
     /\ UNCHANGED <<owner, depth>>
  \/ /\ ~(owner = t /\ health = "inconsistent")
     /\ Answer(t, "ERROR")
     /\ UNCHANGED kernel

\* t is gone.  A robust mutex it owned becomes inconsistent and passes to the
\* next taker, any other mutex stays owned for good.
Die(t) ==
  /\ method' = [method EXCEPT ![t] = "none"]
  /\ timeout' = [timeout EXCEPT ![t] = NO_WAIT]
  /\ held' = [held EXCEPT ![t] = 0]
  /\ notified' = [notified EXCEPT ![t] = FALSE]
  /\ \/ /\ owner = t /\ "SEM_ROBUST" \in opts /\ life = "live"
        /\ health' = "inconsistent"
        /\ HandOver(t, "dead", "EOWNERDEAD")
     \/ /\ ~(owner = t /\ "SEM_ROBUST" \in opts /\ life = "live")
        /\ pc' = [pc EXCEPT ![t] = "dead"]
        /\ status' = [status EXCEPT ![t] = "OK"]
        /\ UNCHANGED kernel

-------------------------------------------------------------------------------
(***************************************************************************)
(* The methods.  t enters m when it runs, the object exists and its class  *)
(* has m; a caller that looks at errno deals with EOWNERDEAD first.        *)
(***************************************************************************)
Enter(t, m) ==
  /\ life = "live" /\ pc[t] = "ready"
  /\ m \in Calls \cap MethodsOf[class]
  /\ ErrnoAware /\ notified[t] =>
       m \in {"consistent", "unlock", "operator++", "give"}
  /\ method' = [method EXCEPT ![t] = m]
  /\ UNCHANGED <<object, life, notified>>

\* m asks for the semaphore; the model bounds the nesting.
Taking(t, m, n, flags) ==
  /\ Enter(t, m)
  /\ owner = t => depth < MaxDepth
  /\ semMTake(t, n, flags)
  /\ UNCHANGED held

\* m is meant to give it back: t, unless careless, has it, and no longer
\* counts on it from now on.
Giving(t, m) ==
  /\ Enter(t, m)
  /\ held[t] > 0 \/ notified[t] \/ t \in Careless
  /\ held' = [held EXCEPT ![t] = IF @ > 0 THEN @ - 1 ELSE 0]

lock(t)         == Taking(t, "lock", WAIT_FOREVER, opts)
op_decrement(t) == Taking(t, "operator--", WAIT_FOREVER, opts)
try_lock(t)     == Taking(t, "try_lock", NO_WAIT, opts)

\* A slip: an unlock that never reaches semMGive.
unlock_Noop(t) ==
  /\ Giving(t, "unlock") /\ Answer(t, "OK")
  /\ UNCHANGED <<kernel, timeout>>

unlock(t)       == Giving(t, "unlock") /\ semMGive(t) /\ UNCHANGED timeout
op_increment(t) == Giving(t, "operator++") /\ semMGive(t) /\ UNCHANGED timeout
give(t)         == Giving(t, "give") /\ semMGive(t) /\ UNCHANGED timeout

\* A slip: OK without a call of semMConsistent.
consistent_Noop(t) ==
  /\ Enter(t, "consistent")
  /\ Answer(t, "OK")
  /\ UNCHANGED <<kernel, timeout, held>>

consistent(t) ==
  /\ Enter(t, "consistent")
  /\ semMConsistent(t)
  /\ UNCHANGED <<timeout, held>>

(***************************************************************************)
(* The quick calls check and track nothing: their callers do not nest them *)
(* (mutex.hpp:272), unless the class says it is recursive, and use them on *)
(* a mutex they do not hold otherwise.                                     *)
(***************************************************************************)
QuickCaller(t) ==
  held[t] = 0 \/ (NestQuickly /\ class = "recursive_timed_mutex")

take_quickly(t) ==
  /\ QuickCaller(t)
  /\ Taking(t, "take_quickly", WAIT_FOREVER,
            saved_options["mutex"] \cup {"SEM_NO_RECURSE"})

\* The body is followed by a stray return and brace (mutex.hpp:295); the
\* timeout among the arguments is taken for a leftover of the line above.
give_quickly(t) ==
  /\ Giving(t, "give_quickly")
  /\ held[t] = 1
  /\ semMGive(t)
  /\ UNCHANGED timeout

\* saved_option (mutex.hpp:425) is taken for saved_options.
take_quickly_for(t, n) ==
  /\ QuickCaller(t)
  /\ Taking(t, "take_quickly_for", n,
            saved_options["timed_mutex"] \cup quick_options)

\* The method meant to give calls semMTakeScalable.
give_quickly_for(t, n) ==
  /\ t \in QuickGivers
  /\ Giving(t, "give_quickly_for")
  /\ owner = t => depth < MaxDepth
  /\ semMTake(t, n, saved_options["timed_mutex"] \cup quick_options)

take(t, n) == Taking(t, "take", n, opts)

\* A slip: the timeout of lock() in the timed call.
try_lock_for_Forever(t, d) == Taking(t, "try_lock_for", WAIT_FOREVER, opts)

try_lock_for(t, d) == Taking(t, "try_lock_for", chrono2tic(d), opts)

try_lock_until(t, tp) ==
  \E tics \in time_point2tic(tp, Now) : Taking(t, "try_lock_until", tics, opts)

(***************************************************************************)
(* What the kernel does to a pended task: its time is up.                  *)
(***************************************************************************)
Timeout(t) ==
  /\ pc[t] = "pended" /\ timeout[t] # WAIT_FOREVER
  /\ Answer(t, "ERROR")
  /\ UNCHANGED <<object, life, kernel, call, caller>>

(***************************************************************************)
(* The rest of the wrapper.  OK: true, OK or a plain return; the caller of *)
(* a taker counts on the lock from here on.  ERROR: false or the status,   *)
(* with errno for those who look, or `throw;'.                             *)
(***************************************************************************)
Resume(t) ==
  /\ pc' = [pc EXCEPT ![t] = "ready"]
  /\ status' = [status EXCEPT ![t] = "OK"]
  /\ method' = [method EXCEPT ![t] = "none"]
  /\ timeout' = [timeout EXCEPT ![t] = NO_WAIT]
  /\ UNCHANGED <<object, life, kernel>>

\* A slip: `return true' whatever the status.
return_ok_Always(t) ==
  /\ pc[t] = "returning"
  /\ held' = [held EXCEPT ![t] = IF method[t] \in Takers THEN @ + 1 ELSE @]
  /\ notified' = [notified EXCEPT ![t] = FALSE]
  /\ Resume(t)

return_ok(t) ==
  /\ pc[t] = "returning" /\ status[t] = "OK"
  /\ held' = [held EXCEPT ![t] = IF method[t] \in Takers THEN @ + 1 ELSE @]
  /\ notified' = [notified EXCEPT ![t] = FALSE]
  /\ Resume(t)

return_error(t) ==
  /\ pc[t] = "returning" /\ status[t] # "OK" /\ method[t] \notin Throwing
  /\ notified' = [notified EXCEPT ![t] = (status[t] = "EOWNERDEAD")]
  /\ Resume(t)
  /\ UNCHANGED held

\* A slip: the methods that return a bool throw as well.
throw_Always(t) ==
  /\ pc[t] = "returning" /\ status[t] # "OK"
  /\ Die(t)
  /\ UNCHANGED <<object, life>>

throw(t) ==
  /\ pc[t] = "returning" /\ status[t] # "OK" /\ method[t] \in Throwing
  /\ Die(t)
  /\ UNCHANGED <<object, life>>

\* A task is deleted, or its process ends, whatever it is doing: a task that
\* pends leaves the queue, one that has been granted the mutex owns it, although
\* its call has not returned (external).
exit(t) ==
  /\ t \in Mortal /\ pc[t] # "dead"
  /\ Die(t)
  /\ UNCHANGED <<object, life>>

\* A slip: the destructor forgets the C object.
dtor_Leak(t) ==
  /\ t \in Destroyer /\ pc[t] = "ready" /\ life = "live"
  /\ life' = "deleted"
  /\ UNCHANGED <<object, kernel, pc, status, call, caller>>

\* ~mutexCommon() of an unnamed mutex: semDelete fails every pended take.
dtor(t) ==
  /\ t \in Destroyer /\ pc[t] = "ready" /\ life = "live"
  /\ life' = "deleted"
  /\ FailPended(t, "ready")
  /\ UNCHANGED <<object, kernel, call, caller>>

-------------------------------------------------------------------------------
Init ==
  /\ \/ class \in Instantiated /\ opts = ctor_options(class)
     \/ class = "mutexCommon" /\ opts \in OptionSets
  /\ life = "live"
  /\ owner = NoTask /\ depth = 0 /\ health = "consistent"
  /\ pc = [t \in Tasks |-> "ready"]
  /\ method = [t \in Tasks |-> "none"]
  /\ timeout = [t \in Tasks |-> NO_WAIT]
  /\ status = [t \in Tasks |-> "OK"]
  /\ held = [t \in Tasks |-> 0]
  /\ notified = [t \in Tasks |-> FALSE]

\* The calls that can give the mutex back in one piece.
Gives(t) == unlock(t) \/ op_increment(t) \/ give(t) \/ give_quickly(t)

CallStep(t) ==
  \/ lock(t) \/ op_decrement(t) \/ try_lock(t)
  \/ Gives(t)
  \/ consistent(t)
  \/ take_quickly(t)
  \/ \E n \in Timeouts :
       take(t, n) \/ take_quickly_for(t, n) \/ give_quickly_for(t, n)
  \/ \E d \in Durations : try_lock_for(t, d)
  \/ \E tp \in Deadlines : try_lock_until(t, tp)

ReturnStep(t) == return_ok(t) \/ return_error(t) \/ throw(t)

Next ==
  \E t \in Tasks :
    \/ CallStep(t)
    \/ ReturnStep(t)
    \/ Timeout(t)
    \/ exit(t)
    \/ dtor(t)

Spec == Init /\ [][Next]_vars

(***************************************************************************)
(* A task that is ready to run is run, a timeout that is due comes, and a  *)
(* critical section ends: whatever else its task calls in between, it      *)
(* gives again and again, and at the outermost level gives the mutex back. *)
(***************************************************************************)
FairSpec ==
  /\ Spec
  /\ \A t \in Tasks : /\ WF_vars(ReturnStep(t))
                      /\ WF_vars(Timeout(t))
                      /\ SF_vars(held[t] > 0 /\ Gives(t))
                      /\ SF_vars(held[t] > 0 /\ depth = 1 /\ Gives(t))

-------------------------------------------------------------------------------
TypeOK ==
  /\ class \in Classes
  /\ life \in {"live", "deleted"}
  /\ owner \in Tasks \cup {NoTask}
  /\ depth \in Nat
  /\ health \in {"consistent", "inconsistent", "unrecoverable"}
  /\ pc \in [Tasks -> {"ready", "pended", "returning", "dead"}]
  /\ method \in [Tasks -> Methods \cup {"none"}]
  /\ timeout \in [Tasks -> _Vx_ticks_t]
  /\ status \in [Tasks -> {"OK", "ERROR", "EOWNERDEAD"}]
  /\ held \in [Tasks -> Nat]
  /\ notified \in [Tasks -> BOOLEAN]

(***************************************************************************)
(* Two tasks never both count on holding the mutex: the values the         *)
(* wrappers return, through contention, timeouts that race a hand-over,    *)
(* careless gives, deaths and deletion, never promise it to both.          *)
(***************************************************************************)
MutualExclusion ==
  \A t, u \in Tasks : held[t] > 0 /\ held[u] > 0 => t = u

\* Nobody pends on a mutex that nobody owns, or on one that is gone.
NoLostHandOver == Pended # {} => owner # NoTask /\ life = "live"

\* A task that runs knows what it owns: no failed or timed-out call has left
\* it the mutex, no give has left a level behind.  Not what give_quickly_for
\* does; and the level of a dead owner's mutex is known from errno alone.
OwnerKnows ==
  \A t \in Tasks \ QuickGivers :
    owner = t /\ pc[t] = "ready" =>
      depth = held[t] + IF notified[t] THEN 1 ELSE 0

(***************************************************************************)
(* `throw;' is for misuse: while the mutex exists and no owner has died    *)
(* and left it inconsistent, the only call that ever ends its task is a    *)
(* give by one that does not hold the mutex.  A robust mutex is no         *)
(* exception before an owner dies, nor once its data are consistent again. *)
(***************************************************************************)
NoSpuriousThrow ==
  [][\A t \in Tasks : throw(t) =>
       \/ t \in Careless /\ method[t] \in {"unlock", "operator++"}
       \/ life = "deleted"
       \/ health # "consistent"]_vars

\* Nobody works under a robust mutex whose data a dead owner left behind
\* before declaring them consistent.
HeldIsConsistent ==
  (\E t \in Tasks : held[t] > 0) => health = "consistent"

(***************************************************************************)
(* What the callers count on is backed by the semaphore: a task that holds *)
(* the mutex, or is about to be told so, owns it, at least as many levels  *)
(* deep as it counts, the level of a dead owner's mutex not among them.    *)
(***************************************************************************)
InFlight(t) ==
  pc[t] = "returning" /\ method[t] \in Takers /\ status[t] = "OK"

HoldersOwn == \A t \in Tasks : held[t] > 0 \/ InFlight(t) => owner = t

LevelsCounted ==
  \A t \in Tasks : owner = t =>
    depth >= held[t] + (IF InFlight(t) THEN 1 ELSE 0)
                     + (IF health = "inconsistent" THEN 1 ELSE 0)

HoldingsBacked == HoldersOwn /\ LevelsCounted

\* A call that may acquire is a request until it has returned.
LockMode ==
  [t \in Tasks |->
     IF pc[t] = "dead" THEN "dead"
     ELSE IF pc[t] \in {"pended", "returning"} /\ method[t] \in Takers
       THEN "asking" ELSE "idle"]

\* The callers see the abstract lock.
Abstract == INSTANCE LockSpec WITH mode <- LockMode

ImplementsLock == Abstract!Spec

Timed == {"take", "try_lock_for", "try_lock_until", "take_quickly_for"}

\* A timed call comes back however long the others hold the mutex: a finite
\* duration is never a wait without end.
TimedCallReturns ==
  (\A d \in Durations : InRange(d)) =>
    \A t \in Tasks :
      (pc[t] = "pended" /\ method[t] \in Timed
         /\ (method[t] = "try_lock_for" \/ timeout[t] # WAIT_FOREVER))
        ~> pc[t] # "pended"

\* A task with no rival of its own priority or above is not starved.
FirstIsServed ==
  \A t \in Tasks :
    (\A u \in Tasks \ {t} : Prio[t] < Prio[u]) =>
      (pc[t] = "pended" ~> pc[t] # "pended")

-------------------------------------------------------------------------------
(***************************************************************************)
(* What the documentation says and the classes do not do.                  *)
(***************************************************************************)
\* mutex.hpp:241: mutex differs from recursive_mutex by SEM_NO_RECURSE "in the
\* constructor options": it is not taken twice.
MutexNotRecursive == class \in {"mutex", "timed_mutex"} => depth <= 1
===============================================================================
