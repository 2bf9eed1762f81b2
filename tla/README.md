# Models and proofs of the VxWorks C++ namespace

The repository is a header-only C++ library (`src/vxworks/*.hpp`) that wraps
the kernel objects of VxWorks in classes that mimic those of the C++ standard
library: mutexes, shared mutexes, semaphores, condition variables, message
queues, events and watchdog timers. Each method is a call or two of the VxWorks
C API plus a translation: of options on the way in, of durations and deadlines
into system ticks, of the `STATUS` on the way out into a `bool`, a return or a
`throw;`. The code is thin, and what can go wrong in it lies between the lines:
what the callers are told against what the kernel has done, when several tasks
and the clock interrupt interleave.

This directory holds TLA+ models of those classes, the TLC runs that check them
on small instances, and proofs, checked by TLAPS, of the results that matter
most for every instance.

## Inventory

| part | source | state | operations | what is hard, and what makes it correct |
|---|---|---|---|---|
| mutex classes | `mutex.hpp` | kernel handle, `saved_options`; in the kernel owner, recursion depth, queue, robust state | lock, try_lock, unlock, give, ++, --, consistent, take, try_lock_for/until, quick takes and gives, constructors, destructor | contention, timeouts against hand-overs, death of an owner, deletion under waiters. Two callers never both count on the lock; nobody waits for nobody; what callers count on is what the kernel records |
| shared mutexes | `shared_mutex.hpp` | as above; writer, readers, reader limit | the same in an exclusive and a shared form; one give for both | nesting of both kinds, the limit, mixed queues. Writers alone, readers within the limit, nobody refused without a reason |
| time conversions | `chrono2tic.hpp` | none | `chrono2tic`, `time_point2tic` | truncation, signs, widths, clocks. A wait is neither longer nor much shorter than asked for |
| semaphores | `semaphore.hpp` | kernel handle; count, queue | acquire, try_aquire, take (two forms), give, release, release(n), ++, -- | `release(n)` is a loop that others interleave with and that may fail half way. Permits add up; no wake-up is lost |
| watchdog timer | `wd.hpp` | kernel handle, the `std::function` member `func` | start (three forms), cancel, destructor, the callback in the clock interrupt | the interrupt reads `func` while a task or the routine itself replaces it. What is called is what was started last, once |
| condition variable | `condition_variable.hpp` | kernel handle; waiters | wait, wait_for (two forms), notify_one, notify_all, constructors, destructor | the waits are void: one that timed out or was refused looks like one that was notified. The mutex is given up and retaken without ever being shared; no event is missed |
| message queues | `queue.hpp` | kernel handle; messages, pended calls, the task that gets events | send, recieve, poll, push, <<, >>, timed forms, eventStart, eventStop, destructor | senders and receivers that time out or are passed by, urgent messages, >> that takes a byte count for a status. A message is received once, in order, if and only if its send succeeds |
| events | `event.hpp` | the event register of a task | send (to a task, to a `std::thread`), receive in four forms, poll, fetch, clear | events coalesce; a receive may drop or clear what came meanwhile. No event is lost unless its task asked for what drops it |
| named objects | `object.hpp` and the constructors and destructors of all classes but `wd`, whose constructor takes no name | handle, `named`; in the kernel how often an object is open, its name | open, create, close, delete, unlink, copy | contexts share an object by its name and know nothing of each other. An object outlives those who use it, and not much longer |
| documentation build | `Doxyfile`, `README.md` | - | - | no behaviour |

The parts meet in few places. Every timed method of every class goes through
the time conversions. Every class with a kernel object derives from
`object<ID>`, and all of them but `wd` share the life cycle of named objects.
The condition variable waits on a mutex of `mutex.hpp`; a message queue signals
a task through its events. The kernel serialises the calls of its routines;
nothing in a wrapper is locked, and only `wd` keeps state of its own that two
contexts touch.

## Modules

| module | models |
|---|---|
| `Tics` | `chrono2tic.hpp`: both conversions, with the widths and signs of the C++ types |
| `TimedWait`, `MCTimedWait` | one timed call against a running clock |
| `LockSpec` | the abstract lock: what callers of a mutex are promised |
| `Mutex`, `MCMutex` | one mutex object of any class of `mutex.hpp` and its tasks |
| `MutexProofs` | theorems about `Mutex` |
| `RWLockSpec` | the abstract readers-writer lock |
| `SharedMutex`, `MCSharedMutex` | one object of `shared_mutex.hpp` and its tasks |
| `Semaphore`, `MCSemaphore` | one object of `semaphore.hpp` and its tasks |
| `Watchdog`, `MCWatchdog` | one `wd`, the task that uses it and the clock interrupt |
| `MonitorSpec` | the abstract monitor: mutexes and waits that give them up |
| `CondVar`, `MCCondVar` | one `condition_variable`, the mutexes of its callers, producers and consumers of an event |
| `Event` | class `event`: the event registers of the tasks and the calls on them |
| `QueueSpec` | the abstract queue: what senders and receivers are promised |
| `MsgQueue`, `MCMsgQueue` | extends `Event`: one `msgQ` or `queue<M>`, its tasks, and the events it sends them |
| `NamedObject`, `MCNamedObject` | the life cycle of the objects of any class but `wd`, in several contexts |
| `TimedWaitProofs` | theorems about `TimedWait` and `Tics` |
| `SharedMutexProofs` | theorems about `SharedMutex` |
| `SemaphoreProofs` | theorems about `Semaphore` |
| `WatchdogProofs` | theorems about `Watchdog` |
| `CondVarProofs` | theorems about `CondVar` |
| `MsgQueueProofs` | theorems about `MsgQueue` and `Event` |
| `NamedObjectProofs` | theorems about `NamedObject` |

The four abstract specifications each say what one kind of object promises:
`Mutex` implements `LockSpec`, `SharedMutex` implements `RWLockSpec`, `CondVar`
implements `MonitorSpec` and `MsgQueue` implements `QueueSpec`, under
refinement mappings that show what the callers see. `CondVar` uses its mutexes
as `LockSpec` allows, one level deep. `MsgQueue` and `Event` are one state
machine: both classes share the pending, the returning and the dying of a task,
and a send to a queue may satisfy a receive of events. Every timed call takes
its ticks from `Tics`.

### How a method becomes actions

In `Mutex`, `SharedMutex`, `Semaphore`, `CondVar`, `Event` and `MsgQueue` a
task is "ready", pended in a kernel call, "returning" from one, or, where a
method may end it, "dead". A method is two actions. The first, named after the
method, is the call of the kernel routine, which is atomic; it answers at once
or leaves the task pended. The second, `return_ok`, `return_error`, `return` or
`throw`, is the rest of the wrapper: it turns the status into what the caller
sees. Anything may happen in between; that is where a timeout meets a
hand-over. What callers see is state of its own (`held`, `exclusive`, `shared`,
`ledger`, `buffer`, `out`, `due`), so that the properties can compare it with
what the kernel did. A turn of the loop of `release(n)` is two actions, the
give and what the loop makes of its status, and a `start` of `wd` one per step
that the interrupt may come between. In `NamedObject` a constructor or
destructor is one action: the kernel routine is its only step that others can
see.

`throw;` is used outside of any handler throughout the library. There is no
exception to rethrow, so that it is `std::terminate`: the model ends the task.
So does the `std::thread` that `event::send` takes by value: it is still
joinable when the method is over.

The kernel routines are not part of the repository. They are modelled from how
the wrappers use and document them and marked `external` in the map. What the
headers leave open is left open in the models: the order among pended tasks of
equal priority, whether a reader passes a waiting writer, whether a reader that
asks to write is refused or waits, what `clock_absTimeoutCalc` leaves in an
uninitialised `sysTicks` when it rejects its argument, whether a receive of
events that fails has cleared those it reports, whether it reports those that
come between its timeout and its return, and whether a task that is sent its
event by `eventStart` itself stays registered when it asked for one event only.
Priority inheritance (`SEM_INVERSION_SAFE`) does not change who holds what and
is not modelled.

### Text that does not compile

Some of the code is not valid C++ as it stands and was never instantiated; it
is read by its evident intent. `give_quickly` (`mutex.hpp:289-296`) passes a
timeout and is followed by a stray `return` and brace: read as the give it
starts with. `static const quick_options` (`mutex.hpp:394`) lacks its type;
`saved_option` (`mutex.hpp:425`, `:458`) is read as `saved_options`. The type
of `func` (`wd.hpp:43`) is read without `noexcept`; trailing commas of two
parameter lists in `semaphore.hpp` and the doubled `c_str().c_str()` there and
in `queue.hpp:23` are ignored, as is a stray `*/` in `event.hpp:57`. `push`
casts the address of its `const` message to `char *` (`queue.hpp:293`): read as
a send of the message. `canWrite` in the waits of `condition_variable.hpp`,
which nothing declares, is read as `id`, and `handle(lock)` as `lock.handle()`.
`recursive_mutex::take_quickly` is private and has no caller: it is left out.

### Callers

What the tasks do is a choice of constants, so that one module serves several
questions: which tasks give what they do not hold (`Careless`), are deleted
(`Mortal`), run the destructor (`Destroyer`), use `give_quickly_for`
(`QuickGivers`), ask to write while they read (`Upgraders`), nest quick takes
(`NestQuickly`), look at errno after a refusal (`ErrnoAware`). A task that is
none of these releases only what it holds, in whatever order it likes. The
client of a `Watchdog` keeps to one of the `Disciplines`: which forms of
`start` the task and the routine use, whether the task cancels before it starts
again, on one processor or several. The `Scenes` of `CondVar` say which mutex
each task uses, which consumers take part and whether a producer may notify
after it has given the mutex; consumers look at the event before they wait, and
consume it. The `Scenes` of `MsgQueue` say which methods each task calls. A
task that registered for the events of the queue waits for them only after it
has polled the queue and found it empty, and polls again after a call that may
have dropped the event (`drained`).

## Runs

Runs that pass:

* `timedwait`: one call of `try_lock_for` or `try_lock_until`, made in every
  phase of a tick. A wait never overruns its duration (`NeverOverruns`) and
  falls short of it by less than two ticks and a millisecond
  (`ShortfallBounded`); a deadline is met to within a tick (`DeadlineKept`), if
  it is not too far for a `_Vx_ticks_t`.
* `mutex_core`: every method of the five classes and of a robust mutex, by
  three tasks: t1 and t2 may be deleted at any point, also while they pend and
  between the kernel's grant and the return of the call; t3 is careless, uses
  the give that takes and may run the destructor. `MutualExclusion`,
  `NoLostHandOver`, `HoldingsBacked`, `OwnerKnows` (no failed call has left a
  task the mutex), `NoSpuriousThrow` (a `throw;` ends a careful task only when
  the mutex was deleted or a dead owner has left it inconsistent: a robust
  mutex is no exception while it is consistent, nor a task that may be
  deleted), `HeldIsConsistent` (nobody works under a dead owner's data before
  `consistent()`), and the refinement of `LockSpec`.
* `mutex_liveness`: timed calls come back however long others hold the mutex; a
  task without rival of its priority or above is let in.
* `shared_mutex`: readers, writers and both nested, limits of one and two,
  priority and FIFO queues. `NoLostHandOver`, `LevelsBacked` (the one count of
  the kernel stays in step with two kinds of hold, released in any order),
  `SharingIsShared` (a shared request is refused or made to wait for a reason
  only), and the refinement of `RWLockSpec`: writers alone, readers within the
  limit.
* `semaphore`: loops of `release(n)` from three tasks, every initial count,
  both orders of the queue, a count at its limit, a negative `n`, deletion.
  `PermitsAddUp`: what the callers were told adds up to what the kernel has,
  though a loop counts its gives in steps of its own and may fail half way.
  `NoLostWakeUp`. `ThrowsAreDue`: a call ends its task only when it found the
  semaphore deleted, empty (`try_aquire`) or a counting semaphore at its limit
  (a give); the state it found is recorded when the kernel fails it (`found`).
  `ReleaseServesFirst`: one turn of a loop lets the task through that is next,
  the first in priority under `SEM_Q_PRIORITY`, the one that has pended longest
  under `SEM_Q_FIFO`, whoever takes in between.
* `watchdog`: the three disciplines under which the timer is safe. On one
  processor, a client that lets the timer run out or cancels it before it
  starts it again, and restarts it from within a routine with C routines only;
  or C routines only, at any time. On several processors, C routines only; for
  them `OnlyMostRecent` claims nothing, as an interrupt may be on its way when
  a start supersedes it. `CallsARoutine`, `OnlyMostRecent`,
  `CancelledNotCalled`, `StartedIsCalled`. A cancel may be called at any time,
  in a task or the routine; on several processors it may come when the
  interrupt has been entered, and `CancelledNotCalled` says that this one call
  is all that may follow it (`overtook`).
* `condvar`: two producers and two consumers, and either order of those that
  wait. The refinement of `MonitorSpec`: waits that are notified, time out or
  find the variable deleted give their mutex up and retake it without ever
  sharing it; one that is refused at once, because somebody waits with another
  mutex or the variable is gone, keeps it. `EventNotMissed`: with one mutex
  nobody waits on beside an event, however the look at it, the wait and the
  notification interleave. Under `CONDVAR_Q_FIFO` a signal may go to a task of
  low priority, which rivals may keep from the mutex for ever: then the others
  wait, and the property says that only then they do. `TimedWaitReturns`.
  `TrustedReturn` says when a return of `wait` may be taken for the event: one
  consumer, one mutex, no timeout, a living variable and a producer that
  notifies before it gives the mutex. Each of the conditions is needed, as the
  waits are void.
* `messages`: five scenes, at both ends of a FIFO `queue<M>` and a `msgQ` by
  priority, with a listener that is told of messages by events, with all the
  calls of class `event`, and events that come between a timeout and the return
  of its receive. The refinement of `QueueSpec`: messages are received once,
  urgent ones first and otherwise in order, if and only if their send succeeds,
  although sends and receives time out, pass the queue from hand to hand, and
  move up from a full queue's line. `PendsForAReason` and `EndsAreDue`: nobody
  waits or is ended without a reason. `EventsAccounted`: an event stays in the
  register until a receive reports it, unless its task asked for what drops it.
  `ReceiveMeansIt`: what a receive answers and waits for is what its caller
  asked for. `ListenerAwake`: a listener that polls until the queue is empty,
  or registers with `EVENTS_SEND_IF_FREE`, does not sleep beside a message,
  though the queue sends an event only for a message that is put in it, events
  coalesce, none is sent for a message that moves up, the registration of
  `EVENTS_SEND_ONCE` ends with the first event and that of
  `EVENTS_ALLOW_OVERWRITE` when another task registers. `TimedCallReturns`.
* `named`: three wrappers of any class but `wd` and two names. `NoDangling`: an
  object outlives the wrappers that have it open, whatever other contexts
  close, unlink, delete or make anew under its name or identifier. `NoLeak`:
  what nobody has open can still be opened. `SharedByName`: a name that was not
  unlinked means one object. Objects a wrapper of which was copied are exempt,
  with their identifiers: the two wrappers close or delete the object twice.

Runs that find a counterexample to what the documentation says:

* `mutex_recursion`: the constructor belongs to `mutexCommon` and reads its
  `saved_options`, not the member of the derived class that hides it. A `mutex`
  is created without `SEM_NO_RECURSE` and is recursive.
* `wd_restart`: `start` replaces `func` before `wdStart` replaces the timer. In
  between the old timer runs out and calls the new routine, which is then
  called a second time by its own.
* `wd_periodic`: a routine that was started as a `std::function` restarts its
  timer with another, as the documentation tells periodic routines to. `start`
  assigns `func`, which is the function that runs: `RunningNotDestroyed` fails,
  also on one processor and for a client that cancels before it starts.

The models show more that has no run of its own. `operator>>` of a queue
(`queue.hpp:341`) compares the number of bytes `msgQReceive` answers with `OK`:
whoever receives a message with it is terminated, and the message is lost. A
`steady_clock` time point is set against `CLOCK_REALTIME`, where it has long
passed: `try_lock_until` gives up at once. `give_quickly_for` calls
`semMTakeScalable`. `try_aquire` terminates its caller when there is no permit.
`try_lock_for` may give up early, by the shortfall that `ShortfallBounded`
bounds; a count that wraps to the largest `_Vx_ticks_t` is `WAIT_FOREVER`.
`take_quickly_for` of a `recursive_timed_mutex` has `SEM_NO_RECURSE` in its
flags, so that a nested one waits for its own caller. `lock()` terminates the
taker it notifies of a dead owner, and `try_lock` tells it false though it owns
the mutex. `wait_for` of a condition variable is void, though its comment says
that it returns ERROR on a timeout. A named constructor without a mode opens
with mode 0: it never creates, and the first to use the name is terminated.

### Bounds

Ticks: `TickMod` and `LongMod` stand for 2^32 and 2^64. `timedwait` takes 16
values of `_Vx_ticks_t` and durations from below zero to past the wrap, at half
a millisecond to the sub and four subs to the tick, so that truncation to
milliseconds, truncation to ticks, the phase within a tick and the wrap all
occur; deadlines reach from the past to beyond the count; the starts straddle a
change of the second. Elsewhere 4 values are enough for no wait, two finite
waits and `WAIT_FOREVER`.

Tasks: three, one of higher priority and two equals, which is the least for a
holder, a first and a second in the queue. `MaxDepth = 2`: a nested level and
an outermost one are the two cases of a give. The reader limit is 1 or 2 of
three tasks, the second from a larger argument cut down by the system's limit.
`MaxCount = 2` puts the limit of a semaphore within reach of one loop; loops
are of 0, 2 and -1. `ledger` is kept modulo `LedgerMod = 8`, more than the
permits that can be out of balance at once by a single fault. `MaxStarts = 4`
leaves room for a start, a cancelled one, a failed one and one from within a
routine; delays are 0 (refused), 1 and 2.

`condvar`: two of a kind are the least for a signal that goes to one of two, an
event that another consumes, and two mutexes; the priorities make one consumer
the first of the queue. `messages`: a queue of two messages of two values tells
order, duplication and loss apart, and leaves a full queue, an empty one and
one between; three tasks are a sender and a receiver in line and one who acts;
two events are the one of the queue and another. The options of `eventStart`
are none, `EVENTS_SEND_ONCE`, and `EVENTS_SEND_IF_FREE` with
`EVENTS_ALLOW_OVERWRITE`: each of the three once, the last two independent of
each other. The scenes split the methods so that each of them meets the callers
it interacts with; all methods at once add states and no new meeting. `named`:
three wrappers are two that share a name and one that makes an object anew;
three identifiers leave room for the object of a name that was unlinked, its
successor and an unnamed one, and those that have gone are used again.

States where calls are exhausted, an object is deleted or every task has died
have no successors; the configurations say so.

### Fairness

`Watchdog`: the clock ticks, and a routine called from the interrupt returns; a
start that has begun goes on. `Semaphore`: a task that is ready runs on (weak
fairness of the returns and of the loop of `release(n)`), and a timeout that is
due comes; `MsgQueue`: the same, and nothing of senders or receivers. `Mutex`:
the same, and a critical section ends: a task that holds the mutex gives a
level again and again, and gives the outermost one if it is at it again and
again (strong fairness, as other calls may come in between; the two conditions
are needed because a task may give and retake an inner level for ever). It is a
promise of the callers, without which no lock is live. No fairness is assumed
of calls: a task may stop calling. `CondVar`: the same two promises, of the
kernel and of the critical sections (a consumer that holds the mutex beside the
event consumes it, and who holds the mutex gives it), and that a producer
notifies, without which an event is missed whatever the library does.
`mutex_liveness` has no careless or mortal tasks and no `give_quickly_for`:
each breaks that promise.

## Proofs

The proofs hold for every value of the constants, under the named assumptions
of the modules, which TLC evaluates in every run, and under the hypotheses that
a theorem states. Every invariant and action property of the passing runs has a
theorem, and so has each of the four refinements. They rest on inductive
invariants: TLC has checked each of them on the instance of the run first.

### Mutex

`MutexProofs`, for any number of tasks, any priorities, options, calls, nesting
bound, tick rate and integer widths:

* `TypeCorrect`: every variable keeps its type. The part that is not obvious is
  that every timeout reaching the kernel is a `_Vx_ticks_t`, whatever the
  duration or deadline: `Chrono2ticType`, `TimePoint2ticType`.
* `Exclusion`: `MutualExclusion` always holds.
* `HandOverNotLost`: nobody pends on a free or a deleted mutex.
* `Backed`: `HoldingsBacked` always holds.
* `Refinement`: `Spec => ImplementsLock`.
* `ThrowsForMisuse`: `NoSpuriousThrow` always holds.
* `OwnersKnow` and `DataConsistent`: `OwnerKnows` and `HeldIsConsistent` always
  hold if the callers look at errno after a refusal (`ErrnoAware`). Without
  that they are false, and rightly: `try_lock` tells the new owner of a dead
  task's mutex false.

`MutualExclusion` is not inductive: that two tasks do not both count on the
lock says nothing of a grant that the kernel has made and its task has not seen
yet. The invariant is `IInv == TypeOK /\ NoLostHandOver /\ HoldingsBacked`.
`HoldersOwn`, in `HoldingsBacked`, ties each hold and each grant in flight to
the owner, of which there is one. `LevelsCounted` is what keeps it true across
a give: the kernel lets go of the mutex at depth 1, and that nobody counts on
it then needs the depth to be at least the levels counted on, plus one in
flight, plus the level of a dead owner's mutex that `consistent()` will turn
into one of its caller's. `NoLostHandOver` makes a take of a free mutex the
only taker. The proof has a lemma per kind of step (asking, giving,
`consistent`, timeout, return, death, destructor), `NextIInv` combines them,
and `NextImplements` maps each kind of step to a step or a stutter of
`LockSpec`.

Two more invariants are inductive relative to it. `DueInv` gives every failure
that is on its way to a task its reason, which is what decides at the return
whether a `throw;` was due; that of an inconsistent mutex stays until its owner
declares it consistent or gives it, and a task deleted while it pends or has
been granted the mutex must not take it away. `KnowInv` counts exactly where
`LevelsCounted` only bounds: the levels of a task's mutex are those it counts
on and one that it has been or is about to be told of, and the owner of an
inconsistent mutex knows.

### Timed calls

`TimedWaitProofs`, for any tick rate of at most a tick per sub, any resolution
and any widths:

* `NoOverrun` and `ShortfallIsBounded`: `NeverOverruns` and `ShortfallBounded`
  always hold.
* `DeadlineIsKept`: `DeadlineKept` always holds.
* `Chrono2ticExact`, `TimePoint2ticExact`: in range, the conversions are exact
  division, rounding down and up.

The invariant counts in ticks, where the properties speak of time: the ticks a
pended call has had and those it has left add up to what the conversion made of
the request, and a call that timed out did so in the very sub of its last tick
(`CountInv`). `OneTickAtMost` is why no tick is skipped. `TicksBetween` says
how much time a number of ticks may take, `WholeTicksBounds` and `CeilBounds`
what the two roundings take away or add; the properties follow from the three
by linear arithmetic.

### Shared mutexes

`SharedMutexProofs`, for any tasks, priorities, limits and timeouts:

* `HandOverNotLost`: `NoLostHandOver` always holds.
* `Backed`: `LevelsBacked` always holds.
* `SharingGranted`: `Spec => SharingIsShared`, and `Refinement`: `Spec =>
  ImplementsRWLock`, for a finite set of tasks (the limit counts them).
* `Exclusion` and `SharersLimited` say what the refinement promises without the
  abstract lock: a task that counts on writing is alone, and no more than
  `limit` count on sharing.

The invariant ties what a task counts on, what the kernel has for it and what
the call it is in will tell it: `LevelsCounted` and `CallsMeanIt`, which an
upgrade, a nested hold of the other kind and a give of either must all keep.
`WriterAlone` and `WritersWrite` exclude a reader beside a writer. That the
readers stay within the limit (`ReadersLimited`) is an invariant of its own, by
the cardinality of the tasks one give lets in.

### Semaphores

`SemaphoreProofs`, for any tasks, priorities, limits and counts:

* `WakeUpNotLost`: `NoLostWakeUp` always holds.
* `ThrowsDue`: `ThrowsAreDue` always holds.
* `NothingLost`: `PermitsAddUp` always holds, for a finite set of tasks.

`PermitsAddUp` compares what callers were told with what the kernel has, modulo
`LedgerMod`, and counts the takes and gives whose answers are under way. It is
inductive; the work is in the cardinalities: `Balanced` says of each step that
it changes both sides of the equation by the same permit, or neither. The
others need that a pended task has asked to wait and that a failure has its
reason, which is what it found (`PendedMeanIt`, `FailuresDue`).

### Watchdog timer

`WatchdogProofs`, for any number of starts and any delays:

* `CallbackIsWhole`, `LastStartCounts`, `CancelHolds`: `CallsARoutine`,
  `OnlyMostRecent` and `CancelledNotCalled`, for every client that is
  `Careful`.

`Careful` says that the client keeps to safe disciplines: no context starts a
C++ routine; or, on one processor, only the task does, and it cancels every
timer that runs before it sets it again. The disciplines of the run `watchdog`
are all of them safe; those of `wd_restart` and `wd_periodic` are not, and
there the counterexamples are. So the theorems say which use of the class is
sound. The invariant follows a start from its request to the interrupt: what
`func` holds while a start assigns it (`Assigned`), what the timer is set to
(`SetToLast`), what the interrupt on its way will call (`OnItsWay`) and what
runs (`Running`) is a routine whose start stands: it was answered OK and has
not been revoked, unless the cancel was overtaken.

### Condition variable

`CondVarProofs`, for any number of tasks and mutexes, any priorities, scenes
and timeouts:

* `Refinement`: `Spec => ImplementsMonitor`.
* `Exclusion`: two tasks that count on their mutexes count on different ones.
* `TrustIsJustified`: `TrustedReturn` always holds, when no task is both a
  producer and a consumer.

The monitor lets a task have its mutex only when nobody counts on it. The
invariant that grants this is `HoldersOwn`: a task that counts on its mutex, or
will at the end of its call, owns it. A refused wait returns to a caller that
has kept the mutex, any other to one that does not count on it yet:
`PendedHoldNothing` tells the two apart. `GiveSteps` and `ReleaseSteps` say
what the kernel may do to the other tasks; a step lemma for each kind of call
keeps the invariant and finds the step of the monitor. `TrustInv` follows one
consumer that is alone through its wait: a notification is owed only while its
producer has the mutex and the event is there, and nobody else consumes it
before the consumer is back.

### Message queues and events

`MsgQueueProofs`, for any tasks, messages, events, scenes and timeouts and any
capacity:

* `WaitsForAReason`, `EndsDue`, `EventsKept`, `ListenersAwake`:
  `PendsForAReason`, `EndsAreDue`, `EventsAccounted` and `ListenerAwake` always
  hold.
* `ReceivesMeanIt`: `ReceiveMeansIt` always holds, when no request has
  `EVENTS_FETCH` among its options. A receive with it is a fetch by another
  name: it answers OK at once, whatever there is, and waits for nothing.
* `Refinement`: `Spec => ImplementsQueue`.

The line of a queue is a sequence of calls, and most of the invariant says that
it is the right one: whoever is in line is pended in a call of the queue and is
there once (`InLineOnce`), for the reason that `PendsForAReason` gives, and a
sender's place holds what it asked to be sent. `OfTask` says of each task what
its state means: whether its hand may hold a message, what it waits for, what
its register owes it. `ToldOf` is the argument for `ListenerAwake`: of a
listener that has drained the queue, or was told of its messages when it
registered, the queue is empty or its event is in the register. The refinement
hides the line: a call that sends is an offer until it has returned
(`Offering`), a pended one an offer not yet accepted, and a receive from a full
queue is one step with the move of the message of the first in line.

### `NamedObject`

`NamedObjectProofs`, for any number of wrappers, names and identifiers, any
modes and classes:

* `ObjectsOutlive`: `NoDangling` always holds.
* `NothingLeaks`: `NoLeak` always holds.
* `NamesShare`: `SharedByName` always holds.

None of the three is inductive. That a close does not destroy what another has
open needs `OpensCounted`: the kernel's count of an object is the number of its
named wrappers, for every object no wrapper of which was copied. That the
destructor may delete the object of an unnamed wrapper needs `SoleWrapper`: the
object has no other wrapper, and no name by which it could get one. That two
wrappers of one name share the object needs `NameKept`, the name they have is
still that of their object, and `LinkedOnce`, the name is linked to one object.
A reused identifier is harmless because `NoDangling` itself says that nobody
has it open when an object is made. The proof has a lemma per kind of step:
opening what is there, making an object, a constructor that ends its program, a
close that destroys, one that does not and one that fails, a deletion,
`unlink`, a copy.

### Only model-checked

The liveness properties: `TimedCallReturns` and `FirstIsServed` of `Mutex`,
`ReleaseServesFirst`, `StartedIsCalled`, `EventNotMissed` and
`TimedWaitReturns`, and `TimedCallReturns` of `MsgQueue`. Liveness under
fairness is outside what the prover handles and stays with TLC. The `TypeOK` of
`TimedWait`, `SharedMutex`, `Semaphore`, `Watchdog`, `CondVar`, `Event` and
`MsgQueue` states their types for the reader and is not part of a run; what the
proofs need of it is part of their invariants.

## Not modelled

* `show`, `showAll`, `nameLen`, `name` and `handle` read and change nothing.
  (`name()` of an object without a name ends its program, and loses its
  buffer.)
* Options that do not decide who is let in (`SEM_INVERSION_SAFE`, `SEM_USER`,
  `SEM_DELETE_SAFE`, the flags that spare checks in the quick calls) are
  carried along or left out. So are the options that make a wait fail on a
  signal or a deletion (`EVENTS_Q_INTERRUPTIBLE`, `EVENTS_TASK_DELETION_WAKEUP`
  and their kin).
* The lengths of messages: `queue<M>` always passes `sizeof(M)`.
* Deadlines and counts beyond the range of the conversions, and time points of
  `steady_clock`, are modelled, but no property promises anything for them; nor
  for a reader that asks to write, a writer that readers keep out, a task that
  waits for itself, and a give that takes.
* An uninitialised `id`: a constructor that fails ends its program.
* `recursive_mutex::take_quickly`, which nothing can call, and the
  documentation build.

## Plan

Every component with behaviour is modelled, and every safety property of the
runs is proved. What is left:

1. `TypeOK` of the modules whose proofs need only a part of it.
2. Of the liveness properties, the safety they rest on: that a state from which
   the step a fairness condition promises is taken is one nearer to the goal.
