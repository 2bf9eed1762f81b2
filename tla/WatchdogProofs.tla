---------------------------- MODULE WatchdogProofs ----------------------------
(***************************************************************************)
(* Proofs about Watchdog, for any number of starts, any delays and any     *)
(* client that keeps to a safe discipline.  IInv is the inductive          *)
(* invariant: what a running timer is set to, and what the interrupt that  *)
(* is on its way will call, is a routine whose start stands.               *)
(***************************************************************************)
EXTENDS Watchdog, TLAPS

OnlyC(d) == \A c \in Contexts : d.forms[c] \subseteq {"c"}

\* The disciplines that make the timer safe.  Either no context starts a C++
\* routine; or, on one processor, only the task does and every timer that runs
\* is cancelled before it is set again.
Safe(d) ==
  \/ OnlyC(d)
  \/ ~d.smp /\ d.cancelFirst /\ d.forms["isr"] \subseteq {"c"}

\* What a timer with the target tgt calls.
Calls(tgt) == IF tgt = _callback THEN func ELSE tgt

\* The start of r succeeded and was not cancelled.
Stands(r) == r \in Routines /\ answer[r] = "OK" /\ r \notin revoked

\* The start of r succeeded, and any cancel of it came too late.
Due(r) ==
  r \in Routines /\ answer[r] = "OK" /\ (r \in revoked => r \in overtook)

\* The part of TypeOK that the proofs rest on.
Typed ==
  /\ discipline \in Disciplines
  /\ pc \in [Contexts -> {"ready", "assigning", "assigned"}]
  /\ arg \in [Contexts -> Routines \cup {Empty}]
  /\ starts \in 0 .. MaxStarts
  /\ answer \in [Routines -> {"none", "OK", "ERROR"}]
  /\ calls \in [Routines -> Nat]

\* Routines are answered for after their start, and cancelled after that.
Answered ==
  /\ \A r \in Routines : answer[r] # "none" => r <= starts
  /\ \A r \in revoked : answer[r] = "OK"

\* With C routines alone nothing is called through func, and nobody is in the
\* middle of a start.
PlainC ==
  OnlyC(discipline) =>
    /\ pc["task"] = "ready"
    /\ armed => target # _callback
    /\ isr # "idle" => through # _callback

\* The task assigns func while the timer stands still, and the interrupt with
\* it; the routine never does.
Assigned ==
  /\ pc["isr"] = "ready"
  /\ pc["task"] # "ready" =>
       /\ ~armed /\ isr = "idle" /\ life = "live"
       /\ arg["task"] = starts /\ starts \in Routines
       /\ answer[starts] = "none"
  /\ pc["task"] = "assigned" => func = arg["task"]

\* A timer that runs is set to the routine of the last start.
SetToLast == armed => Stands(Calls(target)) /\ ~Superseded(Calls(target))

\* The interrupt that was entered will call a routine that is due.  On one
\* processor nothing has come in between; on several the timer may have been set
\* again or cancelled.
OnItsWay ==
  isr = "entered" =>
    /\ Due(Calls(through))
    /\ ~discipline.smp => ~armed /\ ~Superseded(Calls(through))

\* What runs is a routine, the one the interrupt came for.
Running ==
  isr = "running" => running \in Routines /\ running = Calls(through)

\* The inductive invariant.
IInv ==
  /\ Typed /\ Answered /\ PlainC /\ Assigned /\ SetToLast /\ OnItsWay
  /\ Running

\* The constants that count.
LEMMA Bounds == MaxStarts \in Nat /\ Delays \subseteq Nat
  BY WatchdogAssumption

\* The program starts with a timer that stands still.
LEMMA InitIInv == Init => IInv
<1> SUFFICES ASSUME Init PROVE IInv
  OBVIOUS
<1>1. Typed
  BY Bounds DEF Init, Typed, Empty, Torn, _callback, Contexts, Routines
<1>2. Answered /\ PlainC /\ Assigned
  BY DEF Init, Answered, PlainC, Assigned, Contexts, Routines
<1>3. SetToLast /\ OnItsWay /\ Running
  BY DEF Init, SetToLast, OnItsWay, Running
<1> QED
  BY <1>1, <1>2, <1>3 DEF IInv

-------------------------------------------------------------------------------
(***************************************************************************)
(* Each action keeps the invariant.                                        *)
(***************************************************************************)
\* The task alone begins to store a C++ routine, with the timer at rest.
LEMMA StartKeeps ==
  ASSUME IInv, Safe(discipline), NEW c \in Contexts, NEW d \in Delays,
         start(c, d)
  PROVE  IInv'
  BY Bounds DEF Safe, OnlyC, timer, serving, clients, cancels, start, NextStart,
    Idle,
    Runs, IInv, Typed, Answered, PlainC, Assigned, SetToLast, OnItsWay, Running,
    Stands, Due, Calls, Superseded, Empty, Torn, _callback, Contexts, Routines

\* A C routine is the last start, unless its delay is refused; then the timer
\* goes on as it was set.
LEMMA StartCKeeps ==
  ASSUME IInv, Safe(discipline), NEW c \in Contexts, NEW d \in Delays,
         start_C(c, d)
  PROVE  IInv'
<1>1. PICK r \in Routines :
        /\ NextStart(c, "c", r, d) /\ wdStart(d, r)
        /\ answer' = [answer EXCEPT ![r] = wdStatus(d)]
        /\ UNCHANGED <<discipline, life, func, serving, pc, arg, calls,
                       cancels>>
  BY DEF start_C
<1>2. r = starts + 1 /\ r \in Nat /\ r # _callback /\ answer[r] = "none"
      /\ \A q \in Routines : answer[q] # "none" => q < r
  BY <1>1, Bounds DEF NextStart, IInv, Answered, Typed, Routines, _callback
<1>3. SetToLast'
  <2>1. CASE d = 0
    BY <1>1, <1>2, <2>1 DEF wdStart, wdStatus, timer, cancels, IInv, Typed,
       SetToLast,
       Stands, Due, Calls, Superseded
  <2>2. CASE d # 0
    <3>1. target' = r /\ answer'[r] = "OK" /\ r \notin revoked'
      BY <1>1, <1>2, <2>2 DEF wdStart, wdStatus, cancels, IInv, Typed, Answered
    <3>2. \A q \in Routines \ {r} : answer'[q] = "OK" => q < r
      BY <1>1, <1>2 DEF IInv, Typed
    <3> QED
      BY <1>2, <3>1, <3>2 DEF SetToLast, Stands, Due, Calls, Superseded,
        Routines
  <2> QED
    BY <2>1, <2>2
<1>4. Typed' /\ Answered'
  BY <1>1, <1>2, Bounds DEF NextStart, cancels, wdStatus, IInv, Typed, Answered,
    Routines
<1>5. PlainC'
  BY <1>1, <1>2 DEF serving, wdStart, timer, IInv, PlainC, OnlyC
<1>6. pc["task"] = "ready"
  BY <1>1 DEF Safe, OnlyC, NextStart, Idle, Runs, IInv, Typed, PlainC, Assigned,
    Contexts
<1>7. Assigned'
  BY <1>1, <1>6 DEF IInv, Assigned
<1>8. OnItsWay' /\ Running'
  BY <1>1, <1>2 DEF serving, cancels, NextStart, Idle, Runs, wdStatus,
    IInv, Typed, OnItsWay, Running, Stands, Due, Calls, Superseded, Routines
<1> QED
  BY <1>3, <1>4, <1>5, <1>7, <1>8 DEF IInv

\* The routine is in func before the timer is set.
LEMMA AssignKeeps ==
  ASSUME IInv, Safe(discipline), NEW c \in Contexts, assign(c)
  PROVE  IInv'
  BY Bounds DEF Safe, OnlyC, timer, serving, clients, cancels, assign, Runs,
    IInv, Typed,
    Answered, PlainC, Assigned, SetToLast, OnItsWay, Running, Stands,
    Due, Calls, Superseded, Empty, Torn, _callback, Contexts, Routines

\* The timer is set to the routine that the task has stored.
LEMMA StartReturnKeeps ==
  ASSUME IInv, Safe(discipline), NEW c \in Contexts, start_return(c)
  PROVE  IInv'
<1> DEFINE r == arg[c]
<1>1. /\ c = "task" /\ ~armed /\ r = starts /\ r \in Routines /\ func = r
      /\ answer[r] = "none" /\ r \notin revoked
      /\ \A q \in Routines : answer[q] # "none" => q < r
  BY DEF start_return, Contexts, IInv, Assigned, Answered, Routines
<1>2. /\ wdStart(asked[r], _callback)
      /\ answer' = [answer EXCEPT ![r] = wdStatus(asked[r])]
      /\ UNCHANGED <<starts, func, revoked, overtook>>
  BY DEF start_return, cancels
<1>3. SetToLast'
  <2>1. CASE asked[r] = 0
    BY <1>1, <1>2, <2>1 DEF wdStart, timer, SetToLast
  <2>2. CASE asked[r] # 0
    <3>1. Calls(target)' = r /\ answer'[r] = "OK"
      BY <1>1, <1>2, <2>2 DEF wdStart, wdStatus, Calls, IInv, Typed
    <3>2. \A q \in Routines \ {r} : answer'[q] = "OK" => q < r
      BY <1>1, <1>2 DEF IInv, Typed
    <3> QED
      BY <1>1, <1>2, <3>1, <3>2 DEF SetToLast, Stands, Superseded, Routines
  <2> QED
    BY <2>1, <2>2
<1>4. Typed' /\ Answered' /\ PlainC' /\ Assigned' /\ OnItsWay' /\ Running'
  BY <1>1, Bounds DEF Safe, OnlyC, timer, serving, cancels, start_return, Runs,
    wdStart,
    wdStatus, IInv, Typed, Answered, PlainC, Assigned, SetToLast, OnItsWay,
    Running, Stands, Due, Calls, Superseded, Empty, Torn, _callback, Contexts,
    Routines
<1> QED
  BY <1>3, <1>4 DEF IInv

\* A timer that was cancelled runs no more.
LEMMA CancelKeeps ==
  ASSUME IInv, Safe(discipline), NEW c \in Contexts, cancel(c)
  PROVE  IInv'
  BY Bounds DEF Safe, OnlyC, timer, serving, clients, cancels, cancel, Idle,
    Runs,
    Revokes, IInv, Typed, Answered, PlainC, Assigned, SetToLast, OnItsWay,
    Running, Stands, Due, Calls, Superseded, Empty, Torn, _callback, Contexts,
    Routines

\* func is destroyed when nothing can call it.
LEMMA DtorKeeps ==
  ASSUME IInv, Safe(discipline), dtor
  PROVE  IInv'
  BY Bounds DEF Safe, OnlyC, timer, serving, clients, cancels, dtor, Idle, Runs,
    IInv,
    Typed, Answered, PlainC, Assigned, SetToLast, OnItsWay, Running, Stands,
    Due, Calls, Superseded, Empty, Torn, _callback, Contexts, Routines

\* The interrupt takes over what the timer was set to.
LEMMA TickKeeps ==
  ASSUME IInv, Safe(discipline), Tick
  PROVE  IInv'
  BY Bounds DEF Safe, OnlyC, timer, serving, clients, cancels, Tick, IInv,
    Typed,
    Answered, PlainC, Assigned, SetToLast, OnItsWay, Running, Stands,
    Due, Calls, Superseded, Empty, Torn, _callback, Contexts, Routines

\* What is called is what the interrupt has come for.
LEMMA CallbackKeeps ==
  ASSUME IInv, Safe(discipline), callback
  PROVE  IInv'
  BY Bounds DEF Safe, OnlyC, timer, serving, clients, cancels, callback, IInv,
    Typed,
    Answered, PlainC, Assigned, SetToLast, OnItsWay, Running, Stands,
    Due, Calls, Superseded, Empty, Torn, _callback, Contexts, Routines

\* The routine ends with nothing half done.
LEMMA DoneKeeps ==
  ASSUME IInv, Safe(discipline), callback_return
  PROVE  IInv'
  BY Bounds DEF Safe, OnlyC, timer, serving, clients, cancels, callback_return,
    IInv,
    Typed, Answered, PlainC, Assigned, SetToLast, OnItsWay, Running, Stands,
    Due, Calls, Superseded, Empty, Torn, _callback, Contexts, Routines

\* Every step keeps the invariant, under a safe discipline.
LEMMA NextIInv ==
  ASSUME \A d \in Disciplines : Safe(d)
  PROVE  IInv /\ [Next]_vars => IInv'
<1> SUFFICES ASSUME IInv, [Next]_vars PROVE IInv'
  OBVIOUS
<1>1. Safe(discipline)
  BY DEF IInv, Typed
<1>2. CASE UNCHANGED vars
  BY <1>2 DEF vars, IInv, Typed, Answered, PlainC, Assigned, SetToLast,
    OnItsWay, Running, Stands, Due, Calls, Superseded, Empty, Torn, _callback,
    Contexts, Routines
<1>3. ASSUME NEW c \in Contexts, NEW d \in Delays, start(c, d) \/ start_C(c, d)
      PROVE  IInv'
  BY <1>1, <1>3, StartKeeps, StartCKeeps
<1>4. ASSUME NEW c \in Contexts, StartStep(c) PROVE IInv'
  BY <1>1, <1>4, AssignKeeps, StartReturnKeeps DEF StartStep
<1>5. ASSUME NEW c \in Contexts, cancel(c) PROVE IInv'
  BY <1>1, <1>5, CancelKeeps
<1>6. CASE dtor \/ Tick \/ callback \/ callback_return
  BY <1>1, <1>6, DtorKeeps, TickKeeps, CallbackKeeps, DoneKeeps
<1> QED
  BY <1>2, <1>3, <1>4, <1>5, <1>6 DEF Next

-------------------------------------------------------------------------------
(***************************************************************************)
(* What a client that keeps to safe disciplines may count on.              *)
(***************************************************************************)
\* All that the clients of an instance keep to is safe.
Careful == \A d \in Disciplines : Safe(d)

\* The invariant holds throughout.
LEMMA Invariance == Careful /\ Spec => []IInv
<1> SUFFICES ASSUME Careful PROVE Spec => []IInv
  OBVIOUS
<1>1. IInv /\ [Next]_vars => IInv'
  BY NextIInv DEF Careful
<1> QED
  BY <1>1, InitIInv, PTL DEF Spec

\* The interrupt never runs a function that is empty or half assigned.
THEOREM CallbackIsWhole == Careful /\ Spec => []CallsARoutine
<1>1. IInv => CallsARoutine
  BY DEF IInv, Running, CallsARoutine
<1> QED
  BY <1>1, Invariance, PTL

\* A step that calls a routine is the interrupt's, for a routine that is due.
LEMMA CalledDue ==
  ASSUME IInv, [Next]_vars, NEW r \in Routines, calls'[r] > calls[r]
  PROVE  /\ Due(r)
         /\ ~discipline.smp => ~Superseded(r)
<1>1. callback
  BY DEF Next, vars, start, start_C, NextStart, StartStep, assign, start_return,
     cancel, dtor, Tick, callback_return, clients, IInv, Typed
<1>2. r = Calls(through) /\ isr = "entered"
  BY <1>1 DEF callback, Calls, IInv, Typed
<1> QED
  BY <1>2 DEF IInv, OnItsWay

\* Only the most recent start has an effect, on one processor.
THEOREM LastStartCounts == Careful /\ Spec => OnlyMostRecent
<1> DEFINE Wanted == \A r \in Routines :
             calls'[r] > calls[r] /\ ~discipline.smp =>
               answer[r] = "OK" /\ ~Superseded(r)
<1>1. IInv /\ [Next]_vars => [Wanted]_vars
  BY CalledDue DEF Due
<1> QED
  BY <1>1, Invariance, PTL DEF Spec, OnlyMostRecent

\* A routine that was cancelled is not called, unless by an interrupt that had
\* been entered when the cancel came.
THEOREM CancelHolds == Careful /\ Spec => CancelledNotCalled
<1> DEFINE Wanted == \A r \in Routines :
             calls'[r] > calls[r] /\ r \in revoked => r \in overtook
<1>1. IInv /\ [Next]_vars => [Wanted]_vars
  BY CalledDue DEF Due
<1> QED
  BY <1>1, Invariance, PTL DEF Spec, CancelledNotCalled
===============================================================================
