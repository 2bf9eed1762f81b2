------------------------------- MODULE Watchdog -------------------------------
(***************************************************************************)
(* One watchdog timer of wd.hpp, the task that uses it and the system      *)
(* clock's interrupt, in which the timer's routine runs.                   *)
(*                                                                         *)
(* The routine of a C++ start() lives in the member func, a std::function  *)
(* that nothing protects: start() assigns it, in more than one step,       *)
(* before it calls wdStart, and the interrupt reads it when the timer runs *)
(* out.  The forms of start() for a C function keep their routine in the   *)
(* wdLib timer alone.  wdLib is external.                                  *)
(***************************************************************************)
EXTENDS Integers

CONSTANTS
  MaxStarts,    \* bound on the number of starts
  Delays,       \* delays handed to start()
  Disciplines   \* what a client keeps to, see below

\* The n-th start hands over routine n.
Routines == 1 .. MaxStarts

\* The contexts that call the methods: a task, and the routine itself.
Contexts == {"task", "isr"}

ASSUME WatchdogAssumption ==
  /\ MaxStarts \in Nat
  /\ Delays \subseteq Nat
  /\ Disciplines \subseteq
       [forms : [Contexts -> SUBSET {"cpp", "c"}],
        cancelFirst : BOOLEAN, smp : BOOLEAN]

\* Values of func that are no routine.
Empty == 0
Torn  == -1

\* The target of a timer that calls _callback(this) and through it func.
_callback == 0

(***************************************************************************)
(* A discipline says which forms of start() each context uses, whether the *)
(* client cancels a timer that runs before it starts it again, and whether *)
(* a task runs on while the interrupt is served on another processor.      *)
(***************************************************************************)
VARIABLES
  discipline,  \* the discipline of the client
  life,     \* "live" or "deleted"
  func,     \* the std::function
  armed, left, target,  \* the wdLib timer: running?, ticks left, what it calls
  isr,      \* the interrupt: "idle", "entered" or "running" the routine
  through,  \* the target of the timer that the interrupt serves
  running,  \* the routine that runs in it
  pc,       \* pc[c]: "ready", "assigning" or "assigned", within start()
  arg,      \* arg[c]: the routine c hands to start()
  starts,   \* number of starts so far
  asked,    \* asked[r]: the delay r was started with
  answer,   \* answer[r]: what start() answered: "none" before it has
  calls,    \* calls[r]: how often r has been called
  revoked,  \* routines whose start has been cancelled since
  overtook  \* targets of interrupts entered when a cancel came

timer   == <<armed, left, target>>
serving == <<isr, through, running>>
clients == <<pc, arg, starts, asked, answer>>
cancels == <<revoked, overtook>>
vars == <<discipline, life, func, armed, left, target, isr, through, running,
          pc, arg, starts, asked, answer, calls, revoked, overtook>>

Init ==
  /\ discipline \in Disciplines
  /\ life = "live" /\ func = Empty
  /\ armed = FALSE /\ left = 0 /\ target = _callback
  /\ isr = "idle" /\ through = _callback /\ running = Empty
  /\ pc = [c \in Contexts |-> "ready"]
  /\ arg = [c \in Contexts |-> Empty]
  /\ starts = 0
  /\ asked = [r \in Routines |-> 0]
  /\ answer = [r \in Routines |-> "none"]
  /\ calls = [r \in Routines |-> 0]
  /\ revoked = {} /\ overtook = {}

-------------------------------------------------------------------------------
\* c has a processor, and the routine its interrupt.
Runs(c) ==
  \/ c = "task" /\ (isr = "idle" \/ discipline.smp)
  \/ c = "isr" /\ isr = "running"

Idle(c) == Runs(c) /\ pc[c] = "ready" /\ life = "live"

\* wdStart (external): a delay of 0 is refused, any other replaces what the
\* timer was set to.
wdStart(d, tgt) ==
  IF d = 0 THEN UNCHANGED timer
  ELSE armed' = TRUE /\ left' = d /\ target' = tgt

wdStatus(d) == IF d = 0 THEN "ERROR" ELSE "OK"

\* c starts the next routine, r, with delay d.
NextStart(c, form, r, d) ==
  /\ Idle(c) /\ form \in discipline.forms[c]
  /\ discipline.cancelFirst => ~armed
  /\ r = starts + 1 /\ r \in Routines
  /\ starts' = r
  /\ asked' = [asked EXCEPT ![r] = d]

\* A slip: the timer set first, the routine stored while it runs.
start_ArmFirst(c, d) ==
  \E r \in Routines :
    /\ NextStart(c, "cpp", r, d)
    /\ wdStart(d, _callback)
    /\ func' = Torn
    /\ pc' = [pc EXCEPT ![c] = "assigning"]
    /\ arg' = [arg EXCEPT ![c] = r]
    /\ UNCHANGED <<discipline, life, serving, answer, calls, cancels>>

\* start(delay, std::function): begins the assignment of func ...
start(c, d) ==
  \E r \in Routines :
    /\ NextStart(c, "cpp", r, d)
    /\ func' = Torn
    /\ pc' = [pc EXCEPT ![c] = "assigning"]
    /\ arg' = [arg EXCEPT ![c] = r]
    /\ UNCHANGED <<discipline, life, timer, serving, answer, calls, cancels>>

\* ... which destroys what func held and ends with the routine in it; ...
assign(c) ==
  /\ Runs(c) /\ pc[c] = "assigning"
  /\ func' = arg[c]
  /\ pc' = [pc EXCEPT ![c] = "assigned"]
  /\ UNCHANGED <<discipline, life, timer, serving, arg, starts, asked, answer,
                 calls, cancels>>

\* A slip: OK is returned without a call of wdStart.
start_return_Unset(c) ==
  /\ Runs(c) /\ pc[c] = "assigned"
  /\ answer' = [answer EXCEPT ![arg[c]] = wdStatus(asked[arg[c]])]
  /\ pc' = [pc EXCEPT ![c] = "ready"]
  /\ UNCHANGED <<discipline, life, func, timer, serving, arg, starts, asked,
                 calls, cancels>>

\* ... then wdStart(id, delay, _callback, this), whose STATUS is returned.
start_return(c) ==
  /\ Runs(c) /\ pc[c] = "assigned"
  /\ wdStart(asked[arg[c]], _callback)
  /\ answer' = [answer EXCEPT ![arg[c]] = wdStatus(asked[arg[c]])]
  /\ pc' = [pc EXCEPT ![c] = "ready"]
  /\ UNCHANGED <<discipline, life, func, serving, arg, starts, asked, calls,
                 cancels>>

\* start(delay, FUNCPTR, parameter), start(delay, pFunc, parameter): wdStart.
start_C(c, d) ==
  \E r \in Routines :
    /\ NextStart(c, "c", r, d)
    /\ wdStart(d, r)
    /\ answer' = [answer EXCEPT ![r] = wdStatus(d)]
    /\ UNCHANGED <<discipline, life, func, serving, pc, arg, calls, cancels>>

\* A later start has taken the timer over from r.
Superseded(r) == \E q \in Routines : q > r /\ answer[q] = "OK"

\* What cancel() takes back: every start that has succeeded.  An interrupt that
\* was entered, on another processor, goes on.
Revokes ==
  /\ revoked' = revoked \cup {r \in Routines : answer[r] = "OK"}
  /\ overtook' = IF isr = "entered" THEN overtook \cup {through} ELSE overtook

\* A slip: cancel() answers and cancels nothing.
cancel_Noop(c) ==
  /\ Idle(c) /\ Revokes
  /\ UNCHANGED <<discipline, life, func, timer, serving, clients, calls>>

\* cancel(): wdCancel (external) stops the timer if it runs.
cancel(c) ==
  /\ Idle(c) /\ Revokes
  /\ armed' = FALSE /\ left' = 0
  /\ UNCHANGED <<discipline, life, func, target, serving, clients, calls>>

\* ~wd(): wdDelete (external) stops the timer, then func is destroyed.
dtor ==
  /\ Idle("task")
  /\ life' = "deleted"
  /\ armed' = FALSE /\ left' = 0
  /\ func' = Empty
  /\ UNCHANGED <<discipline, target, serving, clients, calls, cancels>>

-------------------------------------------------------------------------------
\* The tick interrupt (external): the timer counts down; when it runs out it
\* stops, and its target is called before the interrupted task goes on.
Tick ==
  /\ armed /\ isr = "idle"
  /\ left' = left - 1
  /\ IF left > 1 THEN UNCHANGED <<armed, isr, through>>
     ELSE armed' = FALSE /\ isr' = "entered" /\ through' = target
  /\ UNCHANGED <<discipline, life, func, target, running, clients, calls,
                 cancels>>

\* _callback(me), callback(): func(), or the C routine itself.
callback ==
  /\ isr = "entered"
  /\ running' = IF through = _callback THEN func ELSE through
  /\ isr' = "running"
  /\ calls' = [r \in Routines |-> IF r = running' THEN calls[r] + 1
                                  ELSE calls[r]]
  /\ UNCHANGED <<discipline, life, func, timer, through, clients, cancels>>

\* The routine is done.
callback_return ==
  /\ isr = "running" /\ pc["isr"] = "ready"
  /\ isr' = "idle" /\ running' = Empty
  /\ UNCHANGED <<discipline, life, func, timer, through, clients, calls,
                 cancels>>

StartStep(c) == assign(c) \/ start_return(c)

Next ==
  \/ \E c \in Contexts :
       \/ \E d \in Delays : start(c, d) \/ start_C(c, d)
       \/ StartStep(c)
       \/ cancel(c)
  \/ dtor
  \/ Tick \/ callback \/ callback_return

Spec == Init /\ [][Next]_vars

\* The clock ticks, the interrupt is served and its routine returns, and a
\* task that is in the middle of a start goes on.
FairSpec ==
  /\ Spec
  /\ WF_vars(Tick) /\ WF_vars(callback) /\ WF_vars(callback_return)
  /\ \A c \in Contexts : WF_vars(StartStep(c))

-------------------------------------------------------------------------------
\* The types of the variables.
TypeOK ==
  /\ discipline \in Disciplines
  /\ life \in {"live", "deleted"}
  /\ func \in Routines \cup {Empty, Torn}
  /\ armed \in BOOLEAN /\ left \in Nat
  /\ target \in Routines \cup {_callback}
  /\ isr \in {"idle", "entered", "running"}
  /\ through \in Routines \cup {_callback}
  /\ running \in Routines \cup {Empty, Torn}
  /\ pc \in [Contexts -> {"ready", "assigning", "assigned"}]
  /\ arg \in [Contexts -> Routines \cup {Empty}]
  /\ starts \in 0 .. MaxStarts
  /\ asked \in [Routines -> Nat]
  /\ answer \in [Routines -> {"none", "OK", "ERROR"}]
  /\ calls \in [Routines -> Nat]
  /\ revoked \subseteq Routines
  /\ overtook \subseteq Routines \cup {_callback}

\* The interrupt never runs a function that is half assigned or empty.
CallsARoutine == isr = "running" => running \in Routines

\* wd.hpp:82: "only the most recent use of wd::start( ) ... has any effect":
\* what is called is what the last start that succeeded has handed over.  On
\* several processors the interrupt may be on its way when the start comes.
OnlyMostRecent ==
  [][\A r \in Routines :
       calls'[r] > calls[r] /\ ~discipline.smp =>
         answer[r] = "OK" /\ ~Superseded(r)]_vars

\* cancel() stops "a currently running watchdog timer" (wd.hpp:130-133): what
\* was started before it is not called after it, except by an interrupt that
\* had been entered, on another processor, when it came.
CancelledNotCalled ==
  [][\A r \in Routines :
       calls'[r] > calls[r] /\ r \in revoked => r \in overtook]_vars

\* "the timer callback itself must call wdStart( ) to restart the timer"
\* (wd.hpp:92-94): whatever it starts, the std::function it was called through
\* holds it until it returns, and its captures with it.
RunningNotDestroyed ==
  isr = "running" /\ through = _callback /\ running \in Routines =>
    func = running

\* A start that succeeded leads to a call, unless something came in between.
StartedIsCalled ==
  \A r \in Routines :
    answer[r] = "OK" ~>
      (calls[r] > 0 \/ Superseded(r) \/ r \in revoked \/ life = "deleted")
===============================================================================
