--------------------------------- MODULE Event ---------------------------------
(***************************************************************************)
(* class event (event.hpp): the event registers of the tasks, and tasks    *)
(* that send events to one another and receive them.                       *)
(*                                                                         *)
(* eventLib is external and modelled from the documentation of the class.  *)
(* A method is the call of the routine, which may leave the task pended,   *)
(* and the return from it.  MsgQueue extends this module: the return of    *)
(* a call and what a task does next are defined there for both classes.    *)
(***************************************************************************)
EXTENDS Tics

CONSTANTS
  Tasks,
  Events,       \* the events, bits of a register
  Requests,     \* arguments of the receives: records of events and options
  EvTimeouts,   \* ticks handed to receive
  EvDurations,  \* durations and deadlines of receive_for and receive_until
  Now           \* the reading of CLOCK_REALTIME the deadlines are set against

\* EVENTS_WAIT_ALL is 0, the absence of EVENTS_WAIT_ANY.
Options == {"EVENTS_WAIT_ANY", "EVENTS_RETURN_ALL", "EVENTS_KEEP_UNWANTED",
            "EVENTS_FETCH"}

ASSUME EventAssumption ==
  /\ Requests \subseteq [events : SUBSET Events \ {{}}, options : SUBSET Options]
  /\ EvTimeouts \subseteq _Vx_ticks_t
  /\ EvDurations \subseteq Int /\ Now \in Nat

VARIABLES
  register,  \* register[t]: the events sent to t and not cleared
  want,      \* want[t]: events, options and out pointer t pends with
  out,       \* out[t]: *pEventsReceived of the call t is in
  due,       \* due[t]: events sent to t that t should be told of
  pc,        \* "ready", "receiving", "pended" on a queue, "returning", "dead"
  method,    \* method[t]: the call t is in, or died in
  timeout,   \* timeout[t]: the timeout t pends with
  status,    \* status[t]: what the routine answered
  ask        \* ask[t]: what the caller of the method asked for

register_vars == <<register, want, out>>
call_vars     == <<pc, method, timeout, status, ask>>

None   == [events |-> {}, options |-> {}]
NoWant == [events |-> {}, options |-> {}, out |-> FALSE]
Satisfied(r, regs) ==
  IF "EVENTS_WAIT_ANY" \in r.options THEN r.events \cap regs # {}
                                     ELSE r.events \subseteq regs

-------------------------------------------------------------------------------
(***************************************************************************)
(* eventLib (external).  What a request takes from a register, and leaves. *)
(***************************************************************************)
Taken(r, regs) ==
  IF "EVENTS_RETURN_ALL" \in r.options THEN regs ELSE r.events \cap regs
Left(r, regs) ==
  IF "EVENTS_KEEP_UNWANTED" \in r.options THEN regs \ Taken(r, regs) ELSE {}

\* The tasks of S are sent evs; p and s are the state and the status of the
\* calls when one that pends is satisfied.
EventSend(S, evs, p, s) ==
  LET regs == [u \in Tasks |-> register[u] \cup IF u \in S THEN evs ELSE {}]
      Woken == {u \in S : pc[u] = "receiving" /\ Satisfied(want[u], regs[u])}
  IN  /\ register' = [u \in Tasks |-> IF u \in Woken THEN Left(want[u], regs[u])
                                      ELSE regs[u]]
      /\ out' = [u \in Tasks |-> IF u \in Woken /\ want[u].out
                                 THEN Taken(want[u], regs[u]) ELSE out[u]]
      /\ due' = [u \in Tasks |-> due[u] \cup IF u \in S THEN evs ELSE {}]
      /\ pc' = [u \in Tasks |-> IF u \in Woken THEN "returning" ELSE p[u]]
      /\ status' = [u \in Tasks |-> IF u \in Woken THEN "OK" ELSE s[u]]
      /\ UNCHANGED want

\* t is answered s with what r takes.  After an ERROR the events it is told of
\* may be cleared, or stay.
EventAnswer(t, r, s) ==
  /\ pc' = [pc EXCEPT ![t] = "returning"]
  /\ status' = [status EXCEPT ![t] = s]
  /\ out' = [out EXCEPT ![t] = IF r.out THEN Taken(r, register[t]) ELSE {}]
  /\ \E regs \in {Left(r, register[t])} \cup
                 {x \in {register[t]} : s = "ERROR"} :
       register' = [register EXCEPT ![t] = regs]

\* eventReceiveEx; with the out pointer if r.out.
eventReceiveEx(t, r, n) ==
  \/ /\ "EVENTS_FETCH" \in r.options
     /\ pc' = [pc EXCEPT ![t] = "returning"]
     /\ status' = [status EXCEPT ![t] = "OK"]
     /\ out' = [out EXCEPT ![t] = register[t]]
     /\ UNCHANGED <<register, want, timeout>>
  \/ /\ "EVENTS_FETCH" \notin r.options /\ Satisfied(r, register[t])
     /\ EventAnswer(t, r, "OK")
     /\ UNCHANGED <<want, timeout>>
  \/ /\ "EVENTS_FETCH" \notin r.options /\ ~Satisfied(r, register[t])
     /\ n = NO_WAIT
     /\ EventAnswer(t, r, "ERROR")
     /\ UNCHANGED <<want, timeout>>
  \/ /\ "EVENTS_FETCH" \notin r.options /\ ~Satisfied(r, register[t])
     /\ n # NO_WAIT
     /\ pc' = [pc EXCEPT ![t] = "receiving"]
     /\ want' = [want EXCEPT ![t] = r]
     /\ timeout' = [timeout EXCEPT ![t] = n]
     /\ UNCHANGED <<register, out, status>>

\* A receive runs out.
EventTimeout(t) ==
  /\ pc[t] = "receiving" /\ timeout[t] # WAIT_FOREVER
  /\ EventAnswer(t, want[t], "ERROR")
  /\ UNCHANGED <<want, due, method, timeout, ask>>

\* Events that come after the timeout and before the return may be reported, and
\* cleared, too.
EventLate(t) ==
  /\ pc[t] = "returning" /\ status[t] = "ERROR" /\ want[t] # NoWant
  /\ out' = [out EXCEPT ![t] = @ \cup IF want[t].out
                                     THEN Taken(want[t], register[t]) ELSE {}]
  /\ register' = [register EXCEPT ![t] = Left(want[t], @)]
  /\ UNCHANGED <<want, due, call_vars>>

-------------------------------------------------------------------------------
send(t, u, evs) ==
  /\ pc[t] = "ready"
  /\ EventSend({u}, evs, [pc EXCEPT ![t] = "returning"], [status EXCEPT ![t] = "OK"])
  /\ method' = [method EXCEPT ![t] = "event.send"]
  /\ UNCHANGED <<timeout, ask>>

\* The thread is a parameter by value, still joinable when the method is over:
\* its destructor calls std::terminate.
send_thread(t, u, evs) ==
  /\ pc[t] = "ready"
  /\ EventSend({u}, evs, [pc EXCEPT ![t] = "dead"], status)
  /\ method' = [method EXCEPT ![t] = "send(thread)"]
  /\ UNCHANGED <<timeout, ask>>

\* The caller asks for r; the routine is called with events e, options o, an
\* out pointer or NULL, and n ticks.
Receives(t, m, r, e, o, ptr, n) ==
  /\ pc[t] = "ready"
  /\ method' = [method EXCEPT ![t] = m]
  /\ ask' = [ask EXCEPT ![t] = r]
  /\ eventReceiveEx(t, [events |-> e, options |-> o, out |-> ptr], n)
  /\ UNCHANGED due

\* Slips: NULL in place of the out parameter, options not handed on.
receive_Null(t, r, n)   == Receives(t, "receive", r, r.events, r.options, FALSE, n)
receive_for_NoOptions(t, r, d) ==
  Receives(t, "receive_for", r, r.events, {}, TRUE, chrono2tic(d))
poll_NoOptions(t, r)    == Receives(t, "poll", r, r.events, {}, TRUE, NO_WAIT)

receive(t, r, n) == Receives(t, "receive", r, r.events, r.options, TRUE, n)
receive_for(t, r, d) ==
  Receives(t, "receive_for", r, r.events, r.options, TRUE, chrono2tic(d))
receive_until(t, r, d) ==
  \E n \in time_point2tic(d, Now) :
    Receives(t, "receive_until", r, r.events, r.options, TRUE, n)
receive_only(t, r, n) ==
  Receives(t, "receive_only", r, r.events, r.options, FALSE, n)
poll(t, r)  == Receives(t, "poll", r, r.events, r.options, TRUE, NO_WAIT)
fetch(t)    == Receives(t, "fetch", None, {}, {"EVENTS_FETCH"}, TRUE, NO_WAIT)

clear(t) ==
  /\ pc[t] = "ready"
  /\ register' = [register EXCEPT ![t] = {}]
  /\ due' = [due EXCEPT ![t] = {}]
  /\ pc' = [pc EXCEPT ![t] = "returning"]
  /\ status' = [status EXCEPT ![t] = "OK"]
  /\ method' = [method EXCEPT ![t] = "clear"]
  /\ UNCHANGED <<want, out, timeout, ask>>

-------------------------------------------------------------------------------
EventInit ==
  /\ register = [t \in Tasks |-> {}]
  /\ want = [t \in Tasks |-> NoWant]
  /\ out = [t \in Tasks |-> {}]
  /\ due = [t \in Tasks |-> {}]
  /\ pc = [t \in Tasks |-> "ready"]
  /\ method = [t \in Tasks |-> "none"]
  /\ timeout = [t \in Tasks |-> NO_WAIT]
  /\ status = [t \in Tasks |-> "OK"]
  /\ ask = [t \in Tasks |-> None]

Receivers == {"receive", "receive_for", "receive_until", "poll"}

EventTypeOK ==
  /\ register \in [Tasks -> SUBSET Events]
  /\ want \in [Tasks -> [events : SUBSET Events, options : SUBSET Options,
                         out : BOOLEAN]]
  /\ out \in [Tasks -> SUBSET Events] /\ due \in [Tasks -> SUBSET Events]

\* t is in a call that drops events without telling: unwanted ones, or all.
Keeps(r) == r.options \cap {"EVENTS_KEEP_UNWANTED", "EVENTS_RETURN_ALL"} # {}
Dropping(t) ==
  /\ pc[t] \in {"receiving", "returning"}
  /\ method[t] = "receive_only" \/ (method[t] \in Receivers /\ ~Keeps(ask[t]))

\* What t is still to be told of when its call is over.
DueAfter(t) ==
  IF Dropping(t) THEN {}
  ELSE IF method[t] \in Receivers THEN due[t] \ out[t] ELSE due[t]

\* No event is lost: it stays in the register until a receive reports it, also
\* one that fails, unless the task asked for what drops events, a clear or a
\* receive that keeps no unwanted ones.
EventsAccounted ==
  \A t \in Tasks :
    ~Dropping(t) =>
      due[t] \subseteq register[t] \cup
        IF pc[t] = "returning" /\ method[t] \in Receivers THEN out[t] ELSE {}

\* A receive means what its caller asked for: it ends with OK only with one, or
\* all, of the events, and pends only as long as they have not come.
ReceiveMeansIt ==
  \A t \in Tasks :
    /\ pc[t] = "returning" /\ status[t] = "OK" /\ method[t] \in Receivers
         => Satisfied(ask[t], out[t])
    /\ pc[t] = "receiving" => ~Satisfied(ask[t], register[t])
===============================================================================
