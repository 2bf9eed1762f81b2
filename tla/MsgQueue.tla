-------------------------------- MODULE MsgQueue -------------------------------
(***************************************************************************)
(* One message queue of queue.hpp, a msgQ or a queue<M>, and its tasks,    *)
(* with the event registers of the tasks: a queue tells a task that called *)
(* eventStart of a message by sending it events.                           *)
(*                                                                         *)
(* msgQLib is external.  msgQReceive answers the number of bytes it has    *)
(* received, which is not OK: sizeof(M) is never 0.  `throw;' ends the     *)
(* task.                                                                   *)
(***************************************************************************)
EXTENDS Event, Sequences

CONSTANTS
  Messages, NoMessage,
  MaxMsgs,      \* how many messages the queue holds
  Prio,         \* the priorities of the tasks; 0 is the highest
  Scenes,       \* records: class, fifo (MSG_Q_FIFO or MSG_Q_PRIORITY) and
                \* calls[t], the methods task t calls
  Priorities,   \* MSG_PRI_NORMAL, MSG_PRI_URGENT
  Timeouts, Durations,  \* arguments of the timed forms; with WAIT_FOREVER
                \* they are the same calls as the untimed ones
  QEvent,       \* the event of eventStart
  StartOptions, \* options of eventStart, sets of EvOptions
  Destroyer     \* tasks that may run the destructor

EvOptions ==
  {"EVENTS_SEND_ONCE", "EVENTS_SEND_IF_FREE", "EVENTS_ALLOW_OVERWRITE"}

ASSUME MsgQueueAssumption ==
  /\ NoMessage \notin Messages
  /\ MaxMsgs \in Nat \ {0}
  /\ Prio \in [Tasks -> Nat]
  /\ Priorities \subseteq {"MSG_PRI_NORMAL", "MSG_PRI_URGENT"}
  /\ Timeouts \subseteq _Vx_ticks_t \ {WAIT_FOREVER} /\ Durations \subseteq Int
  /\ QEvent \in Events /\ StartOptions \subseteq SUBSET EvOptions
  /\ Destroyer \subseteq Tasks

VARIABLES
  scene,     \* which of the Scenes this is
  life,      \* "live" or "deleted"
  queue,     \* the messages in the queue, the next one first
  line,      \* the calls pended on the queue, the oldest first
  listener,  \* the tasks that get events from the queue, at most one
  evOptions, \* the options it has registered with
  buffer,    \* buffer[t]: the message t has received
  drained    \* drained[t]: has t, a listener, seen the queue empty, or been
             \* told at its registration when it was not, since it last
             \* dropped an event of the queue?

object     == <<scene, life>>
queue_vars == <<queue, line, listener, evOptions, buffer>>
vars == <<object, queue_vars, drained, register_vars, due, call_vars>>

Senders   == {"send", "timed send", "push", "<<"}
Takers    == {"recieve", "timed recieve", "queue.poll", ">>"}
Throwing  == {"push", "<<", ">>"}
EventCalls == Receivers \cup {"receive_only", "fetch", "clear",
                           "event.send", "send(thread)"}
Methods   == Senders \cup Takers \cup EventCalls \cup {"eventStart", "eventStop"}

-------------------------------------------------------------------------------
(***************************************************************************)
(* msgQLib and msgQEvLib (external).                                       *)
(***************************************************************************)
numMsgs == Len(queue)
empty   == numMsgs = 0

First == {i \in 1 .. Len(line) :
            IF scene.fifo THEN i = 1
            ELSE \A j \in 1 .. Len(line) : Prio[line[i].task] <= Prio[line[j].task]}
Without(i) == SubSeq(line, 1, i - 1) \o SubSeq(line, i + 1, Len(line))
InLine  == {line[i].task : i \in 1 .. Len(line)}

Placed(s, m, pri) ==
  IF pri = "MSG_PRI_URGENT" THEN <<m>> \o s ELSE Append(s, m)

Returns(t, s) ==
  /\ pc' = [pc EXCEPT ![t] = "returning"]
  /\ status' = [status EXCEPT ![t] = s]

Pends(t, m, pri, n) ==
  /\ line' = Append(line, [task |-> t, message |-> m, pri |-> pri])
  /\ timeout' = [timeout EXCEPT ![t] = n]
  /\ pc' = [pc EXCEPT ![t] = "pended"]
  /\ UNCHANGED status

\* A message goes to the first receiver in line; into the queue, of which the
\* listener is told by its event; or has to wait for room.
msgQSend(t, m, n, pri) ==
  \/ /\ life = "live" /\ line # <<>> /\ empty
     /\ \E i \in First :
          LET r == line[i].task
          IN  /\ buffer' = [buffer EXCEPT ![r] = m]
              /\ line' = Without(i)
              /\ pc' = [pc EXCEPT ![t] = "returning", ![r] = "returning"]
              /\ status' = [status EXCEPT ![t] = "OK", ![r] = "BYTES"]
     /\ UNCHANGED <<queue, listener, timeout, register_vars, due>>
  \/ /\ life = "live" /\ ~(line # <<>> /\ empty) /\ numMsgs < MaxMsgs
     /\ queue' = Placed(queue, m, pri)
     /\ EventSend(listener, {QEvent}, [pc EXCEPT ![t] = "returning"],
                  [status EXCEPT ![t] = "OK"])
     /\ listener' = IF "EVENTS_SEND_ONCE" \in evOptions THEN {} ELSE listener
     /\ UNCHANGED <<line, buffer, timeout>>
  \/ /\ life = "live" /\ numMsgs = MaxMsgs /\ n # NO_WAIT
     /\ Pends(t, m, pri, n)
     /\ UNCHANGED <<queue, listener, buffer, register_vars, due>>
  \/ /\ life = "deleted" \/ (numMsgs = MaxMsgs /\ n = NO_WAIT)
     /\ Returns(t, "ERROR")
     /\ UNCHANGED <<queue, line, listener, buffer, timeout, register_vars, due>>

\* A message is taken and the first sender in line moves up, of which the
\* listener is not told; without a message the task waits, or not.
msgQReceive(t, n) ==
  /\ \/ /\ life = "live" /\ ~empty
        /\ buffer' = [buffer EXCEPT ![t] = Head(queue)]
        /\ \/ /\ line = <<>>
              /\ queue' = Tail(queue)
              /\ Returns(t, "BYTES")
              /\ UNCHANGED line
           \/ \E i \in First :
                LET c == line[i]
                IN  /\ queue' = Placed(Tail(queue), c.message, c.pri)
                    /\ line' = Without(i)
                    /\ pc' = [pc EXCEPT ![t] = "returning", ![c.task] = "returning"]
                    /\ status' = [status EXCEPT ![t] = "BYTES", ![c.task] = "OK"]
        /\ UNCHANGED timeout
     \/ /\ life = "live" /\ empty /\ n # NO_WAIT
        /\ Pends(t, NoMessage, "MSG_PRI_NORMAL", n)
        /\ UNCHANGED <<queue, buffer>>
     \/ /\ life = "deleted" \/ (empty /\ n = NO_WAIT)
        /\ Returns(t, "ERROR")
        /\ UNCHANGED <<queue, line, buffer, timeout>>
  /\ UNCHANGED <<listener, register_vars, due>>

\* A call in line runs out.
Timeout(t) ==
  /\ pc[t] = "pended" /\ timeout[t] # WAIT_FOREVER
  /\ \E i \in 1 .. Len(line) : line[i].task = t /\ line' = Without(i)
  /\ Returns(t, "ERROR")
  /\ UNCHANGED <<object, queue, listener, evOptions, buffer, drained,
                 register_vars, due, method, timeout, ask>>

-------------------------------------------------------------------------------
Enter(t, class, m) ==
  /\ pc[t] = "ready" /\ scene.class = class /\ m \in scene.calls[t]
  /\ method' = [method EXCEPT ![t] = m]
  /\ UNCHANGED <<object, evOptions>>

\* The caller asks for message m to be sent with priority pri.
Sending(t, class, meth, m, n, asked, pri) ==
  /\ Enter(t, class, meth)
  /\ ask' = [ask EXCEPT ![t] = [message |-> m, pri |-> asked]]
  /\ msgQSend(t, m, n, pri)
  /\ UNCHANGED drained

Taking(t, class, meth, n) ==
  Enter(t, class, meth) /\ msgQReceive(t, n) /\ UNCHANGED <<ask, drained>>

N == "MSG_PRI_NORMAL"

msgQ_send(t, m, n, pri)  == Sending(t, "msgQ", "timed send", m, n, pri, pri)
msgQ_send_forever(t, m)  == Sending(t, "msgQ", "send", m, WAIT_FOREVER, N, N)
msgQ_recieve(t, n)       == Taking(t, "msgQ", "timed recieve", n)
msgQ_recieve_for(t, d)   == Taking(t, "msgQ", "timed recieve", chrono2tic(d))
msgQ_recieve_forever(t)  == Taking(t, "msgQ", "recieve", WAIT_FOREVER)
msgQ_poll(t)             == Taking(t, "msgQ", "queue.poll", NO_WAIT)

\* Slips: a timeout forgotten, the priority not handed on.
queue_recieve_for_Forever(t, d) == Taking(t, "queue", "timed recieve", WAIT_FOREVER)
queue_send_Normal(t, m, n, pri) ==
  Sending(t, "queue", "timed send", m, n, pri, N)

queue_send(t, m, n, pri) ==
  Sending(t, "queue", "timed send", m, n, pri, pri)
queue_send_for(t, m, d)  ==
  Sending(t, "queue", "timed send", m, chrono2tic(d), N, N)
queue_send_forever(t, m) == Sending(t, "queue", "send", m, WAIT_FOREVER, N, N)
queue_recieve(t, n)      == Taking(t, "queue", "timed recieve", n)
queue_recieve_for(t, d)  == Taking(t, "queue", "timed recieve", chrono2tic(d))
queue_recieve_forever(t) == Taking(t, "queue", "recieve", WAIT_FOREVER)
queue_poll(t)            == Taking(t, "queue", "queue.poll", NO_WAIT)
push(t, m)               == Sending(t, "queue", "push", m, WAIT_FOREVER, N, N)
op_send(t, m)            == Sending(t, "queue", "<<", m, WAIT_FOREVER, N, N)
op_receive(t)            == Taking(t, "queue", ">>", WAIT_FOREVER)

-------------------------------------------------------------------------------
\* The queue has one listener, which another replaces only if it has allowed it
\* to; starting again replaces its own registration.  It is sent the event at
\* once, if it asks for that, when there is a message, and with SEND_ONCE may
\* then not be registered at all.
Registers(t, o) ==
  LET now == "EVENTS_SEND_IF_FREE" \in o /\ ~empty
  IN  /\ EventSend(IF now THEN {t} ELSE {}, {QEvent},
                   [pc EXCEPT ![t] = "returning"], [status EXCEPT ![t] = "OK"])
      /\ listener' \in {{t}} \cup
                       {x \in {{}} : now /\ "EVENTS_SEND_ONCE" \in o}
      /\ evOptions' = o
      /\ drained' = [drained EXCEPT ![t] = "EVENTS_SEND_IF_FREE" \in o]

eventStart(t, o) ==
  /\ pc[t] = "ready" /\ "eventStart" \in scene.calls[t]
  /\ method' = [method EXCEPT ![t] = "eventStart"]
  /\ IF /\ life = "live"
        /\ listener \subseteq {t} \/ "EVENTS_ALLOW_OVERWRITE" \in evOptions
     THEN Registers(t, o)
     ELSE /\ Returns(t, "ERROR")
          /\ UNCHANGED <<listener, evOptions, drained, register_vars, due>>
  /\ UNCHANGED <<object, queue, line, buffer, timeout, ask>>

eventStop(t) ==
  /\ pc[t] = "ready" /\ "eventStop" \in scene.calls[t]
  /\ method' = [method EXCEPT ![t] = "eventStop"]
  /\ Returns(t, IF life = "live" /\ listener = {t} THEN "OK" ELSE "ERROR")
  /\ listener' = listener \ {t}
  /\ UNCHANGED <<object, queue, line, evOptions, buffer, drained, register_vars,
                 due, timeout, ask>>

(***************************************************************************)
(* The calls of class event.  A listener waits for the event of the queue  *)
(* only after it has found the queue empty or registered with              *)
(* EVENTS_SEND_IF_FREE, and looks again after a call that may have dropped *)
(* the event.                                                              *)
(***************************************************************************)
EventCall(t) ==
  \/ \E u \in {v \in Tasks : scene.calls[v] \cap Receivers # {}}, e \in Events :
       send(t, u, {e}) \/ send_thread(t, u, {e})
  \/ \E r \in Requests :
       \/ \E n \in EvTimeouts : receive(t, r, n) \/ receive_only(t, r, n)
       \/ \E d \in EvDurations : receive_for(t, r, d) \/ receive_until(t, r, d)
       \/ poll(t, r)
  \/ fetch(t) \/ clear(t)

KeepsQEvent(r) == QEvent \notin r.events /\ Left(r, {QEvent}) = {QEvent}

EventStep(t) ==
  /\ EventCall(t)
  /\ LET m == method'[t]
         r == ask'[t]
         waits == m \in Receivers \cup {"receive_only"}
     IN  /\ m \in scene.calls[t]
         /\ t \in listener /\ waits /\ QEvent \in r.events => drained[t]
         /\ drained' = [drained EXCEPT ![t] =
              @ /\ m # "clear" /\ (waits => KeepsQEvent(r))]
  /\ UNCHANGED <<object, queue_vars>>

-------------------------------------------------------------------------------
return(t) ==
  /\ pc[t] = "returning"
  /\ method[t] \in Throwing => status[t] = "OK"
  /\ pc' = [pc EXCEPT ![t] = "ready"]
  /\ method' = [method EXCEPT ![t] = "none"]
  /\ timeout' = [timeout EXCEPT ![t] = NO_WAIT]
  /\ status' = [status EXCEPT ![t] = "OK"]
  /\ ask' = [ask EXCEPT ![t] = None]
  /\ out' = [out EXCEPT ![t] = {}]
  /\ want' = [want EXCEPT ![t] = NoWant]
  /\ due' = [due EXCEPT ![t] = DueAfter(t)]
  /\ buffer' = [buffer EXCEPT ![t] = NoMessage]
  /\ drained' = [drained EXCEPT ![t] =
       @ \/ (t \in listener /\ method[t] = "queue.poll" /\ status[t] = "ERROR")]
  /\ UNCHANGED <<object, queue, line, listener, evOptions, register>>

\* A slip: every call throws.
throw_Always(t) ==
  /\ pc[t] = "returning" /\ status[t] # "OK"
  /\ pc' = [pc EXCEPT ![t] = "dead"]
  /\ UNCHANGED <<object, queue_vars, drained, register_vars, due, method,
                 timeout, status, ask>>

\* The routine has not answered OK: `throw;'.
throw(t) ==
  /\ pc[t] = "returning" /\ method[t] \in Throwing /\ status[t] # "OK"
  /\ pc' = [pc EXCEPT ![t] = "dead"]
  /\ UNCHANGED <<object, queue_vars, drained, register_vars, due, method,
                 timeout, status, ask>>

\* A slip: the destructor forgets the C object.
dtor_Leak(t) ==
  /\ t \in Destroyer /\ pc[t] = "ready" /\ life = "live"
  /\ life' = "deleted"
  /\ UNCHANGED <<scene, queue_vars, drained, register_vars, due, call_vars>>

\* msgQDelete fails the calls in line.
dtor(t) ==
  /\ t \in Destroyer /\ pc[t] = "ready" /\ life = "live"
  /\ life' = "deleted" /\ line' = <<>> /\ listener' = {}
  /\ pc' = [u \in Tasks |-> IF u \in InLine THEN "returning" ELSE pc[u]]
  /\ status' = [u \in Tasks |-> IF u \in InLine THEN "ERROR" ELSE status[u]]
  /\ UNCHANGED <<scene, queue, evOptions, buffer, drained, register_vars, due,
                 method, timeout, ask>>

-------------------------------------------------------------------------------
Init ==
  /\ scene \in Scenes /\ life = "live"
  /\ queue = <<>> /\ line = <<>> /\ listener = {} /\ evOptions = {}
  /\ buffer = [t \in Tasks |-> NoMessage]
  /\ drained = [t \in Tasks |-> FALSE]
  /\ EventInit

SendStep(t) ==
  \E m \in Messages :
    \/ \E n \in Timeouts, pri \in Priorities :
         msgQ_send(t, m, n, pri) \/ queue_send(t, m, n, pri)
    \/ \E d \in Durations : queue_send_for(t, m, d)
    \/ msgQ_send_forever(t, m) \/ queue_send_forever(t, m)
    \/ push(t, m) \/ op_send(t, m)

TakeStep(t) ==
  \/ \E n \in Timeouts : msgQ_recieve(t, n) \/ queue_recieve(t, n)
  \/ \E d \in Durations : msgQ_recieve_for(t, d) \/ queue_recieve_for(t, d)
  \/ msgQ_recieve_forever(t) \/ queue_recieve_forever(t)
  \/ msgQ_poll(t) \/ queue_poll(t) \/ op_receive(t)

Next ==
  \E t \in Tasks :
    \/ SendStep(t) \/ TakeStep(t) \/ EventStep(t)
    \/ \E o \in StartOptions : eventStart(t, o)
    \/ eventStop(t) \/ return(t) \/ throw(t) \/ dtor(t) \/ Timeout(t)
    \/ /\ EventTimeout(t) \/ EventLate(t)
       /\ UNCHANGED <<object, queue_vars, drained>>

Spec == Init /\ [][Next]_vars

\* A task that is ready runs on, and a timeout that is due comes.
FairSpec ==
  /\ Spec
  /\ \A t \in Tasks :
       /\ WF_vars(return(t)) /\ WF_vars(throw(t)) /\ WF_vars(Timeout(t))
       /\ WF_vars(EventTimeout(t) /\ UNCHANGED <<object, queue_vars, drained>>)

-------------------------------------------------------------------------------
\* The types of the variables.
TypeOK ==
  /\ EventTypeOK
  /\ scene \in Scenes /\ life \in {"live", "deleted"}
  /\ queue \in Seq(Messages) /\ Len(queue) <= MaxMsgs
  /\ line \in Seq([task : Tasks, message : Messages \cup {NoMessage},
                   pri : {"MSG_PRI_NORMAL", "MSG_PRI_URGENT"}])
  /\ listener \subseteq Tasks /\ evOptions \subseteq EvOptions
  /\ buffer \in [Tasks -> Messages \cup {NoMessage}]
  /\ drained \in [Tasks -> BOOLEAN]
  /\ pc \in [Tasks -> {"ready", "receiving", "pended", "returning", "dead"}]
  /\ method \in [Tasks -> Methods \cup {"none"}]
  /\ timeout \in [Tasks -> _Vx_ticks_t]
  /\ status \in [Tasks -> {"OK", "ERROR", "BYTES"}]

\* Whoever pends on the queue does so for a reason: the queue lives and is full
\* for those that send, and empty for those that receive.
PendsForAReason ==
  /\ InLine = {t \in Tasks : pc[t] = "pended"}
  /\ line # <<>> => life = "live"
  /\ \A t \in InLine : IF method[t] \in Senders THEN numMsgs = MaxMsgs ELSE empty

\* The program ends for no other reason than these: a >>, which always ends it,
\* although it is an "operator to receive a message" (queue.hpp:338); a send to
\* a std::thread, which always ends it too; and push or << on a queue that has
\* been deleted.  Whoever times out or finds no message goes on.
EndsAreDue ==
  \A t \in Tasks : pc[t] = "dead" =>
    \/ method[t] \in {">>", "send(thread)"}
    \/ method[t] \in {"push", "<<"} /\ life = "deleted"

(***************************************************************************)
(* A listener that empties the queue before it waits for the event, or is  *)
(* told at its registration, and empties it again after every call that    *)
(* may have dropped the event, does not wait while there is a message:     *)
(* however sends, urgent sends, timeouts, other receivers and events that  *)
(* coalesce come in between.  With SEND_ONCE that ends with the event.     *)
(***************************************************************************)
ListenerAwake ==
  \A t \in listener :
    /\ pc[t] = "receiving"
    /\ QEvent \in ask[t].events /\ "EVENTS_WAIT_ANY" \in ask[t].options
    => empty

\* The queue, as its users see it.
Sent(t) ==
  [message |-> ask[t].message, urgent |-> ask[t].pri = "MSG_PRI_URGENT",
   in |-> pc[t] = "returning"]
Queue ==
  INSTANCE QueueSpec WITH
    Capacity <- MaxMsgs, content <- queue, inbox <- buffer,
    offer <- [t \in Tasks |->
                IF /\ method[t] \in Senders
                   /\ pc[t] = "pended" \/ (pc[t] = "returning" /\ status[t] = "OK")
                THEN Sent(t)
                ELSE [message |-> NoMessage, urgent |-> FALSE, in |-> FALSE]]

\* Messages are received once, in FIFO order with urgent ones in front, if and
\* only if their send succeeds, whoever waits at either end and times out.
ImplementsQueue == Queue!Spec

\* A call with a timeout, of the queue or of an event, comes back or ends its
\* task.
TimedCallReturns ==
  \A t \in Tasks :
    LET timed == method[t] \in {"timed send", "timed recieve", "receive_for"}
    IN  (timed /\ pc[t] # "dead") ~> (~timed \/ pc[t] = "dead")
===============================================================================
