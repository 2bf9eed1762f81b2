---------------------------- MODULE MsgQueueProofs ----------------------------
(***************************************************************************)
(* What is proved about the message queues and the events, for every set   *)
(* of tasks, messages and events, every capacity and every timeout.        *)
(*                                                                         *)
(* IInv is inductive: whoever is in line is pended in a call of the queue, *)
(* for the reason PendsForAReason gives; a pended sender's place in line   *)
(* is what it asked to be sent; a message is in a hand only between the    *)
(* receive and the return; what a task waits for is what it asked for and  *)
(* has not come; and a listener that relies on the event of the queue has  *)
(* it in its register or finds the queue empty.                            *)
(***************************************************************************)
EXTENDS MsgQueue, SequenceTheorems, TLAPS

(***************************************************************************)
(* The inductive invariant.                                                *)
(***************************************************************************)

\* The methods that wait for ever: push, << and >>.
Untimed == {"push", "<<", ">>"}

\* The types of the variables no Boolean is part of.
Typed ==
  /\ scene \in Scenes /\ life \in {"live", "deleted"}
  /\ queue \in Seq(Messages) /\ Len(queue) <= MaxMsgs
  /\ line \in Seq([task : Tasks, message : Messages \cup {NoMessage},
                   pri : {"MSG_PRI_NORMAL", "MSG_PRI_URGENT"}])
  /\ listener \subseteq Tasks
  /\ buffer \in [Tasks -> Messages \cup {NoMessage}]
  /\ register \in [Tasks -> SUBSET Events]
  /\ out \in [Tasks -> SUBSET Events] /\ due \in [Tasks -> SUBSET Events]
  /\ pc \in [Tasks -> {"ready", "receiving", "pended", "returning", "dead"}]
  /\ method \in [Tasks -> Methods \cup {"none"}]
  /\ status \in [Tasks -> {"OK", "ERROR", "BYTES"}]

\* A task is in line once, a sender with what it asked to be sent, and what is
\* deleted has no listener.
InLineOnce ==
  /\ \A i, j \in 1 .. Len(line) : i # j => line[i].task # line[j].task
  /\ \A i \in 1 .. Len(line) :
       method[line[i].task] \in Senders =>
         /\ ask[line[i].task].message = line[i].message
         /\ ask[line[i].task].pri = line[i].pri
  /\ life = "deleted" => listener = {}

\* What t is doing goes with the method it has called.
CallMeant(t) ==
  /\ pc[t] = "ready" => method[t] = "none"
  /\ pc[t] = "pended" =>
       /\ method[t] \in Senders \cup Takers
       /\ method[t] \in Untimed => timeout[t] = WAIT_FOREVER
  /\ pc[t] = "receiving" => method[t] \in Receivers \cup {"receive_only"}
  /\ pc[t] = "dead" => method[t] \in Throwing \cup {"send(thread)"}
  /\ method[t] \in Senders =>
       /\ ask[t].message \in Messages
       /\ ask[t].pri \in {"MSG_PRI_NORMAL", "MSG_PRI_URGENT"}
  /\ method[t] \in Receivers \cup {"receive_only"} => ask[t] \in Requests
  /\ pc[t] = "returning" /\ method[t] \in {"push", "<<"} /\ status[t] # "OK"
       => life = "deleted"

\* What ended t, as EndsAreDue says.
EndDue(t) ==
  pc[t] = "dead" =>
    \/ method[t] \in {">>", "send(thread)"}
    \/ method[t] \in {"push", "<<"} /\ life = "deleted"

\* t has a message in hand only between the receive and the return from it.
HandEmpty(t) ==
  buffer[t] # NoMessage =>
    pc[t] \in {"returning", "dead"} /\ method[t] \in Takers

\* t waits for events, or has just waited for some.
Waits(t) == pc[t] = "receiving" \/ (pc[t] = "returning" /\ want[t] # NoWant)

\* t waits for the events it asked for.
WantMeant(t) ==
  /\ pc[t] \in {"ready", "pended"} => want[t] = NoWant
  /\ Waits(t) =>
       /\ method[t] \in Receivers \cup {"receive_only"}
       /\ want[t].events = ask[t].events /\ want[t].options = ask[t].options
       /\ want[t].out <=> method[t] \in Receivers

\* What t was sent is in its register, or told: as EventsAccounted says.
Accounted(t) ==
  ~Dropping(t) =>
    due[t] \subseteq register[t] \cup
      IF pc[t] = "returning" /\ method[t] \in Receivers THEN out[t] ELSE {}

\* t is answered with what it asked for, and waits while it has not come.
Answered(t) ==
  /\ pc[t] = "returning" /\ status[t] = "OK" /\ method[t] \in Receivers
       => "EVENTS_FETCH" \in ask[t].options \/ Satisfied(ask[t], out[t])
  /\ pc[t] = "receiving" => ~Satisfied(ask[t], register[t])

OfTask(t) ==
  /\ CallMeant(t) /\ EndDue(t) /\ HandEmpty(t)
  /\ WantMeant(t) /\ Accounted(t) /\ Answered(t)

\* A listener t that relies on the event of the queue has it, or finds no
\* message: when it has drained the queue, when it waits for the event, and
\* when a poll that found the queue empty is not back yet.
ToldOf(t) ==
  /\ \/ drained[t]
     \/ pc[t] = "receiving" /\ QEvent \in ask[t].events
     \/ pc[t] = "returning" /\ method[t] = "queue.poll" /\ status[t] = "ERROR"
     => queue = <<>> \/ QEvent \in register[t]
  /\ drained[t] /\ Waits(t) => KeepsQEvent(ask[t])

IInv ==
  /\ Typed /\ InLineOnce /\ PendsForAReason
  /\ \A t \in Tasks : OfTask(t)
  /\ \A t \in listener : ToldOf(t)

Calls == [task : Tasks, message : Messages \cup {NoMessage},
          pri : {"MSG_PRI_NORMAL", "MSG_PRI_URGENT"}]

\* What Without leaves of the line: the calls but one, in their order.
LEMMA WithoutIs ==
  ASSUME NEW E, line \in Seq(E), NEW i \in 1 .. Len(line)
  PROVE  /\ Without(i) \in Seq(E) /\ Len(Without(i)) = Len(line) - 1
         /\ \A j \in 1 .. Len(Without(i)) :
              Without(i)[j] = line[IF j < i THEN j ELSE j + 1]
<1> DEFINE front == SubSeq(line, 1, i - 1)
           back  == SubSeq(line, i + 1, Len(line))
<1>1. Len(line) \in Nat
  BY LenProperties
<1>2. /\ front \in Seq(E) /\ Len(front) = i - 1
      /\ \A j \in 1 .. i - 1 : front[j] = line[j]
  <2>1. /\ 1 \in 1 .. Len(line) + 1 /\ i - 1 \in 0 .. Len(line)
        /\ \A j \in 1 .. i - 1 : 1 + j - 1 = j
    BY <1>1
  <2> QED
    BY <2>1, SubSeqProperties
<1>3. /\ back \in Seq(E) /\ Len(back) = Len(line) - i
      /\ \A j \in 1 .. Len(line) - i : back[j] = line[i + j]
  <2>1. /\ i + 1 \in 1 .. Len(line) + 1 /\ Len(line) \in 0 .. Len(line)
        /\ \A j \in 1 .. Len(line) - i : (i + 1) + j - 1 = i + j
    BY <1>1
  <2> QED
    BY <1>1, <2>1, SubSeqProperties
<1> HIDE DEF front, back
<1>4. /\ front \o back \in Seq(E) /\ Len(front \o back) = Len(line) - 1
      /\ \A j \in 1 .. Len(line) - 1 :
           (front \o back)[j] =
             IF j <= i - 1 THEN front[j] ELSE back[j - (i - 1)]
  <2>1. /\ front \o back \in Seq(E)
        /\ Len(front \o back) = Len(front) + Len(back)
        /\ \A j \in 1 .. Len(front) + Len(back) : (front \o back)[j] =
             IF j <= Len(front) THEN front[j] ELSE back[j - Len(front)]
    BY <1>2, <1>3, ConcatProperties
  <2>2. Len(front) + Len(back) = Len(line) - 1
    BY <1>1, <1>2, <1>3
  <2> QED
    BY <1>2, <2>1, <2>2
<1>5. \A j \in 1 .. Len(line) - 1 :
        (front \o back)[j] = line[IF j < i THEN j ELSE j + 1]
  <2> TAKE j \in 1 .. Len(line) - 1
  <2>1. CASE j < i
    BY <1>1, <1>2, <1>4, <2>1
  <2>2. CASE ~(j < i)
    <3>1. j - (i - 1) \in 1 .. Len(line) - i /\ i + (j - (i - 1)) = j + 1
      BY <1>1, <2>2
    <3> QED
      BY <1>1, <1>3, <1>4, <2>2, <3>1
  <2> QED
    BY <2>1, <2>2
<1> QED
  BY <1>4, <1>5 DEF Without, front, back

\* A call leaves the line.
LEMMA LineShrinks ==
  ASSUME line \in Seq(Calls), NEW i \in 1 .. Len(line), line' = Without(i),
         \A a, b \in 1 .. Len(line) : a # b => line[a].task # line[b].task
  PROVE  /\ line' \in Seq(Calls) /\ line # <<>>
         /\ \A a, b \in 1 .. Len(line') : a # b => line'[a].task # line'[b].task
         /\ InLine' = InLine \ {line[i].task}
         /\ \A a \in 1 .. Len(line') : \E b \in 1 .. Len(line) :
              b # i /\ line'[a] = line[b]
<1>1. /\ line' \in Seq(Calls) /\ Len(line') = Len(line) - 1 /\ Len(line) \in Nat
      /\ \A j \in 1 .. Len(line') : line'[j] = line[IF j < i THEN j ELSE j + 1]
  BY WithoutIs, LenProperties
<1>2. line # <<>>
  BY EmptySeq
<1>3. \A a \in 1 .. Len(line') :
        /\ (IF a < i THEN a ELSE a + 1) \in 1 .. Len(line)
        /\ (IF a < i THEN a ELSE a + 1) # i
  BY <1>1
<1>4. \A a, b \in 1 .. Len(line') : a # b => line'[a].task # line'[b].task
  <2> TAKE a, b \in 1 .. Len(line')
  <2> HAVE a # b
  <2>1. (IF a < i THEN a ELSE a + 1) # (IF b < i THEN b ELSE b + 1)
    BY <1>1
  <2> QED
    BY <1>1, <1>3, <2>1
<1>5. InLine' \subseteq InLine \ {line[i].task}
  BY <1>1, <1>3 DEF InLine
<1>6. InLine \ {line[i].task} \subseteq InLine'
  <2> SUFFICES ASSUME NEW j \in 1 .. Len(line), j # i
               PROVE  \E a \in 1 .. Len(line') : line'[a].task = line[j].task
    BY DEF InLine
  <2>1. CASE j < i
    <3>1. j \in 1 .. Len(line')
      BY <1>1, <2>1
    <3> QED
      BY <1>1, <2>1, <3>1
  <2>2. CASE j > i
    <3>1. j - 1 \in 1 .. Len(line') /\ ~(j - 1 < i) /\ (j - 1) + 1 = j
      BY <1>1, <2>2
    <3> QED
      BY <1>1, <3>1
  <2> QED
    BY <1>1, <2>1, <2>2
<1> QED
  BY <1>1, <1>2, <1>3, <1>4, <1>5, <1>6

\* A call joins the line.
LEMMA LineGrows ==
  ASSUME line \in Seq(Calls), NEW c \in Calls, line' = Append(line, c),
         c.task \notin InLine,
         \A a, b \in 1 .. Len(line) : a # b => line[a].task # line[b].task
  PROVE  /\ line' \in Seq(Calls)
         /\ \A a, b \in 1 .. Len(line') : a # b => line'[a].task # line'[b].task
         /\ InLine' = InLine \cup {c.task}
         /\ \A a \in 1 .. Len(line') :
              line'[a] = c \/ \E b \in 1 .. Len(line) : line'[a] = line[b]
<1>1. /\ line' \in Seq(Calls) /\ Len(line') = Len(line) + 1 /\ Len(line) \in Nat
      /\ line'[Len(line) + 1] = c
      /\ \A j \in 1 .. Len(line) : line'[j] = line[j]
  BY LenProperties, AppendProperties
<1>2. \A j \in 1 .. Len(line) : line[j].task # c.task
  BY DEF InLine
<1> QED
  BY <1>1, <1>2 DEF InLine

\* A message is put in front of the others or behind them.
LEMMA PlacedIs ==
  ASSUME NEW s \in Seq(Messages), NEW m \in Messages, NEW pri
  PROVE  /\ Placed(s, m, pri) \in Seq(Messages)
         /\ Len(Placed(s, m, pri)) = Len(s) + 1
<1>1. CASE pri = "MSG_PRI_URGENT"
  <2>1. <<m>> \in Seq(Messages) /\ Len(<<m>>) = 1
    OBVIOUS
  <2>2. /\ <<m>> \o s \in Seq(Messages)
        /\ Len(<<m>> \o s) = Len(<<m>>) + Len(s)
    BY <2>1, ConcatProperties
  <2> QED
    BY <1>1, <2>1, <2>2, LenProperties DEF Placed
<1>2. CASE pri # "MSG_PRI_URGENT"
  BY <1>2, AppendProperties DEF Placed
<1> QED
  BY <1>1, <1>2

\* The values of a timeout that are not a count are two.
LEMMA TicksAre ==
  /\ NO_WAIT \in _Vx_ticks_t
  /\ WAIT_FOREVER \in _Vx_ticks_t
  /\ NO_WAIT # WAIT_FOREVER
  BY TicsAssumption DEF NO_WAIT, WAIT_FOREVER, _Vx_ticks_t

\* The line and the queue are empty or not.
LEMMA Lengths ==
  ASSUME Typed
  PROVE  /\ numMsgs \in Nat /\ (empty <=> queue = <<>>)
         /\ (line = <<>>) <=> (InLine = {})
         /\ \A i \in 1 .. Len(line) :
              line[i] \in Calls /\ line[i].task \in InLine
         /\ First \subseteq 1 .. Len(line)
<1>1. line \in Seq(Calls) /\ queue \in Seq(Messages)
  BY DEF Typed, Calls
<1>2. /\ Len(line) \in Nat /\ \A i \in 1 .. Len(line) : line[i] \in Calls
      /\ Len(queue) \in Nat
  BY <1>1, LenProperties, ElementOfSeq
<1>3. (line = <<>> <=> Len(line) = 0) /\ (queue = <<>> <=> Len(queue) = 0)
  BY <1>1, EmptySeq
<1>4. line # <<>> => 1 \in 1 .. Len(line)
  BY <1>2, <1>3
<1>5. \A i \in 1 .. Len(line) : line[i].task \in InLine
  BY DEF InLine
<1>6. line = <<>> => 1 .. Len(line) = {}
  BY <1>2, <1>3
<1>7. line = <<>> => InLine = {}
  BY <1>6 DEF InLine
<1>8. (line = <<>>) <=> (InLine = {})
  BY <1>4, <1>5, <1>7
<1>9. First \subseteq 1 .. Len(line)
  BY DEF First
<1> QED
  BY <1>2, <1>3, <1>5, <1>8, <1>9 DEF numMsgs, empty

(***************************************************************************)
(* The invariant, task by task.                                            *)
(***************************************************************************)

\* A task whose call nothing happens to.
LEMMA Untouched ==
  ASSUME NEW u \in Tasks, OfTask(u),
         pc'[u] = pc[u], status'[u] = status[u], method'[u] = method[u],
         ask'[u] = ask[u], timeout'[u] = timeout[u], buffer'[u] = buffer[u],
         register'[u] = register[u], want'[u] = want[u], out'[u] = out[u],
         due'[u] = due[u], life = "deleted" => life' = "deleted"
  PROVE  OfTask(u)'
  BY DEF OfTask, CallMeant, EndDue, HandEmpty, WantMeant, Accounted, Answered,
    Dropping, Waits

\* Nor does it learn of a message, and the queue stays or is empty.
LEMMA UntoldStays ==
  ASSUME NEW u \in Tasks, ToldOf(u), queue' \in {queue, <<>>} \/ queue # <<>>,
         pc'[u] = pc[u], status'[u] = status[u], method'[u] = method[u],
         ask'[u] = ask[u], want'[u] = want[u], register'[u] = register[u],
         drained'[u] => drained[u]
  PROVE  ToldOf(u)'
  BY DEF ToldOf, Waits, KeepsQEvent, Left, Taken

\* A task in line that is answered.
LEMMA PendedAnswered ==
  ASSUME NEW u \in Tasks, OfTask(u), pc[u] = "pended",
         pc'[u] = "returning", method'[u] = method[u], ask'[u] = ask[u],
         buffer'[u] = buffer[u] \/ method[u] \in Takers,
         register'[u] = register[u], due'[u] = due[u], want'[u] = want[u],
         life = "deleted" => life' = "deleted",
         method[u] \in {"push", "<<"} => status'[u] = "OK" \/ life' = "deleted"
  PROVE  OfTask(u)'
  BY DEF OfTask, CallMeant, EndDue, HandEmpty, WantMeant, Accounted, Answered,
    Dropping, Waits, Senders, Takers, Receivers

\* A task that calls a method of the queue, or of no receive, and is answered
\* or pends.
LEMMA CallOfQueue ==
  ASSUME NEW t \in Tasks, OfTask(t), pc[t] = "ready",
         NEW m, method'[t] = m, m \notin Receivers \cup {"receive_only"},
         pc'[t] \in {"returning", "pended"},
         pc'[t] = "pended" =>
           /\ m \in Senders \cup Takers
           /\ m \in Untimed => timeout'[t] = WAIT_FOREVER,
         m \in Senders =>
           /\ ask'[t].message \in Messages
           /\ ask'[t].pri \in {"MSG_PRI_NORMAL", "MSG_PRI_URGENT"},
         m \in {"push", "<<"} /\ pc'[t] = "returning" =>
           status'[t] = "OK" \/ life' = "deleted",
         buffer'[t] # NoMessage => pc'[t] = "returning" /\ m \in Takers,
         register[t] \subseteq register'[t], want'[t] = want[t],
         due'[t] \subseteq due[t] \cup register'[t]
  PROVE  OfTask(t)'
  BY DEF OfTask, CallMeant, EndDue, HandEmpty, WantMeant, Accounted, Answered,
    Dropping, Waits

\* The initial states.
LEMMA InitIInv == Init => IInv
<1> HAVE Init
<1>1. Typed
  BY MsgQueueAssumption, TicksAre, EmptySeq DEF Init, EventInit, Typed
<1>2. InLine = {}
  BY <1>1, Lengths DEF Init
<1>3. InLineOnce
  BY <1>2, <1>1, Lengths DEF Init, InLineOnce
<1>4. PendsForAReason
  BY <1>2 DEF Init, EventInit, PendsForAReason
<1>5. \A t \in Tasks : OfTask(t)
  BY DEF Init, EventInit, OfTask, CallMeant, EndDue, HandEmpty, WantMeant,
    Accounted, Answered, Dropping, Waits, Senders, Receivers
<1>6. \A t \in listener : ToldOf(t)
  BY DEF Init
<1> QED
  BY <1>1, <1>3, <1>4, <1>5, <1>6 DEF IInv

(***************************************************************************)
(* Events are sent to the tasks of S while t, which is ready, makes a call *)
(* that is over, or ends.                                                  *)
(***************************************************************************)
LEMMA EventSendKeeps ==
  ASSUME Typed, NEW S \in SUBSET Tasks, NEW evs \in SUBSET Events,
         NEW t \in Tasks, pc[t] = "ready", \A u \in Tasks : OfTask(u),
         \A u \in listener : ToldOf(u),
         NEW s \in [Tasks -> {"OK", "ERROR", "BYTES"}], NEW p,
         EventSend(S, evs, p, s), p[t] \in {"returning", "dead"},
         \A u \in Tasks \ {t} : p[u] = pc[u] /\ s[u] = status[u],
         method'[t] \in
           Methods \ (Receivers \cup {"receive_only", "queue.poll"}),
         \A u \in Tasks \ {t} : method'[u] = method[u] /\ ask'[u] = ask[u],
         life' = life, buffer' = buffer, timeout' = timeout,
         queue' # queue => listener \subseteq S /\ QEvent \in evs
  PROVE  /\ register' \in [Tasks -> SUBSET Events]
         /\ out' \in [Tasks -> SUBSET Events]
         /\ due' \in [Tasks -> SUBSET Events]
         /\ pc' \in [Tasks ->
                 {"ready", "receiving", "pended", "returning", "dead"}]
         /\ status' \in [Tasks -> {"OK", "ERROR", "BYTES"}]
         /\ register[t] \subseteq register'[t]
         /\ t \in S => evs \subseteq register'[t]
         /\ want' = want
         /\ due'[t] \subseteq due[t] \cup register'[t]
         /\ \A u \in Tasks : pc'[u] = "pended" <=> pc[u] = "pended"
         /\ \A u \in Tasks \ {t} : OfTask(u)'
         /\ \A u \in listener : (drained'[u] => drained[u]) => ToldOf(u)'
<1> DEFINE regs  == [u \in Tasks |->
                       register[u] \cup IF u \in S THEN evs ELSE {}]
           Woken == {u \in S :
                       pc[u] = "receiving" /\ Satisfied(want[u], regs[u])}
<1>1. /\ register' = [u \in Tasks |-> IF u \in Woken THEN Left(want[u], regs[u])
                                      ELSE regs[u]]
      /\ out' = [u \in Tasks |-> IF u \in Woken /\ want[u].out
                                 THEN Taken(want[u], regs[u]) ELSE out[u]]
      /\ due' = [u \in Tasks |-> due[u] \cup IF u \in S THEN evs ELSE {}]
      /\ pc' = [u \in Tasks |-> IF u \in Woken THEN "returning" ELSE p[u]]
      /\ status' = [u \in Tasks |-> IF u \in Woken THEN "OK" ELSE s[u]]
      /\ want' = want
  BY DEF EventSend
<1>2. /\ regs \in [Tasks -> SUBSET Events]
      /\ \A u \in Tasks : register[u] \subseteq regs[u]
      /\ QEvent \in evs => \A u \in S : QEvent \in regs[u]
  BY DEF Typed
<1>3. t \notin Woken /\ Woken \subseteq Tasks
  OBVIOUS
<1>4. \A u \in Tasks : /\ due[u] \subseteq Events
                       /\ due'[u] \subseteq due[u] \cup regs[u]
  BY <1>1 DEF Typed
<1>5. \A u \in Woken : pc[u] = "receiving" /\ Satisfied(want[u], regs[u])
  OBVIOUS
<1>6. \A u \in Tasks :
        pc[u] = "receiving" /\ u \notin Woken => ~Satisfied(want[u], regs[u])
  BY DEF OfTask, Answered, WantMeant, Waits, Typed, Satisfied
<1> HIDE DEF regs, Woken
<1>7. /\ register' \in [Tasks -> SUBSET Events]
      /\ out' \in [Tasks -> SUBSET Events] /\ due' \in [Tasks -> SUBSET Events]
  BY <1>1, <1>2 DEF Typed, Left, Taken
<1>8. /\ pc' \in [Tasks ->
              {"ready", "receiving", "pended", "returning", "dead"}]
      /\ status' \in [Tasks -> {"OK", "ERROR", "BYTES"}]
      /\ pc'[t] = p[t] /\ status'[t] = s[t]
      /\ \A u \in Tasks \ {t} :
           IF u \in Woken
             THEN /\ pc[u] = "receiving" /\ pc'[u] = "returning"
                  /\ status'[u] = "OK"
             ELSE pc'[u] = pc[u] /\ status'[u] = status[u]
  BY <1>1, <1>3, <1>5 DEF Typed
<1>9. /\ \A u \in Tasks \ {t} : method'[u] = method[u]
      /\ register[t] \subseteq register'[t] /\ register'[t] = regs[t]
      /\ due'[t] \subseteq due[t] \cup register'[t]
  BY <1>1, <1>2, <1>3, <1>4 DEF Typed
<1>10. ASSUME NEW u \in Tasks \ {t} PROVE OfTask(u)'
  <2>1. OfTask(u)
    OBVIOUS
  <2>2. CASE u \in Woken
    <3>1. CallMeant(u)' /\ EndDue(u)' /\ HandEmpty(u)' /\ WantMeant(u)'
      BY <1>1, <1>8, <1>9, <2>1, <2>2 DEF OfTask, CallMeant, EndDue, HandEmpty,
        WantMeant, Waits, Receivers
    <3>2. Accounted(u)'
      BY <1>1, <1>2, <1>4, <1>5, <1>8, <1>9, <2>1, <2>2 DEF OfTask, Accounted,
        Dropping, WantMeant, Waits, CallMeant, Keeps, Left, Taken
    <3>3. Answered(u)'
      BY <1>1, <1>2, <1>5, <1>8, <1>9, <2>1, <2>2 DEF OfTask, WantMeant, Waits,
        Answered, Satisfied, Taken
    <3> QED
      BY <3>1, <3>2, <3>3 DEF OfTask
  <2>3. CASE u \notin Woken
    <3>1. CallMeant(u)' /\ EndDue(u)' /\ HandEmpty(u)' /\ WantMeant(u)'
      BY <1>1, <1>8, <1>9, <2>1, <2>3 DEF OfTask, CallMeant, EndDue, HandEmpty,
        WantMeant, Waits
    <3>2. Accounted(u)'
      BY <1>1, <1>2, <1>4, <1>8, <1>9, <2>1, <2>3 DEF OfTask, Accounted,
        Dropping
    <3>3. Answered(u)'
      BY <1>1, <1>2, <1>6, <1>8, <1>9, <2>1, <2>3 DEF OfTask, WantMeant, Waits,
        Answered, Satisfied
    <3> QED
      BY <3>1, <3>2, <3>3 DEF OfTask
  <2> QED
    BY <2>2, <2>3
<1>11. ASSUME NEW u \in listener, drained'[u] => drained[u] PROVE ToldOf(u)'
  <2>1. /\ u \in Tasks /\ OfTask(u) /\ ToldOf(u)
        /\ queue' = queue \/ QEvent \in regs[u]
    BY <1>2 DEF Typed
  <2>2. CASE u \in Woken
    BY <1>1, <1>2, <1>3, <1>5, <1>8, <1>9, <1>11, <2>1, <2>2 DEF OfTask,
      WantMeant, Waits, CallMeant, ToldOf, KeepsQEvent, Left, Taken, Receivers
  <2>3. CASE u = t
    BY <1>1, <1>2, <1>3, <1>8, <1>9, <1>11, <2>1, <2>3 DEF ToldOf, Waits,
      OfTask, WantMeant
  <2>4. CASE u # t /\ u \notin Woken
    BY <1>1, <1>2, <1>8, <1>9, <1>11, <2>1, <2>4 DEF ToldOf, Waits,
      KeepsQEvent, Left, Taken
  <2> QED
    BY <2>2, <2>3, <2>4
<1>12. \A u \in Tasks : pc'[u] = "pended" <=> pc[u] = "pended"
  BY <1>3, <1>5, <1>8
<1>13. t \in S => evs \subseteq register'[t]
  BY <1>9 DEF regs
<1> QED
  BY <1>1, <1>7, <1>8, <1>9, <1>10, <1>11, <1>12, <1>13

(***************************************************************************)
(* The calls of the queue.                                                 *)
(***************************************************************************)

\* A task that is ready is not in line and has no message in hand.
LEMMA ReadyTask ==
  ASSUME IInv, NEW t \in Tasks, pc[t] = "ready"
  PROVE  /\ t \notin InLine /\ buffer[t] = NoMessage /\ method[t] = "none"
         /\ \A i \in 1 .. Len(line) : line[i].task # t /\ line[i].task \in Tasks
  BY DEF IInv, Typed, PendsForAReason, OfTask, HandEmpty, CallMeant, InLine

\* A task in line is in a call of the queue; it sends if the queue is not empty.
LEMMA TaskInLine ==
  ASSUME IInv, NEW i \in 1 .. Len(line)
  PROVE  /\ line[i].task \in Tasks /\ line[i].task \in InLine
         /\ pc[line[i].task] = "pended" /\ life = "live"
         /\ IF queue = <<>> THEN method[line[i].task] \in Takers
            ELSE method[line[i].task] \in Senders /\ Len(queue) = MaxMsgs
         /\ buffer[line[i].task] = NoMessage /\ line # <<>>
<1>1. line[i].task \in InLine /\ InLine # {}
  BY DEF InLine
<1>2. line # <<>> /\ (empty <=> queue = <<>>)
  BY <1>1, Lengths DEF IInv
<1> QED
  BY <1>1, <1>2, MsgQueueAssumption DEF IInv, PendsForAReason, OfTask,
    CallMeant,
    HandEmpty, empty, numMsgs

\* A call of t that is answered at once, with no message: the line, the queue
\* and the events stay.
LEMMA AnswerKeeps ==
  ASSUME IInv, NEW t \in Tasks, pc[t] = "ready", NEW m \in Methods,
         m \notin Receivers \cup {"receive_only"}, NEW s \in {"OK", "ERROR"},
         method' = [method EXCEPT ![t] = m], Returns(t, s),
         \A u \in Tasks \ {t} : ask'[u] = ask[u],
         m \in Senders =>
           /\ ask'[t].message \in Messages
           /\ ask'[t].pri \in {"MSG_PRI_NORMAL", "MSG_PRI_URGENT"},
         m \in {"push", "<<"} => life = "deleted" \/ s = "OK",
         m = "queue.poll" => life = "deleted" \/ empty,
         listener' \subseteq listener \cup {t},
         life = "deleted" => listener' = {},
         t \in listener' => t \in listener \/ ~drained'[t],
         \A u \in Tasks \ {t} : drained'[u] = drained[u],
         drained'[t] => drained[t],
         UNCHANGED <<object, queue, line, buffer, register_vars, due, timeout>>
  PROVE  IInv'
<1>1. /\ scene' = scene /\ life' = life /\ queue' = queue /\ line' = line
      /\ buffer' = buffer /\ register' = register /\ want' = want /\ out' = out
      /\ due' = due /\ timeout' = timeout
  BY DEF object, register_vars
<1>2. /\ pc'[t] = "returning" /\ status'[t] = s /\ method'[t] = m
      /\ \A u \in Tasks \ {t} : /\ pc'[u] = pc[u] /\ status'[u] = status[u]
                                /\ method'[u] = method[u] /\ ask'[u] = ask[u]
  BY DEF Returns, IInv, Typed
<1>3. Typed'
  BY <1>1 DEF IInv, Typed, Returns
<1>4. InLine' = InLine /\ empty' = empty /\ numMsgs' = numMsgs
  BY <1>1 DEF InLine, empty, numMsgs
<1>5. InLineOnce'
  BY ReadyTask, <1>1, <1>2 DEF IInv, InLineOnce
<1>6. PendsForAReason'
  BY ReadyTask, <1>1, <1>2, <1>4 DEF IInv, PendsForAReason
<1>7. OfTask(t)'
  BY ReadyTask, CallOfQueue, <1>1, <1>2 DEF IInv
<1>8. \A u \in Tasks \ {t} : OfTask(u)'
  BY Untouched, <1>1, <1>2 DEF IInv
<1>9. \A u \in listener' : ToldOf(u)'
  <2> TAKE u \in listener'
  <2>1. CASE u = t
    BY Lengths, <1>1, <1>2, <2>1 DEF IInv, ToldOf, OfTask, WantMeant, Waits
  <2>2. CASE u # t
    BY UntoldStays, <1>1, <1>2, <2>2 DEF IInv, Typed
  <2> QED
    BY <2>1, <2>2
<1> QED
  BY <1>3, <1>5, <1>6, <1>7, <1>8, <1>9 DEF IInv

\* t is answered for good, and so is the task r whose place in line is i: a
\* message is handed over, or taken so that that of a sender moves up.
LEMMA MeetKeeps ==
  ASSUME IInv, NEW t \in Tasks, pc[t] = "ready",
         NEW i \in 1 .. Len(line), NEW r \in Tasks, line[i].task = r,
         method' \in [Tasks -> Methods \cup {"none"}],
         \A u \in Tasks \ {t} : method'[u] = method[u],
         method'[t] \in Senders \cup Takers,
         method'[t] \in Senders =>
           /\ ask'[t].message \in Messages
           /\ ask'[t].pri \in {"MSG_PRI_NORMAL", "MSG_PRI_URGENT"}
           /\ status'[t] = "OK",
         \A u \in Tasks \ {t} : ask'[u] = ask[u],
         method[r] \in Senders => status'[r] = "OK",
         status'[t] \in {"OK", "BYTES"}, status'[r] \in {"OK", "BYTES"},
         status' \in [Tasks -> {"OK", "ERROR", "BYTES"}],
         \A u \in Tasks \ {t, r} : status'[u] = status[u],
         buffer' \in [Tasks -> Messages \cup {NoMessage}],
         \A u \in Tasks \ {t, r} : buffer'[u] = buffer[u],
         method'[t] \notin Takers => buffer'[t] = buffer[t],
         method[r] \notin Takers => buffer'[r] = buffer[r],
         line' = Without(i),
         pc' \in [Tasks ->
              {"ready", "receiving", "pended", "returning", "dead"}],
         pc'[t] = "returning", pc'[r] = "returning",
         \A u \in Tasks \ {t, r} : pc'[u] = pc[u],
         queue' \in Seq(Messages), Len(queue') = Len(queue),
         queue = <<>> => queue' = <<>>,
         UNCHANGED <<object, listener, timeout, register_vars, due, drained>>
  PROVE  IInv'
<1>1. /\ scene' = scene /\ life' = life /\ listener' = listener
      /\ register' = register /\ want' = want /\ out' = out
      /\ due' = due /\ timeout' = timeout /\ drained' = drained
  BY DEF object, register_vars
<1>2. r # t /\ pc[r] = "pended" /\ r \in InLine
  BY ReadyTask, TaskInLine
<1>3. /\ pc'[t] = "returning" /\ pc'[r] = "returning" /\ method'[r] = method[r]
      /\ \A u \in Tasks \ {t, r} :
           /\ pc'[u] = pc[u] /\ status'[u] = status[u] /\ method'[u] = method[u]
           /\ ask'[u] = ask[u]
      /\ ask'[r] = ask[r]
  BY <1>2 DEF IInv, Typed
<1>4. /\ line' \in Seq(Calls) /\ line # <<>>
      /\ \A a, b \in 1 .. Len(line') : a # b => line'[a].task # line'[b].task
      /\ InLine' = InLine \ {r}
      /\ \A a \in 1 .. Len(line') : \E b \in 1 .. Len(line) :
              b # i /\ line'[a] = line[b]
  BY LineShrinks DEF IInv, Typed, InLineOnce, Calls
<1>5. Typed'
  BY <1>1, <1>4 DEF IInv, Typed, Methods, Calls
<1>6. InLineOnce'
  <2>1. \A b \in 1 .. Len(line) : b # i => line[b].task \in Tasks \ {t, r}
    BY ReadyTask DEF IInv, InLineOnce
  <2>2. \A a \in 1 .. Len(line') :
          method'[line'[a].task] \in Senders =>
            /\ ask'[line'[a].task].message = line'[a].message
            /\ ask'[line'[a].task].pri = line'[a].pri
    <3> TAKE a \in 1 .. Len(line')
    <3>1. PICK b \in 1 .. Len(line) : b # i /\ line'[a] = line[b]
      BY <1>4
    <3>2. line[b].task \in Tasks \ {t, r}
      BY <2>1, <3>1
    <3> QED
      BY <1>3, <3>1, <3>2 DEF IInv, InLineOnce
  <2> QED
    BY <1>1, <1>4, <2>2 DEF IInv, InLineOnce
<1>7. PendsForAReason'
  <2>1. InLine' = {u \in Tasks : pc'[u] = "pended"}
    <3>1. \A u \in Tasks : pc'[u] = "pended" <=> pc[u] = "pended" /\ u # r
      BY <1>2, <1>3
    <3>2. InLine = {u \in Tasks : pc[u] = "pended"}
      BY DEF IInv, PendsForAReason
    <3> QED
      BY <1>4, <3>1, <3>2
  <2>2. line' # <<>> => life' = "live"
    BY TaskInLine, <1>1
  <2>3. \A u \in InLine' : u \in Tasks \ {t, r} /\ u \in InLine
    BY ReadyTask, <1>4 DEF IInv, PendsForAReason
  <2> QED
    BY <1>3, <2>1, <2>2, <2>3 DEF IInv, PendsForAReason, empty, numMsgs
<1>8. OfTask(t)'
  <2>1. buffer'[t] # NoMessage => method'[t] \in Takers
    BY ReadyTask
  <2>2. method'[t] \notin Receivers \cup {"receive_only"}
    BY DEF Senders, Takers, Receivers
  <2>3. method'[t] \in {"push", "<<"} => status'[t] = "OK"
    BY <1>3 DEF Senders
  <2>4. OfTask(t)
    BY DEF IInv
  <2> QED
    BY CallOfQueue, <1>1, <1>3, <2>1, <2>2, <2>3, <2>4
<1>9. OfTask(r)'
  <2>1. method[r] \in {"push", "<<"} => status'[r] = "OK"
    BY <1>3 DEF Senders
  <2>2. OfTask(r)
    BY DEF IInv
  <2>3. buffer'[r] = buffer[r] \/ method[r] \in Takers
    OBVIOUS
  <2> QED
    BY PendedAnswered, <1>1, <1>2, <1>3, <2>1, <2>2, <2>3
<1>10. \A u \in Tasks \ {t, r} : OfTask(u)'
  <2> TAKE u \in Tasks \ {t, r}
  <2>1. OfTask(u)
    BY DEF IInv
  <2> QED
    BY Untouched, <1>1, <1>3, <2>1
<1>11. \A u \in listener' : ToldOf(u)'
  <2> TAKE u \in listener'
  <2>1. u \in Tasks /\ ToldOf(u)
    BY <1>1 DEF IInv, Typed
  <2>2. CASE u = t
    BY <1>1, <1>3, <2>1, <2>2 DEF IInv, ToldOf, OfTask, WantMeant, Waits
  <2>3. CASE u = r
    BY <1>1, <1>2, <1>3, <2>1, <2>3 DEF IInv, ToldOf, OfTask, WantMeant,
      Waits
  <2>4. CASE u \notin {t, r}
    BY <1>1, <1>3, <2>1, <2>4 DEF ToldOf, Waits, KeepsQEvent, Left, Taken
  <2> QED
    BY <2>2, <2>3, <2>4
<1> QED
  BY <1>5, <1>6, <1>7, <1>8, <1>9, <1>10, <1>11 DEF IInv

\* t joins the line.
LEMMA PendKeeps ==
  ASSUME IInv, NEW t \in Tasks, pc[t] = "ready",
         method'[t] \in Senders \cup Takers,
         NEW c \in Calls, line' = Append(line, c), c.task = t, life = "live",
         method'[t] \in Senders => Len(queue) = MaxMsgs,
         method'[t] \notin Senders => Len(queue) = 0,
         method'[t] \in Untimed => timeout'[t] = WAIT_FOREVER,
         method' \in [Tasks -> Methods \cup {"none"}],
         \A u \in Tasks \ {t} : method'[u] = method[u],
         method'[t] \in Senders => /\ ask'[t].message = c.message
                                  /\ c.message \in Messages
                                  /\ ask'[t].pri = c.pri,
         \A u \in Tasks \ {t} : ask'[u] = ask[u],
         pc' \in [Tasks ->
              {"ready", "receiving", "pended", "returning", "dead"}],
         pc'[t] = "pended", \A u \in Tasks \ {t} : pc'[u] = pc[u],
         \A u \in Tasks \ {t} : timeout'[u] = timeout[u],
         UNCHANGED status,
         UNCHANGED <<object, listener, queue, buffer, register_vars, due,
                     drained>>
  PROVE  IInv'
<1>1. /\ scene' = scene
      /\ life' = life
      /\ queue' = queue
      /\ listener' = listener
      /\ register' = register /\ want' = want /\ out' = out /\ buffer' = buffer
      /\ due' = due /\ drained' = drained /\ status' = status
  BY DEF object, register_vars
<1>2. /\ pc'[t] = "pended"
      /\ \A u \in Tasks \ {t} : /\ pc'[u] = pc[u] /\ timeout'[u] = timeout[u]
                                /\ method'[u] = method[u] /\ ask'[u] = ask[u]
  OBVIOUS
<1>3. c.pri \in {"MSG_PRI_NORMAL", "MSG_PRI_URGENT"}
  BY DEF Calls
<1>4. /\ line' \in Seq(Calls)
      /\ \A a, b \in 1 .. Len(line') : a # b => line'[a].task # line'[b].task
      /\ InLine' = InLine \cup {t}
      /\ \A a \in 1 .. Len(line') :
           line'[a] = c \/ \E b \in 1 .. Len(line) : line'[a] = line[b]
  BY <1>3, LineGrows, ReadyTask DEF IInv, Typed, InLineOnce, Calls
<1>5. Typed'
  BY <1>1, <1>4 DEF IInv, Typed, Calls
<1>6. InLineOnce'
  <2>1. \A b \in 1 .. Len(line) : line[b].task \in Tasks \ {t}
    BY ReadyTask
  <2> QED
    BY <1>1, <1>2, <1>3, <1>4, <2>1 DEF IInv, InLineOnce
<1>7. PendsForAReason'
  <2>1. \A u \in InLine : u # t /\ u \in Tasks
    BY ReadyTask DEF IInv, PendsForAReason
  <2>2. InLine' = {u \in Tasks : pc'[u] = "pended"}
    <3>1. \A u \in Tasks : pc'[u] = "pended" <=> pc[u] = "pended" \/ u = t
      BY <1>2
    <3>2. InLine = {u \in Tasks : pc[u] = "pended"}
      BY DEF IInv, PendsForAReason
    <3> QED
      BY <1>4, <3>1, <3>2
  <2>3. \A u \in InLine' :
          IF method'[u] \in Senders THEN numMsgs' = MaxMsgs ELSE empty'
    <3> TAKE u \in InLine'
    <3>1. CASE u = t
      BY <1>1, <1>2, <3>1 DEF empty, numMsgs
    <3>2. CASE u # t
      BY <1>1, <1>2, <1>4, <2>1, <3>2 DEF IInv, PendsForAReason, empty, numMsgs
    <3> QED
      BY <3>1, <3>2
  <2> QED
    BY <1>1, <2>2, <2>3 DEF PendsForAReason
<1>8. OfTask(t)'
  <2>1. /\ method'[t] \notin Receivers \cup {"receive_only"}
        /\ method'[t] \in Methods
    BY DEF Senders, Takers, Receivers, Methods
  <2>2. OfTask(t) /\ buffer'[t] = NoMessage
    BY ReadyTask, <1>1 DEF IInv
  <2> QED
    BY CallOfQueue, <1>1, <1>2, <1>3, <2>1, <2>2
<1>9. \A u \in Tasks \ {t} : OfTask(u)'
  <2> TAKE u \in Tasks \ {t}
  <2>1. OfTask(u)
    BY DEF IInv
  <2> QED
    BY Untouched, <1>1, <1>2, <2>1
<1>10. \A u \in listener' : ToldOf(u)'
  <2> TAKE u \in listener'
  <2>1. u \in Tasks /\ ToldOf(u)
    BY <1>1 DEF IInv, Typed
  <2>2. CASE u = t
    BY <1>1, <1>2, <2>1, <2>2 DEF ToldOf, Waits
  <2>3. CASE u # t
    BY UntoldStays, <1>1, <1>2, <2>1, <2>3
  <2> QED
    BY <2>2, <2>3
<1> QED
  BY <1>5, <1>6, <1>7, <1>8, <1>9, <1>10 DEF IInv

\* What is in the queue: a send that is no more than this puts it there.
LEMMA PutKeeps ==
  ASSUME IInv, NEW t \in Tasks, pc[t] = "ready", NEW m \in Senders,
         NEW x \in Messages, NEW pri, line = <<>>, Len(queue) < MaxMsgs,
         method' = [method EXCEPT ![t] = m],
         ask'[t].message \in Messages,
         ask'[t].pri \in {"MSG_PRI_NORMAL", "MSG_PRI_URGENT"},
         \A u \in Tasks \ {t} : ask'[u] = ask[u],
         queue' = Placed(queue, x, pri),
         EventSend(listener, {QEvent}, [pc EXCEPT ![t] = "returning"],
                   [status EXCEPT ![t] = "OK"]),
         listener' \subseteq listener,
         UNCHANGED <<object, line, buffer, timeout, drained>>
  PROVE  IInv'
<1>1. /\ scene' = scene /\ life' = life /\ line' = line
      /\ buffer' = buffer /\ timeout' = timeout /\ drained' = drained
  BY DEF object
<1>2. /\ m \in Methods /\ m \notin Receivers \cup {"receive_only", "queue.poll"}
      /\ {QEvent} \subseteq Events /\ "OK" \in {"OK", "ERROR", "BYTES"}
  BY MsgQueueAssumption DEF Senders, Receivers, Methods
<1>3. /\ register' \in [Tasks -> SUBSET Events]
      /\ out' \in [Tasks -> SUBSET Events] /\ due' \in [Tasks -> SUBSET Events]
      /\ pc' \in [Tasks ->
              {"ready", "receiving", "pended", "returning", "dead"}]
      /\ status' \in [Tasks -> {"OK", "ERROR", "BYTES"}]
      /\ pc'[t] = "returning" /\ status'[t] = "OK"
      /\ register[t] \subseteq register'[t] /\ want' = want
      /\ due'[t] \subseteq due[t] \cup register'[t]
      /\ \A u \in Tasks : pc'[u] = "pended" <=> pc[u] = "pended"
      /\ \A u \in Tasks \ {t} : OfTask(u)'
      /\ \A u \in listener' : ToldOf(u)'
  <2> DEFINE s == [status EXCEPT ![t] = "OK"]
             p == [pc EXCEPT ![t] = "returning"]
             evs == {QEvent}
  <2>1. /\ s \in [Tasks -> {"OK", "ERROR", "BYTES"}] /\ s[t] = "OK"
        /\ p[t] = "returning" /\ EventSend(listener, evs, p, s)
        /\ \A u \in Tasks \ {t} : p[u] = pc[u] /\ s[u] = status[u]
        /\ evs \in SUBSET Events /\ QEvent \in evs
    BY <1>2 DEF IInv, Typed
  <2>2. /\ Typed /\ listener \in SUBSET Tasks
        /\ \A u \in Tasks : OfTask(u)
        /\ \A u \in listener : ToldOf(u)
    BY DEF IInv, Typed
  <2>3. /\ method'[t] \in
             Methods \ (Receivers \cup {"receive_only", "queue.poll"})
        /\ \A u \in Tasks \ {t} : method'[u] = method[u]
        /\ queue' # queue => listener \subseteq listener /\ QEvent \in evs
    BY <1>1, <1>2, <2>1 DEF IInv, Typed
  <2>4. pc'[t] = "returning" /\ status'[t] = "OK"
    BY DEF EventSend, IInv, Typed
  <2> HIDE DEF s, p, evs
  <2>5. /\ register' \in [Tasks -> SUBSET Events]
        /\ out' \in [Tasks -> SUBSET Events]
        /\ due' \in [Tasks -> SUBSET Events]
        /\ pc' \in [Tasks ->
                {"ready", "receiving", "pended", "returning", "dead"}]
        /\ status' \in [Tasks -> {"OK", "ERROR", "BYTES"}]
        /\ register[t] \subseteq register'[t] /\ want' = want
        /\ due'[t] \subseteq due[t] \cup register'[t]
        /\ \A u \in Tasks : pc'[u] = "pended" <=> pc[u] = "pended"
    BY EventSendKeeps, <1>1, <1>2, <2>1, <2>2, <2>3
  <2>6. /\ \A u \in Tasks \ {t} : OfTask(u)'
        /\ \A u \in listener : (drained'[u] => drained[u]) => ToldOf(u)'
    BY EventSendKeeps, <1>1, <1>2, <2>1, <2>2, <2>3
  <2> QED
    BY <1>1, <2>4, <2>5, <2>6
<1>4. queue \in Seq(Messages) /\ Len(queue) \in Nat /\ InLine = {}
  BY Lengths DEF IInv, Typed, numMsgs
<1>5. queue' \in Seq(Messages) /\ Len(queue') = Len(queue) + 1
  BY <1>4, PlacedIs
<1>6. Typed'
  <2>1. Len(queue') <= MaxMsgs
    BY <1>4, <1>5, MsgQueueAssumption
  <2> QED
    BY <1>1, <1>2, <1>3, <1>5, <2>1 DEF IInv, Typed
<1>7. InLine' = {} /\ 1 .. Len(line') = {}
  BY <1>1, <1>4, EmptySeq DEF InLine
<1>8. InLineOnce' /\ PendsForAReason'
  BY <1>1, <1>3, <1>4, <1>7 DEF IInv, InLineOnce, PendsForAReason
<1>9. OfTask(t)'
  <2>1. OfTask(t) /\ buffer'[t] = NoMessage /\ method'[t] = m
    BY ReadyTask, <1>1 DEF IInv, Typed
  <2> QED
    BY CallOfQueue, <1>2, <1>3, <2>1
<1> QED
  BY <1>3, <1>6, <1>8, <1>9 DEF IInv

(***************************************************************************)
(* The operations, one by one.                                             *)
(***************************************************************************)

\* The variables that were left out of Typed are functions on the tasks.
Flags ==
  /\ drained \in [Tasks -> BOOLEAN]
  /\ DOMAIN timeout = Tasks /\ DOMAIN ask = Tasks /\ DOMAIN want = Tasks

\* The methods of the queue.
LEMMA MethodsAre ==
  /\ Senders \subseteq Methods /\ Takers \subseteq Methods
  /\ Senders \cap Takers = {}
  /\ (Senders \cup Takers) \cap (Receivers \cup {"receive_only"}) = {}
  BY DEF Senders, Takers, Methods, Receivers

\* Whatever t sends.
LEMMA SendingKeeps ==
  ASSUME IInv, Flags, NEW t \in Tasks, NEW class, NEW m \in Senders,
         NEW x \in Messages,
         NEW n, NEW pri \in {"MSG_PRI_NORMAL", "MSG_PRI_URGENT"},
         m \in Untimed => n = WAIT_FOREVER,
         Sending(t, class, m, x, n, pri, pri)
  PROVE  IInv'
<1>1. /\ pc[t] = "ready" /\ method' = [method EXCEPT ![t] = m] /\ method'[t] = m
      /\ UNCHANGED <<object, drained>>
      /\ ask'[t].message = x /\ ask'[t].pri = pri
      /\ \A u \in Tasks \ {t} : ask'[u] = ask[u]
      /\ msgQSend(t, x, n, pri)
  BY DEF Sending, Enter, IInv, Typed, Flags
<1>0. /\ method' \in [Tasks -> Methods \cup {"none"}]
      /\ \A u \in Tasks \ {t} : method'[u] = method[u]
  BY <1>1, MethodsAre DEF IInv, Typed
<1>2. /\ numMsgs \in Nat /\ (empty <=> queue = <<>>) /\ numMsgs = Len(queue)
      /\ First \subseteq 1 .. Len(line)
      /\ queue \in Seq(Messages) /\ Len(queue) <= MaxMsgs
  BY Lengths DEF IInv, Typed, numMsgs
<1>3. /\ m \in Methods
      /\ m # "queue.poll"
      /\ m \notin Receivers \cup {"receive_only"}
      /\ m \notin Takers
  BY DEF Senders, Takers, Methods, Receivers
<1>4. ASSUME line # <<>>, empty, NEW i \in First,
             buffer' = [buffer EXCEPT ![line[i].task] = x],
             line' = Without(i),
             pc' = [pc EXCEPT ![t] = "returning",
                              ![line[i].task] = "returning"],
             status' = [status EXCEPT ![t] = "OK", ![line[i].task] = "BYTES"],
             UNCHANGED <<queue, listener, timeout, register_vars, due>>
      PROVE  IInv'
  <2>1. PICK r \in Tasks : line[i].task = r /\ method[r] \in Takers
    BY <1>2, <1>4, TaskInLine
  <2>2. r # t /\ method[r] \notin Senders
    BY <1>1, <1>2, <2>1, ReadyTask DEF Takers, Senders
  <2>3. /\ buffer' \in [Tasks -> Messages \cup {NoMessage}]
        /\ \A u \in Tasks \ {r} : buffer'[u] = buffer[u]
    BY <1>4, <2>1 DEF IInv, Typed
  <2>4. UNCHANGED <<object, listener, timeout, register_vars, due, drained>>
    BY <1>1, <1>4
  <2> QED
    <3>1. /\ status'[t] = "OK" /\ status'[r] = "BYTES"
          /\ status' \in [Tasks -> {"OK", "ERROR", "BYTES"}]
          /\ \A u \in Tasks \ {t, r} : status'[u] = status[u]
      BY <1>4, <2>1, <2>2 DEF IInv, Typed
    <3>2. /\ pc' \in [Tasks ->
                  {"ready", "receiving", "pended", "returning", "dead"}]
          /\ pc'[t] = "returning" /\ pc'[r] = "returning"
          /\ \A u \in Tasks \ {t, r} : pc'[u] = pc[u]
      BY <1>4, <2>1, <2>2 DEF IInv, Typed
    <3>3. i \in 1 .. Len(line)
      BY <1>2
    <3> QED
      BY MeetKeeps, <1>0, <1>1, <1>2, <1>3, <1>4, <2>1, <2>2, <2>3, <2>4, <3>1,
        <3>2, <3>3
<1>5. ASSUME ~(line # <<>> /\ empty), numMsgs < MaxMsgs,
             queue' = Placed(queue, x, pri),
             EventSend(listener, {QEvent}, [pc EXCEPT ![t] = "returning"],
                       [status EXCEPT ![t] = "OK"]),
             listener' = IF "EVENTS_SEND_ONCE" \in evOptions THEN {}
                         ELSE listener,
             UNCHANGED <<line, buffer, timeout>>
      PROVE  IInv'
  <2>1. line = <<>>
    <3> SUFFICES ASSUME line # <<>> PROVE FALSE
      OBVIOUS
    <3>1. 1 \in 1 .. Len(line)
      BY EmptySeq DEF IInv, Typed
    <3> QED
      BY <1>2, <1>5, <3>1, TaskInLine, MsgQueueAssumption
  <2>2. /\ UNCHANGED <<object, line, buffer, timeout, drained>>
        /\ listener' \subseteq listener
    BY <1>1, <1>5
  <2> QED
    BY PutKeeps, <1>1, <1>2, <1>5, <2>1, <2>2
<1>6. ASSUME life = "live", numMsgs = MaxMsgs, Pends(t, x, pri, n),
             UNCHANGED <<queue, listener, buffer, register_vars, due>>
      PROVE  IInv'
  <2>1. UNCHANGED <<object, listener, queue, buffer, register_vars, due,
                    drained>>
    BY <1>1, <1>6
  <2>3. /\ pc' \in [Tasks ->
                {"ready", "receiving", "pended", "returning", "dead"}]
        /\ pc'[t] = "pended" /\ \A u \in Tasks \ {t} : pc'[u] = pc[u]
        /\ timeout'[t] = n /\ \A u \in Tasks \ {t} : timeout'[u] = timeout[u]
        /\ UNCHANGED status
    BY <1>6 DEF Pends, IInv, Typed, Flags
  <2>4. PICK c \in Calls : /\ line' = Append(line, c) /\ c.task = t
                           /\ c.message = x /\ c.pri = pri
    BY <1>6 DEF Pends, Calls
  <2>5. /\ method'[t] \in Senders \cup Takers
        /\ method'[t] \in Senders => Len(queue) = MaxMsgs
        /\ method'[t] \notin Senders => Len(queue) = 0
        /\ method'[t] \in Untimed => timeout'[t] = WAIT_FOREVER
    BY <1>1, <1>2, <1>6, <2>3
  <2>6. method'[t] \in Senders => /\ ask'[t].message = c.message
                                  /\ c.message \in Messages
                                  /\ ask'[t].pri = c.pri
    BY <1>1, <2>4
  <2> QED
    BY PendKeeps, <1>0, <1>1, <1>6, <2>1, <2>3, <2>4, <2>5, <2>6
<1>7. ASSUME life = "deleted" \/ (numMsgs = MaxMsgs /\ n = NO_WAIT),
             Returns(t, "ERROR"),
             UNCHANGED <<queue, line, listener, buffer, timeout,
                         register_vars, due>>
      PROVE  IInv'
  <2>1. UNCHANGED <<object, queue, line, buffer, register_vars, due, timeout>>
    BY <1>1, <1>7
  <2>2. m \in {"push", "<<"} => life = "deleted"
    BY <1>7, TicksAre DEF Untimed
  <2>3. /\ listener' \subseteq listener \cup {t}
        /\ life = "deleted" => listener' = {}
        /\ t \in listener' => t \in listener \/ ~drained'[t]
        /\ \A u \in Tasks \ {t} : drained'[u] = drained[u]
        /\ drained'[t] => drained[t]
    BY <1>1, <1>7 DEF IInv, InLineOnce
  <2> QED
    BY AnswerKeeps, <1>1, <1>3, <1>7, <2>1, <2>2, <2>3
<1> QED
  BY <1>1, <1>4, <1>5, <1>6, <1>7 DEF msgQSend

\* Whatever t takes.
LEMMA TakingKeeps ==
  ASSUME IInv, Flags, NEW t \in Tasks, NEW class, NEW m \in Takers, NEW n,
         m \in Untimed => n = WAIT_FOREVER,
         Taking(t, class, m, n)
  PROVE  IInv'
<1>1. /\ pc[t] = "ready" /\ method' = [method EXCEPT ![t] = m] /\ method'[t] = m
      /\ UNCHANGED <<object, listener, drained, register_vars, due>>
      /\ \A u \in Tasks \ {t} : ask'[u] = ask[u]
      /\ ask' = ask /\ msgQReceive(t, n)
  BY DEF Taking, Enter, msgQReceive, IInv, Typed
<1>0. /\ method' \in [Tasks -> Methods \cup {"none"}]
      /\ \A u \in Tasks \ {t} : method'[u] = method[u]
  BY <1>1, MethodsAre DEF IInv, Typed
<1>2. /\ numMsgs \in Nat /\ (empty <=> queue = <<>>) /\ numMsgs = Len(queue)
      /\ First \subseteq 1 .. Len(line)
      /\ queue \in Seq(Messages) /\ Len(queue) <= MaxMsgs
  BY Lengths DEF IInv, Typed, numMsgs
<1>3. /\ m \in Methods
      /\ m \notin Receivers \cup {"receive_only"}
      /\ m \notin Senders
  BY DEF Senders, Takers, Methods, Receivers
<1>4. ASSUME life = "live", ~empty,
             buffer' = [buffer EXCEPT ![t] = Head(queue)],
             UNCHANGED timeout, NEW i \in First,
             queue' = Placed(Tail(queue), line[i].message, line[i].pri),
             line' = Without(i),
             pc' = [pc EXCEPT ![t] = "returning",
                              ![line[i].task] = "returning"],
             status' = [status EXCEPT ![t] = "BYTES", ![line[i].task] = "OK"]
      PROVE  IInv'
  <2>1. PICK r \in Tasks : line[i].task = r /\ method[r] \in Senders
    BY <1>2, <1>4, TaskInLine
  <2>2. r # t /\ method[r] \notin Takers
    BY <1>1, <1>2, <2>1, ReadyTask DEF Takers, Senders
  <2>3. /\ Head(queue) \in Messages /\ Tail(queue) \in Seq(Messages)
        /\ Len(Tail(queue)) = Len(queue) - 1
    BY <1>2, <1>4, HeadTailProperties
  <2>4. /\ buffer' \in [Tasks -> Messages \cup {NoMessage}]
        /\ \A u \in Tasks \ {t} : buffer'[u] = buffer[u]
    BY <1>4, <2>3 DEF IInv, Typed
  <2>5. line[i].message \in Messages
    <3>1. i \in 1 .. Len(line) /\ ask[r].message \in Messages
      BY <1>2, <2>1 DEF IInv, OfTask, CallMeant
    <3> QED
      BY <2>1, <3>1 DEF IInv, InLineOnce
  <2>6. queue' \in Seq(Messages) /\ Len(queue') = Len(queue)
    <3> DEFINE rest == Tail(queue)
    <3>1. /\ rest \in Seq(Messages)
          /\ Len(rest) = Len(queue) - 1
          /\ Len(queue) \in Nat
      BY <1>2, <2>3
    <3>2. queue' = Placed(rest, line[i].message, line[i].pri)
      BY <1>4
    <3> HIDE DEF rest
    <3>3. queue' \in Seq(Messages) /\ Len(queue') = Len(rest) + 1
      BY <2>5, <3>1, <3>2, PlacedIs
    <3> QED
      BY <3>1, <3>3
  <2>7. UNCHANGED <<object, listener, timeout, register_vars, due, drained>>
    BY <1>1, <1>4
  <2> QED
    <3>1. /\ status'[t] = "BYTES" /\ status'[r] = "OK"
          /\ status' \in [Tasks -> {"OK", "ERROR", "BYTES"}]
          /\ \A u \in Tasks \ {t, r} : status'[u] = status[u]
      BY <1>4, <2>1, <2>2 DEF IInv, Typed
    <3>2. /\ pc' \in [Tasks ->
                  {"ready", "receiving", "pended", "returning", "dead"}]
          /\ pc'[t] = "returning" /\ pc'[r] = "returning"
          /\ \A u \in Tasks \ {t, r} : pc'[u] = pc[u]
      BY <1>4, <2>1, <2>2 DEF IInv, Typed
    <3>3. i \in 1 .. Len(line) /\ queue # <<>>
      BY <1>2, <1>4
    <3> QED
      <4>1. /\ pc[t] = "ready" /\ line[i].task = r /\ line' = Without(i)
            /\ method'[t] \in Senders \cup Takers /\ method'[t] \notin Senders
            /\ \A u \in Tasks \ {t} : ask'[u] = ask[u]
        BY <1>1, <1>3, <1>4, <2>1
      <4>2. /\ status'[t] \in {"OK", "BYTES"} /\ status'[r] = "OK"
            /\ \A u \in Tasks \ {t, r} : buffer'[u] = buffer[u]
            /\ buffer'[r] = buffer[r]
            /\ queue = <<>> => queue' = <<>>
        BY <2>2, <2>4, <3>1, <3>3
      <4> QED
        BY MeetKeeps, <1>0, <1>3, <2>4, <2>6, <2>7, <3>1, <3>2, <3>3, <4>1,
          <4>2
<1>5. ASSUME life = "live", ~empty,
             buffer' = [buffer EXCEPT ![t] = Head(queue)],
             UNCHANGED timeout, line = <<>>, queue' = Tail(queue),
             Returns(t, "BYTES"), UNCHANGED line
      PROVE  IInv'
  <2>1. /\ Head(queue) \in Messages /\ Tail(queue) \in Seq(Messages)
        /\ Len(Tail(queue)) = Len(queue) - 1
    BY <1>2, <1>5, HeadTailProperties
  <2>2. /\ scene' = scene
        /\ life' = life
        /\ listener' = listener
        /\ line' = line
        /\ register' = register /\ want' = want /\ out' = out /\ ask' = ask
        /\ due' = due /\ timeout' = timeout /\ drained' = drained
    BY <1>1, <1>5 DEF object, register_vars
  <2>3. /\ pc'[t] = "returning" /\ status'[t] = "BYTES" /\ method'[t] = m
        /\ \A u \in Tasks \ {t} : /\ pc'[u] = pc[u] /\ status'[u] = status[u]
                                  /\ method'[u] = method[u]
                                  /\ buffer'[u] = buffer[u]
    BY <1>1, <1>5 DEF Returns, IInv, Typed
  <2>4. Typed'
    <3>1. /\ buffer' \in [Tasks -> Messages \cup {NoMessage}]
          /\ Len(queue') <= MaxMsgs
      BY <1>2, <1>5, <2>1, MsgQueueAssumption DEF IInv, Typed
    <3> QED
      BY <1>1, <1>3, <1>5, <2>1, <2>2, <3>1 DEF IInv, Typed, Returns
  <2>5. InLine = {} /\ InLine' = {} /\ 1 .. Len(line') = {}
    BY <1>5, <2>2, EmptySeq, Lengths DEF IInv, InLine
  <2>6. InLineOnce' /\ PendsForAReason'
    BY <1>1, <1>5, <2>2, <2>3, <2>5 DEF IInv, InLineOnce, PendsForAReason
  <2>7. OfTask(t)'
    <3>1. m \notin {"push", "<<"} /\ OfTask(t)
      BY <1>3 DEF Senders, IInv
    <3> QED
      BY <1>1, <1>3, <2>2, <2>3, <3>1, CallOfQueue
  <2>8. \A u \in Tasks \ {t} : OfTask(u)'
    BY Untouched, <2>2, <2>3 DEF IInv
  <2>9. \A u \in listener' : ToldOf(u)'
    <3> TAKE u \in listener'
    <3>1. u \in Tasks /\ ToldOf(u) /\ queue # <<>>
      BY <1>2, <1>5, <2>2 DEF IInv, Typed
    <3>2. CASE u = t
      BY <1>1, <2>2, <2>3, <3>1, <3>2 DEF ToldOf, Waits, IInv, OfTask,
        WantMeant
    <3>3. CASE u # t
      BY UntoldStays, <2>2, <2>3, <3>1, <3>3
    <3> QED
      BY <3>2, <3>3
  <2> QED
    BY <2>4, <2>6, <2>7, <2>8, <2>9 DEF IInv
<1>6. ASSUME life = "live", empty, Pends(t, NoMessage, "MSG_PRI_NORMAL", n),
             UNCHANGED <<queue, buffer>>
      PROVE  IInv'
  <2>1. UNCHANGED <<object, listener, queue, buffer, register_vars, due,
                    drained>>
    BY <1>1, <1>6
  <2>2. Len(queue) = 0 /\ \A u \in Tasks \ {t} : ask'[u] = ask[u]
    BY <1>1, <1>2, <1>6 DEF empty
  <2>3. /\ pc' \in [Tasks ->
                {"ready", "receiving", "pended", "returning", "dead"}]
        /\ pc'[t] = "pended" /\ \A u \in Tasks \ {t} : pc'[u] = pc[u]
        /\ timeout'[t] = n /\ \A u \in Tasks \ {t} : timeout'[u] = timeout[u]
        /\ UNCHANGED status
    BY <1>6 DEF Pends, IInv, Typed, Flags
  <2>4. PICK c \in Calls : /\ line' = Append(line, c) /\ c.task = t
                           /\ c.message = NoMessage /\ c.pri = "MSG_PRI_NORMAL"
    BY <1>6 DEF Pends, Calls
  <2>5. /\ method'[t] \in Senders \cup Takers /\ method'[t] \notin Senders
        /\ method'[t] \in Untimed => timeout'[t] = WAIT_FOREVER
    BY <1>1, <1>3, <2>3
  <2> QED
    BY PendKeeps, <1>0, <1>1, <1>6, <2>1, <2>2, <2>3, <2>4, <2>5
<1>7. ASSUME life = "deleted" \/ (empty /\ n = NO_WAIT), Returns(t, "ERROR"),
             UNCHANGED <<queue, line, buffer, timeout>>
      PROVE  IInv'
  <2>1. UNCHANGED <<object, queue, line, buffer, register_vars, due, timeout>>
    BY <1>1, <1>7
  <2>2. m \notin {"push", "<<"} /\ \A u \in Tasks \ {t} : ask'[u] = ask[u]
    BY <1>1 DEF Takers
  <2>3. /\ listener' \subseteq listener \cup {t}
        /\ life = "deleted" => listener' = {}
        /\ t \in listener' => t \in listener \/ ~drained'[t]
        /\ \A u \in Tasks \ {t} : drained'[u] = drained[u]
        /\ drained'[t] => drained[t]
    BY <1>1 DEF IInv, InLineOnce
  <2> QED
    BY AnswerKeeps, <1>1, <1>3, <1>7, <2>1, <2>2, <2>3
<1> QED
  BY <1>1, <1>4, <1>5, <1>6, <1>7 DEF msgQReceive

(***************************************************************************)
(* What t calls of the queue: it sends x, or takes a message, with timeout *)
(* n.                                                                      *)
(***************************************************************************)
Sends(t, class, m, x, n, pri) ==
  /\ Sending(t, class, m, x, n, pri, pri) /\ m \in Senders
  /\ x \in Messages /\ pri \in {"MSG_PRI_NORMAL", "MSG_PRI_URGENT"}
  /\ m \in Untimed => n = WAIT_FOREVER

Takes(t, class, m, n) ==
  /\ Taking(t, class, m, n) /\ m \in Takers
  /\ m \in Untimed => n = WAIT_FOREVER

\* Every send of the queue is one of these.
LEMMA SendStepIs ==
  ASSUME NEW t, SendStep(t)
  PROVE  \E class, m, x, n, pri : Sends(t, class, m, x, n, pri)
<1>1. ASSUME NEW x \in Messages, NEW n \in Timeouts, NEW pri \in Priorities,
             msgQ_send(t, x, n, pri) \/ queue_send(t, x, n, pri)
      PROVE  \/ Sends(t, "msgQ", "timed send", x, n, pri)
             \/ Sends(t, "queue", "timed send", x, n, pri)
  BY <1>1, MsgQueueAssumption DEF msgQ_send, queue_send, Sends, Senders, Untimed
<1>2. ASSUME NEW x \in Messages, NEW d \in Durations, queue_send_for(t, x, d)
      PROVE  Sends(t, "queue", "timed send", x, chrono2tic(d), N)
  BY <1>2 DEF queue_send_for, Sends, Senders, Untimed, N
<1>3. ASSUME NEW x \in Messages, \/ msgQ_send_forever(t, x) \/ push(t, x)
                                 \/ queue_send_forever(t, x) \/ op_send(t, x)
      PROVE  \/ Sends(t, "msgQ", "send", x, WAIT_FOREVER, N)
             \/ Sends(t, "queue", "send", x, WAIT_FOREVER, N)
             \/ Sends(t, "queue", "push", x, WAIT_FOREVER, N)
             \/ Sends(t, "queue", "<<", x, WAIT_FOREVER, N)
  BY <1>3 DEF msgQ_send_forever, queue_send_forever, push, op_send, Sends,
    Senders,
    N
<1> QED
  BY <1>1, <1>2, <1>3 DEF SendStep

\* And every receive.
LEMMA TakeStepIs ==
  ASSUME NEW t, TakeStep(t)
  PROVE  \E class, m, n : Takes(t, class, m, n)
<1>1. ASSUME NEW n \in Timeouts, msgQ_recieve(t, n) \/ queue_recieve(t, n)
      PROVE  \/ Takes(t, "msgQ", "timed recieve", n)
             \/ Takes(t, "queue", "timed recieve", n)
  BY <1>1 DEF msgQ_recieve, queue_recieve, Takes, Takers, Untimed
<1>2. ASSUME NEW d \in Durations,
             msgQ_recieve_for(t, d) \/ queue_recieve_for(t, d)
      PROVE  \/ Takes(t, "msgQ", "timed recieve", chrono2tic(d))
             \/ Takes(t, "queue", "timed recieve", chrono2tic(d))
  BY <1>2 DEF msgQ_recieve_for, queue_recieve_for, Takes, Takers, Untimed
<1>3. ASSUME \/ msgQ_recieve_forever(t) \/ queue_recieve_forever(t)
             \/ msgQ_poll(t) \/ queue_poll(t) \/ op_receive(t)
      PROVE  \/ Takes(t, "msgQ", "recieve", WAIT_FOREVER)
             \/ Takes(t, "queue", "recieve", WAIT_FOREVER)
             \/ Takes(t, "msgQ", "queue.poll", NO_WAIT)
             \/ Takes(t, "queue", "queue.poll", NO_WAIT)
             \/ Takes(t, "queue", ">>", WAIT_FOREVER)
  BY <1>3 DEF msgQ_recieve_forever, queue_recieve_forever, msgQ_poll,
    queue_poll,
    op_receive, Takes, Takers, Untimed
<1> QED
  BY <1>1, <1>2, <1>3 DEF TakeStep

\* Whatever t calls of the queue.
LEMMA QueueCallKeeps ==
  ASSUME IInv, Flags, NEW t \in Tasks, SendStep(t) \/ TakeStep(t)
  PROVE  IInv'
<1>1. ASSUME NEW class, NEW m, NEW x, NEW n, NEW pri,
             Sends(t, class, m, x, n, pri)
      PROVE  IInv'
  BY <1>1, SendingKeeps DEF Sends
<1>2. ASSUME NEW class, NEW m, NEW n, Takes(t, class, m, n)
      PROVE  IInv'
  BY <1>2, TakingKeeps DEF Takes
<1> QED
  BY <1>1, <1>2, SendStepIs, TakeStepIs

\* t starts listening.
LEMMA RegistersKeeps ==
  ASSUME IInv, Flags, NEW t \in Tasks, pc[t] = "ready", life = "live", NEW o,
         method' = [method EXCEPT ![t] = "eventStart"], Registers(t, o),
         UNCHANGED <<object, queue, line, buffer, timeout, ask>>
  PROVE  IInv'
<1> DEFINE S   == IF "EVENTS_SEND_IF_FREE" \in o /\ ~empty THEN {t} ELSE {}
           evs == {QEvent}
           p   == [pc EXCEPT ![t] = "returning"]
           s   == [status EXCEPT ![t] = "OK"]
<1>1. /\ scene' = scene /\ life' = life /\ queue' = queue /\ line' = line
      /\ buffer' = buffer /\ timeout' = timeout /\ ask' = ask
      /\ listener' \subseteq {t} /\ EventSend(S, evs, p, s)
      /\ drained'[t] => "EVENTS_SEND_IF_FREE" \in o
  BY DEF Registers, object, Flags
<1>2. /\ S \in SUBSET Tasks /\ evs \in SUBSET Events /\ QEvent \in evs
      /\ "EVENTS_SEND_IF_FREE" \in o => queue = <<>> \/ t \in S
      /\ p[t] = "returning" /\ s \in [Tasks -> {"OK", "ERROR", "BYTES"}]
      /\ \A u \in Tasks \ {t} : p[u] = pc[u] /\ s[u] = status[u]
  BY Lengths, MsgQueueAssumption DEF IInv, Typed
<1>3. pc'[t] = "returning"
  BY <1>1, <1>2 DEF EventSend
<1> HIDE DEF S, evs, p, s
<1>4. /\ method'[t] = "eventStart"
      /\ \A u \in Tasks \ {t} : method'[u] = method[u]
      /\ "eventStart" \in
           Methods \ (Receivers \cup {"receive_only", "queue.poll"})
      /\ "eventStart" \notin Senders \cup {"push", "<<"}
  BY DEF Methods, Receivers, Senders, IInv, Typed
<1>5. /\ register' \in [Tasks -> SUBSET Events]
      /\ out' \in [Tasks -> SUBSET Events] /\ due' \in [Tasks -> SUBSET Events]
      /\ pc' \in [Tasks ->
              {"ready", "receiving", "pended", "returning", "dead"}]
      /\ status' \in [Tasks -> {"OK", "ERROR", "BYTES"}]
      /\ register[t] \subseteq register'[t] /\ want' = want
      /\ t \in S => evs \subseteq register'[t]
      /\ due'[t] \subseteq due[t] \cup register'[t]
      /\ \A u \in Tasks : pc'[u] = "pended" <=> pc[u] = "pended"
      /\ \A u \in Tasks \ {t} : OfTask(u)'
  <2>1. /\ Typed /\ \A u \in Tasks : OfTask(u)
        /\ \A u \in listener : ToldOf(u)
    BY DEF IInv
  <2>2. /\ p[t] \in {"returning", "dead"}
        /\ method'[t] \in
             Methods \ (Receivers \cup {"receive_only", "queue.poll"})
    BY <1>2, <1>4
  <2> QED
    BY EventSendKeeps, <1>1, <1>2, <1>4, <2>1, <2>2
<1>6. Typed'
  BY <1>1, <1>4, <1>5 DEF IInv, Typed
<1>7. InLine' = InLine /\ t \notin InLine
      /\ \A i \in 1 .. Len(line) : line[i].task \in Tasks \ {t}
  BY <1>1 DEF InLine, IInv, PendsForAReason
<1>8. InLineOnce'
  BY <1>1, <1>4, <1>7 DEF IInv, InLineOnce
<1>9. PendsForAReason'
  <2>1. InLine = {u \in Tasks : pc[u] = "pended"}
    BY DEF IInv, PendsForAReason
  <2>2. InLine' = {u \in Tasks : pc'[u] = "pended"}
    BY <1>5, <1>7, <2>1
  <2>3. \A u \in InLine : method'[u] = method[u]
    BY <1>4, <1>7, <2>1
  <2> QED
    BY <1>1, <1>7, <2>2, <2>3 DEF IInv, PendsForAReason, empty, numMsgs
<1>10. OfTask(t) /\ buffer[t] = NoMessage
  BY ReadyTask DEF IInv
<1>11. OfTask(t)'
  BY CallOfQueue, <1>1, <1>3, <1>4, <1>5, <1>10
<1>12. \A u \in listener' : ToldOf(u)'
  <2>1. "EVENTS_SEND_IF_FREE" \in o => queue = <<>> \/ QEvent \in register'[t]
    BY <1>2, <1>5
  <2> QED
    BY <1>1, <1>3, <1>4, <1>5, <1>10, <2>1 DEF ToldOf, Waits, OfTask, WantMeant
<1> QED
  BY <1>5, <1>6, <1>8, <1>9, <1>11, <1>12 DEF IInv

\* t starts or stops listening, or is refused.
LEMMA ListenKeeps ==
  ASSUME IInv, Flags, NEW t \in Tasks,
         (\E o \in StartOptions : eventStart(t, o)) \/ eventStop(t)
  PROVE  IInv'
<1>1. ASSUME NEW m \in {"eventStart", "eventStop"}, NEW s \in {"OK", "ERROR"},
             pc[t] = "ready", method' = [method EXCEPT ![t] = m],
             Returns(t, s), listener' \subseteq listener, drained' = drained,
             UNCHANGED <<object, queue, line, buffer, register_vars, due,
                         timeout, ask>>
      PROVE  IInv'
  <2>1. /\ m \in Methods /\ m \notin Receivers \cup {"receive_only"}
        /\ m \notin Senders /\ m \notin {"push", "<<"} /\ m # "queue.poll"
    BY DEF Methods, Senders, Receivers
  <2>2. /\ listener' \subseteq listener \cup {t}
        /\ life = "deleted" => listener' = {}
        /\ t \in listener' => t \in listener \/ ~drained'[t]
        /\ \A u \in Tasks \ {t} : drained'[u] = drained[u] /\ ask'[u] = ask[u]
        /\ drained'[t] => drained[t]
    BY <1>1 DEF IInv, InLineOnce
  <2> QED
    BY <1>1, <2>1, <2>2, AnswerKeeps
<1>2. ASSUME NEW o, eventStart(t, o)
      PROVE  IInv'
  <2>1. CASE /\ life = "live"
             /\ listener \subseteq {t} \/ "EVENTS_ALLOW_OVERWRITE" \in evOptions
    BY <1>2, <2>1, RegistersKeeps DEF eventStart
  <2>2. CASE ~(/\ life = "live"
               /\ \/ listener \subseteq {t}
                  \/ "EVENTS_ALLOW_OVERWRITE" \in evOptions)
    BY <1>1, <1>2, <2>2 DEF eventStart
  <2> QED
    BY <2>1, <2>2
<1>3. CASE eventStop(t)
  <2>1. PICK s \in {"OK", "ERROR"} : Returns(t, s)
    BY <1>3 DEF eventStop
  <2> QED
    BY <1>1, <1>3, <2>1 DEF eventStop
<1> QED
  BY <1>2, <1>3

(***************************************************************************)
(* A step of t alone, with the line and the queue as they were.            *)
(***************************************************************************)
LEMMA AloneKeeps ==
  ASSUME IInv, NEW t \in Tasks, Typed', OfTask(t)', pc[t] # "pended",
         pc'[t] # "pended", method'[t] \notin Senders \/ method'[t] = method[t],
         line' = line, queue' = queue, life' = life, listener' = listener,
         \A u \in Tasks \ {t} :
           /\ pc'[u] = pc[u] /\ status'[u] = status[u] /\ method'[u] = method[u]
           /\ ask'[u] = ask[u] /\ timeout'[u] = timeout[u]
           /\ buffer'[u] = buffer[u] /\ register'[u] = register[u]
           /\ want'[u] = want[u] /\ out'[u] = out[u] /\ due'[u] = due[u]
           /\ drained'[u] = drained[u],
         t \in listener => ToldOf(t)'
  PROVE  IInv'
<1>1. InLine' = InLine /\ t \notin InLine
      /\ \A i \in 1 .. Len(line) : line[i].task \in Tasks \ {t}
  BY DEF InLine, IInv, PendsForAReason
<1>2. InLineOnce'
  BY <1>1 DEF IInv, InLineOnce
<1>3. PendsForAReason'
  <2>1. \A u \in Tasks : pc'[u] = "pended" <=> pc[u] = "pended"
    OBVIOUS
  <2>2. InLine = {u \in Tasks : pc[u] = "pended"}
    BY DEF IInv, PendsForAReason
  <2>3. InLine' = {u \in Tasks : pc'[u] = "pended"}
    BY <1>1, <2>1, <2>2
  <2>4. \A u \in InLine : method'[u] = method[u]
    BY <1>1, <2>2
  <2> QED
    BY <1>1, <2>3, <2>4 DEF IInv, PendsForAReason, empty, numMsgs
<1>4. \A u \in Tasks \ {t} : OfTask(u)'
  <2> TAKE u \in Tasks \ {t}
  <2>1. OfTask(u)
    BY DEF IInv
  <2> QED
    BY <2>1, Untouched
<1>5. \A u \in listener' : ToldOf(u)'
  <2> TAKE u \in listener'
  <2>1. u \in Tasks /\ ToldOf(u)
    BY DEF IInv, Typed
  <2>2. CASE u # t
    BY <2>1, <2>2, UntoldStays
  <2> QED
    BY <2>2
<1> QED
  BY <1>2, <1>3, <1>4, <1>5 DEF IInv

\* The return of t.
LEMMA ReturnKeeps ==
  ASSUME IInv, Flags, NEW t \in Tasks, return(t)
  PROVE  IInv'
<1>1. /\ pc[t] = "returning" /\ pc'[t] = "ready" /\ method'[t] = "none"
      /\ buffer'[t] = NoMessage /\ due'[t] = DueAfter(t)
      /\ scene' = scene /\ life' = life /\ queue' = queue /\ line' = line
      /\ listener' = listener /\ register' = register
  BY DEF return, object, IInv, Typed
<1>2. \A u \in Tasks \ {t} :
        /\ pc'[u] = pc[u] /\ status'[u] = status[u] /\ method'[u] = method[u]
        /\ ask'[u] = ask[u] /\ timeout'[u] = timeout[u]
        /\ buffer'[u] = buffer[u] /\ register'[u] = register[u]
        /\ want'[u] = want[u] /\ out'[u] = out[u] /\ due'[u] = due[u]
        /\ drained'[u] = drained[u]
  BY DEF return, IInv, Typed
<1>3. Typed'
  BY <1>1 DEF return, object, IInv, Typed, DueAfter
<1>4. OfTask(t)'
  <2>1. Accounted(t)'
    BY <1>1 DEF IInv, OfTask, Accounted, DueAfter, Dropping
  <2> QED
    BY <1>1, <2>1 DEF OfTask, CallMeant, EndDue, HandEmpty, WantMeant, Waits,
      Answered, Senders, Receivers, return, Flags
<1>5. t \in listener => ToldOf(t)'
  BY <1>1 DEF return, Flags, IInv, ToldOf, Waits
<1>6. method'[t] \notin Senders
  BY <1>1 DEF Senders
<1> QED
  BY AloneKeeps, <1>1, <1>2, <1>3, <1>4, <1>5, <1>6

\* The end of t.
LEMMA ThrowKeeps ==
  ASSUME IInv, Flags, NEW t \in Tasks, throw(t)
  PROVE  IInv'
<1>1. /\ pc[t] = "returning" /\ pc'[t] = "dead" /\ method' = method
      /\ method[t] \in Throwing /\ status[t] # "OK"
      /\ buffer' = buffer /\ due' = due
      /\ scene' = scene /\ life' = life /\ queue' = queue /\ line' = line
      /\ listener' = listener /\ register' = register /\ drained' = drained
      /\ ask' = ask /\ timeout' = timeout /\ status' = status /\ want' = want
      /\ out' = out
  BY DEF throw, object, queue_vars, register_vars, IInv, Typed
<1>2. \A u \in Tasks \ {t} : pc'[u] = pc[u]
  BY DEF throw, IInv, Typed
<1>3. Typed'
  BY <1>1 DEF throw, IInv, Typed
<1>4. OfTask(t)'
  BY <1>1 DEF IInv, OfTask, CallMeant, EndDue, HandEmpty, WantMeant, Accounted,
    Answered, Dropping, Waits, Throwing, Receivers
<1>5. t \in listener => ToldOf(t)'
  BY <1>1 DEF IInv, ToldOf, Waits
<1> QED
  BY AloneKeeps, <1>1, <1>2, <1>3, <1>4, <1>5

(***************************************************************************)
(* t receives events, with or without success, or waits for them.          *)
(***************************************************************************)
LEMMA ReceiveKeeps ==
  ASSUME IInv, Flags, NEW t \in Tasks,
         NEW m \in Receivers \cup {"receive_only"},
         NEW r \in Requests, NEW n,
         Receives(t, m, r, r.events, r.options, m \in Receivers, n),
         UNCHANGED <<object, queue_vars>>,
         t \in listener /\ QEvent \in r.events => drained[t],
         drained' = [drained EXCEPT ![t] = @ /\ KeepsQEvent(r)]
  PROVE  IInv'
<1> DEFINE w == [events |-> r.events, options |-> r.options,
                 out |-> m \in Receivers]
<1>1. /\ pc[t] = "ready" /\ method' = [method EXCEPT ![t] = m] /\ due' = due
      /\ ask'[t] = r /\ method'[t] = m
      /\ \A u \in Tasks \ {t} : ask'[u] = ask[u] /\ method'[u] = method[u]
      /\ scene' = scene /\ life' = life /\ queue' = queue /\ line' = line
      /\ listener' = listener /\ buffer' = buffer
  BY DEF Receives, object, queue_vars, IInv, Typed, Flags
<1>2. /\ w.events = r.events /\ w.options = r.options
      /\ w.out <=> m \in Receivers
      /\ eventReceiveEx(t, w, n)
  BY DEF Receives
<1>3. m \in Methods /\ m \notin Senders /\ m # "queue.poll" /\ m # "none"
      /\ m \notin Throwing
  BY DEF Methods, EventCalls, Receivers, Senders, Throwing
<1>4. /\ \A u \in Tasks \ {t} : drained'[u] = drained[u]
      /\ drained'[t] <=> drained[t] /\ KeepsQEvent(r)
  BY DEF Flags
<1>5. r.events \subseteq Events /\ register[t] \subseteq Events
  BY EventAssumption DEF IInv, Typed
<1> HIDE DEF w
<1>6. /\ m \notin {"push", "<<"} /\ buffer[t] = NoMessage
      /\ due[t] \subseteq register[t] /\ want[t] = NoWant
  BY <1>1, ReadyTask DEF Receivers, IInv, OfTask, Accounted, Dropping, WantMeant
<1>7. pc'[t] \in {"returning", "receiving"} =>
         CallMeant(t)' /\ EndDue(t)' /\ HandEmpty(t)'
  BY <1>1, <1>3, <1>6 DEF CallMeant, EndDue, HandEmpty
<1>8. CASE /\ "EVENTS_FETCH" \in w.options
           /\ pc' = [pc EXCEPT ![t] = "returning"]
           /\ status' = [status EXCEPT ![t] = "OK"]
           /\ out' = [out EXCEPT ![t] = register[t]]
           /\ UNCHANGED <<register, want, timeout>>
  <2>1. /\ pc'[t] = "returning" /\ register' = register /\ want' = want
        /\ \A u \in Tasks \ {t} :
             /\ pc'[u] = pc[u]
             /\ status'[u] = status[u]
             /\ timeout'[u] = timeout[u]
             /\ buffer'[u] = buffer[u] /\ register'[u] = register[u]
             /\ want'[u] = want[u] /\ out'[u] = out[u] /\ due'[u] = due[u]
    BY <1>1, <1>8 DEF IInv, Typed
  <2>2. Typed'
    BY <1>1, <1>3, <1>5, <1>8 DEF IInv, Typed
  <2>3. OfTask(t)'
    <3>1. Accounted(t)'
      BY <1>1, <1>6, <2>1 DEF Accounted
    <3>2. Answered(t)' /\ WantMeant(t)'
      BY <1>1, <1>2, <1>6, <1>8, <2>1 DEF Answered, WantMeant, Waits
    <3> QED
      BY <1>3, <1>7, <2>1, <3>1, <3>2 DEF OfTask
  <2>4. t \in listener => ToldOf(t)'
    BY <1>1, <1>3, <1>4, <1>6, <2>1 DEF IInv, ToldOf, Waits
  <2> QED
    BY AloneKeeps, <1>1, <1>3, <1>4, <2>1, <2>2, <2>3, <2>4
<1>9. CASE /\ "EVENTS_FETCH" \notin w.options
           /\ \/ Satisfied(w, register[t]) /\ EventAnswer(t, w, "OK")
              \/ EventAnswer(t, w, "ERROR")
           /\ UNCHANGED <<want, timeout>>
  <2>1. PICK s \in {"OK", "ERROR"}, regs \in SUBSET Events :
          /\ s = "OK" => Satisfied(w, register[t])
          /\ pc' = [pc EXCEPT ![t] = "returning"]
          /\ status' = [status EXCEPT ![t] = s]
          /\ out' = [out EXCEPT ![t] =
                        IF w.out THEN Taken(w, register[t]) ELSE {}]
          /\ regs \in {register[t], Left(w, register[t])}
          /\ register' = [register EXCEPT ![t] = regs]
    BY <1>5, <1>9 DEF EventAnswer, Left
  <2>2. /\ pc'[t] = "returning" /\ register'[t] = regs /\ want' = want
        /\ status'[t] = s
        /\ out'[t] = IF w.out THEN Taken(w, register[t]) ELSE {}
        /\ \A u \in Tasks \ {t} :
             /\ pc'[u] = pc[u]
             /\ status'[u] = status[u]
             /\ timeout'[u] = timeout[u]
             /\ buffer'[u] = buffer[u] /\ register'[u] = register[u]
             /\ want'[u] = want[u] /\ out'[u] = out[u] /\ due'[u] = due[u]
    BY <1>1, <1>9, <2>1 DEF IInv, Typed
  <2>3. Taken(w, register[t]) \subseteq Events
    BY <1>5 DEF Taken
  <2>4. Typed'
    BY <1>1, <1>3, <1>5, <2>1, <2>3 DEF IInv, Typed
  <2>5. OfTask(t)'
    <3>1. Accounted(t)'
      BY <1>1, <1>2, <1>5, <2>1, <2>2 DEF IInv, OfTask, Accounted, Dropping,
        Keeps, Left, Taken
    <3>2. Answered(t)'
      BY <1>1, <1>2, <2>1, <2>2 DEF Answered, Satisfied, Taken
    <3>3. WantMeant(t)'
      BY <1>6, <2>2 DEF WantMeant, Waits
    <3> QED
      BY <1>3, <1>7, <2>2, <3>1, <3>2, <3>3 DEF OfTask
  <2>6. t \in listener => ToldOf(t)'
    BY <1>1, <1>2, <1>3, <1>4, <1>6, <2>1, <2>2 DEF IInv, ToldOf, Waits,
      KeepsQEvent, Left, Taken
  <2> QED
    BY AloneKeeps, <1>1, <1>3, <1>4, <2>2, <2>4, <2>5, <2>6
<1>10. CASE /\ ~Satisfied(w, register[t])
           /\ pc' = [pc EXCEPT ![t] = "receiving"]
           /\ want' = [want EXCEPT ![t] = w]
           /\ timeout' = [timeout EXCEPT ![t] = n]
           /\ UNCHANGED <<register, out, status>>
  <2>1. /\ pc'[t] = "receiving" /\ register' = register /\ want'[t] = w
        /\ \A u \in Tasks \ {t} :
             /\ pc'[u] = pc[u]
             /\ status'[u] = status[u]
             /\ timeout'[u] = timeout[u]
             /\ buffer'[u] = buffer[u] /\ register'[u] = register[u]
             /\ want'[u] = want[u] /\ out'[u] = out[u] /\ due'[u] = due[u]
    BY <1>1, <1>10 DEF IInv, Typed, Flags
  <2>2. Typed'
    BY <1>1, <1>3, <1>5, <1>10 DEF IInv, Typed
  <2>3. OfTask(t)'
    <3>1. Accounted(t)'
      BY <1>1, <2>1 DEF IInv, OfTask, Accounted, Dropping
    <3>2. Answered(t)' /\ WantMeant(t)'
      BY <1>1, <1>2, <1>10, <2>1 DEF Answered, WantMeant, Waits, Satisfied
    <3> QED
      BY <1>3, <1>7, <2>1, <3>1, <3>2 DEF OfTask
  <2>4. t \in listener => ToldOf(t)'
    BY <1>1, <1>3, <1>4, <1>6, <2>1 DEF IInv, ToldOf, Waits
  <2> QED
    BY AloneKeeps, <1>1, <1>3, <1>4, <2>1, <2>2, <2>3, <2>4
<1> QED
  BY <1>2, <1>8, <1>9, <1>10 DEF eventReceiveEx


\* t sends an event to u, and is back from that or ends.
LEMMA SendKeeps ==
  ASSUME IInv, NEW t \in Tasks, NEW u \in Tasks, NEW e \in Events,
         pc[t] = "ready", method'[t] \in {"event.send", "send(thread)"},
         NEW p, NEW s,
         p[t] = "returning" \/ (p[t] = "dead" /\ method'[t] = "send(thread)"),
         s \in [Tasks -> {"OK", "ERROR", "BYTES"}],
         \A v \in Tasks \ {t} : p[v] = pc[v] /\ s[v] = status[v],
         EventSend({u}, {e}, p, s),
         method' \in [Tasks -> Methods \cup {"none"}],
         \A v \in Tasks \ {t} : method'[v] = method[v],
         UNCHANGED <<timeout, ask, object, queue_vars>>,
         \A v \in Tasks : drained'[v] => drained[v]
  PROVE  IInv'
<1>1. /\ scene' = scene /\ life' = life /\ listener' = listener /\ line' = line
      /\ buffer' = buffer /\ timeout' = timeout /\ queue' = queue /\ ask' = ask
  BY DEF object, queue_vars
<1> DEFINE m == method'[t]
<1>2. /\ m \in Methods \ (Receivers \cup {"receive_only", "queue.poll"})
      /\ m \notin Senders /\ m \notin {"push", "<<"} /\ m # "none"
  BY DEF Senders, Receivers, Methods, EventCalls
<1> HIDE DEF m
<1>3. /\ method'[t] = m /\ \A v \in Tasks \ {t} : method'[v] = method[v]
  BY DEF m
<1>4. /\ register' \in [Tasks -> SUBSET Events]
      /\ out' \in [Tasks -> SUBSET Events] /\ due' \in [Tasks -> SUBSET Events]
      /\ pc' \in [Tasks ->
              {"ready", "receiving", "pended", "returning", "dead"}]
      /\ status' \in [Tasks -> {"OK", "ERROR", "BYTES"}]
      /\ register[t] \subseteq register'[t] /\ want' = want
      /\ due'[t] \subseteq due[t] \cup register'[t]
      /\ \A v \in Tasks : pc'[v] = "pended" <=> pc[v] = "pended"
      /\ \A v \in Tasks \ {t} : OfTask(v)'
      /\ \A v \in listener' : ToldOf(v)'
  <2> DEFINE S == {u}
             evs == {e}
  <2>1. S \in SUBSET Tasks /\ evs \in SUBSET Events /\ EventSend(S, evs, p, s)
    OBVIOUS
  <2>2. /\ Typed /\ \A v \in Tasks : OfTask(v)
        /\ \A v \in listener : ToldOf(v)
    BY DEF IInv
  <2>3. p[t] \in {"returning", "dead"}
    OBVIOUS
  <2> HIDE DEF S, evs
  <2>4. /\ register' \in [Tasks -> SUBSET Events]
        /\ out' \in [Tasks -> SUBSET Events]
        /\ due' \in [Tasks -> SUBSET Events]
        /\ pc' \in [Tasks ->
                {"ready", "receiving", "pended", "returning", "dead"}]
        /\ status' \in [Tasks -> {"OK", "ERROR", "BYTES"}]
        /\ register[t] \subseteq register'[t] /\ want' = want
        /\ due'[t] \subseteq due[t] \cup register'[t]
        /\ \A v \in Tasks : pc'[v] = "pended" <=> pc[v] = "pended"
    BY EventSendKeeps, <1>1, <1>2, <1>3, <2>1, <2>2, <2>3
  <2>5. /\ \A v \in Tasks \ {t} : OfTask(v)'
        /\ \A v \in listener : (drained'[v] => drained[v]) => ToldOf(v)'
    BY EventSendKeeps, <1>1, <1>2, <1>3, <2>1, <2>2, <2>3
  <2>6. \A v \in listener : v \in Tasks
    BY DEF IInv, Typed
  <2> QED
    BY <1>1, <2>4, <2>5, <2>6
<1>5. pc'[t] = "returning" \/ (pc'[t] = "dead" /\ m = "send(thread)")
  BY <1>3 DEF EventSend
<1>6. Typed'
  BY <1>1, <1>2, <1>4 DEF IInv, Typed
<1>7. InLine' = InLine /\ t \notin InLine
      /\ \A i \in 1 .. Len(line) : line[i].task \in Tasks \ {t}
  BY <1>1 DEF InLine, IInv, PendsForAReason
<1>8. InLineOnce'
  BY <1>1, <1>3, <1>7 DEF IInv, InLineOnce
<1>9. PendsForAReason'
  <2>1. InLine = {v \in Tasks : pc[v] = "pended"}
    BY DEF IInv, PendsForAReason
  <2>2. InLine' = {v \in Tasks : pc'[v] = "pended"}
    BY <1>4, <1>7, <2>1
  <2>3. \A v \in InLine : method'[v] = method[v]
    BY <1>3, <1>7, <2>1
  <2> QED
    BY <1>1, <1>7, <2>2, <2>3 DEF IInv, PendsForAReason, empty, numMsgs
<1>10. OfTask(t)'
  <2>1. OfTask(t) /\ buffer[t] = NoMessage /\ due[t] \subseteq register[t]
    BY ReadyTask DEF IInv, OfTask, CallMeant, Accounted, Dropping, Receivers
  <2>2. /\ CallMeant(t)' /\ EndDue(t)' /\ HandEmpty(t)' /\ WantMeant(t)'
        /\ Answered(t)'
    BY <1>1, <1>2, <1>3, <1>4, <1>5, <2>1 DEF OfTask, CallMeant, EndDue,
      HandEmpty, WantMeant, Waits, Answered, Throwing
  <2>3. Accounted(t)'
    BY <1>4, <2>1 DEF Accounted
  <2> QED
    BY <2>2, <2>3 DEF OfTask
<1> QED
  BY <1>4, <1>6, <1>8, <1>9, <1>10 DEF IInv

\* t fetches the events it has, or clears them.
LEMMA LookKeeps ==
  ASSUME IInv, Flags, NEW t \in Tasks, fetch(t) \/ clear(t),
         UNCHANGED <<object, queue_vars>>,
         drained'[t] => drained[t] /\ method'[t] # "clear",
         \A u \in Tasks \ {t} : drained'[u] = drained[u]
  PROVE  IInv'
<1>1. /\ scene' = scene /\ life' = life /\ queue' = queue /\ line' = line
      /\ listener' = listener /\ buffer' = buffer
      /\ pc[t] = "ready" /\ pc' = [pc EXCEPT ![t] = "returning"]
      /\ status' = [status EXCEPT ![t] = "OK"]
      /\ want' = want /\ timeout' = timeout
      /\ \A u \in Tasks \ {t} : ask'[u] = ask[u]
  BY DEF object, queue_vars, fetch, clear, Receives, eventReceiveEx, Flags
<1>2. PICK m \in {"fetch", "clear"} :
        /\ method' = [method EXCEPT ![t] = m]
        /\ m = "fetch" => register' = register /\ due' = due
                          /\ out' = [out EXCEPT ![t] = register[t]]
        /\ m = "clear" => /\ register' = [register EXCEPT ![t] = {}]
                          /\ due' = [due EXCEPT ![t] = {}] /\ out' = out
  BY DEF fetch, clear, Receives, eventReceiveEx
<1>3. /\ m \in Methods /\ m \notin Receivers \cup {"receive_only", "queue.poll"}
      /\ m \notin Senders /\ m \notin {"push", "<<"} /\ m # "none"
  BY DEF Senders, Receivers, Methods, EventCalls
<1>4. /\ method'[t] = m
      /\ pc'[t] = "returning"
      /\ due'[t] \subseteq register'[t]
      /\ buffer'[t] = NoMessage /\ status'[t] = "OK"
  BY <1>1, <1>2, ReadyTask DEF IInv, Typed, OfTask, CallMeant, Accounted,
    Dropping,
    Receivers
<1>5. \A u \in Tasks \ {t} :
        /\ pc'[u] = pc[u] /\ status'[u] = status[u] /\ method'[u] = method[u]
        /\ ask'[u] = ask[u] /\ timeout'[u] = timeout[u]
        /\ buffer'[u] = buffer[u] /\ register'[u] = register[u]
        /\ want'[u] = want[u] /\ out'[u] = out[u] /\ due'[u] = due[u]
  BY <1>1, <1>2 DEF IInv, Typed
<1>6. Typed'
  BY <1>1, <1>2, <1>3 DEF IInv, Typed
<1>7. OfTask(t)'
  BY <1>1, <1>3, <1>4 DEF IInv, OfTask, CallMeant, EndDue, HandEmpty, WantMeant,
    Waits, Accounted, Answered
<1>8. t \in listener => ToldOf(t)'
  <2>1. drained'[t] =>
          queue = <<>> \/ QEvent \in register[t] \/ t \notin listener
    BY DEF IInv, ToldOf
  <2>2. drained'[t] => register'[t] = register[t]
    BY <1>2, <1>4
  <2> QED
    BY <1>1, <1>3, <1>4, <2>1, <2>2 DEF ToldOf, Waits, IInv, OfTask, WantMeant
<1> QED
  BY AloneKeeps, <1>1, <1>3, <1>4, <1>5, <1>6, <1>7, <1>8

\* A call of class event.
LEMMA EventStepKeeps ==
  ASSUME IInv, Flags, NEW t \in Tasks, EventStep(t)
  PROVE  IInv'
<1> DEFINE waits == method'[t] \in Receivers \cup {"receive_only"}
<1>1. /\ EventCall(t) /\ UNCHANGED <<object, queue_vars>>
      /\ t \in listener /\ waits /\ QEvent \in ask'[t].events => drained[t]
      /\ drained' = [drained EXCEPT ![t] =
           @ /\ method'[t] # "clear" /\ (waits => KeepsQEvent(ask'[t]))]
  BY DEF EventStep
<1>2. ASSUME NEW m \in Receivers \cup {"receive_only"}, NEW r \in Requests,
             NEW n,
             Receives(t, m, r, r.events, r.options, m \in Receivers, n)
      PROVE  IInv'
  <2>1. ask'[t] = r /\ method'[t] = m /\ m # "clear"
    BY <1>2 DEF Receives, IInv, Typed, Flags, Receivers
  <2>2. drained' = [drained EXCEPT ![t] = @ /\ KeepsQEvent(r)]
    BY <1>1, <2>1 DEF Flags
  <2>3. t \in listener /\ QEvent \in r.events => drained[t]
    BY <1>1, <2>1
  <2>4. UNCHANGED <<object, queue_vars>>
    BY <1>1
  <2> QED
    BY <1>2, <2>2, <2>3, <2>4, ReceiveKeeps
<1>3. /\ \A u \in Tasks \ {t} : drained'[u] = drained[u]
      /\ drained'[t] => drained[t] /\ method'[t] # "clear"
  BY <1>1 DEF Flags
<1>4. ASSUME NEW u \in Tasks, NEW e \in Events, send(t, u, {e})
      PROVE  IInv'
  <2> DEFINE p == [pc EXCEPT ![t] = "returning"]
             s == [status EXCEPT ![t] = "OK"]
  <2>1. /\ pc[t] = "ready" /\ EventSend({u}, {e}, p, s)
        /\ method' \in [Tasks -> Methods \cup {"none"}]
        /\ method'[t] = "event.send"
        /\ \A v \in Tasks \ {t} : method'[v] = method[v]
        /\ UNCHANGED <<timeout, ask, object, queue_vars>>
    BY <1>1, <1>4 DEF send, IInv, Typed, Methods, EventCalls
  <2>2. /\ p[t] = "returning" /\ s \in [Tasks -> {"OK", "ERROR", "BYTES"}]
        /\ \A v \in Tasks \ {t} : p[v] = pc[v] /\ s[v] = status[v]
    BY DEF IInv, Typed
  <2>3. \A v \in Tasks : drained'[v] => drained[v]
    BY <1>3
  <2> HIDE DEF p, s
  <2> QED
    BY <2>1, <2>2, <2>3, SendKeeps
<1>5. ASSUME NEW u \in Tasks, NEW e \in Events, send_thread(t, u, {e})
      PROVE  IInv'
  <2> DEFINE p == [pc EXCEPT ![t] = "dead"]
             s == status
  <2>1. /\ pc[t] = "ready" /\ EventSend({u}, {e}, p, s)
        /\ method' \in [Tasks -> Methods \cup {"none"}]
        /\ method'[t] = "send(thread)"
        /\ \A v \in Tasks \ {t} : method'[v] = method[v]
        /\ UNCHANGED <<timeout, ask, object, queue_vars>>
    BY <1>1, <1>5 DEF send_thread, IInv, Typed, Methods, EventCalls
  <2>2. /\ p[t] = "dead" /\ s \in [Tasks -> {"OK", "ERROR", "BYTES"}]
        /\ \A v \in Tasks \ {t} : p[v] = pc[v] /\ s[v] = status[v]
    BY DEF IInv, Typed
  <2>3. \A v \in Tasks : drained'[v] => drained[v]
    BY <1>3
  <2> HIDE DEF p, s
  <2> QED
    BY <2>1, <2>2, <2>3, SendKeeps
<1>6. ASSUME NEW r \in Requests,
             \/ \E n \in EvTimeouts : receive(t, r, n) \/ receive_only(t, r, n)
             \/ \E d \in EvDurations :
                  receive_for(t, r, d) \/ receive_until(t, r, d)
             \/ poll(t, r)
      PROVE  IInv'
  <2>1. PICK m \in Receivers \cup {"receive_only"} :
          \E n : Receives(t, m, r, r.events, r.options, m \in Receivers, n)
    <3>1. (\E n \in EvTimeouts : receive(t, r, n)) =>
            \E n : Receives(t, "receive", r, r.events, r.options, TRUE, n)
      BY DEF receive
    <3>2. (\E n \in EvTimeouts : receive_only(t, r, n)) =>
            \E n : Receives(t, "receive_only", r, r.events, r.options, FALSE, n)
      BY DEF receive_only
    <3>3. (\E d \in EvDurations : receive_for(t, r, d)) =>
            \E n : Receives(t, "receive_for", r, r.events, r.options, TRUE, n)
      BY DEF receive_for
    <3>4. (\E d \in EvDurations : receive_until(t, r, d)) =>
            \E n : Receives(t, "receive_until", r, r.events, r.options, TRUE, n)
      BY DEF receive_until
    <3>5. poll(t, r) =>
            \E n : Receives(t, "poll", r, r.events, r.options, TRUE, n)
      BY DEF poll
    <3>6. /\ \A m \in {"receive", "receive_for", "receive_until", "poll"} :
               (m \in Receivers) = TRUE
          /\ ("receive_only" \in Receivers) = FALSE
      BY DEF Receivers
    <3> QED
      BY <1>6, <3>1, <3>2, <3>3, <3>4, <3>5, <3>6
  <2> QED
    BY <1>2, <2>1
<1>7. ASSUME fetch(t) \/ clear(t)
      PROVE  IInv'
  BY <1>1, <1>3, <1>7, LookKeeps
<1> QED
  BY <1>1, <1>4, <1>5, <1>6, <1>7 DEF EventCall

\* A receive of t runs out.
LEMMA EventTimeoutKeeps ==
  ASSUME IInv, Flags, NEW t \in Tasks, EventTimeout(t),
         UNCHANGED <<object, queue_vars, drained>>
  PROVE  IInv'
<1>1. /\ scene' = scene /\ life' = life /\ queue' = queue /\ line' = line
      /\ listener' = listener /\ buffer' = buffer /\ drained' = drained
      /\ want' = want /\ due' = due /\ method' = method /\ timeout' = timeout
      /\ ask' = ask /\ pc[t] = "receiving"
  BY DEF EventTimeout, object, queue_vars
<1> DEFINE w == want[t]
<1>2. /\ OfTask(t) /\ method[t] \in Receivers \cup {"receive_only"}
      /\ w.events = ask[t].events /\ w.options = ask[t].options
      /\ w.out <=> method[t] \in Receivers
      /\ w.events \subseteq Events /\ register[t] \subseteq Events
  BY <1>1, EventAssumption DEF IInv, OfTask, CallMeant, WantMeant, Waits, Typed
<1>3. PICK regs \in SUBSET Events :
        /\ pc' = [pc EXCEPT ![t] = "returning"]
        /\ status' = [status EXCEPT ![t] = "ERROR"]
        /\ out' = [out EXCEPT ![t] =
                      IF w.out THEN Taken(w, register[t]) ELSE {}]
        /\ regs \in {register[t], Left(w, register[t])}
        /\ register' = [register EXCEPT ![t] = regs]
  BY <1>2 DEF EventTimeout, EventAnswer, Left
<1> HIDE DEF w
<1>4. /\ pc'[t] = "returning" /\ register'[t] = regs /\ status'[t] = "ERROR"
      /\ out'[t] = IF w.out THEN Taken(w, register[t]) ELSE {}
      /\ \A u \in Tasks \ {t} :
           /\ pc'[u] = pc[u]
           /\ status'[u] = status[u]
           /\ timeout'[u] = timeout[u]
           /\ buffer'[u] = buffer[u] /\ register'[u] = register[u]
           /\ want'[u] = want[u] /\ out'[u] = out[u] /\ due'[u] = due[u]
  BY <1>1, <1>3 DEF IInv, Typed
<1>5. Typed'
  <2>1. Taken(w, register[t]) \subseteq Events
    BY <1>2 DEF Taken
  <2> QED
    BY <1>1, <1>3, <2>1 DEF IInv, Typed
<1>6. OfTask(t)'
  <2>1. Accounted(t)'
    BY <1>1, <1>2, <1>3, <1>4 DEF OfTask, Accounted, Dropping, Keeps, Left,
      Taken
  <2>2. method[t] \notin {"push", "<<"}
    BY <1>2 DEF Receivers
  <2> QED
    BY <1>1, <1>2, <1>4, <2>1, <2>2 DEF OfTask, CallMeant, EndDue, HandEmpty,
      WantMeant, Waits, Answered
<1>7. t \in listener => ToldOf(t)'
  <2>1. method[t] # "queue.poll"
    BY <1>2 DEF Receivers
  <2>2. t \in listener /\ drained[t] =>
          /\ queue = <<>> \/ QEvent \in register[t]
          /\ KeepsQEvent(ask[t])
    BY <1>1 DEF IInv, ToldOf, Waits
  <2>3. KeepsQEvent(ask[t]) /\ QEvent \in register[t] => QEvent \in regs
    BY <1>2, <1>3 DEF KeepsQEvent, Left, Taken
  <2> QED
    BY <1>1, <1>4, <2>1, <2>2, <2>3 DEF ToldOf
<1> QED
  BY AloneKeeps, <1>1, <1>4, <1>5, <1>6, <1>7

\* Events come late.
LEMMA EventLateKeeps ==
  ASSUME IInv, Flags, NEW t \in Tasks, EventLate(t),
         UNCHANGED <<object, queue_vars, drained>>
  PROVE  IInv'
<1>1. /\ scene' = scene /\ life' = life /\ queue' = queue /\ line' = line
      /\ listener' = listener /\ buffer' = buffer /\ drained' = drained
      /\ want' = want /\ due' = due /\ method' = method /\ timeout' = timeout
      /\ ask' = ask /\ pc' = pc /\ status' = status
      /\ pc[t] = "returning" /\ status[t] = "ERROR" /\ want[t] # NoWant
  BY DEF EventLate, object, queue_vars, call_vars
<1> DEFINE w    == want[t]
           more == IF w.out THEN Taken(w, register[t]) ELSE {}
           regs == Left(w, register[t])
<1>2. /\ OfTask(t) /\ method[t] \in Receivers \cup {"receive_only"}
      /\ w.events = ask[t].events /\ w.options = ask[t].options
      /\ w.out <=> method[t] \in Receivers
      /\ w.events \subseteq Events /\ register[t] \subseteq Events
  BY <1>1, EventAssumption DEF IInv, OfTask, CallMeant, WantMeant, Waits, Typed
<1>3. /\ out' = [out EXCEPT ![t] = out[t] \cup more]
      /\ register' = [register EXCEPT ![t] = regs]
  BY DEF EventLate
<1>4. more \subseteq Events /\ regs \subseteq Events
  BY <1>2 DEF Taken, Left
<1>5. method[t] \in Receivers => more = Taken(w, register[t])
  BY <1>2
<1> HIDE DEF w, more
<1>6. /\ register'[t] = regs /\ out'[t] = out[t] \cup more
      /\ out[t] \subseteq Events
      /\ \A u \in Tasks \ {t} : register'[u] = register[u] /\ out'[u] = out[u]
  BY <1>3 DEF IInv, Typed
<1>7. Typed'
  BY <1>1, <1>3, <1>4, <1>6 DEF IInv, Typed
<1>8. OfTask(t)'
  <2>1. Accounted(t)'
    BY <1>1, <1>2, <1>5, <1>6 DEF OfTask, Accounted, Dropping, Keeps, Left,
      Taken
  <2> QED
    BY <1>1, <1>2, <2>1 DEF OfTask, CallMeant, EndDue, HandEmpty, WantMeant,
      Waits, Answered
<1>9. t \in listener => ToldOf(t)'
  <2>1. method[t] # "queue.poll"
    BY <1>2 DEF Receivers
  <2>2. t \in listener /\ drained[t] =>
          /\ queue = <<>> \/ QEvent \in register[t]
          /\ KeepsQEvent(ask[t])
    BY <1>1 DEF IInv, ToldOf, Waits
  <2>3. KeepsQEvent(ask[t]) /\ QEvent \in register[t] => QEvent \in regs
    BY <1>2 DEF KeepsQEvent, Left, Taken
  <2> QED
    BY <1>1, <1>6, <2>1, <2>2, <2>3 DEF ToldOf, Waits
<1> QED
  BY AloneKeeps, <1>1, <1>6, <1>7, <1>8, <1>9

\* A call of t in line runs out.
LEMMA TimeoutKeeps ==
  ASSUME IInv, NEW t \in Tasks, Timeout(t)
  PROVE  IInv'
<1>1. /\ scene' = scene /\ life' = life /\ queue' = queue
      /\ listener' = listener /\ buffer' = buffer /\ drained' = drained
      /\ register' = register /\ want' = want /\ out' = out /\ due' = due
      /\ method' = method /\ timeout' = timeout /\ ask' = ask
      /\ pc[t] = "pended" /\ timeout[t] # WAIT_FOREVER
  BY DEF Timeout, object, register_vars
<1>2. /\ pc' = [pc EXCEPT ![t] = "returning"] /\ pc'[t] = "returning"
      /\ status' = [status EXCEPT ![t] = "ERROR"] /\ status'[t] = "ERROR"
      /\ \A u \in Tasks \ {t} : pc'[u] = pc[u] /\ status'[u] = status[u]
  BY DEF Timeout, Returns, IInv, Typed
<1>3. PICK i \in 1 .. Len(line) : line[i].task = t /\ line' = Without(i)
  BY DEF Timeout
<1>4. /\ line' \in Seq(Calls) /\ line # <<>>
      /\ \A a, b \in 1 .. Len(line') : a # b => line'[a].task # line'[b].task
      /\ InLine' = InLine \ {t}
      /\ \A a \in 1 .. Len(line') : \E b \in 1 .. Len(line) :
              b # i /\ line'[a] = line[b]
  BY <1>3, LineShrinks DEF IInv, Typed, InLineOnce, Calls
<1>5. Typed'
  BY <1>1, <1>2, <1>4 DEF IInv, Typed, Calls
<1>6. InLineOnce'
  BY <1>1, <1>4 DEF IInv, InLineOnce
<1>7. PendsForAReason'
  <2>1. \A u \in Tasks : pc'[u] = "pended" <=> pc[u] = "pended" /\ u # t
    BY <1>1, <1>2
  <2>2. InLine = {u \in Tasks : pc[u] = "pended"}
    BY DEF IInv, PendsForAReason
  <2>3. InLine' = {u \in Tasks : pc'[u] = "pended"}
    BY <1>4, <2>1, <2>2
  <2> QED
    BY <1>1, <1>4, <2>3 DEF IInv, PendsForAReason, empty, numMsgs
<1>8. OfTask(t)'
  <2>1. OfTask(t) /\ method[t] \notin {"push", "<<"}
    BY <1>1 DEF IInv, OfTask, CallMeant, Untimed
  <2> QED
    BY PendedAnswered, <1>1, <1>2, <2>1
<1>9. \A u \in Tasks \ {t} : OfTask(u)'
  <2> TAKE u \in Tasks \ {t}
  <2>1. OfTask(u)
    BY DEF IInv
  <2> QED
    BY Untouched, <1>1, <1>2, <2>1
<1>10. \A u \in listener' : ToldOf(u)'
  <2> TAKE u \in listener'
  <2>1. u \in Tasks /\ ToldOf(u)
    BY <1>1 DEF IInv, Typed
  <2>2. CASE u = t
    <3>1. method[t] # "queue.poll" \/ queue = <<>>
      <4>1. i \in 1 .. Len(line) /\ line[i].task = t
        BY <1>3
      <4>2. queue = <<>> \/ method[t] \in Senders
        BY <4>1, TaskInLine
      <4> QED
        BY <4>2 DEF Senders
    <3> QED
      BY <1>1, <1>2, <2>1, <2>2, <3>1 DEF ToldOf, Waits, IInv, OfTask,
        WantMeant
  <2>3. CASE u # t
    BY UntoldStays, <1>1, <1>2, <2>1, <2>3
  <2> QED
    BY <2>2, <2>3
<1> QED
  BY <1>5, <1>6, <1>7, <1>8, <1>9, <1>10 DEF IInv

\* The queue is deleted.
LEMMA DtorKeeps ==
  ASSUME IInv, NEW t \in Tasks, dtor(t)
  PROVE  IInv'
<1>1. /\ scene' = scene /\ queue' = queue /\ life' = "deleted"
      /\ line' = <<>>
      /\ listener' = {}
      /\ buffer' = buffer
      /\ drained' = drained
      /\ register' = register /\ want' = want /\ out' = out /\ due' = due
      /\ method' = method /\ timeout' = timeout /\ ask' = ask
  BY DEF dtor, register_vars
<1>2. /\ pc' = [u \in Tasks |-> IF u \in InLine THEN "returning" ELSE pc[u]]
      /\ status' = [u \in Tasks |-> IF u \in InLine THEN "ERROR" ELSE status[u]]
  BY DEF dtor
<1>3. InLine = {u \in Tasks : pc[u] = "pended"}
  BY DEF IInv, PendsForAReason
<1>4. Typed'
  <2>1. /\ pc' \in [Tasks ->
                {"ready", "receiving", "pended", "returning", "dead"}]
        /\ status' \in [Tasks -> {"OK", "ERROR", "BYTES"}]
    BY <1>2 DEF IInv, Typed
  <2> QED
    BY <1>1, <2>1, EmptySeq DEF IInv, Typed
<1>5. 1 .. Len(line') = {} /\ InLine' = {}
  BY <1>1, EmptySeq DEF InLine
<1>6. InLineOnce' /\ PendsForAReason'
  BY <1>1, <1>2, <1>3, <1>5 DEF InLineOnce, PendsForAReason
<1>7. \A u \in Tasks : OfTask(u)'
  <2> TAKE u \in Tasks
  <2>1. OfTask(u)
    BY DEF IInv
  <2>2. CASE pc[u] = "pended"
    BY PendedAnswered, <1>1, <1>2, <1>3, <2>1, <2>2
  <2>3. CASE pc[u] # "pended"
    BY Untouched, <1>1, <1>2, <1>3, <2>1, <2>3
  <2> QED
    BY <2>2, <2>3
<1> QED
  BY <1>1, <1>4, <1>6, <1>7 DEF IInv

(***************************************************************************)
(* The invariant, and what follows from it.                                *)
(***************************************************************************)
LEMMA StartsFlagged == Init => Flags
  BY DEF Init, EventInit, Flags

\* No step changes what the functions are functions of.
LEMMA StaysFlagged ==
  ASSUME Flags, [Next]_vars
  PROVE  Flags'
<1>1. CASE UNCHANGED vars
  BY <1>1 DEF vars, Flags, register_vars, call_vars
<1>2. ASSUME NEW t \in Tasks, SendStep(t) \/ TakeStep(t)
      PROVE  Flags'
  <2>1. ASSUME NEW m, NEW n, NEW pri, msgQSend(t, m, n, pri)
        PROVE  DOMAIN timeout' = Tasks /\ want' = want
    BY <2>1 DEF Flags, msgQSend, EventSend, Pends, register_vars
  <2>2. ASSUME NEW n, msgQReceive(t, n)
        PROVE  DOMAIN timeout' = Tasks /\ want' = want
    BY <2>2 DEF Flags, msgQReceive, Pends, register_vars
  <2>3. CASE SendStep(t)
    BY <2>1, <2>3, SendStepIs DEF Flags, Sends, Sending
  <2>4. CASE TakeStep(t)
    BY <2>2, <2>4, TakeStepIs DEF Flags, Takes, Taking
  <2> QED
    BY <1>2, <2>3, <2>4
<1>3. ASSUME NEW t \in Tasks, EventStep(t)
      PROVE  Flags'
  <2>1. drained' \in [Tasks -> BOOLEAN]
    BY <1>3 DEF EventStep, Flags
  <2>2. \/ \E u \in Tasks, e \in Events :
             send(t, u, {e}) \/ send_thread(t, u, {e})
        \/ \E m, r, e, o, ptr, n : Receives(t, m, r, e, o, ptr, n)
        \/ clear(t)
    BY <1>3 DEF EventStep, EventCall, receive, receive_only, receive_for,
      receive_until, poll, fetch
  <2>3. ASSUME NEW u, NEW e, send(t, u, e) \/ send_thread(t, u, e)
        PROVE  UNCHANGED <<timeout, ask, want>>
    BY <2>3 DEF send, send_thread, EventSend
  <2>4. ASSUME NEW m, NEW r, NEW e, NEW o, NEW ptr, NEW n,
               Receives(t, m, r, e, o, ptr, n)
        PROVE  /\ DOMAIN timeout' = Tasks /\ DOMAIN ask' = Tasks
               /\ DOMAIN want' = Tasks
    <3> DEFINE w == [events |-> e, options |-> o, out |-> ptr]
    <3>1. ask' = [ask EXCEPT ![t] = r] /\ eventReceiveEx(t, w, n)
      BY <2>4 DEF Receives
    <3> HIDE DEF w
    <3>2. /\ want' = want \/ want' = [want EXCEPT ![t] = w]
          /\ timeout' = timeout \/ timeout' = [timeout EXCEPT ![t] = n]
      BY <3>1 DEF eventReceiveEx
    <3> QED
      BY <3>1, <3>2 DEF Flags
  <2>5. clear(t) => UNCHANGED <<timeout, ask, want>>
    BY DEF clear
  <2>6. DOMAIN timeout' = Tasks /\ DOMAIN ask' = Tasks /\ DOMAIN want' = Tasks
    BY <2>2, <2>3, <2>4, <2>5 DEF Flags
  <2> QED
    BY <2>1, <2>6 DEF Flags
<1>4. ASSUME NEW t \in Tasks,
             \/ eventStop(t) \/ return(t) \/ throw(t) \/ dtor(t) \/ Timeout(t)
             \/ /\ EventTimeout(t) \/ EventLate(t)
                /\ UNCHANGED <<object, queue_vars, drained>>
      PROVE  Flags'
  BY <1>4 DEF Flags, eventStop, return, throw, dtor, Timeout, EventTimeout,
    EventLate, register_vars, call_vars
<1>6. ASSUME NEW t \in Tasks, NEW o, eventStart(t, o)
      PROVE  Flags'
  <2> DEFINE free == "EVENTS_SEND_IF_FREE" \in o
  <2>1. timeout' = timeout /\ ask' = ask /\ want' = want
    BY <1>6 DEF eventStart, Registers, EventSend, register_vars
  <2>2. drained' = drained \/ drained' = [drained EXCEPT ![t] = free]
    BY <1>6 DEF eventStart, Registers
  <2>3. free \in BOOLEAN
    OBVIOUS
  <2> HIDE DEF free
  <2>4. drained' \in [Tasks -> BOOLEAN]
    BY <2>2, <2>3 DEF Flags
  <2> QED
    BY <2>1, <2>4 DEF Flags
<1>5. Next => \E t \in Tasks :
        \/ SendStep(t) \/ TakeStep(t) \/ EventStep(t)
        \/ \E o : eventStart(t, o)
        \/ eventStop(t) \/ return(t) \/ throw(t) \/ dtor(t) \/ Timeout(t)
        \/ /\ EventTimeout(t) \/ EventLate(t)
           /\ UNCHANGED <<object, queue_vars, drained>>
  BY DEF Next
<1> QED
  BY <1>1, <1>2, <1>3, <1>4, <1>5, <1>6

\* The invariant is inductive.
LEMMA NextKeeps ==
  ASSUME IInv, Flags, [Next]_vars
  PROVE  IInv'
<1>1. CASE UNCHANGED vars
  <2>1. /\ scene' = scene /\ life' = life /\ queue' = queue /\ line' = line
        /\ listener' = listener /\ buffer' = buffer /\ drained' = drained
        /\ register' = register /\ want' = want /\ out' = out /\ due' = due
        /\ pc' = pc /\ method' = method /\ timeout' = timeout
        /\ status' = status /\ ask' = ask
    BY <1>1 DEF vars, object, queue_vars, register_vars, call_vars
  <2>2. Typed' /\ InLineOnce' /\ PendsForAReason'
    BY <2>1 DEF IInv, Typed, InLineOnce, PendsForAReason, InLine, empty, numMsgs
  <2>3. \A u \in Tasks : OfTask(u)'
    BY <2>1, Untouched DEF IInv
  <2>4. \A u \in listener' : ToldOf(u)'
    BY <2>1, UntoldStays DEF IInv, Typed
  <2> QED
    BY <2>2, <2>3, <2>4 DEF IInv
<1>2. ASSUME NEW t \in Tasks,
             \/ SendStep(t) \/ TakeStep(t) \/ EventStep(t)
             \/ \E o \in StartOptions : eventStart(t, o)
             \/ eventStop(t) \/ return(t) \/ throw(t) \/ dtor(t) \/ Timeout(t)
             \/ /\ EventTimeout(t) \/ EventLate(t)
                /\ UNCHANGED <<object, queue_vars, drained>>
      PROVE  IInv'
  BY <1>2, QueueCallKeeps, EventStepKeeps, ListenKeeps, ReturnKeeps, ThrowKeeps,
    DtorKeeps, TimeoutKeeps, EventTimeoutKeeps, EventLateKeeps
<1> QED
  BY <1>1, <1>2 DEF Next

\* In every reachable state: the inductive invariant.
THEOREM Invariance == Spec => [](IInv /\ Flags)
<1>1. Init => IInv /\ Flags
  BY InitIInv, StartsFlagged
<1>2. IInv /\ Flags /\ [Next]_vars => IInv' /\ Flags'
  BY NextKeeps, StaysFlagged
<1> QED
  BY <1>1, <1>2, PTL DEF Spec

\* Whoever pends on a queue does so for a reason, and the line holds exactly
\* the calls that pend.
THEOREM WaitsForAReason == Spec => []PendsForAReason
<1>1. IInv => PendsForAReason
  BY DEF IInv
<1> QED
  BY <1>1, Invariance, PTL

\* A task ends in >> and in a send to a thread, and in push and << on a queue
\* that has been deleted; no other call of queue.hpp or event.hpp ends it.
THEOREM EndsDue == Spec => []EndsAreDue
<1>1. IInv => EndsAreDue
  BY DEF IInv, OfTask, EndDue, EndsAreDue
<1> QED
  BY <1>1, Invariance, PTL

\* An event that was sent is in the register until a receive has reported it,
\* whatever sends, messages, timeouts and receives come in between.
THEOREM EventsKept == Spec => []EventsAccounted
<1>1. IInv => EventsAccounted
  BY DEF IInv, OfTask, Accounted, EventsAccounted
<1> QED
  BY <1>1, Invariance, PTL

\* A receive of a request that is no fetch in disguise ends with OK only with
\* what it asked for, and pends only while that has not come.
THEOREM ReceivesMeanIt ==
  (\A r \in Requests : "EVENTS_FETCH" \notin r.options) /\ Spec =>
    []ReceiveMeansIt
<1> SUFFICES ASSUME \A r \in Requests : "EVENTS_FETCH" \notin r.options
             PROVE  Spec => []ReceiveMeansIt
  OBVIOUS
<1>1. IInv => ReceiveMeansIt
  BY DEF IInv, OfTask, CallMeant, Answered, ReceiveMeansIt
<1> QED
  BY <1>1, Invariance, PTL

\* A listener that has drained the queue, or was told at its registration, and
\* waits for any of its events, does not wait while there is a message.
THEOREM ListenersAwake == Spec => []ListenerAwake
<1>1. IInv => ListenerAwake
  <2> SUFFICES ASSUME IInv, NEW t \in listener, pc[t] = "receiving",
                      QEvent \in ask[t].events,
                      "EVENTS_WAIT_ANY" \in ask[t].options
               PROVE  empty
    BY DEF ListenerAwake
  <2>1. queue = <<>> \/ QEvent \in register[t]
    BY DEF IInv, ToldOf
  <2>2. ~Satisfied(ask[t], register[t])
    BY DEF IInv, Typed, OfTask, Answered
  <2> QED
    BY <2>1, <2>2, Lengths DEF IInv, Satisfied
<1> QED
  BY <1>1, Invariance, PTL

(***************************************************************************)
(* What the users of the queue see.                                        *)
(***************************************************************************)
Offering ==
  [t \in Tasks |->
     IF /\ method[t] \in Senders
        /\ pc[t] = "pended" \/ (pc[t] = "returning" /\ status[t] = "OK")
     THEN Sent(t)
     ELSE [message |-> NoMessage, urgent |-> FALSE, in |-> FALSE]]

\* A step is one of the abstract queue, or none.
Simulates ==
  Queue!Next \/ (queue' = queue /\ Offering' = Offering /\ buffer' = buffer)

\* A task that takes no part in a step has the offer it had.
LEMMA OfferStays ==
  ASSUME NEW u \in Tasks,
         \/ /\ pc'[u] = pc[u] /\ status'[u] = status[u]
            /\ method'[u] = method[u] /\ ask'[u] = ask[u]
         \/ method[u] \notin Senders /\ method'[u] \notin Senders
  PROVE  Offering'[u] = Offering[u]
  BY DEF Offering, Sent

\* One task alone has another offer.
LEMMA OffersOfOne ==
  ASSUME NEW t \in Tasks, NEW o, Offering'[t] = o,
         \A u \in Tasks \ {t} : Offering'[u] = Offering[u]
  PROVE  Offering' = [Offering EXCEPT ![t] = o]
  BY DEF Offering

\* No task has.
LEMMA OffersAll ==
  ASSUME \A u \in Tasks : Offering'[u] = Offering[u]
  PROVE  Offering' = Offering
  BY DEF Offering

\* A message that is to be sent, and one that has been.
OfferOf(x, pri) ==
  [message |-> x, urgent |-> pri = "MSG_PRI_URGENT", in |-> FALSE]

SentOf(x, pri) ==
  [message |-> x, urgent |-> pri = "MSG_PRI_URGENT", in |-> TRUE]

\* They are offers, and what the queue puts in for them is the message.
LEMMA OffersAre ==
  ASSUME NEW x \in Messages, NEW pri
  PROVE  /\ OfferOf(x, pri) \in Queue!Offers /\ OfferOf(x, pri).message = x
         /\ [OfferOf(x, pri) EXCEPT !.in = TRUE] = SentOf(x, pri)
         /\ \A s : Queue!Put(s, OfferOf(x, pri)) = Placed(s, x, pri)
<1> DEFINE b   == pri = "MSG_PRI_URGENT"
           o   == OfferOf(x, pri)
           no  == FALSE
           yes == TRUE
<1>1. b \in BOOLEAN /\ (b <=> pri = "MSG_PRI_URGENT")
  OBVIOUS
<1>2. /\ o = [message |-> x, urgent |-> b, in |-> no]
      /\ SentOf(x, pri) = [message |-> x, urgent |-> b, in |-> yes]
  BY DEF OfferOf, SentOf
<1>3. no \in {FALSE}
  OBVIOUS
<1> HIDE DEF b, o, no, yes
<1>4. o \in Queue!Offers /\ o.message = x /\ o.urgent = b
  BY <1>1, <1>2, <1>3 DEF Queue!Offers
<1>5. [o EXCEPT !.in = yes] = SentOf(x, pri)
  BY <1>2
<1>6. \A s : Queue!Put(s, o) = Placed(s, x, pri)
  BY <1>1, <1>4 DEF Queue!Put, Placed
<1> QED
  BY <1>4, <1>5, <1>6 DEF o, yes

\* What t offers in a send: before the step, and after it.
LEMMA Offers ==
  ASSUME NEW t \in Tasks, method[t] \in Senders, pc[t] = "pended"
  PROVE  Offering[t] = OfferOf(ask[t].message, ask[t].pri)
<1>1. (pc[t] = "returning") = FALSE
  OBVIOUS
<1> QED
  BY <1>1 DEF Offering, Sent, OfferOf

\* A send that pends is an offer after the step, too,
LEMMA NowOffers ==
  ASSUME NEW t \in Tasks, method'[t] \in Senders, pc'[t] = "pended"
  PROVE  Offering'[t] = OfferOf(ask'[t].message, ask'[t].pri)
<1>1. (pc'[t] = "returning") = FALSE
  OBVIOUS
<1> QED
  BY <1>1 DEF Offering, Sent, OfferOf

\* one that is answered OK is in,
LEMMA NowSent ==
  ASSUME NEW t \in Tasks, method'[t] \in Senders, pc'[t] = "returning",
         status'[t] = "OK"
  PROVE  Offering'[t] = SentOf(ask'[t].message, ask'[t].pri)
<1>1. (pc'[t] = "returning") = TRUE
  OBVIOUS
<1> QED
  BY <1>1 DEF Offering, Sent, SentOf

\* and what is neither is no offer.
LEMMA NowNothing ==
  ASSUME NEW t \in Tasks,
         \/ method'[t] \notin Senders
         \/ pc'[t] \notin {"pended", "returning"}
         \/ pc'[t] = "returning" /\ status'[t] # "OK"
  PROVE  Offering'[t] = Queue!NoOffer
  BY DEF Offering, Queue!NoOffer

\* A task that does not send has no offer.
LEMMA NothingOffered ==
  ASSUME NEW t \in Tasks,
         \/ method[t] \notin Senders
         \/ pc[t] \notin {"pended", "returning"}
         \/ pc[t] = "returning" /\ status[t] # "OK"
  PROVE  Offering[t] = Queue!NoOffer
  BY DEF Offering, Queue!NoOffer

(***************************************************************************)
(* The steps of the abstract queue.                                        *)
(***************************************************************************)

\* A send waits.
LEMMA AsOffer ==
  ASSUME NEW t \in Tasks, NEW o \in Queue!Offers, Offering[t] = Queue!NoOffer,
         Offering' = [Offering EXCEPT ![t] = o], queue' = queue,
         buffer' = buffer
  PROVE  Queue!Next
<1>1. Queue!Offer(t, o)
  BY DEF Queue!Offer, Offering
<1> QED
  BY <1>1 DEF Queue!Next

\* A message is put in the queue.
LEMMA AsSend ==
  ASSUME NEW t \in Tasks, NEW o \in Queue!Offers, Offering[t] = Queue!NoOffer,
         Offering' = [Offering EXCEPT ![t] = [o EXCEPT !.in = TRUE]],
         Len(queue) < MaxMsgs, queue' = Queue!Put(queue, o), buffer' = buffer
  PROVE  Queue!Next
<1>1. Queue!Send(t, o)
  BY DEF Queue!Send, Queue!Accept, Offering
<1> QED
  BY <1>1 DEF Queue!Next

\* A message is handed to r.
LEMMA AsHand ==
  ASSUME NEW t \in Tasks, NEW o \in Queue!Offers, NEW r \in Tasks,
         Offering[t] = Queue!NoOffer,
         Offering' = [Offering EXCEPT ![t] = [o EXCEPT !.in = TRUE]],
         queue = <<>>, buffer[r] = NoMessage, queue' = queue,
         buffer' = [buffer EXCEPT ![r] = o.message]
  PROVE  Queue!Next
<1>1. Queue!Hand(t, o, r)
  BY DEF Queue!Hand, Queue!Accept, Offering
<1> QED
  BY <1>1 DEF Queue!Next

\* The first message is taken.
LEMMA AsReceive ==
  ASSUME NEW t \in Tasks, Offering' = Offering, queue # <<>>,
         buffer[t] = NoMessage,
         queue' = Tail(queue), buffer' = [buffer EXCEPT ![t] = Head(queue)]
  PROVE  Queue!Next
<1>1. Queue!Receive(t)
  BY DEF Queue!Receive, Offering
<1> QED
  BY <1>1 DEF Queue!Next

\* It is taken, and that of a sender that waits moves up.
LEMMA AsReceiveAndSend ==
  ASSUME NEW t \in Tasks, NEW r \in Tasks, NEW o \in Queue!Offers,
         Offering[r] = o,
         Offering' = [Offering EXCEPT ![r] = [o EXCEPT !.in = TRUE]],
         Len(queue) = MaxMsgs, buffer[t] = NoMessage,
         queue' = Queue!Put(Tail(queue), o),
         buffer' = [buffer EXCEPT ![t] = Head(queue)]
  PROVE  Queue!Next
<1>1. Queue!ReceiveAndSend(t, r, o)
  BY DEF Queue!ReceiveAndSend, Queue!Accept, Offering
<1> QED
  BY <1>1 DEF Queue!Next

\* The sends of S are over.
LEMMA AsDone ==
  ASSUME NEW S \in SUBSET Tasks, queue' = queue, buffer' = buffer,
         \A u \in Tasks :
           Offering'[u] = IF u \in S THEN Queue!NoOffer ELSE Offering[u]
  PROVE  Queue!Next
<1>1. Offering' =
        [u \in Tasks |-> IF u \in S THEN Queue!NoOffer ELSE Offering[u]]
  BY DEF Offering
<1>2. Queue!Done(S)
  BY <1>1 DEF Queue!Done, Offering
<1> QED
  BY <1>2 DEF Queue!Next

\* A message that was received is used.
LEMMA AsUse ==
  ASSUME NEW t \in Tasks, Offering' = Offering, queue' = queue,
         buffer' = [buffer EXCEPT ![t] = NoMessage]
  PROVE  Queue!Next
<1>1. Queue!Use(t)
  BY DEF Queue!Use, Offering
<1> QED
  BY <1>1 DEF Queue!Next

(***************************************************************************)
(* Which step of the abstract queue a step is.                             *)
(***************************************************************************)

\* A send hands its message over, puts it in the queue, waits or fails.
LEMMA SendSimulates ==
  ASSUME IInv, Flags, NEW t \in Tasks, SendStep(t)
  PROVE  Simulates
<1>0. PICK class, m, x, n, pri : Sends(t, class, m, x, n, pri)
  BY SendStepIs
<1>1. /\ pc[t] = "ready" /\ method'[t] = m /\ m \in Senders /\ x \in Messages
      /\ ask'[t].message = x /\ ask'[t].pri = pri
      /\ \A u \in Tasks \ {t} : ask'[u] = ask[u] /\ method'[u] = method[u]
      /\ msgQSend(t, x, n, pri)
  BY <1>0 DEF Sends, Sending, Enter, IInv, Typed, Flags
<1> DEFINE o == OfferOf(x, pri)
<1>2. /\ o \in Queue!Offers /\ o.message = x
      /\ [o EXCEPT !.in = TRUE] = SentOf(x, pri)
      /\ Queue!Put(queue, o) = Placed(queue, x, pri)
  BY <1>1, OffersAre
<1> HIDE DEF o
<1>3. Offering[t] = Queue!NoOffer
  BY <1>1, NothingOffered
<1>4. empty <=> queue = <<>>
  BY Lengths DEF IInv
<1>5. ASSUME line # <<>>, empty, NEW i \in First,
             buffer' = [buffer EXCEPT ![line[i].task] = x],
             pc' = [pc EXCEPT ![t] = "returning",
                              ![line[i].task] = "returning"],
             status' = [status EXCEPT ![t] = "OK", ![line[i].task] = "BYTES"],
             queue' = queue
      PROVE  Simulates
  <2>1. PICK r \in Tasks : /\ line[i].task = r /\ method[r] \in Takers
                           /\ buffer[r] = NoMessage
    BY <1>4, <1>5, TaskInLine DEF First
  <2>2. r # t /\ method[r] \notin Senders
    BY <1>1, <1>5, <2>1, ReadyTask DEF Takers, Senders, First
  <2>3. /\ pc'[t] = "returning" /\ status'[t] = "OK" /\ method'[r] = method[r]
        /\ \A u \in Tasks \ {t, r} : pc'[u] = pc[u] /\ status'[u] = status[u]
    BY <1>1, <1>5, <2>1, <2>2 DEF IInv, Typed
  <2>4. Offering'[t] = SentOf(x, pri)
    BY <1>1, <2>3, NowSent
  <2>5. \A u \in Tasks \ {t} : Offering'[u] = Offering[u]
    <3> TAKE u \in Tasks \ {t}
    <3>1. CASE u = r
      BY <2>2, <2>3, <3>1, OfferStays
    <3>2. CASE u # r
      BY <1>1, <2>3, <3>2, OfferStays
    <3> QED
      BY <3>1, <3>2
  <2>6. Offering' = [Offering EXCEPT ![t] = [o EXCEPT !.in = TRUE]]
    BY <1>2, <2>4, <2>5, OffersOfOne
  <2>7. buffer' = [buffer EXCEPT ![r] = o.message]
    BY <1>2, <1>5, <2>1
  <2> QED
    BY <1>2, <1>3, <1>4, <1>5, <2>1, <2>6, <2>7, AsHand DEF Simulates
<1>6. ASSUME numMsgs < MaxMsgs, queue' = Placed(queue, x, pri),
             EventSend(listener, {QEvent}, [pc EXCEPT ![t] = "returning"],
                       [status EXCEPT ![t] = "OK"]),
             UNCHANGED buffer
      PROVE  Simulates
  <2>1. \A u \in Tasks \ {t} :
          \/ pc'[u] = pc[u] /\ status'[u] = status[u]
          \/ pc[u] = "receiving"
    BY <1>6 DEF EventSend, IInv, Typed
  <2>2. pc'[t] = "returning" /\ status'[t] = "OK"
    BY <1>1, <1>6 DEF EventSend, IInv, Typed
  <2>3. Offering'[t] = SentOf(x, pri)
    BY <1>1, <2>2, NowSent
  <2>4. \A u \in Tasks \ {t} : pc[u] = "receiving" => method[u] \notin Senders
    BY DEF IInv, OfTask, CallMeant, Receivers, Senders
  <2>5. \A u \in Tasks \ {t} : Offering'[u] = Offering[u]
    BY <1>1, <2>1, <2>4, OfferStays
  <2>6. Offering' = [Offering EXCEPT ![t] = [o EXCEPT !.in = TRUE]]
    BY <1>2, <2>3, <2>5, OffersOfOne
  <2>7. Len(queue) < MaxMsgs /\ queue' = Queue!Put(queue, o) /\ buffer' = buffer
    BY <1>2, <1>6 DEF numMsgs
  <2> QED
    BY <1>2, <1>3, <2>6, <2>7, AsSend DEF Simulates
<1>7. ASSUME Pends(t, x, pri, n), UNCHANGED <<queue, buffer>>
      PROVE  Simulates
  <2>1. /\ pc'[t] = "pended"
        /\ \A u \in Tasks \ {t} : pc'[u] = pc[u] /\ status'[u] = status[u]
    BY <1>7 DEF Pends, IInv, Typed
  <2>2. Offering'[t] = o
    BY <1>1, <2>1, NowOffers DEF o
  <2>3. \A u \in Tasks \ {t} : Offering'[u] = Offering[u]
    BY <1>1, <2>1, OfferStays
  <2>4. Offering' = [Offering EXCEPT ![t] = o]
    BY <2>2, <2>3, OffersOfOne
  <2> QED
    BY <1>2, <1>3, <1>7, <2>4, AsOffer DEF Simulates
<1>8. ASSUME Returns(t, "ERROR"), UNCHANGED <<queue, buffer>>
      PROVE  Simulates
  <2>1. /\ pc'[t] = "returning" /\ status'[t] = "ERROR"
        /\ \A u \in Tasks \ {t} : pc'[u] = pc[u] /\ status'[u] = status[u]
    BY <1>8 DEF Returns, IInv, Typed
  <2>2. Offering'[t] = Offering[t]
    BY <1>3, <2>1, NowNothing
  <2>3. \A u \in Tasks \ {t} : Offering'[u] = Offering[u]
    BY <1>1, <2>1, OfferStays
  <2> QED
    BY <1>8, <2>2, <2>3, OffersAll DEF Simulates
<1> QED
  BY <1>1, <1>5, <1>6, <1>7, <1>8 DEF msgQSend

\* A receive takes a message, and the first sender in line moves up; it waits,
\* or fails.
LEMMA TakeSimulates ==
  ASSUME IInv, Flags, NEW t \in Tasks, TakeStep(t)
  PROVE  Simulates
<1>0. PICK class, m, n : Takes(t, class, m, n)
  BY TakeStepIs
<1>1. /\ pc[t] = "ready" /\ method'[t] = m /\ m \notin Senders /\ ask' = ask
      /\ \A u \in Tasks \ {t} : method'[u] = method[u]
      /\ buffer[t] = NoMessage /\ method[t] \notin Senders
      /\ msgQReceive(t, n)
  BY <1>0, ReadyTask DEF Takes, Taking, Enter, IInv, Typed, Senders, Takers
<1>2. /\ empty <=> queue = <<>>
      /\ Offering'[t] = Offering[t]
  BY <1>1, Lengths, OfferStays DEF IInv
<1>3. ASSUME ~empty, buffer' = [buffer EXCEPT ![t] = Head(queue)],
             NEW i \in First,
             queue' = Placed(Tail(queue), line[i].message, line[i].pri),
             pc' = [pc EXCEPT ![t] = "returning",
                              ![line[i].task] = "returning"],
             status' = [status EXCEPT ![t] = "BYTES", ![line[i].task] = "OK"]
      PROVE  Simulates
  <2>1. PICK r \in Tasks : /\ line[i].task = r /\ method[r] \in Senders
                           /\ pc[r] = "pended" /\ Len(queue) = MaxMsgs
    BY <1>2, <1>3, TaskInLine DEF First
  <2>2. r # t
    BY <1>1, <2>1
  <2>3. /\ pc'[r] = "returning" /\ status'[r] = "OK" /\ method'[r] = method[r]
        /\ ask'[r] = ask[r]
        /\ \A u \in Tasks \ {t, r} : pc'[u] = pc[u] /\ status'[u] = status[u]
    BY <1>1, <1>3, <2>1, <2>2 DEF IInv, Typed
  <2> DEFINE x   == ask[r].message
             pri == ask[r].pri
             o   == OfferOf(x, pri)
  <2>4. x \in Messages /\ line[i].message = x /\ line[i].pri = pri
    BY <2>1 DEF IInv, InLineOnce, OfTask, CallMeant, First
  <2>5. /\ o \in Queue!Offers
        /\ [o EXCEPT !.in = TRUE] = SentOf(x, pri)
        /\ Queue!Put(Tail(queue), o) = Placed(Tail(queue), x, pri)
    BY <2>4, OffersAre
  <2>6. Offering[r] = o
    BY <2>1, Offers
  <2>7. Offering'[r] = SentOf(x, pri)
    BY <2>1, <2>3, NowSent
  <2> HIDE DEF x, pri, o
  <2>8. \A u \in Tasks \ {r} : Offering'[u] = Offering[u]
    <3> TAKE u \in Tasks \ {r}
    <3>1. CASE u = t
      BY <1>2, <3>1
    <3>2. CASE u # t
      BY <1>1, <2>3, <3>2, OfferStays
    <3> QED
      BY <3>1, <3>2
  <2>9. Offering' = [Offering EXCEPT ![r] = [o EXCEPT !.in = TRUE]]
    BY <2>5, <2>7, <2>8, OffersOfOne
  <2>10. queue' = Queue!Put(Tail(queue), o)
    BY <1>3, <2>4, <2>5
  <2> QED
    BY <1>1, <1>3, <2>1, <2>5, <2>6, <2>9, <2>10, AsReceiveAndSend DEF Simulates
<1>4. ASSUME ~empty, buffer' = [buffer EXCEPT ![t] = Head(queue)],
             queue' = Tail(queue), Returns(t, "BYTES")
      PROVE  Simulates
  <2>1. \A u \in Tasks \ {t} : pc'[u] = pc[u] /\ status'[u] = status[u]
    BY <1>4 DEF Returns, IInv, Typed
  <2>2. \A u \in Tasks : Offering'[u] = Offering[u]
    <3> TAKE u \in Tasks
    <3>1. CASE u # t
      BY <1>1, <2>1, <3>1, OfferStays
    <3> QED
      BY <1>2, <3>1
  <2>3. Offering' = Offering
    BY <2>2, OffersAll
  <2> QED
    BY <1>1, <1>2, <1>4, <2>3, AsReceive DEF Simulates
<1>5. ASSUME Pends(t, NoMessage, "MSG_PRI_NORMAL", n) \/ Returns(t, "ERROR"),
             UNCHANGED <<queue, buffer>>
      PROVE  Simulates
  <2>1. \A u \in Tasks \ {t} : pc'[u] = pc[u] /\ status'[u] = status[u]
    BY <1>5 DEF Pends, Returns, IInv, Typed
  <2>2. \A u \in Tasks : Offering'[u] = Offering[u]
    <3> TAKE u \in Tasks
    <3>1. CASE u # t
      BY <1>1, <2>1, <3>1, OfferStays
    <3> QED
      BY <1>2, <3>1
  <2> QED
    BY <1>5, <2>2, OffersAll DEF Simulates
<1> QED
  BY <1>1, <1>3, <1>4, <1>5 DEF msgQReceive


\* t calls a method that is no send, and of the others only those move that
\* wait for events.
NoSendOf(t) ==
  /\ pc[t] = "ready" /\ method'[t] \notin Senders
  /\ \A u \in Tasks \ {t} :
       /\ method'[u] = method[u] /\ ask'[u] = ask[u]
       /\ \/ pc'[u] = pc[u] /\ status'[u] = status[u]
          \/ pc[u] = "receiving"

\* A send of events is no send to the queue,
LEMMA EventSendIsNoSend ==
  ASSUME IInv, NEW t \in Tasks, NEW v \in Tasks, NEW e \in Events,
         send(t, v, {e}) \/ send_thread(t, v, {e})
  PROVE  NoSendOf(t)
<1>1. ASSUME NEW p, NEW s, EventSend({v}, {e}, p, s),
             \A u \in Tasks \ {t} : p[u] = pc[u] /\ s[u] = status[u]
      PROVE  \A u \in Tasks \ {t} :
               \/ pc'[u] = pc[u] /\ status'[u] = status[u]
               \/ pc[u] = "receiving"
  BY <1>1 DEF EventSend
<1>2. \A u \in Tasks \ {t} :
        \/ pc'[u] = pc[u] /\ status'[u] = status[u]
        \/ pc[u] = "receiving"
  <2> DEFINE p == [pc EXCEPT ![t] = "returning"]
             d == [pc EXCEPT ![t] = "dead"]
             s == [status EXCEPT ![t] = "OK"]
  <2>1. \/ EventSend({v}, {e}, p, s)
        \/ EventSend({v}, {e}, d, status)
    BY DEF send, send_thread
  <2>2. \A u \in Tasks \ {t} : p[u] = pc[u] /\ d[u] = pc[u] /\ s[u] = status[u]
    BY DEF IInv, Typed
  <2> HIDE DEF p, d, s
  <2> QED
    BY <1>1, <2>1, <2>2
<1>3. /\ pc[t] = "ready" /\ method'[t] \in {"event.send", "send(thread)"}
      /\ \A u \in Tasks \ {t} : method'[u] = method[u] /\ ask'[u] = ask[u]
  BY DEF send, send_thread, IInv, Typed
<1> QED
  BY <1>2, <1>3 DEF NoSendOf, Senders

\* nor is a receive of events.
LEMMA ReceiveIsNoSend ==
  ASSUME IInv, Flags, NEW t \in Tasks, NEW m \in EventCalls, NEW r, NEW e,
         NEW o,
         NEW ptr, NEW n, Receives(t, m, r, e, o, ptr, n)
  PROVE  NoSendOf(t)
<1> DEFINE w == [events |-> e, options |-> o, out |-> ptr]
<1>1. /\ pc[t] = "ready" /\ method' = [method EXCEPT ![t] = m]
      /\ ask' = [ask EXCEPT ![t] = r] /\ eventReceiveEx(t, w, n)
  BY DEF Receives
<1> HIDE DEF w
<1>2. \A u \in Tasks \ {t} : pc'[u] = pc[u] /\ status'[u] = status[u]
  BY <1>1 DEF eventReceiveEx, EventAnswer, IInv, Typed
<1>3. m \notin Senders
  BY DEF EventCalls, Receivers, Senders
<1> QED
  BY <1>1, <1>2, <1>3 DEF NoSendOf, IInv, Typed, Flags

\* nor is a registration.
LEMMA StartIsNoSend ==
  ASSUME IInv, NEW t \in Tasks, NEW opts, eventStart(t, opts)
  PROVE  NoSendOf(t)
<1>1. ASSUME NEW S, NEW p, NEW s, EventSend(S, {QEvent}, p, s),
             \A u \in Tasks \ {t} : p[u] = pc[u] /\ s[u] = status[u]
      PROVE  \A u \in Tasks \ {t} :
               \/ pc'[u] = pc[u] /\ status'[u] = status[u]
               \/ pc[u] = "receiving"
  BY <1>1 DEF EventSend
<1>2. \A u \in Tasks \ {t} :
        \/ pc'[u] = pc[u] /\ status'[u] = status[u]
        \/ pc[u] = "receiving"
  <2> DEFINE p == [pc EXCEPT ![t] = "returning"]
             s == [status EXCEPT ![t] = "OK"]
  <2>1. (\E S : EventSend(S, {QEvent}, p, s)) \/ Returns(t, "ERROR")
    BY DEF eventStart, Registers
  <2>2. \A u \in Tasks \ {t} : p[u] = pc[u] /\ s[u] = status[u]
    BY DEF IInv, Typed
  <2>3. CASE Returns(t, "ERROR")
    BY <2>3 DEF Returns, IInv, Typed
  <2> HIDE DEF p, s
  <2> QED
    BY <1>1, <2>1, <2>2, <2>3
<1>3. /\ pc[t] = "ready" /\ method'[t] = "eventStart"
      /\ \A u \in Tasks \ {t} : method'[u] = method[u] /\ ask'[u] = ask[u]
  BY DEF eventStart, IInv, Typed
<1> QED
  BY <1>2, <1>3 DEF NoSendOf, Senders

\* A call of class event, or of the notification, sends and takes no message.
LEMMA OtherCallSimulates ==
  ASSUME IInv, Flags, NEW t \in Tasks,
         \/ EventStep(t) \/ eventStop(t)
         \/ \E o \in StartOptions : eventStart(t, o)
  PROVE  Simulates
<1>1. queue' = queue /\ buffer' = buffer
  BY DEF EventStep, queue_vars, eventStart, eventStop
<1>2. NoSendOf(t)
  <2>1. CASE EventStep(t)
    <3>1. \/ \E u \in Tasks, e \in Events :
               send(t, u, {e}) \/ send_thread(t, u, {e})
          \/ \E m \in EventCalls : \E r, e, o, ptr, n :
               Receives(t, m, r, e, o, ptr, n)
          \/ clear(t)
      <4>1. /\ Receivers \subseteq EventCalls /\ "receive_only" \in EventCalls
            /\ "fetch" \in EventCalls
            /\ "receive" \in Receivers /\ "receive_for" \in Receivers
            /\ "receive_until" \in Receivers /\ "poll" \in Receivers
        BY DEF EventCalls, Receivers
      <4> QED
        BY <2>1, <4>1 DEF EventStep, EventCall, receive, receive_only,
          receive_for,
          receive_until, poll, fetch
    <3>2. clear(t) => NoSendOf(t)
      BY DEF clear, NoSendOf, Senders, IInv, Typed
    <3> QED
      BY <3>1, <3>2, EventSendIsNoSend, ReceiveIsNoSend
  <2>2. CASE eventStop(t)
    BY <2>2 DEF eventStop, Returns, NoSendOf, Senders, IInv, Typed
  <2> QED
    BY <2>1, <2>2, StartIsNoSend
<1>3. method[t] \notin Senders
  BY <1>2, ReadyTask DEF NoSendOf, Senders
<1>4. \A u \in Tasks : pc[u] = "receiving" => method[u] \notin Senders
  BY DEF IInv, OfTask, CallMeant, Receivers, Senders
<1>5. \A u \in Tasks : Offering'[u] = Offering[u]
  <2> TAKE u \in Tasks
  <2>1. CASE u = t
    BY <1>2, <1>3, <2>1, OfferStays DEF NoSendOf
  <2>2. CASE u # t
    BY <1>2, <1>4, <2>2, OfferStays DEF NoSendOf
  <2> QED
    BY <2>1, <2>2
<1> QED
  BY <1>1, <1>5, OffersAll DEF Simulates

\* With the return a send is over, or the message that was received is used.
LEMMA ReturnSimulates ==
  ASSUME IInv, NEW t \in Tasks, return(t)
  PROVE  Simulates
<1>1. /\ pc[t] = "returning" /\ pc'[t] = "ready" /\ method'[t] = "none"
      /\ queue' = queue /\ buffer' = [buffer EXCEPT ![t] = NoMessage]
      /\ \A u \in Tasks \ {t} : /\ pc'[u] = pc[u] /\ status'[u] = status[u]
                                /\ method'[u] = method[u] /\ ask'[u] = ask[u]
  BY DEF return, IInv, Typed
<1>2. \A u \in Tasks \ {t} : Offering'[u] = Offering[u]
  BY <1>1, OfferStays
<1>3. CASE method[t] \in Senders
  <2>1. buffer[t] = NoMessage
    BY <1>3, MethodsAre DEF IInv, OfTask, HandEmpty
  <2>2. buffer' = buffer
    BY <1>1, <2>1 DEF IInv, Typed
  <2>3. Offering'[t] = Queue!NoOffer
    BY <1>1, NowNothing
  <2>4. \A u \in Tasks :
          Offering'[u] = IF u \in {t} THEN Queue!NoOffer ELSE Offering[u]
    BY <1>2, <2>3
  <2> QED
    BY <1>1, <2>2, <2>4, AsDone DEF Simulates
<1>4. CASE method[t] \notin Senders
  <2>1. Offering'[t] = Offering[t]
    BY <1>1, <1>4, OfferStays DEF Senders
  <2>2. Offering' = Offering
    BY <1>2, <2>1, OffersAll
  <2> QED
    BY <1>1, <2>2, AsUse DEF Simulates
<1> QED
  BY <1>3, <1>4

\* The end of a task, and of a receive of events, is not seen.
LEMMA EndSimulates ==
  ASSUME IInv, NEW t \in Tasks,
         \/ throw(t)
         \/ /\ EventTimeout(t) \/ EventLate(t)
            /\ UNCHANGED <<object, queue_vars, drained>>
  PROVE  Simulates
<1>1. /\ queue' = queue /\ buffer' = buffer /\ method' = method /\ ask' = ask
      /\ \A u \in Tasks \ {t} : pc'[u] = pc[u] /\ status'[u] = status[u]
  BY DEF throw, EventTimeout, EventLate, EventAnswer, queue_vars, call_vars,
    IInv,
    Typed
<1>2. Offering'[t] = Offering[t]
  <2>1. CASE throw(t)
    <3>1. pc[t] = "returning" /\ status[t] # "OK" /\ pc'[t] = "dead"
      BY <2>1 DEF throw, IInv, Typed
    <3> QED
      BY <3>1, NothingOffered, NowNothing
  <2>2. CASE EventTimeout(t)
    <3>1. method[t] \notin Senders
      BY <2>2 DEF EventTimeout, IInv, OfTask, CallMeant, Receivers, Senders
    <3> QED
      BY <1>1, <3>1, OfferStays
  <2>3. CASE EventLate(t)
    <3>1. pc'[t] = pc[t] /\ status'[t] = status[t]
      BY <2>3 DEF EventLate, call_vars
    <3> QED
      BY <1>1, <3>1, OfferStays
  <2> QED
    BY <2>1, <2>2, <2>3
<1>3. \A u \in Tasks : Offering'[u] = Offering[u]
  <2> TAKE u \in Tasks
  <2>1. CASE u # t
    BY <1>1, <2>1, OfferStays
  <2> QED
    BY <1>2, <2>1
<1> QED
  BY <1>1, <1>3, OffersAll DEF Simulates

\* The sends that pend fail: one that runs out, all when the queue is deleted.
LEMMA FailureSimulates ==
  ASSUME IInv, NEW t \in Tasks, Timeout(t) \/ dtor(t)
  PROVE  Simulates
<1>1. PICK S \in SUBSET Tasks :
        /\ \A u \in S : pc'[u] = "returning" /\ status'[u] = "ERROR"
        /\ \A u \in Tasks \ S : pc'[u] = pc[u] /\ status'[u] = status[u]
  <2>1. CASE Timeout(t)
    <3>1. /\ \A u \in {t} : pc'[u] = "returning" /\ status'[u] = "ERROR"
          /\ \A u \in Tasks \ {t} : pc'[u] = pc[u] /\ status'[u] = status[u]
      BY <2>1 DEF Timeout, Returns, IInv, Typed
    <3> QED
      BY <3>1
  <2>2. CASE dtor(t)
    <3>1. InLine \in SUBSET Tasks
      BY DEF IInv, PendsForAReason
    <3>2. /\ \A u \in InLine : pc'[u] = "returning" /\ status'[u] = "ERROR"
          /\ \A u \in Tasks \ InLine : pc'[u] = pc[u] /\ status'[u] = status[u]
      BY <2>2, <3>1 DEF dtor
    <3> QED
      BY <3>1, <3>2
  <2> QED
    BY <2>1, <2>2
<1>2. queue' = queue /\ buffer' = buffer /\ method' = method /\ ask' = ask
  BY DEF Timeout, dtor
<1>3. \A u \in Tasks :
        Offering'[u] = IF u \in S THEN Queue!NoOffer ELSE Offering[u]
  <2> TAKE u \in Tasks
  <2>1. CASE u \in S
    BY <1>1, <2>1, NowNothing
  <2>2. CASE u \notin S
    BY <1>1, <1>2, <2>2, OfferStays
  <2> QED
    BY <2>1, <2>2
<1> QED
  BY <1>2, <1>3, AsDone DEF Simulates

\* Every step is one of the abstract queue, or none.
LEMMA NextSimulates ==
  ASSUME IInv, Flags, [Next]_vars
  PROVE  Simulates
<1>1. CASE UNCHANGED vars
  <2>1. /\ queue' = queue /\ buffer' = buffer /\ pc' = pc /\ status' = status
        /\ method' = method /\ ask' = ask
    BY <1>1 DEF vars, queue_vars, call_vars
  <2>2. \A u \in Tasks : Offering'[u] = Offering[u]
    BY <2>1, OfferStays
  <2> QED
    BY <2>1, <2>2, OffersAll DEF Simulates
<1>2. ASSUME NEW t \in Tasks,
             \/ SendStep(t) \/ TakeStep(t) \/ EventStep(t)
             \/ \E o \in StartOptions : eventStart(t, o)
             \/ eventStop(t) \/ return(t) \/ throw(t) \/ dtor(t) \/ Timeout(t)
             \/ /\ EventTimeout(t) \/ EventLate(t)
                /\ UNCHANGED <<object, queue_vars, drained>>
      PROVE  Simulates
  BY <1>2, SendSimulates, TakeSimulates, OtherCallSimulates, ReturnSimulates,
    EndSimulates, FailureSimulates
<1> QED
  BY <1>1, <1>2 DEF Next

\* The users of the queue see a queue: what is sent is received once and in its
\* order if its send succeeds, and never if it fails.
THEOREM Refinement == Spec => ImplementsQueue
<1>1. Init => Queue!Init
  <2> SUFFICES ASSUME Init PROVE Queue!Init
    OBVIOUS
  <2>1. \A t \in Tasks : method[t] \notin Senders
    BY DEF Init, EventInit, Senders
  <2>2. Offering = [t \in Tasks |-> Queue!NoOffer]
    BY <2>1 DEF Offering, Queue!NoOffer
  <2> QED
    BY <2>2 DEF Init, EventInit, Offering, Queue!Init
<1>2. IInv /\ Flags /\ [Next]_vars => [Queue!Next]_(Queue!vars)
  BY NextSimulates DEF Simulates, Offering, Queue!vars
<1> QED
  BY <1>1, <1>2, Invariance, PTL DEF Spec, ImplementsQueue, Queue!Spec
===============================================================================
