------------------------------- MODULE QueueSpec -------------------------------
(***************************************************************************)
(* What the users of a message queue are promised (queue.hpp:84-95, :232): *)
(* up to Capacity messages in FIFO order, urgent ones in front.  A message *)
(* whose send succeeds is put in the queue, or in the hands of a receiver, *)
(* once; one whose send fails never is.                                    *)
(***************************************************************************)
EXTENDS Sequences, Naturals

CONSTANTS Tasks, Messages, NoMessage, Capacity

VARIABLES
  content,  \* the queue
  offer,    \* offer[t]: what t is sending, how urgent it is and whether it is in
  inbox     \* inbox[t]: the message t has been given and not used yet

vars == <<content, offer, inbox>>

NoOffer == [message |-> NoMessage, urgent |-> FALSE, in |-> FALSE]
Offers  == [message : Messages, urgent : BOOLEAN, in : {FALSE}]

Put(s, o) == IF o.urgent THEN <<o.message>> \o s ELSE Append(s, o.message)

\* t sends o, now or since an earlier Offer.
Accept(t, o) ==
  /\ offer[t] \in {NoOffer, o}
  /\ offer' = [offer EXCEPT ![t] = [o EXCEPT !.in = TRUE]]

Init ==
  /\ content = <<>>
  /\ offer = [t \in Tasks |-> NoOffer]
  /\ inbox = [t \in Tasks |-> NoMessage]

Offer(t, o) ==
  /\ offer[t] = NoOffer
  /\ offer' = [offer EXCEPT ![t] = o]
  /\ UNCHANGED <<content, inbox>>

Send(t, o) ==
  /\ Accept(t, o) /\ Len(content) < Capacity
  /\ content' = Put(content, o)
  /\ UNCHANGED inbox

\* A message goes from hand to hand.
Hand(t, o, r) ==
  /\ Accept(t, o) /\ content = <<>> /\ inbox[r] = NoMessage
  /\ inbox' = [inbox EXCEPT ![r] = o.message]
  /\ UNCHANGED content

Receive(r) ==
  /\ content # <<>> /\ inbox[r] = NoMessage
  /\ inbox' = [inbox EXCEPT ![r] = Head(content)]
  /\ content' = Tail(content)
  /\ UNCHANGED offer

\* A sender that waits for room moves up when a message is taken.
ReceiveAndSend(r, t, o) ==
  /\ Len(content) = Capacity /\ inbox[r] = NoMessage /\ Accept(t, o)
  /\ inbox' = [inbox EXCEPT ![r] = Head(content)]
  /\ content' = Put(Tail(content), o)

\* Sends end, successful or not; of those that fail at a time, several.
Done(S) ==
  /\ offer' = [t \in Tasks |-> IF t \in S THEN NoOffer ELSE offer[t]]
  /\ UNCHANGED <<content, inbox>>

Use(r) ==
  /\ inbox' = [inbox EXCEPT ![r] = NoMessage]
  /\ UNCHANGED <<content, offer>>

Next ==
  \/ \E S \in SUBSET Tasks : Done(S)
  \/ \E t \in Tasks :
       \/ Receive(t) \/ Use(t)
       \/ \E o \in Offers :
            \/ Offer(t, o) \/ Send(t, o)
            \/ \E r \in Tasks : Hand(t, o, r) \/ ReceiveAndSend(r, t, o)

Spec == Init /\ [][Next]_vars
===============================================================================
