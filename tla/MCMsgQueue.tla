------------------------------- MODULE MCMsgQueue ------------------------------
(* Finite instances of MsgQueue: 4 values of _Vx_ticks_t, a queue of 2.        *)
EXTENDS MsgQueue, TLC

CONSTANTS s1, s2, r1, a, b, q, e

MCPrio == [t \in {s1, s2, r1} |-> IF t = s1 THEN 0 ELSE 1]

Scene(c, f, x, y, z) ==
  [class |-> c, fifo |-> f, calls |-> (s1 :> x) @@ (s2 :> y) @@ (r1 :> z)]

MCScenes ==
  {\* A queue<M> in FIFO order, with one or two at either end.
   Scene("queue", TRUE, {"timed send", "<<"}, {"push", "recieve"},
         {"timed recieve", ">>", "send"}),
   \* A msgQ with queuing by priority.
   Scene("msgQ", FALSE, {"timed send", "recieve"}, {"send"},
         {"timed recieve", "queue.poll"}),
   \* r1 serves a queue of which it is told by events, as long as s2 has not
   \* registered before it and while it has not stopped it.
   Scene("queue", TRUE, {"send"}, {"eventStart"},
         {"eventStart", "eventStop", "queue.poll", "receive", "clear"}),
   \* r1 serves a queue while it is sent other events.
   Scene("queue", TRUE, {"send"}, {"event.send"},
         {"eventStart", "queue.poll", "receive", "poll"}),
   \* No queue: r1 is sent events and calls all of class event.
   Scene("queue", TRUE, {"event.send"}, {"send(thread)"},
         {"receive_only", "fetch", "clear"} \cup Receivers)}

MCRequests ==
  {[events |-> {q}, options |-> {"EVENTS_WAIT_ANY"}],
   [events |-> {e}, options |-> {"EVENTS_KEEP_UNWANTED"}],
   [events |-> {q, e}, options |-> {"EVENTS_WAIT_ANY", "EVENTS_KEEP_UNWANTED"}],
   [events |-> {q, e}, options |-> {"EVENTS_RETURN_ALL"}]}

\* No option, and each of those that decide what is sent and who is told.
MCStartOptions ==
  {{}, {"EVENTS_SEND_ONCE"}, {"EVENTS_SEND_IF_FREE", "EVENTS_ALLOW_OVERWRITE"}}

MCTimeouts  == {0, 1}
MCDurations == {-1, 1}
===============================================================================
