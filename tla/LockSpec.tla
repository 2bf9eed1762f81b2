------------------------------- MODULE LockSpec -------------------------------
(***************************************************************************)
(* What a mutex class of the library promises, as its callers see it       *)
(* ("the behaviour mimics the C++ std::mutex where possible",              *)
(* mutex.hpp:235): a task asks, is granted the lock or refused; nobody is  *)
(* granted it while somebody else counts on holding it; it is held until   *)
(* released as often as it was granted, or until its holder perishes.      *)
(***************************************************************************)
EXTENDS Naturals

CONSTANT Tasks

VARIABLES
  mode,   \* mode[t] \in {"idle", "asking", "dead"}
  held    \* held[t]: how many times t counts on holding the lock

vars == <<mode, held>>

Init ==
  /\ mode = [t \in Tasks |-> "idle"]
  /\ held = [t \in Tasks |-> 0]

Request(t) ==
  /\ mode[t] = "idle"
  /\ mode' = [mode EXCEPT ![t] = "asking"]
  /\ UNCHANGED held

Grant(t) ==
  /\ mode[t] = "asking"
  /\ \A u \in Tasks \ {t} : held[u] = 0
  /\ held' = [held EXCEPT ![t] = @ + 1]
  /\ mode' = [mode EXCEPT ![t] = "idle"]

Refuse(t) ==
  /\ mode[t] = "asking"
  /\ mode' = [mode EXCEPT ![t] = "idle"]
  /\ UNCHANGED held

Release(t) ==
  /\ mode[t] = "idle"
  /\ held[t] > 0
  /\ held' = [held EXCEPT ![t] = @ - 1]
  /\ UNCHANGED mode

Perish(t) ==
  /\ mode[t] # "dead"
  /\ mode' = [mode EXCEPT ![t] = "dead"]
  /\ held' = [held EXCEPT ![t] = 0]

Next ==
  \E t \in Tasks :
    Request(t) \/ Grant(t) \/ Refuse(t) \/ Release(t) \/ Perish(t)

Spec == Init /\ [][Next]_vars
===============================================================================
