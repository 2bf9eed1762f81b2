------------------------------ MODULE MonitorSpec ------------------------------
(***************************************************************************)
(* What callers of a condition variable and of the mutexes they wait with  *)
(* are promised (condition_variable.hpp:28-36, :164-166): a wait gives the *)
(* mutex up and ends with the mutex taken again, and nobody counts on a    *)
(* mutex that somebody else counts on.  A wait may end at any time: wait   *)
(* and wait_for are void, and a caller cannot tell why they returned.      *)
(***************************************************************************)
CONSTANTS Tasks, Mutexes

VARIABLES
  uses,  \* uses[t]: the mutex of t, which never changes
  mode,  \* mode[t] \in {"idle", "asking", "waiting"}
  held   \* held[t]: does t count on holding its mutex?

vars == <<uses, mode, held>>

Init ==
  /\ uses \in [Tasks -> Mutexes]
  /\ mode = [t \in Tasks |-> "idle"]
  /\ held = [t \in Tasks |-> FALSE]

Request(t) ==
  /\ mode[t] = "idle" /\ ~held[t]
  /\ mode' = [mode EXCEPT ![t] = "asking"]
  /\ UNCHANGED <<uses, held>>

Grant(t) ==
  /\ mode[t] = "asking"
  /\ \A u \in Tasks \ {t} : uses[u] = uses[t] => ~held[u]
  /\ mode' = [mode EXCEPT ![t] = "idle"]
  /\ held' = [held EXCEPT ![t] = TRUE]
  /\ UNCHANGED uses

Release(t) ==
  /\ mode[t] = "idle" /\ held[t]
  /\ held' = [held EXCEPT ![t] = FALSE]
  /\ UNCHANGED <<uses, mode>>

Wait(t) ==
  /\ mode[t] = "idle" /\ held[t]
  /\ mode' = [mode EXCEPT ![t] = "waiting"]
  /\ held' = [held EXCEPT ![t] = FALSE]
  /\ UNCHANGED uses

\* Some of those that wait, one or all of them, ask for their mutex again.
Wake(S) ==
  /\ \A t \in S : mode[t] = "waiting"
  /\ mode' = [t \in Tasks |-> IF t \in S THEN "asking" ELSE mode[t]]
  /\ UNCHANGED <<uses, held>>

Next ==
  \/ \E t \in Tasks : Request(t) \/ Grant(t) \/ Release(t) \/ Wait(t)
  \/ \E S \in SUBSET Tasks : Wake(S)

Spec == Init /\ [][Next]_vars
===============================================================================
