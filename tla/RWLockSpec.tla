------------------------------ MODULE RWLockSpec ------------------------------
(***************************************************************************)
(* What shared_mutex promises, as its callers see it ("the behaviour       *)
(* mimics the C++17 std::shared_mutex where possible", and "the maximum    *)
(* number of concurrent readers is set per semaphore", shared_mutex.hpp:33 *)
(* and :40): a task asks for the lock, alone or shared, and is granted it  *)
(* or refused; who holds it alone is alone; no more than `limit' share it. *)
(***************************************************************************)
EXTENDS Naturals, FiniteSets

CONSTANT Tasks

VARIABLES
  limit,      \* how many may share the lock
  mode,       \* mode[t] \in {"idle", "asking", "asking shared", "dead"}
  exclusive,  \* exclusive[t]: how many times t counts on holding it alone
  shared      \* shared[t]: how many times t counts on sharing it

vars == <<limit, mode, exclusive, shared>>

Init ==
  /\ limit \in Nat \ {0}
  /\ mode = [t \in Tasks |-> "idle"]
  /\ exclusive = [t \in Tasks |-> 0]
  /\ shared = [t \in Tasks |-> 0]

Goes(t, from, to) == mode[t] = from /\ mode' = [mode EXCEPT ![t] = to]

Others(t) == Tasks \ {t}

Holds(t) == exclusive[t] + shared[t] > 0

Request(t) ==
  /\ Goes(t, "idle", "asking") \/ Goes(t, "idle", "asking shared")
  /\ UNCHANGED <<limit, exclusive, shared>>

Grant(t) ==
  /\ Goes(t, "asking", "idle")
  /\ \A u \in Others(t) : ~Holds(u)
  /\ exclusive' = [exclusive EXCEPT ![t] = @ + 1]
  /\ UNCHANGED <<limit, shared>>

GrantShared(t) ==
  /\ Goes(t, "asking shared", "idle")
  /\ \A u \in Others(t) : exclusive[u] = 0
  /\ Cardinality({u \in Others(t) : shared[u] > 0}) < limit
  /\ shared' = [shared EXCEPT ![t] = @ + 1]
  /\ UNCHANGED <<limit, exclusive>>

Refuse(t) ==
  /\ Goes(t, "asking", "idle") \/ Goes(t, "asking shared", "idle")
  /\ UNCHANGED <<limit, exclusive, shared>>

Release(t) ==
  /\ mode[t] = "idle"
  /\ \/ /\ exclusive[t] > 0
        /\ exclusive' = [exclusive EXCEPT ![t] = @ - 1]
        /\ UNCHANGED shared
     \/ /\ shared[t] > 0
        /\ shared' = [shared EXCEPT ![t] = @ - 1]
        /\ UNCHANGED exclusive
  /\ UNCHANGED <<limit, mode>>

Perish(t) ==
  /\ mode[t] # "dead"
  /\ mode' = [mode EXCEPT ![t] = "dead"]
  /\ exclusive' = [exclusive EXCEPT ![t] = 0]
  /\ shared' = [shared EXCEPT ![t] = 0]
  /\ UNCHANGED limit

Next ==
  \E t \in Tasks :
    \/ Request(t) \/ Grant(t) \/ GrantShared(t) \/ Refuse(t)
    \/ Release(t) \/ Perish(t)

Spec == Init /\ [][Next]_vars
===============================================================================
