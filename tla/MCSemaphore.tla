------------------------------ MODULE MCSemaphore ------------------------------
(* Finite instances of Semaphore: ticks of 1 ms, 4 values of _Vx_ticks_t.      *)
EXTENDS Semaphore

CONSTANTS t1, t2, t3

MCTasks2 == {t1, t2}
MCTasks3 == {t1, t2, t3}
MCPrio2 == [t \in MCTasks2 |-> IF t = t1 THEN 0 ELSE 1]
MCPrio3 == [t \in MCTasks3 |-> IF t = t1 THEN 0 ELSE 1]

MCTimeouts  == {0, 1}
MCDurations == {-1, 1}
MCCounts    == {0, 1, 3}
\* A negative count too.
MCCountsNeg == {-1, 0, 2}

\* The operators make the calls of acquire and release.
MCCalls == Methods \ {"operator++", "operator--"}
===============================================================================
