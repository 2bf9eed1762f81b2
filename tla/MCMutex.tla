------------------------------- MODULE MCMutex -------------------------------
(* Finite instances of Mutex.  A tick lasts 1 ms and _Vx_ticks_t has 4 values, *)
(* so that a timeout is NO_WAIT (0), one or two ticks, or WAIT_FOREVER (3).    *)
EXTENDS Mutex

CONSTANTS t1, t2, t3, none

MCTasks2 == {t1, t2}
MCTasks3 == {t1, t2, t3}

\* t1 before t2 and t3, which share a priority.
MCPrio2 == [t \in MCTasks2 |-> IF t = t1 THEN 0 ELSE 1]
MCPrio3 == [t \in MCTasks3 |-> IF t = t1 THEN 0 ELSE 1]

MCRobust == {{"SEM_Q_PRIORITY", "SEM_INVERSION_SAFE", "SEM_ROBUST"}}

\* Every method but the give that does not give.
MCCalls == Methods \ {"give_quickly_for"}

\* Operators ++ and -- make the calls of unlock and lock.
MCLivenessCalls == MCCalls \ {"operator++", "operator--"}

MCTimeouts  == {0, 1, 3}
MCDurations == {0, 1}

\* A negative duration, which wraps, too.
MCDurationsNeg == {-1, 0, 1}
MCDeadlines == {5, 6}
===============================================================================
