----------------------------- MODULE MCSharedMutex -----------------------------
(* A finite instance of SharedMutex: ticks of 1 ms and 4 values of _Vx_ticks_t. *)
EXTENDS SharedMutex

CONSTANTS t1, t2, t3, none

MCTasks3 == {t1, t2, t3}

\* t1 before t2 and t3, which share a priority.
MCPrio3 == [t \in MCTasks3 |-> IF t = t1 THEN 0 ELSE 1]

\* One reader; and more than the system allows, which is 2.
MCMaxReaders == {1, 3}

MCOptionSets == {{"SEM_Q_FIFO"}}

MCTimeouts  == {0, 1, 3}
\* A negative duration wraps.
MCDurations == {-1, 1}
MCDeadlines == {5, 6}
===============================================================================
