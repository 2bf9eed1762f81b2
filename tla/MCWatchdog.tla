------------------------------ MODULE MCWatchdog ------------------------------
(* Finite instances of Watchdog: a refused delay, one tick and two.            *)
EXTENDS Watchdog

MCDelays == {0, 1, 2}

MCDiscipline(task, isr_, cancelFirst, smp) ==
  [forms |-> [c \in Contexts |-> IF c = "task" THEN task ELSE isr_],
   cancelFirst |-> cancelFirst, smp |-> smp]

\* The disciplines under which the timer is safe.  On one processor: every
\* form from the task, if it cancels first, and C routines from the routine;
\* or C routines at any time.  On several: C routines.
MCSafe ==
  {MCDiscipline({"cpp", "c"}, {"c"}, TRUE, FALSE),
   MCDiscipline({"c"}, {"c"}, FALSE, FALSE),
   MCDiscipline({"c"}, {"c"}, FALSE, TRUE)}

\* A C++ routine replaced while the timer runs.
MCRestart == {MCDiscipline({"cpp"}, {}, FALSE, FALSE)}

\* A C++ routine that starts its timer again, on one processor.
MCPeriodic == {MCDiscipline({"cpp"}, {"cpp"}, TRUE, FALSE)}
===============================================================================
