------------------------------- MODULE MCCondVar -------------------------------
(* Finite instances of CondVar: 4 values of _Vx_ticks_t.                       *)
EXTENDS CondVar

CONSTANTS p1, p2, c1, c2, m1, m2

MCPrio == [t \in {p1, p2, c1, c2} |-> IF t = c1 THEN 0 ELSE 1]

\* c2 uses the mutex of the others, or one of its own.
Pairing(m) == [t \in {p1, p2, c1, c2} |-> IF t = c2 THEN m ELSE m1]

\* Both consumers with one mutex or two, a single consumer with punctual
\* producers, or with late ones.
MCScenes ==
  [uses : {Pairing(m1), Pairing(m2)}, late : {TRUE}, consumers : {{c1, c2}}]
    \cup [uses : {Pairing(m1)}, late : BOOLEAN, consumers : {{c1}}]

MCTimeouts  == {0, 1}
MCDurations == {-1, 1}
===============================================================================
