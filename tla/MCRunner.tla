------------------------------- MODULE MCRunner -------------------------------
(* Instances of Runner for TLC. *)
EXTENDS Runner

CONSTANTS main, worker

OneThread == {main}
TwoThreads == {main, worker}

Budget(ofMain, ofWorker, interrupts, closes) ==
  [calls |-> [t \in TwoThreads |-> IF t = main THEN ofMain ELSE ofWorker],
   interrupts |-> interrupts, closes |-> closes]

\* A whole transaction() block under an interrupt or over a restart; two threads that
\* call while the runner is closed, and one of them interrupted.
Blocks == {Budget(3, 0, 1, 0), Budget(3, 0, 0, 1)}
Races == {Budget(1, 1, 0, 1), Budget(1, 1, 1, 0)}
BlocksAndRaces == Blocks \cup Races
Interrupted == {Budget(3, 0, 1, 0)}

===============================================================================
