------------------------------ MODULE MCNzPool ------------------------------
(* Instances of NzPool for TLC. *)
EXTENDS NzPool

CONSTANTS t1, t2, t3, c1, c2

ThreeTasks == {t1, t2, t3}
TwoConns == {c1, c2}

=============================================================================
