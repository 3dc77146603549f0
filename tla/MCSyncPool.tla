----------------------------- MODULE MCSyncPool -----------------------------
(* Instances of SyncPool for TLC. *)
EXTENDS SyncPool

CONSTANTS t1, t2, c1, c2

TwoThreads == {t1, t2}
TwoConns == {c1, c2}

=============================================================================
