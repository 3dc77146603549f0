---------------------------- MODULE MCHandshake ----------------------------
(* Instance of Handshake for TLC. *)
EXTENDS Handshake

Want(level, fallback, password, options, caller) ==
  [level |-> level, fallback |-> fallback, password |-> password, options |-> options,
   caller |-> caller]

\* Every way to ask for TLS, without a password, and NzPool
TypicalWants ==
  {Want(0, FALSE, TRUE, TRUE, "connect"), Want(1, FALSE, FALSE, FALSE, "connect"),
   Want(2, FALSE, TRUE, FALSE, "connect"), Want(2, TRUE, TRUE, FALSE, "connect"),
   Want(3, TRUE, TRUE, FALSE, "connect"), Want(2, TRUE, TRUE, FALSE, "pool")}
=============================================================================
