----------------------------- MODULE MCSession -----------------------------
(* Instances of Session for TLC. *)
EXTENDS Session

AllStatements == {"query", "begin", "commit", "rollback"}

=============================================================================
