------------------------------ MODULE LoadSpec ------------------------------
(* What a bulk load promises about the table, whatever happens on the way: *)
(* docs/load_data.md, "Errors" and "Transactions".  A load is stored as a  *)
(* whole or not at all, nothing stored is lost again, and no table is left *)
(* behind without rows.  Several loads become visible in one step when the *)
(* application put them into one transaction.                              *)
EXTENDS Naturals

CONSTANTS Calls,   \* the statements and loads of the application, in order
          Whole    \* how much a complete load brings

VARIABLE table    \* what another session sees of the target table

\* The rows statement k was given, all of them
Complete(k) == [of |-> k, from |-> k, n |-> Whole]

Init == table \in [exists : BOOLEAN, rows : {{}}]

Store(ks) ==
  /\ ks # {}
  /\ \A k \in ks : Complete(k) \notin table.rows
  /\ table' = [exists |-> TRUE, rows |-> table.rows \cup {Complete(k) : k \in ks}]

Next == \E ks \in SUBSET Calls : Store(ks)

Spec == Init /\ [][Next]_table
=============================================================================
