------------------------------ MODULE PoolSpec ------------------------------
(***************************************************************************)
(* What both connection pools promise to their borrowers, with nothing of  *)
(* how they keep the promise: a loan book.  NzPool (asyncio tasks) and     *)
(* SyncPool (threads) are each shown to implement this module.             *)
(***************************************************************************)
EXTENDS Naturals, FiniteSets

CONSTANTS
  Borrowers,   \* tasks or threads that acquire and release
  Conns,       \* connection identities
  MaxSize,     \* most connections on loan at once
  NoConn       \* "holds nothing"

VARIABLES
  loan,        \* what each borrower holds
  open         \* close_all has not run

vars == <<loan, open>>

OnLoan == {loan[b] : b \in Borrowers} \ {NoConn}

Init == /\ loan = [b \in Borrowers |-> NoConn]
        /\ open = TRUE

\* acquire() returns c: the pool is open, nobody else has c, a slot is free.
Lend(b, c) ==
  /\ open
  /\ loan[b] = NoConn
  /\ c \notin OnLoan
  /\ Cardinality(OnLoan) < MaxSize
  /\ loan' = [loan EXCEPT ![b] = c]
  /\ UNCHANGED open

\* release() takes the connection back, whether it is kept or retired.
Return(b) ==
  /\ loan[b] # NoConn
  /\ loan' = [loan EXCEPT ![b] = NoConn]
  /\ UNCHANGED open

\* close_all() ends lending for good; loans stay out until their release().
Close ==
  /\ open
  /\ open' = FALSE
  /\ UNCHANGED loan

Next == \/ \E b \in Borrowers, c \in Conns : Lend(b, c)
        \/ \E b \in Borrowers : Return(b)
        \/ Close

Spec == Init /\ [][Next]_vars

=============================================================================
