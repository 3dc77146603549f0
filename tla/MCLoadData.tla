----------------------------- MODULE MCLoadData -----------------------------
(* Instances of LoadData for TLC, and the rows it sends. *)
EXTENDS LoadData, BulkRows

CONSTANTS t1, t2

BothTasks == {t1, t2}

\* Statements that do not end a transaction
Beginning == {"catalog", "create", "insert", "stmt", "copy", "unload", "begin"}

\* One task whose calls are cancelled; two tasks in each other's way
PassingScenes == {[tasks |-> {t1}, calls |-> 3, cancel |-> Beginning],
                  [tasks |-> {t1, t2}, calls |-> 2, cancel |-> {}],
                  [tasks |-> {}, calls |-> 0, cancel |-> {}]}
\* One task, and an unload that breaks off
UnloadScene == {[tasks |-> {t1}, calls |-> 2, cancel |-> {}]}

\* A list that is bad; a typed source that fails midway; a source whose types are
\* inferred; a load into a table that must exist.
Arguments(lazy, typed, create, bad) == [lazy |-> lazy, typed |-> typed, create |-> create, bad |-> bad]
TypicalLoads ==
  {Arguments(FALSE, TRUE, TRUE, 1), Arguments(TRUE, TRUE, TRUE, 0),
   Arguments(TRUE, TRUE, TRUE, 2), Arguments(TRUE, FALSE, TRUE, 0), Arguments(TRUE, TRUE, FALSE, 0)}

AllOthers == {"stmt", "copy", "unload", "begin", "commit", "rollback"}

\* What the rows of a load are made of is looked at where no task does anything.
GivenInit ==
  /\ Init
  /\ IF scene.tasks = {} /\ conn.autocommit /\ work.exists THEN given \in GivenRows \cup GivenNumbers
     ELSE given = GivenNothing

GivenSpec ==
  /\ GivenInit /\ [][Next /\ UNCHANGED given]_<<vars, given>>
  /\ WF_vars(Server) /\ \A t \in Tasks : WF_vars(Client(t))

=============================================================================
