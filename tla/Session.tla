------------------------------ MODULE Session ------------------------------
(***************************************************************************)
(* One connection and its backend: Connection._execute and what surrounds  *)
(* it (core.py), Cursor.execute and the fetch methods (cursor.py), the     *)
(* result reader and _drain_socket (_protocol.py).                         *)
(*                                                                         *)
(* The client is one actor: _operation() makes a second task fail at once. *)
(* cancel() and close() take no guard and are actions of their own.  One   *)
(* step is what runs between two awaits; a read takes one message.         *)
(*                                                                         *)
(* A timeout may strike at any await of the call it bounds.  The messages  *)
(* that change nothing (notices, padding, notifications) are left out.     *)
(***************************************************************************)
EXTENDS Naturals, Sequences

CONSTANTS
  Statements,     \* what the application executes
  MaxGen,         \* bound: statements sent on this connection
  MaxManual,      \* bound: calls of cancel() by other tasks
  Autocommit,     \* Connection.autocommit
  Timeouts,       \* execute() and fetches are called with timeout=...
  TaskCancelled,  \* the calling task may be cancelled from outside
  ServerMayDie

ASSUME SessionAssumption ==
  /\ Statements \subseteq {"query", "begin", "commit", "rollback"}
  /\ MaxGen \in Nat /\ MaxManual \in Nat
  /\ {Autocommit, Timeouts, TaskCancelled, ServerMayDie} \subseteq BOOLEAN

VARIABLES
  \* Connection
  closed,              \* _closed
  in_transaction, transaction_failed,
  dirty_socket,        \* _dirty_socket: a response is owed
  frame_in_progress,   \* _frame_in_progress
  partial_read,        \* NzBufferedStream.partial_read
  command_generation,
  error,               \* Connection.error is set
  live,                \* _active_generator has not ended
  \* the call in progress
  pc,
  todo,                \* statements it still has to run, the current one first
  timed,               \* its last statement runs under wait_for()
  exec_gen,            \* Cursor._exec_gen
  answer,              \* how the last call ended
  \* the backend and the network
  inbox, wire,         \* requests and messages under way
  running,             \* the statement the backend works on
  cancels,             \* cancel requests under way, by the generation they mean
  manual,              \* calls of cancel() so far
  transaction,         \* of the backend: "none", "open" or "failed"
  undone,              \* the last COMMIT it executed was turned into a rollback
  up,
  lost                 \* history: what was lost on the way, see Safety

connVars == <<closed, in_transaction, transaction_failed, dirty_socket, frame_in_progress,
              partial_read, command_generation, error, live>>
callVars == <<pc, todo, timed, exec_gen, answer>>
serverVars == <<inbox, wire, running, cancels, manual, transaction, undone, up>>
vars == <<connVars, callVars, serverVars, lost>>

Nobody == 0                       \* what a manual cancel() means: any statement
Nothing == [what |-> "nothing", of |-> 0, sent |-> FALSE]
Debris == "debris"                \* the unread rest of a message
Fragment == "fragment"            \* the query frame was cut while it was written

Messages(tags, of) == [i \in DOMAIN tags |-> [tag |-> tags[i], of |-> of]]

\* connect() has run its setup statements.
Init ==
  /\ closed = FALSE /\ in_transaction = FALSE /\ transaction_failed = FALSE
  /\ dirty_socket = FALSE /\ frame_in_progress = FALSE /\ partial_read = FALSE
  /\ command_generation = 0 /\ error = FALSE /\ live = FALSE
  /\ pc = "idle" /\ todo = <<>> /\ timed = FALSE /\ exec_gen = 0 /\ answer = "none"
  /\ inbox = <<>> /\ wire = <<>> /\ running = Nothing /\ cancels = {} /\ manual = 0
  /\ transaction = "none" /\ undone = FALSE /\ up = TRUE /\ lost = {}

-----------------------------------------------------------------------------
(* The backend *)

\* It begins a statement when it has finished the one before; a query frame that
\* was cut short is never finished.
ServerTake ==
  /\ up /\ running = Nothing /\ inbox # <<>> /\ Head(inbox).what # Fragment
  /\ running' = [what |-> Head(inbox).what, of |-> Head(inbox).of, sent |-> FALSE]
  /\ inbox' = Tail(inbox)
  /\ UNCHANGED <<connVars, callVars, wire, cancels, manual, transaction, undone, up, lost>>

Send(tags) == wire' = wire \o Messages(tags, running.of)
Aborted == transaction = "failed" /\ running.what \notin {"commit", "rollback"}

\* The columns and first row of a query, while it is still running
ServerStream ==
  /\ running.what = "query" /\ ~running.sent /\ ~Aborted
  /\ Send(<<"desc", "row">>)
  /\ running' = [running EXCEPT !.sent = TRUE]
  /\ UNCHANGED <<connVars, callVars, inbox, cancels, manual, transaction, undone, up, lost>>

Outcome(what) ==
  CASE what = "query" -> "DONE"
    [] what = "begin" -> "BEGIN"
    [] what = "commit" -> "COMMIT"
    [] what = "rollback" -> "ROLLBACK"

\* A failed transaction answers *ABORT STATE* until it is ended, and COMMIT
\* only ends it.
ServerFinish ==
  /\ running # Nothing
  /\ Send(IF Aborted THEN <<"ABORT", "ready">> ELSE <<Outcome(running.what), "ready">>)
  /\ running' = Nothing
  /\ transaction' =
       CASE running.what = "begin" /\ transaction = "none" -> "open"
         [] running.what \in {"commit", "rollback"} -> "none"
         [] OTHER -> transaction
  /\ undone' = IF running.what = "commit" THEN transaction = "failed" ELSE undone
  /\ UNCHANGED <<connVars, callVars, inbox, cancels, manual, up, lost>>

\* An error, of the statement or by a cancel, fails the transaction it is in.
ServerFail ==
  /\ running.what = "query" /\ ~Aborted
  /\ Send(<<"error", "ready">>)
  /\ running' = Nothing
  /\ transaction' = IF transaction = "none" THEN "none" ELSE "failed"
  /\ UNCHANGED <<connVars, callVars, inbox, cancels, manual, undone, up, lost>>

\* A cancel request reaches the postmaster, which signals the backend.
CancelArrives(g) ==
  /\ g \in cancels
  /\ cancels' = cancels \ {g}
  /\ \/ UNCHANGED <<wire, running, transaction>>
     \/ /\ running # Nothing
        /\ Send(<<"error", "ready">>)
        /\ running' = Nothing
        /\ transaction' = IF transaction = "none" THEN "none" ELSE "failed"
  /\ UNCHANGED <<connVars, callVars, inbox, manual, undone, up, lost>>

\* The backend goes away; some of what it sent may never arrive.
ServerDies ==
  /\ ServerMayDie /\ up
  /\ up' = FALSE
  /\ running' = Nothing /\ inbox' = <<>> /\ transaction' = "none"
  /\ \E n \in 0 .. Len(wire) : wire' = SubSeq(wire, 1, n)
  /\ UNCHANGED <<connVars, callVars, cancels, manual, undone, lost>>

-----------------------------------------------------------------------------
(* What a message does to the connection: handle_COMMAND_COMPLETE,            *)
(* handle_ERROR_RESPONSE and the ReadyForQuery branch of the reader           *)

\* Mutant: an error does not fail the transaction.
ApplyErrorForgotten(tag) ==
  /\ in_transaction' = CASE tag \in {"BEGIN", "ABORT"} -> TRUE
                         [] tag \in {"COMMIT", "ROLLBACK"} -> FALSE
                         [] OTHER -> in_transaction
  /\ transaction_failed' = CASE tag = "ABORT" -> TRUE
                             [] tag \in {"BEGIN", "COMMIT", "ROLLBACK"} -> FALSE
                             [] OTHER -> transaction_failed
  /\ error' = (error \/ tag \in {"error", "ABORT"} \/ (tag = "COMMIT" /\ transaction_failed))
  /\ dirty_socket' = (dirty_socket /\ tag # "ready")
  /\ frame_in_progress' = (tag # "ready")
  /\ live' = (tag # "ready")

Apply(tag) ==
  /\ in_transaction' = CASE tag \in {"BEGIN", "ABORT"} -> TRUE
                         [] tag \in {"COMMIT", "ROLLBACK"} -> FALSE
                         [] OTHER -> in_transaction
  /\ transaction_failed' = CASE tag = "ABORT" -> TRUE
                             [] tag \in {"BEGIN", "COMMIT", "ROLLBACK"} -> FALSE
                             [] tag = "error" -> transaction_failed \/ in_transaction
                             [] OTHER -> transaction_failed
  /\ error' = (error \/ tag \in {"error", "ABORT"} \/ (tag = "COMMIT" /\ transaction_failed))
  /\ dirty_socket' = (dirty_socket /\ tag # "ready")
  /\ frame_in_progress' = (tag # "ready")
  /\ live' = (tag # "ready")

\* The reader yields "ERROR" for this message.
IsError(tag) == tag \in {"error", "ABORT"} \/ (tag = "COMMIT" /\ transaction_failed /\ ~error)

-----------------------------------------------------------------------------
(* Calls *)

At(where) == pc' = where
Ends(how) == pc' = "idle" /\ todo' = <<>> /\ answer' = how

\* Cursor.execute(): clear() first drains what is left of this cursor's result.
Execute(s) ==
  /\ pc = "idle" /\ ~closed /\ command_generation + 2 <= MaxGen
  /\ At("clearing") /\ todo' = <<s>> /\ answer' = "none"
  /\ timed' \in {FALSE, Timeouts}
  /\ UNCHANGED <<connVars, exec_gen, serverVars, lost>>

\* Whether a transaction must be begun is decided here; the result of another
\* cursor may be live still, it is left to _execute().
Decide ==
  /\ pc = "clearing" /\ todo # <<>>
  /\ At("preparing")
  /\ IF ~Autocommit /\ ~in_transaction
     THEN todo' = <<"begin">> \o todo /\ UNCHANGED exec_gen
     ELSE exec_gen' = command_generation + 1 /\ UNCHANGED todo
  /\ UNCHANGED <<connVars, timed, answer, serverVars, lost>>

Commit ==
  /\ pc = "idle" /\ ~closed /\ command_generation + 1 <= MaxGen
  /\ At("preparing") /\ todo' = <<"commit">> /\ timed' = FALSE /\ answer' = "none"
  /\ UNCHANGED <<connVars, exec_gen, serverVars, lost>>

Rollback ==
  /\ pc = "idle" /\ ~closed /\ command_generation + 1 <= MaxGen
  /\ in_transaction
  /\ At("preparing") /\ todo' = <<"rollback">> /\ timed' = FALSE /\ answer' = "none"
  /\ UNCHANGED <<connVars, exec_gen, serverVars, lost>>

\* fetchone(), fetchall() (which no timeout bounds) and Cursor.close()
Fetch ==
  /\ pc = "idle" /\ ~closed /\ live
  /\ \E where \in {"fetching", "fetching all", "clearing"} : At(where)
  /\ answer' = "none"
  /\ UNCHANGED <<connVars, todo, timed, exec_gen, serverVars, lost>>

CursorClosed ==
  /\ pc = "clearing" /\ todo = <<>> /\ ~live
  /\ At("idle")
  /\ UNCHANGED <<connVars, todo, timed, exec_gen, answer, serverVars, lost>>

-----------------------------------------------------------------------------
(* Connection._execute() *)

\* Once the result before is drained
\* Mutant: an owed response is not drained.
PrepareUndrained ==
  /\ pc = "preparing" /\ ~live /\ ~closed
  /\ IF partial_read
     THEN closed' = TRUE /\ Ends("error")
     ELSE At("starting") /\ UNCHANGED <<closed, todo, answer>>
  /\ UNCHANGED <<in_transaction, transaction_failed, dirty_socket, frame_in_progress, partial_read,
                 command_generation, error, live, timed, exec_gen, serverVars, lost>>

Prepare ==
  /\ pc = "preparing" /\ ~live /\ ~closed
  /\ IF partial_read
     THEN closed' = TRUE /\ Ends("error")
     ELSE /\ At(IF dirty_socket \/ wire # <<>> THEN "draining" ELSE "starting")
          /\ UNCHANGED <<closed, todo, answer>>
  /\ UNCHANGED <<in_transaction, transaction_failed, dirty_socket, frame_in_progress, partial_read,
                 command_generation, error, live, timed, exec_gen, serverVars, lost>>

\* _drain_socket(): messages are dropped unread up to ReadyForQuery.
Drain ==
  /\ pc = "draining" /\ wire # <<>> /\ Head(wire).tag # Debris
  /\ wire' = Tail(wire)
  /\ lost' = IF Head(wire).tag \in {"desc", "row", "DONE", "ready"} THEN lost
             ELSE lost \cup {"outcome"}
  /\ IF Head(wire).tag = "ready"
     THEN dirty_socket' = FALSE /\ At("starting")
     ELSE UNCHANGED <<dirty_socket, pc>>
  /\ UNCHANGED <<closed, in_transaction, transaction_failed, frame_in_progress, partial_read,
                 command_generation, error, live, todo, timed, exec_gen, answer, inbox, running,
                 cancels, manual, transaction, undone, up>>

\* A byte of a payload is taken for ReadyForQuery.
DrainDebris ==
  /\ pc = "draining" /\ wire # <<>> /\ Head(wire).tag = Debris
  /\ wire' = Tail(wire)
  /\ dirty_socket' = FALSE
  /\ lost' = lost \cup {"outcome"}
  /\ At("starting")
  /\ UNCHANGED <<closed, in_transaction, transaction_failed, frame_in_progress, partial_read,
                 command_generation, error, live, todo, timed, exec_gen, answer, inbox, running,
                 cancels, manual, transaction, undone, up>>

\* Mutant: nothing bounds the drain.
DrainUnbounded ==
  /\ pc = "draining" /\ closed
  /\ Ends("error")
  /\ UNCHANGED <<connVars, timed, exec_gen, serverVars, lost>>

\* Two seconds have passed, or the stream has ended or makes no sense.
DrainGivesUp ==
  /\ pc = "draining"
  /\ closed' = TRUE /\ Ends("error")
  /\ UNCHANGED <<in_transaction, transaction_failed, dirty_socket, frame_in_progress, partial_read,
                 command_generation, error, live, timed, exec_gen, serverVars, lost>>

Start ==
  /\ pc = "starting"
  /\ command_generation' = command_generation + 1
  /\ error' = FALSE
  /\ At("padding")
  /\ UNCHANGED <<closed, in_transaction, transaction_failed, dirty_socket, frame_in_progress,
                 partial_read, live, todo, timed, exec_gen, answer, serverVars, lost>>

\* The padding of the ReadyForQuery before is read, and the query written.
Submit ==
  /\ pc = "padding" /\ ~closed
  /\ dirty_socket' = TRUE /\ frame_in_progress' = TRUE
  /\ At("writing")
  /\ UNCHANGED <<closed, in_transaction, transaction_failed, partial_read, command_generation,
                 error, live, todo, timed, exec_gen, answer, serverVars, lost>>

Request == [what |-> Head(todo), of |-> command_generation]

Written ==
  /\ pc = "writing" /\ ~closed
  /\ inbox' = IF up THEN Append(inbox, Request) ELSE inbox
  /\ live' = TRUE
  /\ At("reading")
  /\ UNCHANGED <<closed, in_transaction, transaction_failed, dirty_socket, frame_in_progress,
                 partial_read, command_generation, error, todo, timed, exec_gen, answer, wire,
                 running, cancels, manual, transaction, undone, up, lost>>

WriteFails ==
  /\ pc = "writing" /\ ~up /\ ~closed
  /\ Ends("error")
  /\ UNCHANGED <<connVars, timed, exec_gen, serverVars, lost>>

\* Where the reader of a result takes its caller.  execute() returns with the
\* columns, a fetch with a row or at the end of the result.
After(tag) ==
  CASE pc = "reading" /\ tag = "desc" -> "returned"
    [] pc = "reading" /\ IsError(tag) -> "erring"
    [] pc = "reading" /\ tag = "ready" -> "returned"
    [] pc = "erring" /\ tag = "ready" -> "raising"
    [] pc = "fetching" /\ IsError(tag) -> "erring"
    [] pc = "fetching" /\ tag \in {"row", "DONE", "ready"} -> "idle"
    [] pc = "fetching all" /\ IsError(tag) -> "clearing"
    [] pc = "fetching all" /\ tag = "ready" -> "idle"
    [] OTHER -> pc

ReadMessage ==
  /\ pc \in {"clearing", "preparing", "reading", "erring", "fetching", "fetching all"}
  /\ live /\ ~closed /\ wire # <<>>
  /\ Apply(Head(wire).tag)
  /\ wire' = Tail(wire)
  /\ At(After(Head(wire).tag))
  /\ UNCHANGED <<closed, partial_read, command_generation, todo, timed, exec_gen, answer, inbox,
                 running, cancels, manual, transaction, undone, up, lost>>

\* A statement has returned.  After the implicit BEGIN the real one follows.
Return ==
  /\ pc = "returned"
  /\ IF Len(todo) > 1
     THEN /\ in_transaction' = TRUE
          /\ todo' = Tail(todo) /\ exec_gen' = command_generation + 1
          /\ At("preparing") /\ UNCHANGED answer
     ELSE Ends(Head(todo)) /\ UNCHANGED <<in_transaction, exec_gen>>
  /\ UNCHANGED <<closed, transaction_failed, dirty_socket, frame_in_progress, partial_read,
                 command_generation, error, live, timed, serverVars, lost>>

Raise ==
  /\ pc = "raising"
  /\ Ends("error")
  /\ UNCHANGED <<connVars, timed, exec_gen, serverVars, lost>>

-----------------------------------------------------------------------------
(* Interruptions *)

Reading == live /\ pc \in {"clearing", "preparing", "reading", "erring", "fetching", "fetching all"}

\* A read is cancelled between two messages, or within one: inside the header,
\* between header and payload, or inside the payload.  The reader has ended.
CutRead ==
  /\ Reading /\ live' = FALSE
  /\ \/ frame_in_progress' = FALSE /\ UNCHANGED <<partial_read, wire>>
     \/ /\ wire # <<>>
        /\ wire' = Messages(<<Debris>>, Head(wire).of) \o Tail(wire)
        /\ \/ frame_in_progress' = FALSE /\ partial_read' = TRUE
           \/ frame_in_progress' = TRUE /\ partial_read' \in BOOLEAN
  /\ UNCHANGED <<closed, inbox>>

\* After a row the reader takes the next header and yields to the loop before it looks
\* at it: a cancellation there takes the header along, and no flag says so.
CutYield ==
  /\ ~closed /\ Reading /\ Len(wire) > 1 /\ Head(wire).tag = "row"
  /\ live' = FALSE /\ frame_in_progress' = FALSE
  /\ wire' = Messages(<<Debris>>, wire[2].of) \o SubSeq(wire, 3, Len(wire))
  /\ UNCHANGED <<closed, partial_read, inbox>>

CutDrain ==
  /\ pc = "draining"
  /\ closed' = TRUE
  /\ UNCHANGED <<live, frame_in_progress, partial_read, wire, inbox>>

CutPadding ==
  /\ pc = "padding"
  /\ partial_read' \in BOOLEAN
  /\ UNCHANGED <<closed, live, frame_in_progress, wire, inbox>>

CutWrite ==
  /\ pc = "writing"
  /\ inbox' \in {inbox, Append(inbox, [Request EXCEPT !.what = Fragment]), Append(inbox, Request)}
  /\ UNCHANGED <<closed, live, frame_in_progress, partial_read, wire>>

\* The connection was closed by another task: a socket that is closed under whoever
\* waits on it wakes nobody.
CutOff ==
  /\ closed /\ (Reading \/ pc \in {"padding", "writing"})
  /\ live' = FALSE
  /\ UNCHANGED <<closed, frame_in_progress, partial_read, wire, inbox>>

Cut ==
  \/ ~closed /\ (CutRead \/ CutDrain \/ CutPadding \/ CutWrite)
  \/ CutOff

HasDebris(messages) == \E i \in DOMAIN messages : messages[i].tag = Debris

\* wait_for() in Cursor.execute() and in Cursor.__anext__()
Bounded ==
  /\ timed /\ Len(todo) <= 1
  /\ pc \in {"preparing", "draining", "padding", "writing", "reading", "erring", "fetching"}

Timeout ==
  /\ Bounded
  /\ \/ Cut /\ UNCHANGED lost
     \/ CutYield /\ lost' = lost \cup {"frame"}
  /\ At("cancelling")
  /\ UNCHANGED <<in_transaction, transaction_failed, dirty_socket, command_generation, error, todo,
                 timed, exec_gen, answer, running, cancels, manual, transaction, undone, up>>

\* Connection.cancel(): it returns when the postmaster has closed its connection.
\* Mutant: it does not wait.
SendCancelAndGo ==
  /\ pc = "cancelling" /\ exec_gen = command_generation
  /\ cancels' = cancels \cup {exec_gen}
  /\ At("retiring")
  /\ UNCHANGED <<connVars, todo, timed, exec_gen, answer, inbox, wire, running, manual,
                 transaction, undone, up, lost>>

SendCancel ==
  /\ pc = "cancelling" /\ exec_gen = command_generation
  /\ cancels' = cancels \cup {exec_gen}
  /\ At("awaiting cancel")
  /\ UNCHANGED <<connVars, todo, timed, exec_gen, answer, inbox, wire, running, manual,
                 transaction, undone, up, lost>>

\* Nothing to cancel any more, or the connection for it failed
SkipCancel ==
  /\ pc = "cancelling"
  /\ At("retiring")
  /\ UNCHANGED <<connVars, todo, timed, exec_gen, answer, serverVars, lost>>

Cancelled ==
  /\ pc = "awaiting cancel" /\ exec_gen \notin cancels
  /\ At("retiring")
  /\ UNCHANGED <<connVars, todo, timed, exec_gen, answer, serverVars, lost>>

\* _retire_if_desynced(), and OperationalError
Retire ==
  /\ pc = "retiring"
  /\ closed' = (closed \/ frame_in_progress \/ partial_read)
  /\ Ends("timeout")
  /\ UNCHANGED <<in_transaction, transaction_failed, dirty_socket, frame_in_progress, partial_read,
                 command_generation, error, live, timed, exec_gen, serverVars, lost>>

\* The task that makes the call is cancelled: nothing is done about the connection.
TaskCancel ==
  /\ TaskCancelled
  /\ \/ Cut \/ CutYield
     \/ /\ pc \in {"cancelling", "awaiting cancel"}
        /\ UNCHANGED <<closed, live, frame_in_progress, partial_read, wire, inbox>>
  /\ lost' = lost \cup (IF HasDebris(wire') THEN {"frame"} ELSE {})
                  \cup (IF pc \in {"cancelling", "awaiting cancel"} THEN {"cancel"} ELSE {})
  /\ Ends("cancelled")
  /\ UNCHANGED <<in_transaction, transaction_failed, dirty_socket, command_generation, error,
                 timed, exec_gen, running, cancels, manual, transaction, undone, up>>

\* The stream ends: _handle_fatal_eof() closes the connection.
Eof ==
  /\ ~up /\ ~closed /\ wire = <<>> /\ (Reading \/ pc = "padding")
  /\ closed' = TRUE /\ live' = FALSE /\ Ends("error")
  /\ UNCHANGED <<in_transaction, transaction_failed, dirty_socket, frame_in_progress, partial_read,
                 command_generation, error, timed, exec_gen, serverVars, lost>>

-----------------------------------------------------------------------------
(* Other tasks *)

ManualCancel ==
  /\ manual < MaxManual /\ up
  /\ manual' = manual + 1
  /\ cancels' = cancels \cup {Nobody}
  /\ UNCHANGED <<connVars, callVars, inbox, wire, running, transaction, undone, up, lost>>

Close ==
  /\ ~closed
  /\ closed' = TRUE
  /\ UNCHANGED <<in_transaction, transaction_failed, dirty_socket, frame_in_progress, partial_read,
                 command_generation, error, live, callVars, serverVars, lost>>

\* What the call in progress meets if it has work to do still, or what it waits for
\* had arrived before.
FindClosed ==
  /\ closed /\ (Reading \/ pc \in {"preparing", "padding", "writing"})
  /\ live' = FALSE /\ Ends("error")
  /\ UNCHANGED <<closed, in_transaction, transaction_failed, dirty_socket, frame_in_progress,
                 partial_read, command_generation, error, timed, exec_gen, serverVars, lost>>

-----------------------------------------------------------------------------

Client ==
  \/ Decide \/ CursorClosed \/ Prepare \/ Drain \/ DrainDebris \/ DrainGivesUp \/ Start
  \/ Submit \/ Written \/ WriteFails \/ ReadMessage \/ Return \/ Raise
  \/ SendCancel \/ SkipCancel \/ Cancelled \/ Retire \/ Eof
  \/ ~live /\ pc = "preparing" /\ FindClosed

Server == ServerTake \/ ServerFinish \/ ServerFail

Next ==
  \/ \E s \in Statements : Execute(s)
  \/ Commit \/ Rollback \/ Fetch
  \/ Client \/ Timeout \/ TaskCancel
  \/ Server \/ ServerStream \/ ServerDies
  \/ \E g \in cancels : CancelArrives(g)
  \/ ManualCancel \/ Close \/ FindClosed
  \/ pc = "idle" /\ UNCHANGED vars     \* the application may stop

Spec == Init /\ [][Next]_vars

-----------------------------------------------------------------------------
(* Safety.  What the properties cannot ask for once it is lost:               *)
(*   "outcome"  a drain dropped a message that tells of the transaction;       *)
(*   "frame"    a cancellation from outside left a half-read message, or any   *)
(*              one a message whose header was read ahead;                     *)
(*   "cancel"   a cancellation from outside left a cancel request under way.   *)

\* Whatever timeouts, cancels and drains came before, a statement never reads the
\* messages of another one, and the drain never takes the rest of a cut message for
\* a message: "a read cancelled or timed out mid-frame now retires the connection
\* instead of resynchronizing it" (CHANGELOG.md).
OwnMessagesOnly ==
  ~closed /\ "frame" \notin lost =>
    /\ live => \A i \in DOMAIN wire : wire[i].of = command_generation
    /\ pc = "draining" /\ wire # <<>> => Head(wire).tag # Debris

\* The cancel request that a timeout sends strikes its own statement or none,
\* never one that the session runs later.
CancelStrikesItsStatement ==
  [][\A g \in cancels :
       CancelArrives(g) /\ running' # running /\ lost \cap {"frame", "cancel"} = {} =>
         g \in {Nobody, running.of}]_vars

\* Nothing is owed, so the connection has seen all that the backend did.
Settled == pc = "idle" /\ ~closed /\ ~dirty_socket /\ up

\* The connection's view of the transaction is the backend's.
TransactionTracked ==
  Settled /\ lost \cap {"outcome", "frame"} = {} =>
             /\ in_transaction <=> transaction # "none"
             /\ transaction_failed <=> transaction = "failed"

\* "COMMIT of such a transaction (which the server turns into a rollback) now raises
\* InternalError saying that no changes were saved" (CHANGELOG.md): a COMMIT
\* that returns has committed.
CommitNeverLies == pc = "idle" /\ answer = "commit" => ~undone

-----------------------------------------------------------------------------
(* Liveness: the client's task runs, the backend and the postmaster answer     *)
(* while they are up, and the clocks of the drain and of a call on a closed    *)
(* connection tick.                                                            *)

\* Another task closed the connection, and no timeout bounds what waits on its socket.
Stranded == closed /\ (Reading \/ pc \in {"padding", "writing"}) /\ ~Bounded

Fairness ==
  /\ WF_vars(Client) /\ WF_vars(Server) /\ WF_vars(closed /\ Timeout)
  /\ \A g \in 0 .. MaxGen : WF_vars(CancelArrives(g))

FairSpec == Spec /\ Fairness

\* Every call ends, by its result or by an exception: no timeout, cancel or lost
\* backend leaves it waiting, nor does a concurrent close() if it has a timeout.
CallsEnd == pc # "idle" /\ "frame" \notin lost ~> pc = "idle" \/ Stranded

=============================================================================
