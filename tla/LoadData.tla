------------------------------ MODULE LoadData ------------------------------
(***************************************************************************)
(* Bulk loads: Connection.load_data (core.py), the external-table frames   *)
(* of the reader and of _drain_socket (_protocol.py), and                  *)
(* ExternalTableManager (_extab.py), over one connection and its backend.  *)
(*                                                                         *)
(* Several tasks of the application share the connection; _operation()     *)
(* makes the second one fail.  A step is what runs between two awaits.     *)
(* Session has the reader and the timeouts; here a statement is answered   *)
(* by a few messages, and the frames of external tables are in full: what  *)
(* is not the first byte of a message must never be read as a header.      *)
(*                                                                         *)
(* A batch of rows stands for what one step of the source yields.          *)
(***************************************************************************)
EXTENDS Naturals, Sequences

CONSTANTS
  Tasks,
  MaxCalls,       \* bound: calls of the application in any scene
  Batches,        \* batches of every source
  Loads,          \* arguments of load_data, see LoadArguments
  Others,         \* the other calls the application makes
  Autocommit,     \* values of Connection.autocommit to start with
  Scenes,         \* what the application does: tasks that share the connection, calls
                  \* they make, statements during which a task may be cancelled
  ServerMayFail,  \* statements may fail and the session may end
  FrameFaults     \* inside a frame: task cancelled, disk full

\* rows is a list (validated before any statement) or a lazy source; columns has a
\* type for every column or the types are inferred from all rows; create_if_missing;
\* the first batch that is bad, 0 for none.
LoadArguments == [lazy : BOOLEAN, typed : BOOLEAN, create : BOOLEAN, bad : 0..Batches]

Statements == {"catalog", "create", "insert", "stmt", "copy", "unload", "begin", "commit", "rollback"}

ASSUME LoadDataAssumption ==
  /\ MaxCalls \in Nat /\ Batches \in Nat \ {0} /\ 0 \notin Tasks
  /\ Loads \subseteq LoadArguments
  /\ Others \subseteq {"stmt", "copy", "unload", "begin", "commit", "rollback"}
  /\ Autocommit \subseteq BOOLEAN
  /\ Scenes \subseteq [tasks : SUBSET Tasks, calls : 0..MaxCalls, cancel : SUBSET Statements]
  /\ {ServerMayFail, FrameFaults} \subseteq BOOLEAN

VARIABLES
  scene,      \* the one of Scenes that is played
  conn,       \* the Connection
  pc, call,   \* the call every task is in
  calls,      \* calls so far
  srv, wire,  \* the backend, and what it has sent
  work,       \* the target table as the backend's transaction sees it
  table,      \* ... and as another session sees it
  outcome,    \* history: how call k ended
  appTxn,     \* history: the application has begun a transaction and not ended it
  misread     \* history: something inside a frame was taken for a header

vars == <<scene, conn, pc, call, calls, srv, wire, work, table, outcome, appTxn, misread>>

NoTask == 0
NoCall == [id |-> 0, kind |-> "none"]
Idle == [up |-> TRUE, txn |-> "none", what |-> "none", of |-> 0, st |-> "none", buf |-> <<>>]
Complete(k) == [of |-> k, from |-> k, n |-> Batches]

\* the bytes a header is read from; the others are parts of frames
Headers == {"rows", "norows", "complete", "BEGIN", "COMMIT", "ROLLBACK", "error", "ready",
            "u", "U", "l", "lf", "e", "notice"}
Parts == {"fmt", "block", "done", "sockerr", "chunk", "end"}

Init ==
  /\ scene \in Scenes
  /\ conn \in [closed : {FALSE}, autocommit : Autocommit, in_transaction : {FALSE},
               dirty : {FALSE}, source : {0}, failure : {FALSE}, owner : {NoTask}]
  /\ pc = [t \in Tasks |-> "idle"] /\ call = [t \in Tasks |-> NoCall] /\ calls = 0
  /\ srv = Idle /\ wire = <<>>
  /\ work \in [exists : BOOLEAN, rows : {{}}] /\ table = work
  /\ outcome = [k \in 1..MaxCalls |-> "none"]
  /\ appTxn = FALSE /\ misread = FALSE

-----------------------------------------------------------------------------
(* The backend *)

\* Ends the statement; w is the table it leaves, visible at once outside a transaction.
Finish(w, tags) ==
  /\ wire' = wire \o tags \o <<"ready">>
  /\ srv' = [srv EXCEPT !.what = "none", !.of = 0, !.st = "none", !.buf = <<>>]
  /\ work' = w
  /\ table' = IF srv.txn = "none" THEN w ELSE table

\* A failed statement fails its transaction.
Fail(tags) ==
  /\ wire' = wire \o tags \o <<"error", "ready">>
  /\ srv' = [srv EXCEPT !.what = "none", !.of = 0, !.st = "none", !.buf = <<>>,
                        !.txn = IF srv.txn = "none" THEN "none" ELSE "failed"]
  /\ UNCHANGED <<work, table>>

\* BEGIN, COMMIT and ROLLBACK; a failed transaction is never committed.
EndOrBegin ==
  /\ srv.what \in {"begin", "commit", "rollback"}
  /\ LET kept == srv.what = "commit" /\ srv.txn = "open" IN
     /\ table' = IF kept THEN work ELSE table
     /\ work' = IF kept \/ srv.txn = "none" \/ srv.what = "begin" THEN work ELSE table
  /\ srv' = [srv EXCEPT !.what = "none", !.of = 0, !.st = "none",
                        !.txn = IF srv.what # "begin" THEN "none"
                                ELSE IF srv.txn = "none" THEN "open" ELSE srv.txn]
  /\ wire' = wire \o <<CASE srv.what = "begin" -> "BEGIN" [] srv.what = "commit" -> "COMMIT"
                         [] OTHER -> "ROLLBACK", "ready">>

Works(what) == srv.what = what /\ srv.st = "run" /\ srv.txn # "failed"

\* Statements without an external table
Simple ==
  \/ Works("catalog") /\ Finish(work, <<IF work.exists THEN "rows" ELSE "norows">>)
  \/ Works("create") /\ ~work.exists /\ Finish([work EXCEPT !.exists = TRUE], <<"complete">>)
  \/ Works("stmt") /\ work.exists
     /\ Finish([work EXCEPT !.rows = @ \cup {Complete(srv.of)}], <<"notice", "complete">>)

\* It asks for the client's file, gives the format once the client has answered,
\* and reads the rows.
AskForData ==
  /\ Works("insert") \/ Works("copy")
  /\ work.exists
  /\ wire' = Append(wire, IF srv.what = "insert" THEN "l" ELSE "lf")
  /\ srv' = [srv EXCEPT !.st = "hello"]
  /\ UNCHANGED <<work, table>>
GiveFormat ==
  /\ srv.st = "greeted"
  /\ wire' = Append(wire, "fmt") /\ srv' = [srv EXCEPT !.st = "data"]
  /\ UNCHANGED <<work, table>>

\* The stream was complete: perhaps a log file, and the rows.
Stored == [of |-> srv.of, from |-> IF srv.buf = <<>> THEN 0 ELSE Head(srv.buf), n |-> Len(srv.buf)]
StoreRows ==
  /\ srv.st = "end"
  /\ \E log \in {<<>>, <<"e", "chunk", "end">>} :
       Finish([work EXCEPT !.rows = @ \cup {Stored}], log \o <<"complete">>)

\* The stream was broken off: an error, and mostly the end of the session
AbortStream ==
  /\ srv.st = "abort"
  /\ \/ Fail(<<>>)
     \/ /\ wire' = Append(wire, "error")
        /\ srv' = [Idle EXCEPT !.up = FALSE]
        /\ work' = table /\ UNCHANGED table

\* An unload names the file, waits for the client, and sends the rows.
NameFile ==
  /\ Works("unload")
  /\ wire' = Append(wire, "u") /\ srv' = [srv EXCEPT !.st = "hello"]
  /\ UNCHANGED <<work, table>>
Dump ==
  /\ srv.what = "unload" /\ srv.st = "greeted"
  /\ \E end \in {"done", "sockerr"} :
       wire' = wire \o <<"U", "block", end>>
  /\ srv' = [srv EXCEPT !.st = "dumped"]
  /\ UNCHANGED <<work, table>>
Dumped == srv.what = "unload" /\ srv.st = "dumped" /\ Finish(work, <<"complete">>)

ServerStep ==
  /\ EndOrBegin \/ Simple \/ AskForData \/ (GiveFormat /\ srv.what # "unload") \/ StoreRows
     \/ AbortStream \/ NameFile \/ Dump \/ Dumped
  /\ UNCHANGED <<scene, conn, pc, call, calls, outcome, appTxn, misread>>

\* Bad rows are reported after the stream, with the log file of the bad rows; CREATE
\* of a table that exists and statements without their table always fail.
StatementFails ==
  /\ \/ srv.st = "run" /\ srv.what \notin {"none", "begin", "commit", "rollback"}
        /\ (ServerMayFail \/ srv.txn = "failed" \/ work.exists = (srv.what = "create"))
        /\ Fail(<<>>)
     \/ srv.st = "end" /\ ServerMayFail /\ Fail(<<"e", "chunk", "end">>)
  /\ UNCHANGED <<scene, conn, pc, call, calls, outcome, appTxn, misread>>

\* The session ends, and with it its transaction; some of what it sent is lost.
SessionEnds ==
  /\ ServerMayFail /\ srv.up
  /\ srv' = [Idle EXCEPT !.up = FALSE]
  /\ work' = table
  /\ \E n \in 0..Len(wire) : wire' = SubSeq(wire, 1, n)
  /\ UNCHANGED <<scene, conn, pc, call, calls, table, outcome, appTxn, misread>>

-----------------------------------------------------------------------------
(* The calls of a task *)

\* autocommit was on and the application had begun nothing: what is reported
\* as done is stored.
NewCall(t, kind, args) ==
  [id |-> calls + 1, kind |-> kind, args |-> args, todo |-> <<>>, planned |-> FALSE,
   transactional |-> FALSE, unwinding |-> FALSE, draining |-> FALSE, err |-> FALSE,
   found |-> FALSE, marker |-> FALSE, src |-> 0, pos |-> 0, alone |-> conn.autocommit /\ ~appTxn]

\* Cursor.execute() begins a transaction first when autocommit is off.
WithBegin(cn, stmts) ==
  IF ~cn.in_transaction /\ ~cn.autocommit THEN <<"begin">> \o stmts ELSE stmts

At(t, where) == pc' = [pc EXCEPT ![t] = where]
With(t, c) == call' = [call EXCEPT ![t] = c]

\* The call is over; the finally clause of load_data(), once it had planned anything
Restored(c, cn) ==
  IF c.kind = "load" /\ c.planned
  THEN [cn EXCEPT !.source = 0, !.failure = FALSE,
                  !.autocommit = IF c.transactional /\ ~cn.closed THEN TRUE ELSE @]
  ELSE cn
Released(t, cn) == IF cn.owner = t THEN [cn EXCEPT !.owner = NoTask] ELSE cn
End(t, c, cn, res) ==
  /\ At(t, "idle") /\ With(t, NoCall)
  /\ conn' = Released(t, Restored(c, cn))
  /\ outcome' = [outcome EXCEPT ![c.id] = res]
  /\ appTxn' = IF c.kind = "begin" /\ res = "ok" THEN TRUE
               ELSE IF c.kind \in {"commit", "rollback"} \/ cn.closed THEN FALSE ELSE appTxn

\* An Exception: load_data() closes the connection when its stream failed, and takes
\* its transaction back otherwise.  rollback() of a closed connection, and without a
\* transaction, sends nothing.
Raise(t, c, cn) ==
  LET inLoad == c.kind = "load" /\ c.planned /\ ~c.unwinding IN
  CASE inLoad /\ cn.failure -> End(t, c, [cn EXCEPT !.closed = TRUE], "failed")
    [] inLoad /\ ~cn.failure /\ c.transactional /\ cn.in_transaction /\ ~cn.closed ->
         /\ At(t, "send") /\ conn' = cn /\ UNCHANGED <<outcome, appTxn>>
         /\ With(t, [c EXCEPT !.unwinding = TRUE, !.todo = <<"rollback">>, !.err = FALSE])
    [] OTHER -> End(t, c, cn, "failed")

\* Mutant: does not commit what it created and loaded.
PlanUncommitted(t, c, cn) ==
  LET transactional == ~c.found /\ cn.autocommit /\ ~cn.in_transaction
      plan == [c EXCEPT !.planned = TRUE, !.transactional = transactional]
      taken == [cn EXCEPT !.autocommit = @ /\ ~transactional, !.source = c.id, !.failure = FALSE]
      stmts == IF c.found THEN <<"insert">> ELSE <<"create", "insert">>
  IN IF cn.owner \notin {NoTask, t} THEN Raise(t, plan, taken)
     ELSE /\ At(t, "send") /\ conn' = [taken EXCEPT !.owner = t]
          /\ With(t, [plan EXCEPT !.todo = WithBegin(taken, stmts)])
          /\ UNCHANGED <<outcome, appTxn>>

\* load_data() once it knows the table and has a schema: it holds the wire from here to
\* its end, since nothing else runs between its statements.  A wire that is taken ends
\* it at once, after it has put its source on the connection.
Plan(t, c, cn) ==
  LET transactional == ~c.found /\ cn.autocommit /\ ~cn.in_transaction
      plan == [c EXCEPT !.planned = TRUE, !.transactional = transactional]
      taken == [cn EXCEPT !.autocommit = @ /\ ~transactional, !.source = c.id, !.failure = FALSE]
      stmts == IF c.found THEN <<"insert">> ELSE <<"create", "insert">>
  IN IF cn.owner \notin {NoTask, t} THEN Raise(t, plan, taken)
     ELSE /\ At(t, "send") /\ conn' = [taken EXCEPT !.owner = t]
          /\ With(t, [plan EXCEPT !.todo =
                WithBegin(taken, stmts) \o IF transactional THEN <<"commit">> ELSE <<>>])
          /\ UNCHANGED <<outcome, appTxn>>

\* The catalog has answered.  A list is checked before anything is sent; a source
\* without types is read to its end first, and other tasks run meanwhile.
AfterCatalog(t, c, cn) ==
  LET a == c.args
      idle == Released(t, cn) IN
  CASE ~c.found /\ ~a.create -> End(t, c, cn, "failed")
    [] ~a.lazy /\ a.bad # 0 -> End(t, c, cn, "failed")
    [] a.lazy /\ ~c.found /\ ~a.typed ->
         At(t, "collect") /\ With(t, c) /\ conn' = idle /\ UNCHANGED <<outcome, appTxn>>
    [] OTHER -> Plan(t, c, idle)

Collect(t) ==
  /\ pc[t] = "collect"
  /\ IF call[t].args.bad # 0 THEN End(t, call[t], conn, "failed")
     ELSE Plan(t, [call[t] EXCEPT !.args.lazy = FALSE], conn)
  /\ UNCHANGED <<scene, calls, srv, wire, work, table, misread>>

\* A statement is done: commit() and rollback() forget the transaction whatever the
\* tag was, and the next statement of the call follows.
Answered(t, c, cn0) ==
  LET what == Head(c.todo)
      cn == [cn0 EXCEPT !.in_transaction = IF what \in {"commit", "rollback"} /\ ~c.err THEN FALSE ELSE @]
      rest == [c EXCEPT !.todo = Tail(@), !.err = FALSE] IN
  CASE c.err -> Raise(t, c, cn)
    [] ~c.err /\ what = "catalog" -> AfterCatalog(t, rest, cn)
    [] ~c.err /\ what # "catalog" /\ rest.todo # <<>> ->
         At(t, "send") /\ With(t, rest) /\ conn' = cn /\ UNCHANGED <<outcome, appTxn>>
    [] OTHER -> End(t, c, cn, CASE c.unwinding -> "failed"
                                   [] ~c.unwinding /\ c.kind = "load" /\ c.alone
                                      /\ (\A j \in 1..calls : outcome[j] # "cancelled") -> "stored"
                                   [] OTHER -> "ok")

\* A call starts with the guard; a second task fails at once.
Start(t, kind, args) ==
  /\ t \in scene.tasks /\ pc[t] = "idle" /\ calls < scene.calls /\ ~conn.closed
  /\ calls' = calls + 1
  /\ LET c == [NewCall(t, kind, args) EXCEPT !.todo =
                 IF kind \in {"commit", "rollback", "begin"} THEN <<kind>>
                 ELSE WithBegin(conn, <<IF kind = "load" THEN "catalog" ELSE kind>>)] IN
     IF kind = "rollback" /\ ~conn.in_transaction THEN End(t, c, conn, "ok")
     ELSE IF conn.owner # NoTask THEN End(t, c, conn, "refused")
     ELSE /\ At(t, "send") /\ With(t, c) /\ conn' = [conn EXCEPT !.owner = t]
          /\ UNCHANGED <<outcome, appTxn>>
  /\ UNCHANGED <<scene, srv, wire, work, table, misread>>

\* The application ends only what it began, and commits only what went well.
Sane(kind) ==
  /\ kind = "begin" => ~appTxn /\ conn.autocommit /\ \A t \in Tasks : pc[t] = "idle"
  /\ kind \in {"commit", "rollback"} => \A t \in Tasks : pc[t] = "idle"
  /\ kind = "commit" =>
       /\ appTxn \/ ~conn.autocommit
       /\ \A k \in 1..calls : outcome[k] \in {"ok", "stored"}
  /\ kind = "rollback" => appTxn \/ ~conn.autocommit

Load(t) == \E args \in Loads : Start(t, "load", args)
Other(t) == \E kind \in Others, bad \in {0, 1} :
  Sane(kind) /\ (bad = 1 => kind \in {"copy", "unload"}) /\ Start(t, kind, [bad |-> bad])

-----------------------------------------------------------------------------
(* Connection._execute and the reader *)

Ask(t, st) == srv' = IF srv.up /\ srv.st = "hello" THEN [srv EXCEPT !.st = st] ELSE srv

\* An unanswered statement is drained first; then the next one goes out.
Send(t) ==
  /\ pc[t] = "send"
  /\ LET c == call[t] IN
     CASE conn.closed -> Raise(t, c, conn) /\ UNCHANGED srv
       [] ~conn.closed /\ conn.dirty ->
            /\ At(t, "read") /\ With(t, [c EXCEPT !.draining = TRUE])
            /\ UNCHANGED <<conn, outcome, appTxn, srv>>
       [] OTHER ->
            /\ At(t, "read") /\ conn' = [conn EXCEPT !.dirty = TRUE]
            /\ srv' = IF srv.up THEN [srv EXCEPT !.what = Head(c.todo), !.of = c.id, !.st = "run"]
                      ELSE srv
            /\ UNCHANGED <<call, outcome, appTxn>>
  /\ UNCHANGED <<scene, calls, wire, work, table, misread>>

\* What a tag says about the transaction; _drain_socket() drops it.
Tagged(m, c) ==
  CASE c.draining -> conn
    [] ~c.draining /\ m = "BEGIN" -> [conn EXCEPT !.in_transaction = TRUE]
    [] ~c.draining /\ m \in {"COMMIT", "ROLLBACK"} -> [conn EXCEPT !.in_transaction = FALSE]
    [] OTHER -> conn

\* The header of a message, and for the frames of external tables what comes before
\* their first wait.  The reader opens the file of an unload and answers; the drain
\* answers nothing.
Header(t) ==
  /\ pc[t] = "read" /\ wire # <<>> /\ ~conn.closed
  /\ wire' = Tail(wire)
  /\ LET m == Head(wire)
         c == call[t]
         stay(d) == At(t, "read") /\ With(t, d) /\ conn' = Tagged(m, c) /\ UNCHANGED <<outcome, appTxn>>
         enter(where, d) == At(t, where) /\ With(t, d) /\ UNCHANGED <<conn, outcome, appTxn>> IN
     /\ CASE m = "ready" /\ c.draining ->
               /\ At(t, "send") /\ With(t, [c EXCEPT !.draining = FALSE])
               /\ conn' = [conn EXCEPT !.dirty = FALSE] /\ UNCHANGED <<outcome, appTxn>>
          [] m = "ready" /\ ~c.draining -> Answered(t, c, [conn EXCEPT !.dirty = FALSE])
          [] m = "error" -> stay([c EXCEPT !.err = ~c.draining])
          [] m = "rows" -> stay([c EXCEPT !.found = @ \/ ~c.draining])
          [] m = "u" -> stay([c EXCEPT !.err = @ \/ (~c.draining /\ c.args.bad = 1)])
          [] m \in {"l", "lf"} -> enter("hello", [c EXCEPT !.marker = m = "l"])
          [] m = "U" -> enter("unload", c)
          [] m = "e" -> enter("logfile", c)
          [] m \in Parts -> Raise(t, c, [conn EXCEPT !.closed = TRUE])
          [] OTHER -> stay(c)
     /\ misread' = (misread \/ m \in Parts)
     /\ IF m \in {"l", "lf"} \/ (m = "u" /\ ~c.draining) THEN Ask(t, "greeted") ELSE UNCHANGED srv
  /\ UNCHANGED <<scene, calls, work, table>>

\* The connection is closed under the reader, or the backend is gone.
EndOfStream(t) ==
  /\ pc[t] \in {"read", "hello", "unload", "logfile"}
  /\ conn.closed \/ (wire = <<>> /\ ~srv.up)
  /\ Raise(t, call[t], [conn EXCEPT !.closed = TRUE])
  /\ UNCHANGED <<scene, calls, srv, wire, work, table, misread>>

\* Mutant: waits for as long as the backend is there.
DrainUnbounded(t) ==
  /\ pc[t] = "read" /\ call[t].draining /\ wire = <<>> /\ ~srv.up
  /\ Raise(t, call[t], [conn EXCEPT !.closed = TRUE])
  /\ UNCHANGED <<scene, calls, srv, wire, work, table, misread>>

\* _drain_socket() gives up after two seconds.
DrainGivesUp(t) ==
  /\ pc[t] = "read" /\ call[t].draining /\ wire = <<>>
  /\ Raise(t, call[t], [conn EXCEPT !.closed = TRUE])
  /\ UNCHANGED <<scene, calls, srv, wire, work, table, misread>>

-----------------------------------------------------------------------------
(* ExternalTableManager *)

Part(t, where) == pc[t] = where /\ wire # <<>> /\ ~conn.closed /\ wire' = Tail(wire)

\* xferTable() up to the format; the rows are taken from the connection, once.
Hello(t) ==
  /\ Part(t, "hello") /\ Head(wire) = "fmt"
  /\ At(t, "xfer")
  /\ With(t, [call[t] EXCEPT !.pos = 0, !.src = IF call[t].marker THEN conn.source ELSE 0])
  /\ conn' = IF call[t].marker THEN [conn EXCEPT !.source = 0] ELSE conn
  /\ UNCHANGED <<scene, calls, srv, work, table, outcome, appTxn, misread>>

\* Whether the next read of the source fails.  Without a source on the connection the
\* rows come from the file of that name: of a COPY the client's, which may be bad, and
\* for the marker of load_data there is no such file.
SourceFails(c) ==
  CASE c.src # 0 -> c.args.bad = c.pos + 1
    [] c.src = 0 /\ c.marker -> TRUE
    [] OTHER -> c.kind = "copy" /\ c.args.bad = 1

Transfer(t, st, buf) ==
  srv' = IF srv.up /\ srv.st = "data" THEN [srv EXCEPT !.st = st, !.buf = buf] ELSE srv

\* One batch, framed into blocks of the size the backend gave
SendBatch(t) ==
  /\ pc[t] = "xfer" /\ call[t].pos < Batches /\ ~SourceFails(call[t])
  /\ With(t, [call[t] EXCEPT !.pos = @ + 1])
  /\ Transfer(t, "data", Append(srv.buf, IF call[t].src = 0 THEN srv.of ELSE call[t].src))
  /\ UNCHANGED <<scene, conn, pc, calls, wire, work, table, outcome, appTxn, misread>>
SendDone(t) ==
  /\ pc[t] = "xfer" /\ call[t].pos = Batches
  /\ At(t, "read") /\ Transfer(t, "end", srv.buf)
  /\ UNCHANGED <<scene, conn, call, calls, wire, work, table, outcome, appTxn, misread>>

\* Mutant: ends the stream with DONE instead of the error frame.
StreamEndsWithDone(t) ==
  /\ pc[t] = "xfer"
  /\ (call[t].pos < Batches /\ SourceFails(call[t])) \/ ~srv.up
  /\ conn' = [conn EXCEPT !.failure = TRUE]
  /\ At(t, "read") /\ Transfer(t, "end", srv.buf)
  /\ UNCHANGED <<scene, call, calls, wire, work, table, outcome, appTxn, misread>>

\* The source failed, or a write did: it is remembered, the backend is told if it
\* still listens, and its answer is read as ever.
StreamFails(t) ==
  /\ pc[t] = "xfer"
  /\ (call[t].pos < Batches /\ SourceFails(call[t])) \/ ~srv.up
  /\ conn' = [conn EXCEPT !.failure = TRUE]
  /\ At(t, "read") /\ Transfer(t, "abort", srv.buf)
  /\ UNCHANGED <<scene, call, calls, wire, work, table, outcome, appTxn, misread>>

\* receiveAndWriteDatatoExternal(): a block is written, or the disk is full and the
\* error leaves the rest unread; an error of the backend ends the loop like the end.
Unload(t) ==
  /\ Part(t, "unload")
  /\ \/ /\ At(t, IF Head(wire) = "block" THEN "unload" ELSE "read")
        /\ UNCHANGED <<conn, call, outcome, appTxn>>
     \/ /\ FrameFaults /\ Head(wire) = "block" /\ ~call[t].draining
        /\ Raise(t, call[t], conn)
  /\ UNCHANGED <<scene, calls, srv, work, table, misread>>

\* Mutant: a file that must not be written is not read.
LogFileUnread(t) ==
  /\ Part(t, "logfile")
  /\ At(t, "read")
  /\ UNCHANGED <<scene, conn, call, calls, srv, work, table, outcome, appTxn, misread>>

\* getFileFromBE(): a file that must not or cannot be written is read all the same.
LogFile(t) ==
  /\ Part(t, "logfile")
  /\ At(t, IF Head(wire) = "end" THEN "read" ELSE "logfile")
  /\ UNCHANGED <<scene, conn, call, calls, srv, work, table, outcome, appTxn, misread>>

-----------------------------------------------------------------------------
(* The task is cancelled at one of its awaits: no except clause of load_data() runs,
   only the finally.  A drain closes the connection. *)
Cancel(t) ==
  /\ \/ pc[t] = "collect" /\ scene.cancel # {}
     \/ pc[t] \in {"read", "xfer"} /\ Head(call[t].todo) \in scene.cancel
     \/ pc[t] \in {"hello", "unload", "logfile"} /\ Head(call[t].todo) \in scene.cancel /\ FrameFaults
  /\ End(t, call[t], [conn EXCEPT !.closed = @ \/ call[t].draining], "cancelled")
  /\ UNCHANGED <<scene, calls, srv, wire, work, table, misread>>

Client(t) ==
  \/ Collect(t) \/ Send(t) \/ Header(t) \/ EndOfStream(t) \/ DrainGivesUp(t)
  \/ Hello(t) \/ SendBatch(t) \/ SendDone(t) \/ StreamFails(t) \/ Unload(t) \/ LogFile(t)

Server == ServerStep \/ StatementFails

Next ==
  \/ \E t \in Tasks : Load(t) \/ Other(t) \/ Client(t) \/ Cancel(t)
  \/ Server \/ SessionEnds
  \/ (calls = scene.calls \/ conn.closed) /\ (\A t \in Tasks : pc[t] = "idle") /\ UNCHANGED vars

Spec == Init /\ [][Next]_vars

\* The event loop runs a task that can run, and the backend works.
FairSpec == Spec /\ WF_vars(Server) /\ \A t \in Tasks : WF_vars(Client(t))

-----------------------------------------------------------------------------
(* Properties *)

\* No byte inside a frame is ever read as the header of a message.
HeadersAreHeaders == ~misread

\* With autocommit on and nothing begun, a load that was reported as done is stored
\* (docs/load_data.md:157) - unless a call was cancelled before, see README.
ReportedLoadIsStored ==
  \A k \in 1..calls : outcome[k] = "stored" => Complete(k) \in table.rows

\* What other sessions see changes by whole loads only, each made of its own rows.
LoadAbstract == INSTANCE LoadSpec WITH Calls <- 1..MaxCalls, Whole <- Batches
ImplementsLoadSpec == LoadAbstract!Spec

\* Every call ends: a drained stream, a broken source or a backend that is gone included.
CallsEnd == \A t \in Tasks : pc[t] # "idle" ~> pc[t] = "idle"
=============================================================================
