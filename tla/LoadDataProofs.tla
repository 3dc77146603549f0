---------------------------- MODULE LoadDataProofs ----------------------------
(***************************************************************************)
(* Proofs about LoadData for any tasks, calls, batches and loads.          *)
(***************************************************************************)
EXTENDS LoadData, TLAPS

Frames == {"hello", "unload", "logfile"}
Readers == {"read", "xfer", "hello", "unload", "logfile"}
Holding == {"send", "read", "xfer", "hello", "unload", "logfile"}
Results == {"none", "ok", "stored", "failed", "refused", "cancelled"}
Storing == {"insert", "stmt", "copy"}
Turns == {"begin", "commit", "rollback"}
Ends == {"commit", "rollback"}

OnWire(m) == \E i \in 1 .. Len(wire) : wire[i] = m
Active(t) == pc[t] # "idle"
Reads(t) == pc[t] \in Readers
\* Reads the answer to its own statement, not one that was abandoned
Answers(t) == Reads(t) /\ ~call[t].draining
Now(t) == Head(call[t].todo)

-----------------------------------------------------------------------------
(* The shape of the state *)

Row == [of : 0 .. MaxCalls, from : 0 .. MaxCalls, n : Nat]
Table == [exists : BOOLEAN, rows : SUBSET Row]
ConnRecord == [closed : BOOLEAN, autocommit : BOOLEAN, in_transaction : BOOLEAN, dirty : BOOLEAN,
               source : 0 .. MaxCalls, failure : BOOLEAN, owner : Tasks \cup {NoTask}]
ServerRecord == [up : BOOLEAN, txn : {"none", "open", "failed"}, what : Statements \cup {"none"},
                 of : 0 .. MaxCalls, buf : Seq(0 .. MaxCalls),
                 st : {"none", "run", "hello", "greeted", "data", "end", "abort", "dumped"}]

\* The statements a call has still to make, the one under way first
Orderly(s) ==
  /\ s \in Seq(Statements)
  /\ \A i \in 1 .. Len(s) :
       /\ s[i] = "begin" => i = 1
       /\ s[i] \in Storing => i = Len(s) \/ (i = Len(s) - 1 /\ s[Len(s)] = "commit")
       /\ s[i] = "create" => i < Len(s) /\ s[i + 1] = "insert"
       /\ s[i] \in Ends \cup {"catalog"} => i = Len(s)
       /\ s[i] \in Ends => i = 1 \/ s[i - 1] = "insert"

Only(s, what) == Len(s) = 1 /\ s[1] = what

LoadTodo(c) ==
  /\ ~c.planned => /\ ~c.transactional /\ ~c.unwinding
                   /\ \A i \in 1 .. Len(c.todo) : c.todo[i] \in {"begin", "catalog"}
                   /\ c.todo # <<>> => c.todo[Len(c.todo)] = "catalog"
  /\ c.planned /\ c.unwinding => c.transactional /\ Only(c.todo, "rollback")
  /\ c.planned /\ ~c.unwinding =>
       /\ c.todo # <<>>
       /\ \A i \in 1 .. Len(c.todo) : c.todo[i] \in {"begin", "create", "insert", "commit"}
       /\ c.todo[Len(c.todo)] = IF c.transactional THEN "commit" ELSE "insert"
OtherTodo(c) ==
  /\ ~c.planned /\ ~c.transactional /\ ~c.unwinding /\ c.todo # <<>>
  /\ c.kind \in Turns => Only(c.todo, c.kind)
  /\ c.kind \notin Turns => /\ c.todo[Len(c.todo)] = c.kind
                            /\ \A i \in 1 .. Len(c.todo) : c.todo[i] \in {"begin", c.kind}
TodoOK(c) ==
  /\ Orderly(c.todo)
  /\ c.kind = "load" => LoadTodo(c)
  /\ c.kind # "load" => OtherTodo(c)

CallFields == {"id", "kind", "args", "todo", "planned", "transactional", "unwinding", "draining",
               "err", "found", "marker", "src", "pos", "alone"}
Flags(c) == /\ {c.planned, c.transactional, c.unwinding, c.draining} \subseteq BOOLEAN
            /\ {c.err, c.found, c.marker, c.alone} \subseteq BOOLEAN
CallOK(c) ==
  /\ CallFields = DOMAIN c /\ Flags(c)
  /\ c.kind \in Others \cup {"load"} /\ c.src \in 0 .. MaxCalls /\ c.pos \in Nat
  /\ TodoOK(c)

Types ==
  /\ scene \in Scenes
  /\ conn \in ConnRecord /\ srv \in ServerRecord
  /\ pc \in [Tasks -> Holding \cup {"idle", "collect"}] /\ DOMAIN call = Tasks
  /\ calls \in 0 .. MaxCalls
  /\ wire \in Seq(Headers \cup Parts)
  /\ work \in Table /\ table \in Table
  /\ outcome \in [1 .. MaxCalls -> Results]
  /\ {appTxn, misread} \subseteq BOOLEAN

CallsOK ==
  /\ \A t \in Tasks : Active(t) =>
       /\ CallOK(call[t]) /\ call[t].id \in 1 .. calls /\ outcome[call[t].id] = "none"
       /\ t \in scene.tasks
       /\ pc[t] = "collect" <=> call[t].todo = <<>>
       /\ ~Reads(t) => ~call[t].draining
       /\ ~Answers(t) => ~call[t].err
  /\ \A t, u \in Tasks : Active(t) /\ Active(u) /\ t # u => call[t].id # call[u].id
  /\ \A k \in 1 .. MaxCalls : k > calls => outcome[k] = "none"

\* Whoever sends or reads holds the wire; what is not answered makes the connection dirty.
Held ==
  /\ \A t \in Tasks : pc[t] \in Holding <=> conn.owner = t
  /\ \A t \in Tasks : Reads(t) => ~conn.closed /\ conn.dirty
  /\ ~conn.dirty => wire = <<>> /\ srv.what = "none"
  /\ conn.source # 0 =>
       \E t \in Tasks : conn.owner = t /\ call[t].planned /\ call[t].id = conn.source

Shape == Types /\ CallsOK /\ Held

-----------------------------------------------------------------------------
(* The backend and its answers *)

\* The backend; a ReadyForQuery is the last thing it says.
Serves ==
  /\ srv.what = "none" <=> srv.st = "none"
  /\ ~srv.up => srv.what = "none" /\ srv.txn = "none" /\ srv.buf = <<>>
  /\ srv.st \in {"data", "end", "abort"} => srv.what \in {"insert", "copy"}
  /\ srv.st \in {"hello", "greeted"} => srv.what \in {"insert", "copy", "unload"}
  /\ srv.st = "dumped" => srv.what = "unload"
  /\ srv.st \notin {"data", "end", "abort"} => srv.buf = <<>>
  /\ \A i \in 1 .. Len(wire) : wire[i] = "ready" => i = Len(wire) /\ srv.what = "none"
  /\ srv.what # "none" => srv.of \in 1 .. calls
  /\ srv.st \in {"hello", "greeted", "data", "end"} => srv.txn # "failed"
  /\ srv.st \in {"hello", "greeted", "data", "end"} /\ srv.what # "unload" => work.exists

\* The table of the transaction and the one that is seen
Tables ==
  /\ srv.txn = "none" => work = table
  /\ table.rows \subseteq work.rows /\ (table.exists => work.exists)
  /\ (table.rows # {} => table.exists) /\ (work.rows # {} => work.exists)

\* The statements a message answers
Answering(m) ==
  IF m = "BEGIN" THEN {"begin"} ELSE IF m = "COMMIT" THEN {"commit"}
  ELSE IF m = "ROLLBACK" THEN {"rollback"} ELSE IF m = "l" THEN {"insert"}
  ELSE IF m = "lf" THEN {"copy"} ELSE IF m \in {"u", "U"} THEN {"unload"}
  ELSE IF m \in {"e", "fmt"} THEN {"insert", "copy"}
  ELSE IF m = "error" THEN Statements \ Turns ELSE Statements

\* A task that reads has asked for what it reads.
Matches ==
  \A t \in Tasks : Answers(t) =>
    /\ srv.what # "none" => srv.what = Now(t) /\ srv.of = call[t].id
    /\ \A m \in Headers \cup Parts : OnWire(m) => Now(t) \in Answering(m)
    /\ pc[t] = "hello" => Now(t) = IF call[t].marker THEN "insert" ELSE "copy"
    /\ pc[t] = "unload" => Now(t) = "unload"
    /\ pc[t] \in {"xfer", "logfile"} => Now(t) \in {"insert", "copy"}
    /\ Now(t) \in Turns => ~call[t].err
    /\ Now(t) \in Ends /\ OnWire("ready") => srv.txn = "none"
    /\ OnWire("BEGIN") => srv.txn # "none" \/ ~srv.up
    /\ Now(t) = "begin" /\ OnWire("ready") => OnWire("BEGIN") \/ conn.in_transaction

Basic == Shape /\ Serves /\ Tables /\ Matches

\* Where a byte leaves the reader, and the bytes it may find there
Enters(m) == IF m \in {"l", "lf"} THEN "hello" ELSE IF m \in {"U", "block"} THEN "unload"
             ELSE IF m \in {"e", "chunk"} THEN "logfile" ELSE "top"
Allowed(mode) == IF mode = "hello" THEN {"fmt"} ELSE IF mode = "unload" THEN {"block", "done", "sockerr"}
                 ELSE IF mode = "logfile" THEN {"chunk", "end"} ELSE Headers

-----------------------------------------------------------------------------
(* The statements of a call *)

LEMMA EmptyOne ==
  ASSUME NEW S, NEW s \in Seq(S) PROVE s = <<>> <=> Len(s) = 0
OBVIOUS

LEMMA NotEmpty ==
  ASSUME NEW s, Len(s) # 0 PROVE s # <<>>
OBVIOUS

LEMMA TailOf ==
  ASSUME NEW S, NEW s \in Seq(S), s # <<>>
  PROVE  /\ Tail(s) \in Seq(S) /\ Len(Tail(s)) = Len(s) - 1
         /\ \A i \in 1 .. Len(s) - 1 : Tail(s)[i] = s[i + 1]
         /\ Head(s) = s[1] /\ 1 \in 1 .. Len(s)
         /\ Tail(s) # <<>> => Len(s) > 1 /\ Head(Tail(s)) = s[2]
OBVIOUS

LEMMA OrderlyRest ==
  ASSUME NEW s, Orderly(s), s # <<>>, NEW r \in Seq(Statements), Len(r) = Len(s) - 1,
         \A i \in 1 .. Len(s) - 1 : r[i] = s[i + 1]
  PROVE  Orderly(r)
<1>1. s \in Seq(Statements) /\ Len(s) \in Nat /\ Len(r) \in Nat
  BY DEF Orderly
<1>4. Len(s) - 1 >= 1 => r[Len(s) - 1] = s[Len(s)]
  BY <1>1
<1>5. ASSUME NEW i \in 1 .. Len(r)
      PROVE  /\ r[i] = "begin" => i = 1
             /\ r[i] \in Storing => i = Len(r) \/ (i = Len(r) - 1 /\ r[Len(r)] = "commit")
             /\ r[i] = "create" => i < Len(r) /\ r[i + 1] = "insert"
             /\ r[i] \in Ends \cup {"catalog"} => i = Len(r)
             /\ r[i] \in Ends => i = 1 \/ r[i - 1] = "insert"
  <2>1. i + 1 \in 1 .. Len(s) /\ i + 1 # 1 /\ r[i] = s[i + 1] /\ i \in Nat
    BY <1>1
  <2>2. s[i + 1] # "begin"
    BY <2>1 DEF Orderly
  <2>3. ASSUME s[i + 1] = "create" PROVE i + 1 < Len(s) /\ r[i + 1] = "insert"
    <3>1. i + 1 < Len(s) /\ s[i + 1 + 1] = "insert"
      BY <2>1, <2>3 DEF Orderly
    <3>2. i + 1 \in 1 .. Len(s) - 1
      BY <1>1, <2>1, <3>1
    <3>. QED BY <3>1, <3>2
  <2>4. s[i + 1] \in Storing => i + 1 = Len(s) \/ (i + 1 = Len(s) - 1 /\ s[Len(s)] = "commit")
    BY <2>1 DEF Orderly
  <2>5. s[i + 1] \in Ends \cup {"catalog"} => i + 1 = Len(s)
    BY <2>1 DEF Orderly
  <2>6. Len(r) >= 1 => r[Len(r)] = s[Len(s)]
    BY <1>1, <1>4
  <2>7. s[i + 1] \in Ends => s[i] = "insert"
    <3>1. s[i + 1] \in Ends => i + 1 = 1 \/ s[i + 1 - 1] = "insert"
      BY <2>1 DEF Orderly
    <3>. QED BY <2>1, <3>1
  <2>8. i = 1 \/ r[i - 1] = s[i]
    BY <1>1, <2>1
  <2>. QED BY <1>1, <2>1, <2>2, <2>3, <2>4, <2>5, <2>6, <2>7, <2>8
<1>. QED BY <1>5 DEF Orderly

LEMMA OrderlyTail ==
  ASSUME NEW s, Orderly(s), s # <<>> PROVE Orderly(Tail(s))
<1>1. s \in Seq(Statements)
  BY DEF Orderly
<1>. QED BY <1>1, TailOf, OrderlyRest

\* The call goes on to its next statement.
LEMMA NextTodo ==
  ASSUME NEW c, TodoOK(c), c.todo # <<>>, c.kind # "catalog", NEW d, d.kind = c.kind, d.planned = c.planned,
         d.transactional = c.transactional, d.unwinding = c.unwinding, d.todo = Tail(c.todo),
         d.todo # <<>> \/ Head(c.todo) = "catalog"
  PROVE  TodoOK(d)
<1>1. c.todo \in Seq(Statements) /\ Len(c.todo) \in Nat
  BY DEF TodoOK, Orderly
<1>2. /\ Len(d.todo) = Len(c.todo) - 1 /\ Head(c.todo) = c.todo[1]
      /\ \A i \in 1 .. Len(c.todo) - 1 : d.todo[i] = c.todo[i + 1] /\ i + 1 \in 1 .. Len(c.todo)
      /\ d.todo # <<>> => Len(c.todo) > 1
      /\ d.todo \in Seq(Statements)
  BY <1>1, TailOf
<1>3. Orderly(d.todo)
  BY OrderlyTail DEF TodoOK
<1>4. d.todo # <<>> => d.todo[Len(d.todo)] = c.todo[Len(c.todo)]
  BY <1>1, <1>2
<1>6. CASE c.kind = "load"
  <2>1. LoadTodo(c)
    BY <1>6 DEF TodoOK
  <2>2. CASE ~c.planned
    <3>1. \A i \in 1 .. Len(d.todo) : d.todo[i] \in {"begin", "catalog"}
      BY <1>2, <2>1, <2>2 DEF LoadTodo
    <3>. QED BY <1>2, <1>3, <1>4, <1>6, <2>1, <2>2, <3>1 DEF LoadTodo, TodoOK
  <2>3. CASE c.planned /\ c.unwinding
    <3>1. Len(c.todo) = 1 /\ c.todo[1] = "rollback"
      BY <2>1, <2>3 DEF LoadTodo, Only
    <3>. QED BY <1>2, <3>1
  <2>4. CASE c.planned /\ ~c.unwinding
    <3>1. c.todo[1] # "catalog" /\ \A i \in 1 .. Len(d.todo) : d.todo[i] \in {"begin", "create", "insert", "commit"}
      BY <1>1, <1>2, <2>1, <2>4 DEF LoadTodo
    <3>2. d.todo # <<>>
      BY <1>2, <3>1
    <3>3. d.todo[Len(d.todo)] = IF d.transactional THEN "commit" ELSE "insert"
      BY <1>4, <2>1, <2>4, <3>2 DEF LoadTodo
    <3>4. LoadTodo(d)
      BY <2>4, <3>1, <3>2, <3>3 DEF LoadTodo
    <3>. QED BY <1>3, <1>6, <3>4 DEF TodoOK
  <2>. QED BY <2>2, <2>3, <2>4
<1>7. CASE c.kind # "load"
  <2>1. OtherTodo(c)
    BY <1>7 DEF TodoOK
  <2>2. CASE c.kind \in Turns
    <3>1. Len(c.todo) = 1 /\ c.todo[1] # "catalog"
      BY <2>1, <2>2 DEF OtherTodo, Turns, Only
    <3>. QED BY <1>2, <3>1
  <2>3. CASE c.kind \notin Turns
    <3>1. \A i \in 1 .. Len(c.todo) : c.todo[i] \in {"begin", c.kind}
      BY <2>1, <2>3 DEF OtherTodo
    <3>2. \A i \in 1 .. Len(d.todo) : d.todo[i] \in {"begin", c.kind}
      BY <1>2, <3>1
    <3>3. d.todo # <<>>
      BY <1>1, <1>2, <3>1
    <3>. QED BY <3>3, <1>2, <1>3, <1>4, <1>7, <2>1, <2>3, <3>1, <3>2 DEF OtherTodo, TodoOK
  <2>. QED BY <2>2, <2>3
<1>. QED BY <1>6, <1>7

-----------------------------------------------------------------------------
(* The ways a call goes on or ends *)

\* What the end of a call leaves, shut or not
Leaves(t, res) ==
  /\ pc' = [pc EXCEPT ![t] = "idle"] /\ call' = [call EXCEPT ![t] = NoCall]
  /\ outcome' = [outcome EXCEPT ![call[t].id] = res] /\ res \in Results \ {"none"}
  /\ conn' \in ConnRecord /\ appTxn' \in BOOLEAN
  /\ conn.closed => conn'.closed
  /\ conn'.owner = IF conn.owner = t THEN NoTask ELSE conn.owner
  /\ conn'.source \in {0, conn.source} /\ (call[t].planned => conn'.source = 0)
  /\ ~conn'.closed => conn'.autocommit = (conn.autocommit \/ call[t].transactional)
  /\ appTxn' => appTxn \/ (call[t].kind = "begin" /\ res = "ok")
  /\ call[t].kind = "begin" /\ res = "ok" => appTxn'
  /\ ~conn'.closed /\ appTxn /\ call[t].kind \notin Ends => appTxn'

\* It goes on; what it is does not change.
Moves(t, where) ==
  /\ pc' = [pc EXCEPT ![t] = where]
  /\ DOMAIN call' = Tasks /\ \A u \in Tasks \ {t} : call'[u] = call[u]
  /\ CallOK(call'[t]) /\ call'[t].id = call[t].id
  /\ call'[t].kind = call[t].kind /\ call'[t].alone = call[t].alone
  /\ UNCHANGED <<outcome, appTxn>>
  /\ conn' \in ConnRecord /\ conn'.closed = conn.closed
SameStatement(t) ==
  /\ call'[t].todo = call[t].todo /\ call'[t].planned = call[t].planned
  /\ call'[t].transactional = call[t].transactional /\ call'[t].unwinding = call[t].unwinding

LEMMA EndIs ==
  ASSUME NEW t \in Tasks, NEW c, NEW cn \in ConnRecord, NEW res, End(t, c, cn, res),
         {c.planned, c.transactional} \subseteq BOOLEAN, appTxn \in BOOLEAN
  PROVE  /\ pc' = [pc EXCEPT ![t] = "idle"] /\ call' = [call EXCEPT ![t] = NoCall]
         /\ outcome' = [outcome EXCEPT ![c.id] = res]
         /\ conn' \in ConnRecord /\ conn'.closed = cn.closed /\ conn'.dirty = cn.dirty
         /\ conn'.in_transaction = cn.in_transaction
         /\ conn'.owner = IF cn.owner = t THEN NoTask ELSE cn.owner
         /\ conn'.source = IF c.kind = "load" /\ c.planned THEN 0 ELSE cn.source
         /\ conn'.autocommit = IF c.kind = "load" /\ c.planned /\ c.transactional /\ ~cn.closed
                               THEN TRUE ELSE cn.autocommit
         /\ appTxn' = IF c.kind = "begin" /\ res = "ok" THEN TRUE
                      ELSE IF c.kind \in {"commit", "rollback"} \/ cn.closed THEN FALSE ELSE appTxn
<1>0. 0 \in 0 .. MaxCalls /\ NoTask \in Tasks \cup {NoTask}
  BY LoadDataAssumption
<1>1. conn' = Released(t, Restored(c, cn))
  BY DEF End
<1>. DEFINE r == Restored(c, cn)
<1>2. /\ r \in ConnRecord /\ r.closed = cn.closed /\ r.dirty = cn.dirty
      /\ r.in_transaction = cn.in_transaction /\ r.owner = cn.owner
      /\ r.source = IF c.kind = "load" /\ c.planned THEN 0 ELSE cn.source
      /\ r.autocommit = IF c.kind = "load" /\ c.planned /\ c.transactional /\ ~cn.closed
                        THEN TRUE ELSE cn.autocommit
  <2>1. CASE c.kind = "load" /\ c.planned
    BY <1>0, <2>1 DEF Restored, ConnRecord
  <2>2. CASE ~(c.kind = "load" /\ c.planned)
    BY <2>2 DEF Restored, ConnRecord
  <2>. QED BY <2>1, <2>2
<1>. HIDE DEF r
<1>3. conn' = Released(t, r)
  BY <1>1 DEF r
<1>4. /\ conn' \in ConnRecord /\ conn'.closed = r.closed /\ conn'.dirty = r.dirty
      /\ conn'.in_transaction = r.in_transaction /\ conn'.source = r.source
      /\ conn'.autocommit = r.autocommit
      /\ conn'.owner = IF r.owner = t THEN NoTask ELSE r.owner
  BY <1>0, <1>2, <1>3 DEF Released, ConnRecord
<1>5. /\ pc' = [pc EXCEPT ![t] = "idle"] /\ call' = [call EXCEPT ![t] = NoCall]
      /\ outcome' = [outcome EXCEPT ![c.id] = res]
  BY DEF End, At, With
<1>6. appTxn' = IF c.kind = "begin" /\ res = "ok" THEN TRUE
                ELSE IF c.kind \in {"commit", "rollback"} \/ cn.closed THEN FALSE ELSE appTxn
  BY DEF End
<1>. QED BY <1>2, <1>4, <1>5, <1>6

LEMMA RaiseIs ==
  ASSUME NEW t, NEW c, NEW cn, Raise(t, c, cn), c.unwinding \in BOOLEAN,
         {cn.failure, cn.in_transaction, cn.closed} \subseteq BOOLEAN
  PROVE  \/ cn.failure /\ End(t, c, [cn EXCEPT !.closed = TRUE], "failed")
         \/ End(t, c, cn, "failed") /\ ~(c.kind = "load" /\ c.planned /\ ~c.unwinding /\ c.transactional
                                         /\ cn.in_transaction /\ ~cn.closed)
         \/ /\ c.kind = "load" /\ c.planned /\ ~c.unwinding /\ c.transactional
            /\ cn.in_transaction /\ ~cn.closed
            /\ At(t, "send") /\ conn' = cn /\ UNCHANGED <<outcome, appTxn>>
            /\ With(t, [c EXCEPT !.unwinding = TRUE, !.todo = <<"rollback">>, !.err = FALSE])
BY DEF Raise

\* It ends without an answer: the connection is closed, or the task was cancelled, or
\* nothing of it was under way.
Quits(t) == \E res \in {"failed", "cancelled"} :
  /\ Active(t) /\ Leaves(t, res)
  /\ conn'.dirty = conn.dirty /\ conn'.in_transaction = conn.in_transaction
  /\ UNCHANGED <<srv, wire, misread>>
  /\ Reads(t) => conn'.closed \/ (Answers(t) /\ res = "cancelled" /\ Now(t) \in scene.cancel)
  /\ pc[t] = "send" => conn'.closed
  /\ pc[t] = "collect" => conn'.closed = conn.closed
  /\ pc[t] \in Frames => conn'.closed \/ FrameFaults
\* The disk is full inside an unload.
BreaksOff(t) ==
  /\ Active(t) /\ Leaves(t, "failed") /\ FrameFaults /\ pc[t] = "unload" /\ Answers(t)
  /\ conn'.dirty = conn.dirty /\ conn'.in_transaction = conn.in_transaction
  /\ wire # <<>> /\ wire' = Tail(wire) /\ UNCHANGED <<srv, misread>>
\* It reads what is no header.
Stumbles(t) ==
  /\ Active(t) /\ Leaves(t, "failed") /\ pc[t] = "read" /\ conn'.closed
  /\ conn'.dirty = conn.dirty /\ conn'.in_transaction = conn.in_transaction
  /\ wire # <<>> /\ wire[1] \in Parts /\ wire' = Tail(wire) /\ UNCHANGED srv
  /\ misread' \in BOOLEAN

\* ReadyForQuery ends the statement.
Ready(t) ==
  /\ pc[t] = "read" /\ ~conn.closed /\ ~call[t].draining /\ wire # <<>> /\ wire[1] = "ready"
  /\ wire' = Tail(wire) /\ UNCHANGED <<srv, misread>>
  /\ ~conn'.dirty
  /\ conn'.in_transaction = (conn.in_transaction /\ ~(Now(t) \in Ends /\ ~call[t].err))
Finishes(t) == \E res \in {"failed", "ok", "stored"} :
  /\ Ready(t) /\ Leaves(t, res)
  /\ call[t].err => res = "failed" /\ (call[t].transactional /\ ~call[t].unwinding
                                         => conn'.closed \/ ~conn.in_transaction)
  /\ ~call[t].err /\ res = "failed" => Now(t) = "catalog" \/ call[t].unwinding
  /\ res # "failed" => Len(call[t].todo) = 1 /\ Now(t) # "catalog" /\ ~call[t].unwinding
  /\ ~call[t].err => Now(t) = "catalog" \/ Len(call[t].todo) = 1
  /\ res = "stored" => /\ call[t].kind = "load" /\ call[t].alone
                       /\ \A j \in 1 .. calls : outcome[j] # "cancelled"
Stays(t) ==
  /\ Active(t) /\ conn'.owner = conn.owner /\ conn'.autocommit = conn.autocommit
Sends(t) ==
  /\ Moves(t, "send") /\ ~call'[t].draining /\ ~call'[t].err
NextStatement(t) ==
  /\ Ready(t) /\ Sends(t) /\ Stays(t) /\ conn'.source = conn.source
  /\ ~call[t].err /\ Now(t) # "catalog"
  /\ call'[t].todo = Tail(call[t].todo) /\ call[t].todo # <<>> /\ call'[t].todo # <<>>
  /\ call'[t].planned = call[t].planned /\ call'[t].unwinding = call[t].unwinding
  /\ call'[t].transactional = call[t].transactional
Unwinds(t) ==
  /\ Ready(t) /\ Sends(t) /\ Stays(t) /\ conn'.source = conn.source
  /\ call[t].err /\ conn.in_transaction
  /\ call[t].planned /\ ~call[t].unwinding /\ call[t].transactional
  /\ call'[t].planned /\ call'[t].unwinding /\ call'[t].transactional
  /\ Only(call'[t].todo, "rollback")
Plans(t) ==
  /\ Active(t) /\ call[t].kind = "load" /\ ~call[t].planned
  /\ call'[t].planned /\ ~call'[t].unwinding /\ call'[t].todo # <<>>
  /\ conn'.owner = t /\ conn'.source = call[t].id
  /\ conn'.autocommit = (conn.autocommit /\ ~call'[t].transactional)
  /\ call'[t].transactional => conn.autocommit /\ ~conn.in_transaction /\ call'[t].todo[1] = "begin"
  /\ call'[t].todo[1] = "begin" => ~conn.in_transaction /\ ~conn'.autocommit
  /\ call'[t].todo[1] = "create" => conn.in_transaction
  /\ call'[t].todo[1] \in {"begin", "create", "insert"}
  /\ ~call'[t].transactional /\ conn.autocommit /\ ~conn.in_transaction => Only(call'[t].todo, "insert")
  /\ Sends(t)
ReadyPlans(t) == Ready(t) /\ Plans(t) /\ ~call[t].err /\ Now(t) = "catalog"
CollectPlans(t) ==
  /\ pc[t] = "collect" /\ Plans(t) /\ conn.owner = NoTask
  /\ conn'.dirty = conn.dirty /\ conn'.in_transaction = conn.in_transaction
  /\ UNCHANGED <<srv, wire, misread>>
Collects(t) ==
  /\ Ready(t) /\ Moves(t, "collect") /\ conn'.owner = NoTask /\ conn'.source = conn.source
  /\ conn'.autocommit = conn.autocommit
  /\ ~call[t].err /\ Now(t) = "catalog" /\ call[t].kind = "load"
  /\ call'[t].todo = <<>> /\ call'[t].planned = call[t].planned
  /\ call'[t].unwinding = call[t].unwinding /\ call'[t].transactional = call[t].transactional
  /\ ~call'[t].draining /\ ~call'[t].err

\* The steps of one statement
Same(t) == /\ Stays(t) /\ SameStatement(t) /\ call'[t].draining = call[t].draining
Drained(t) ==
  /\ Sends(t) /\ Stays(t) /\ SameStatement(t) /\ conn'.source = conn.source
  /\ pc[t] = "read" /\ call[t].draining /\ wire # <<>> /\ wire[1] = "ready" /\ wire' = Tail(wire)
  /\ ~conn'.dirty /\ conn'.in_transaction = conn.in_transaction
  /\ UNCHANGED <<srv, misread>>

\* The client answers when it is asked for its file; st is what that makes of the backend.
Asks(yes) ==
  /\ srv' \in ServerRecord
  /\ srv'.up = srv.up /\ srv'.txn = srv.txn /\ srv'.what = srv.what /\ srv'.of = srv.of
  /\ srv'.buf = srv.buf
  /\ srv'.st = IF yes /\ srv.up /\ srv.st = "hello" THEN "greeted" ELSE srv.st
ReadsOn(t) ==
  /\ Moves(t, "read") /\ Same(t) /\ pc[t] = "read" /\ wire # <<>> /\ wire' = Tail(wire)
  /\ conn'.dirty = conn.dirty /\ conn'.source = conn.source /\ UNCHANGED misread
  /\ wire[1] \in Headers \ {"ready", "l", "lf", "U", "e"}
  /\ conn'.in_transaction =
       IF ~call[t].draining /\ wire[1] = "BEGIN" THEN TRUE
       ELSE IF ~call[t].draining /\ wire[1] \in {"COMMIT", "ROLLBACK"} THEN FALSE ELSE conn.in_transaction
  /\ call'[t].err => ~call[t].draining /\ (call[t].err \/ wire[1] \in {"error", "u"})
  /\ ~call'[t].err => ~call[t].err /\ (call[t].draining \/ wire[1] # "error")
  /\ Asks(wire[1] = "u" /\ ~call[t].draining)
FrameOf(m) == IF m \in {"l", "lf"} THEN "hello" ELSE IF m = "U" THEN "unload" ELSE "logfile"
EntersFrame(t) ==
  /\ Moves(t, FrameOf(wire[1])) /\ Same(t) /\ pc[t] = "read" /\ wire # <<>> /\ wire' = Tail(wire)
  /\ UNCHANGED <<conn, misread>> /\ wire[1] \in {"l", "lf", "U", "e"}
  /\ call'[t].err = call[t].err
  /\ call'[t].marker = IF wire[1] \in {"l", "lf"} THEN wire[1] = "l" ELSE call[t].marker
  /\ Asks(wire[1] \in {"l", "lf"})

-----------------------------------------------------------------------------
(* The plan of a load *)

Joined(a, b, s) == /\ Len(s) = Len(a) + Len(b)
                   /\ \A i \in 1 .. Len(a) : s[i] = a[i]
                   /\ \A i \in 1 .. Len(b) : s[Len(a) + i] = b[i]

LEMMA Concat ==
  ASSUME NEW S, NEW a \in Seq(S), NEW b \in Seq(S)
  PROVE  a \o b \in Seq(S) /\ Joined(a, b, a \o b)
BY DEF Joined

\* What load_data() and execute() put in front of and behind the statements
LEMMA FirstPart ==
  ASSUME NEW p \in Seq(Statements), p = <<>> \/ Only(p, "begin"),
         NEW q \in Seq(Statements), Only(q, "insert") \/ (Len(q) = 2 /\ q[1] = "create" /\ q[2] = "insert"),
         NEW r \in Seq(Statements), Joined(p, q, r)
  PROVE  /\ r \in Seq(Statements) /\ Len(r) = Len(p) + Len(q) /\ Len(r) \in Nat \ {0}
         /\ r[Len(r)] = "insert" /\ r[1] = IF p = <<>> THEN q[1] ELSE "begin"
         /\ \A i \in 1 .. Len(r) : r[i] \in {"begin", "create", "insert"}
         /\ \A i \in 1 .. Len(r) : r[i] = "begin" => i = 1
         /\ \A i \in 1 .. Len(r) : r[i] = "insert" => i = Len(r)
         /\ \A i \in 1 .. Len(r) : r[i] = "create" => i < Len(r) /\ r[i + 1] = "insert"
<1>0. r \in Seq(Statements) /\ Len(r) = Len(p) + Len(q)
  BY DEF Joined
<1>1. /\ r \in Seq(Statements) /\ Len(r) = Len(p) + Len(q)
      /\ \A i \in 1 .. Len(p) : r[i] = p[i]
      /\ \A i \in 1 .. Len(q) : r[Len(p) + i] = q[i]
  BY DEF Joined
<1>2. CASE p = <<>>
  <2>1. Len(p) = 0
    BY <1>2
  <2>2. Len(q) \in {1, 2} /\ \A i \in 1 .. Len(q) : r[i] = q[i]
    BY <1>1, <2>1 DEF Only
  <2>3. CASE Len(q) = 1
    <3>1. Len(r) = 1 /\ r[1] = "insert" /\ q[1] = "insert"
      BY <1>1, <2>1, <2>2, <2>3 DEF Only
    <3>2. \A i \in 1 .. Len(r) : i = 1
      BY <3>1
    <3>. QED BY <1>0, <1>2, <3>1, <3>2
  <2>4. CASE Len(q) = 2
    <3>1. Len(r) = 2 /\ r[1] = "create" /\ r[2] = "insert" /\ q[1] = "create"
      BY <1>1, <2>1, <2>2, <2>4 DEF Only
    <3>2. \A i \in 1 .. Len(r) : i = 1 \/ i = 2
      BY <3>1
    <3>. QED BY <1>0, <1>2, <3>1, <3>2
  <2>. QED BY <2>2, <2>3, <2>4
<1>3. CASE Len(p) = 1 /\ p[1] = "begin"
  <2>0. p # <<>>
    BY <1>3
  <2>1. r[1] = "begin" /\ Len(r) = 1 + Len(q) /\ \A i \in 1 .. Len(q) : r[1 + i] = q[i]
    BY <1>1, <1>3
  <2>3. CASE Len(q) = 1
    <3>1. Len(r) = 2 /\ r[1] = "begin" /\ r[2] = "insert"
      BY <1>1, <2>1, <2>3 DEF Only
    <3>2. \A i \in 1 .. Len(r) : i = 1 \/ i = 2
      BY <3>1
    <3>3. r[1] = IF p = <<>> THEN q[1] ELSE "begin"
      BY <2>0, <3>1
    <3>4. Len(r) \in Nat \ {0} /\ r[Len(r)] = "insert"
      BY <3>1
    <3>5. /\ \A i \in 1 .. Len(r) : r[i] \in {"begin", "create", "insert"}
          /\ \A i \in 1 .. Len(r) : r[i] = "begin" => i = 1
      BY <3>1, <3>2
    <3>6. /\ \A i \in 1 .. Len(r) : r[i] = "insert" => i = Len(r)
          /\ \A i \in 1 .. Len(r) : r[i] = "create" => i < Len(r) /\ r[i + 1] = "insert"
      BY <3>1, <3>2
    <3>. QED BY <1>0, <3>3, <3>4, <3>5, <3>6
  <2>4. CASE Len(q) = 2
    <3>1. Len(r) = 3 /\ r[1] = "begin" /\ r[2] = "create" /\ r[3] = "insert"
      BY <1>1, <2>1, <2>4 DEF Only
    <3>2. \A i \in 1 .. Len(r) : i = 1 \/ i = 2 \/ i = 3
      BY <3>1
    <3>3. r[1] = IF p = <<>> THEN q[1] ELSE "begin"
      BY <2>0, <3>1
    <3>4. Len(r) \in Nat \ {0} /\ r[Len(r)] = "insert"
      BY <3>1
    <3>5. /\ \A i \in 1 .. Len(r) : r[i] \in {"begin", "create", "insert"}
          /\ \A i \in 1 .. Len(r) : r[i] = "begin" => i = 1
      BY <3>1, <3>2
    <3>6. /\ \A i \in 1 .. Len(r) : r[i] = "insert" => i = Len(r)
          /\ \A i \in 1 .. Len(r) : r[i] = "create" => i < Len(r) /\ r[i + 1] = "insert"
      BY <3>1, <3>2
    <3>. QED BY <1>0, <3>3, <3>4, <3>5, <3>6
  <2>. QED BY <2>3, <2>4 DEF Only
<1>. QED BY <1>2, <1>3 DEF Only

LEMMA Planned ==
  ASSUME NEW p \in Seq(Statements), p = <<>> \/ Only(p, "begin"),
         NEW q \in Seq(Statements), Only(q, "insert") \/ (Len(q) = 2 /\ q[1] = "create" /\ q[2] = "insert"),
         NEW e \in Seq(Statements), e = <<>> \/ Only(e, "commit"),
         NEW r \in Seq(Statements), Joined(p, q, r), NEW s \in Seq(Statements), Joined(r, e, s)
  PROVE  /\ Orderly(s) /\ s # <<>> /\ s[1] = IF p = <<>> THEN q[1] ELSE "begin"
         /\ Len(s) = Len(p) + Len(q) + Len(e)
         /\ \A i \in 1 .. Len(s) : s[i] \in {"begin", "create", "insert", "commit"}
         /\ s[Len(s)] = IF e = <<>> THEN "insert" ELSE "commit"
<1>1. /\ r \in Seq(Statements) /\ Len(r) = Len(p) + Len(q) /\ Len(r) \in Nat \ {0}
      /\ r[Len(r)] = "insert" /\ r[1] = IF p = <<>> THEN q[1] ELSE "begin"
      /\ \A i \in 1 .. Len(r) : r[i] \in {"begin", "create", "insert"}
      /\ \A i \in 1 .. Len(r) : r[i] = "begin" => i = 1
      /\ \A i \in 1 .. Len(r) : r[i] = "insert" => i = Len(r)
      /\ \A i \in 1 .. Len(r) : r[i] = "create" => i < Len(r) /\ r[i + 1] = "insert"
  BY FirstPart
<1>3. /\ s \in Seq(Statements) /\ Len(s) = Len(r) + Len(e) /\ Len(s) \in Nat /\ Len(e) \in Nat
      /\ \A i \in 1 .. Len(r) : s[i] = r[i]
      /\ \A i \in 1 .. Len(e) : s[Len(r) + i] = e[i]
  BY <1>1 DEF Joined
<1>4. /\ Len(e) = IF e = <<>> THEN 0 ELSE 1
      /\ e # <<>> => s[Len(s)] = "commit"
  <2>1. CASE e # <<>>
    <3>1. Len(e) = 1 /\ e[1] = "commit"
      BY <2>1 DEF Only
    <3>2. Len(s) = Len(r) + 1 /\ s[Len(r) + 1] = e[1]
      BY <1>1, <1>3, <3>1
    <3>. QED BY <2>1, <3>1, <3>2
  <2>2. CASE e = <<>>
    BY <2>2
  <2>. QED BY <2>1, <2>2
<1>5. \A i \in 1 .. Len(s) : i \in 1 .. Len(r) \/ (e # <<>> /\ i = Len(s) /\ s[i] = "commit")
  BY <1>1, <1>3, <1>4
<1>6. Len(s) = Len(r) + IF e = <<>> THEN 0 ELSE 1
  BY <1>3, <1>4
<1>7. ASSUME NEW i \in 1 .. Len(s)
      PROVE  /\ s[i] = "begin" => i = 1
             /\ s[i] \in Storing => i = Len(s) \/ (i = Len(s) - 1 /\ s[Len(s)] = "commit")
             /\ s[i] = "create" => i < Len(s) /\ s[i + 1] = "insert"
             /\ s[i] \in Ends \cup {"catalog"} => i = Len(s)
             /\ s[i] \in Ends => i = 1 \/ s[i - 1] = "insert"
             /\ s[i] \in {"begin", "create", "insert", "commit"}
  <2>1. CASE i \in 1 .. Len(r)
    <3>1. s[i] = r[i] /\ i \in Nat
      BY <1>3, <2>1
    <3>2. /\ r[i] = "begin" => i = 1
          /\ r[i] = "insert" => i = Len(r)
          /\ r[i] = "create" => i < Len(r) /\ r[i + 1] = "insert"
          /\ r[i] \in {"begin", "create", "insert"}
      BY <1>1, <2>1
    <3>3. ASSUME i < Len(r) PROVE i + 1 \in 1 .. Len(r) /\ s[i + 1] = r[i + 1]
      <4>1. Len(r) \in Nat
        BY <1>1
      <4>2. i + 1 \in 1 .. Len(r)
        BY <3>1, <3>3, <4>1
      <4>. QED BY <1>3, <4>2
    <3>. QED BY <1>1, <1>4, <1>6, <3>1, <3>2, <3>3 DEF Storing, Ends
  <2>2. CASE i \notin 1 .. Len(r)
    <3>1. e # <<>> /\ i = Len(s) /\ s[i] = "commit"
      BY <1>5, <2>2
    <3>2. i - 1 = Len(r) /\ Len(r) \in 1 .. Len(r)
      BY <1>1, <1>3, <1>6, <3>1
    <3>3. s[i - 1] = "insert"
      BY <1>1, <1>3, <3>2
    <3>. QED BY <3>1, <3>3 DEF Storing, Ends
  <2>. QED BY <2>1, <2>2
<1>8. s # <<>> /\ s[1] = r[1]
  BY <1>1, <1>3
<1>9. e = <<>> => s[Len(s)] = "insert"
  BY <1>1, <1>3, <1>4
<1>. QED BY <1>1, <1>3, <1>4, <1>7, <1>8, <1>9 DEF Orderly

LEMMA SetCall ==
  ASSUME NEW t \in Tasks, NEW c, NEW where, At(t, where), With(t, c), Types
  PROVE  /\ pc' = [pc EXCEPT ![t] = where] /\ call'[t] = c
         /\ DOMAIN call' = Tasks /\ \A u \in Tasks \ {t} : call'[u] = call[u]
BY DEF At, With, Types

LEMMA IdsOK ==
  ASSUME Basic, NEW t \in Tasks, Active(t)
  PROVE  /\ call[t].id \in 1 .. MaxCalls /\ call[t].id \in 0 .. MaxCalls
         /\ call[t].kind \in Others \cup {"load"} /\ call[t].kind # "catalog"
         /\ CallOK(call[t]) /\ call[t].id \in 1 .. calls
BY LoadDataAssumption DEF Basic, Shape, CallsOK, Types, CallOK

\* The tuples of the model
LEMMA Words ==
  /\ <<>> \in Seq(Statements) /\ <<"begin">> \in Seq(Statements) /\ Only(<<"begin">>, "begin")
  /\ <<"insert">> \in Seq(Statements) /\ Only(<<"insert">>, "insert")
  /\ <<"catalog">> \in Seq(Statements) /\ Only(<<"catalog">>, "catalog")
  /\ <<"commit">> \in Seq(Statements) /\ Only(<<"commit">>, "commit")
  /\ <<"rollback">> \in Seq(Statements) /\ Only(<<"rollback">>, "rollback")
  /\ <<"create", "insert">> \in Seq(Statements) /\ Len(<<"create", "insert">>) = 2
  /\ <<"create", "insert">>[1] = "create" /\ <<"create", "insert">>[2] = "insert"
BY DEF Statements, Only

LEMMA OneStatement ==
  ASSUME NEW s \in Seq(Statements), NEW x, Only(s, x), x # "create"
  PROVE  /\ s # <<>> /\ Orderly(s) /\ s[1] = x /\ s[Len(s)] = x /\ Head(s) = x /\ Len(s) = 1
         /\ \A i \in 1 .. Len(s) : s[i] = x
<1>1. Len(s) = 1 /\ s[1] = x
  BY DEF Only
<1>2. s # <<>> /\ \A i \in 1 .. Len(s) : i = 1
  BY <1>1
<1>3. s[Len(s)] = x /\ Head(s) = x /\ \A i \in 1 .. Len(s) : s[i] = x
  BY <1>1, <1>2
<1>4. Orderly(s)
  BY <1>1, <1>2, <1>3 DEF Orderly, Ends, Storing
<1>. QED BY <1>1, <1>2, <1>3, <1>4

LEMMA BeginFirst ==
  ASSUME NEW cn \in ConnRecord, NEW q \in Seq(Statements)
  PROVE  \E p \in Seq(Statements) :
           /\ WithBegin(cn, q) \in Seq(Statements) /\ Joined(p, q, WithBegin(cn, q))
           /\ IF ~cn.in_transaction /\ ~cn.autocommit THEN Only(p, "begin") ELSE p = <<>>
<1>1. CASE ~cn.in_transaction /\ ~cn.autocommit
  <2>1. WithBegin(cn, q) = <<"begin">> \o q
    BY <1>1 DEF WithBegin
  <2>2. <<"begin">> \o q \in Seq(Statements) /\ Joined(<<"begin">>, q, <<"begin">> \o q)
    BY Concat, Words
  <2>. QED BY <1>1, <2>1, <2>2, Words
<1>2. CASE ~(~cn.in_transaction /\ ~cn.autocommit)
  <2>1. WithBegin(cn, q) = q
    BY <1>2 DEF WithBegin
  <2>2. Joined(<<>>, q, q)
    BY DEF Joined
  <2>. QED BY <1>2, <2>1, <2>2, Words
<1>. QED BY <1>1, <1>2

LEMMA PlanParts ==
  ASSUME NEW found \in BOOLEAN, NEW tr \in BOOLEAN, NEW cn \in ConnRecord,
         NEW q \in Seq(Statements), q[1] = IF found THEN "insert" ELSE "create",
         Only(q, "insert") \/ (Len(q) = 2 /\ q[1] = "create" /\ q[2] = "insert"),
         Len(q) = IF found THEN 1 ELSE 2,
         NEW e \in Seq(Statements), IF tr THEN Only(e, "commit") ELSE e = <<>>,
         NEW p \in Seq(Statements),
         IF ~cn.in_transaction /\ ~cn.autocommit THEN Only(p, "begin") ELSE p = <<>>,
         NEW r \in Seq(Statements), Joined(p, q, r), NEW s \in Seq(Statements), Joined(r, e, s)
  PROVE  /\ Orderly(s) /\ s # <<>>
         /\ s[1] = IF ~cn.in_transaction /\ ~cn.autocommit THEN "begin"
                   ELSE IF found THEN "insert" ELSE "create"
         /\ \A i \in 1 .. Len(s) : s[i] \in {"begin", "create", "insert", "commit"}
         /\ s[Len(s)] = IF tr THEN "commit" ELSE "insert"
<1>50. /\ p = <<>> \/ Only(p, "begin")
       /\ e = <<>> \/ Only(e, "commit")
       /\ e # <<>> <=> tr
  BY DEF Only
<1>6. /\ Orderly(s) /\ s # <<>> /\ s[1] = IF p = <<>> THEN q[1] ELSE "begin"
      /\ Len(s) = Len(p) + Len(q) + Len(e)
      /\ \A i \in 1 .. Len(s) : s[i] \in {"begin", "create", "insert", "commit"}
      /\ s[Len(s)] = IF e = <<>> THEN "insert" ELSE "commit"
  <2>1. Orderly(s)
    BY <1>50, Planned, SMTT(20)
  <2>2. s # <<>>
    BY <1>50, Planned
  <2>3. Len(s) = Len(p) + Len(q) + Len(e)
    BY DEF Joined
  <2>. QED BY <1>50, Planned, <2>1, <2>2, <2>3
<1>7. Only(p, "begin") => p # <<>>
  BY DEF Only
<1>8. s[1] = IF ~cn.in_transaction /\ ~cn.autocommit THEN "begin" ELSE IF found THEN "insert" ELSE "create"
  BY <1>6, <1>7
<1>. QED BY <1>6, <1>8, <1>50

\* What load_data() asks for next
Asked(cn, found, tr) ==
  WithBegin(cn, IF found THEN <<"insert">> ELSE <<"create", "insert">>)
    \o IF tr THEN <<"commit">> ELSE <<>>

LEMMA PlanTodo ==
  ASSUME NEW found \in BOOLEAN, NEW tr \in BOOLEAN, NEW cn \in ConnRecord,
         tr => ~found /\ ~cn.in_transaction /\ ~cn.autocommit,
         NEW s, s = Asked(cn, found, tr)
  PROVE  /\ Orderly(s) /\ s # <<>>
         /\ s[1] = IF ~cn.in_transaction /\ ~cn.autocommit THEN "begin"
                   ELSE IF found THEN "insert" ELSE "create"
         /\ \A i \in 1 .. Len(s) : s[i] \in {"begin", "create", "insert", "commit"}
         /\ s[Len(s)] = IF tr THEN "commit" ELSE "insert"
         /\ ~tr /\ found /\ (cn.in_transaction \/ cn.autocommit) => Only(s, "insert")
<1>. DEFINE q == IF found THEN <<"insert">> ELSE <<"create", "insert">>
            e == IF tr THEN <<"commit">> ELSE <<>>
            r == WithBegin(cn, q)
<1>1. /\ q \in Seq(Statements) /\ q[1] = IF found THEN "insert" ELSE "create"
      /\ Only(q, "insert") \/ (Len(q) = 2 /\ q[1] = "create" /\ q[2] = "insert")
      /\ Len(q) = IF found THEN 1 ELSE 2
  <2>1. CASE found
    BY <2>1, Words DEF Only
  <2>2. CASE ~found
    BY <2>2, Words
  <2>. QED BY <2>1, <2>2
<1>2. e \in Seq(Statements) /\ IF tr THEN Only(e, "commit") ELSE e = <<>>
  BY Words
<1>3. s = r \o e
  BY DEF Asked
<1>. HIDE DEF q, e
<1>4. PICK p \in Seq(Statements) :
        /\ r \in Seq(Statements) /\ Joined(p, q, r)
        /\ IF ~cn.in_transaction /\ ~cn.autocommit THEN Only(p, "begin") ELSE p = <<>>
  BY <1>1, BeginFirst
<1>. HIDE DEF r
<1>5. s \in Seq(Statements) /\ Joined(r, e, s)
  BY <1>2, <1>3, <1>4, Concat
<1>50. /\ Orderly(s) /\ s # <<>>
       /\ s[1] = IF ~cn.in_transaction /\ ~cn.autocommit THEN "begin"
                 ELSE IF found THEN "insert" ELSE "create"
  BY <1>1, <1>2, <1>4, <1>5, PlanParts
<1>51. \A i \in 1 .. Len(s) : s[i] \in {"begin", "create", "insert", "commit"}
  BY <1>1, <1>2, <1>4, <1>5, PlanParts
<1>52. s[Len(s)] = IF tr THEN "commit" ELSE "insert"
  BY <1>1, <1>2, <1>4, <1>5, PlanParts
<1>53. ASSUME ~tr, found, cn.in_transaction \/ cn.autocommit PROVE Only(s, "insert")
  <2>1. p = <<>> /\ e = <<>>
    BY <1>2, <1>4, <1>53
  <2>2. Len(p) = 0 /\ Len(e) = 0 /\ Len(q) = 1
    BY <1>1, <1>53, <2>1
  <2>3. Len(s) = Len(p) + Len(q) + Len(e)
    BY <1>4, <1>5 DEF Joined
  <2>4. Len(s) = 1
    BY <2>2, <2>3
  <2>5. s[1] = "insert"
    BY <1>50, <1>53
  <2>. QED BY <2>4, <2>5 DEF Only
<1>. QED BY <1>50, <1>51, <1>52, <1>53

LEMMA PlanIs ==
  ASSUME NEW t, NEW c, NEW cn \in ConnRecord, Plan(t, c, cn), {c.found, c.planned} \subseteq BOOLEAN,
         CallFields = DOMAIN c, c.id \in 0 .. MaxCalls
  PROVE  \E tk, tr, pl :
           /\ tk \in ConnRecord /\ tr \in BOOLEAN
           /\ tr = (~c.found /\ cn.autocommit /\ ~cn.in_transaction)
           /\ tk.closed = cn.closed /\ tk.in_transaction = cn.in_transaction /\ tk.dirty = cn.dirty
           /\ tk.owner = cn.owner /\ tk.source = c.id /\ tk.autocommit = (cn.autocommit /\ ~tr)
           /\ ~tk.failure
           /\ pl = [c EXCEPT !.planned = TRUE, !.transactional = tr]
           /\ IF cn.owner \notin {NoTask, t} THEN Raise(t, pl, tk)
              ELSE /\ At(t, "send") /\ conn' = [tk EXCEPT !.owner = t]
                   /\ With(t, [pl EXCEPT !.todo = Asked(tk, c.found, tr)])
                   /\ UNCHANGED <<outcome, appTxn>>
<1>. DEFINE tr == ~c.found /\ cn.autocommit /\ ~cn.in_transaction
            pl == [c EXCEPT !.planned = TRUE, !.transactional = tr]
            tk == [cn EXCEPT !.autocommit = @ /\ ~tr, !.source = c.id, !.failure = FALSE]
<1>0. tr \in BOOLEAN
  OBVIOUS
<1>. HIDE DEF tr
<1>1. /\ tk \in ConnRecord /\ tk.closed = cn.closed /\ tk.in_transaction = cn.in_transaction
      /\ tk.dirty = cn.dirty /\ tk.owner = cn.owner /\ tk.source = c.id
      /\ tk.autocommit = (cn.autocommit /\ ~tr) /\ ~tk.failure
  BY <1>0 DEF ConnRecord
<1>2. IF cn.owner \notin {NoTask, t} THEN Raise(t, pl, tk)
      ELSE /\ At(t, "send") /\ conn' = [tk EXCEPT !.owner = t]
           /\ With(t, [pl EXCEPT !.todo = Asked(tk, c.found, tr)])
           /\ UNCHANGED <<outcome, appTxn>>
  BY DEF Plan, Asked, tr
<1>3. tr = (~c.found /\ cn.autocommit /\ ~cn.in_transaction)
  BY DEF tr
<1>. HIDE DEF tk, pl
<1>4. pl = [c EXCEPT !.planned = TRUE, !.transactional = tr]
  BY DEF pl
<1>. QED BY <1>0, <1>1, <1>2, <1>3, <1>4, Zenon

\* The load has the wire and sends.
LEMMA PlanSends ==
  ASSUME Basic, NEW t \in Tasks, Active(t), call[t].kind = "load", ~call[t].planned,
         NEW c, CallOK(c), c.id = call[t].id, c.kind = "load", c.alone = call[t].alone,
         ~c.planned, ~c.unwinding, ~c.draining, ~c.err,
         NEW cn \in ConnRecord, cn.closed = conn.closed, cn.owner = NoTask,
         cn.autocommit = conn.autocommit, cn.in_transaction = conn.in_transaction,
         Plan(t, c, cn)
  PROVE  /\ Plans(t) /\ conn'.dirty = cn.dirty /\ conn'.in_transaction = conn.in_transaction
<1>0. /\ call[t].id \in 1 .. MaxCalls /\ call[t].id \in 0 .. MaxCalls /\ NoTask \in {NoTask, t}
      /\ CallFields = DOMAIN c /\ {c.found, c.planned} \subseteq BOOLEAN
  BY IdsOK DEF CallOK, Flags
<1>1. PICK tk, tr, pl :
           /\ tk \in ConnRecord /\ tr \in BOOLEAN
           /\ tr = (~c.found /\ cn.autocommit /\ ~cn.in_transaction)
           /\ tk.closed = cn.closed /\ tk.in_transaction = cn.in_transaction /\ tk.dirty = cn.dirty
           /\ tk.owner = cn.owner /\ tk.source = c.id /\ tk.autocommit = (cn.autocommit /\ ~tr)
           /\ ~tk.failure
           /\ pl = [c EXCEPT !.planned = TRUE, !.transactional = tr]
           /\ IF cn.owner \notin {NoTask, t} THEN Raise(t, pl, tk)
              ELSE /\ At(t, "send") /\ conn' = [tk EXCEPT !.owner = t]
                   /\ With(t, [pl EXCEPT !.todo = Asked(tk, c.found, tr)])
                   /\ UNCHANGED <<outcome, appTxn>>
  BY <1>0, PlanIs
<1>. DEFINE s == Asked(tk, c.found, tr)
            d == [pl EXCEPT !.todo = s]
<1>2. At(t, "send") /\ conn' = [tk EXCEPT !.owner = t] /\ With(t, d) /\ UNCHANGED <<outcome, appTxn>>
  BY <1>0, <1>1
<1>3. /\ Orderly(s) /\ s # <<>>
      /\ s[1] = IF ~tk.in_transaction /\ ~tk.autocommit THEN "begin"
                ELSE IF c.found THEN "insert" ELSE "create"
      /\ \A i \in 1 .. Len(s) : s[i] \in {"begin", "create", "insert", "commit"}
      /\ s[Len(s)] = IF tr THEN "commit" ELSE "insert"
      /\ ~tr /\ c.found /\ (tk.in_transaction \/ tk.autocommit) => Only(s, "insert")
  <2>1. c.found \in BOOLEAN /\ (tr => ~c.found /\ ~tk.in_transaction /\ ~tk.autocommit)
    BY <1>0, <1>1
  <2>2. tk \in ConnRecord /\ tr \in BOOLEAN
    BY <1>1
  <2>. QED BY <2>1, <2>2, PlanTodo
<1>. HIDE DEF s
<1>4. /\ CallFields = DOMAIN d /\ d.id = c.id /\ d.kind = "load" /\ d.alone = c.alone
      /\ d.todo = s /\ d.planned = TRUE /\ d.transactional = tr /\ d.unwinding = c.unwinding
      /\ d.draining = c.draining /\ d.err = c.err /\ d.found = c.found /\ d.marker = c.marker
      /\ d.src = c.src /\ d.pos = c.pos
  BY <1>0, <1>1 DEF CallFields
<1>. HIDE DEF d
<1>5. CallOK(d)
  <2>1. TodoOK(d)
    BY <1>3, <1>4 DEF TodoOK, LoadTodo
  <2>2. Flags(d)
    BY <1>1, <1>4 DEF CallOK, Flags
  <2>. QED BY <1>4, <2>1, <2>2 DEF CallOK
<1>6. /\ conn' \in ConnRecord /\ conn'.closed = conn.closed /\ conn'.owner = t
      /\ conn'.source = c.id /\ conn'.autocommit = (conn.autocommit /\ ~tr)
      /\ conn'.dirty = cn.dirty /\ conn'.in_transaction = conn.in_transaction
  BY <1>1, <1>2 DEF ConnRecord
<1>7. /\ pc' = [pc EXCEPT ![t] = "send"] /\ call'[t] = d
      /\ DOMAIN call' = Tasks /\ \A u \in Tasks \ {t} : call'[u] = call[u]
  BY <1>2, SetCall DEF Basic, Shape
<1>8. Sends(t)
  BY <1>2, <1>4, <1>5, <1>6, <1>7 DEF Sends, Moves
<1>9. /\ tr => conn.autocommit /\ ~conn.in_transaction /\ s[1] = "begin"
      /\ s[1] = "begin" => ~conn.in_transaction /\ ~conn'.autocommit
      /\ s[1] = "create" => conn.in_transaction
      /\ s[1] \in {"begin", "create", "insert"}
  BY <1>1, <1>3, <1>6 DEF ConnRecord
<1>10. ~tr /\ conn.autocommit /\ ~conn.in_transaction => Only(s, "insert")
  BY <1>1, <1>3, <1>6 DEF ConnRecord
<1>. QED BY <1>3, <1>4, <1>6, <1>7, <1>8, <1>9, <1>10 DEF Plans

LEMMA Leaving ==
  ASSUME Basic, NEW t \in Tasks, Active(t), NEW c, c.id = call[t].id, c.kind = call[t].kind,
         c.planned = call[t].planned, c.transactional = call[t].transactional,
         NEW cn \in ConnRecord, conn.closed => cn.closed, cn.source \in {0, conn.source},
         cn.autocommit = conn.autocommit, cn.owner = conn.owner \/ (cn.owner = NoTask /\ conn.owner = t),
         NEW res \in Results \ {"none"}, End(t, c, cn, res)
  PROVE  /\ Leaves(t, res) /\ conn'.closed = cn.closed
         /\ conn'.dirty = cn.dirty /\ conn'.in_transaction = cn.in_transaction
<1>1. /\ CallOK(call[t]) /\ {call[t].planned, call[t].transactional} \subseteq BOOLEAN
      /\ appTxn \in BOOLEAN /\ conn \in ConnRecord
  BY IdsOK DEF CallOK, Flags, Basic, Shape, Types
<1>2. call[t].planned => call[t].kind = "load"
  BY <1>1 DEF CallOK, TodoOK, OtherTodo
<1>3. call[t].transactional => call[t].kind = "load" /\ call[t].planned
  BY <1>1 DEF CallOK, TodoOK, OtherTodo, LoadTodo
<1>4. /\ pc' = [pc EXCEPT ![t] = "idle"] /\ call' = [call EXCEPT ![t] = NoCall]
      /\ outcome' = [outcome EXCEPT ![c.id] = res]
      /\ conn' \in ConnRecord /\ conn'.closed = cn.closed /\ conn'.dirty = cn.dirty
      /\ conn'.in_transaction = cn.in_transaction
      /\ conn'.owner = IF cn.owner = t THEN NoTask ELSE cn.owner
      /\ conn'.source = IF c.kind = "load" /\ c.planned THEN 0 ELSE cn.source
      /\ conn'.autocommit = IF c.kind = "load" /\ c.planned /\ c.transactional /\ ~cn.closed
                            THEN TRUE ELSE cn.autocommit
      /\ appTxn' = IF c.kind = "begin" /\ res = "ok" THEN TRUE
                   ELSE IF c.kind \in {"commit", "rollback"} \/ cn.closed THEN FALSE ELSE appTxn
  <2>1. {c.planned, c.transactional} \subseteq BOOLEAN
    BY <1>1
  <2>. QED BY <1>1, <2>1, EndIs
<1>5. ~conn'.closed => conn'.autocommit = (conn.autocommit \/ call[t].transactional)
  BY <1>1, <1>3, <1>4 DEF ConnRecord
<1>6. /\ conn'.owner = IF conn.owner = t THEN NoTask ELSE conn.owner
      /\ conn'.source \in {0, conn.source} /\ (call[t].planned => conn'.source = 0)
      /\ conn.closed => conn'.closed
  BY <1>1, <1>2, <1>4, LoadDataAssumption
<1>7. /\ appTxn' \in BOOLEAN
      /\ appTxn' => appTxn \/ (call[t].kind = "begin" /\ res = "ok")
      /\ call[t].kind = "begin" /\ res = "ok" => appTxn'
      /\ ~conn'.closed /\ appTxn /\ call[t].kind \notin Ends => appTxn'
  BY <1>1, <1>4 DEF Ends
<1>. QED BY <1>4, <1>5, <1>6, <1>7 DEF Leaves

\* load_data() takes its transaction back when a statement failed.
Returns(t, cn) ==
  /\ Moves(t, "send") /\ ~call'[t].draining /\ ~call'[t].err /\ Stays(t) /\ conn'.source = conn.source
  /\ conn' = cn /\ conn.in_transaction
  /\ call[t].planned /\ ~call[t].unwinding /\ call[t].transactional
  /\ call'[t].planned /\ call'[t].unwinding /\ call'[t].transactional
  /\ Only(call'[t].todo, "rollback")

LEMMA Raising ==
  ASSUME Basic, NEW t \in Tasks, Active(t), NEW cn \in ConnRecord,
         conn.closed => cn.closed, cn.source = conn.source, cn.in_transaction = conn.in_transaction,
         cn.autocommit = conn.autocommit, cn.owner = conn.owner, Raise(t, call[t], cn)
  PROVE  \/ /\ Leaves(t, "failed") /\ conn'.dirty = cn.dirty
            /\ conn'.in_transaction = cn.in_transaction /\ (cn.closed => conn'.closed)
            /\ call[t].transactional /\ ~call[t].unwinding => conn'.closed \/ ~conn.in_transaction
         \/ ~cn.closed /\ (~call[t].draining => Returns(t, cn))
            /\ call[t].transactional /\ ~call[t].unwinding /\ conn.in_transaction
<1>. DEFINE c == call[t]
            cl == [cn EXCEPT !.closed = TRUE]
<1>1. /\ CallOK(c) /\ {c.planned, c.transactional, c.unwinding} \subseteq BOOLEAN
      /\ conn \in ConnRecord /\ "failed" \in Results \ {"none"}
  BY IdsOK DEF CallOK, Flags, Basic, Shape, Types, Results
<1>2. c.transactional => c.kind = "load" /\ c.planned
  BY <1>1 DEF CallOK, TodoOK, OtherTodo, LoadTodo
<1>3. /\ cl \in ConnRecord /\ cl.closed /\ cl.dirty = cn.dirty /\ cl.in_transaction = cn.in_transaction
      /\ cl.source = cn.source /\ cl.autocommit = cn.autocommit /\ cl.owner = cn.owner
      /\ cl.closed = TRUE
  BY DEF ConnRecord
<1>4. CASE End(t, c, cl, "failed")
  <2>. HIDE DEF cl
  <2>1. /\ Leaves(t, "failed") /\ conn'.closed = cl.closed
        /\ conn'.dirty = cl.dirty /\ conn'.in_transaction = cl.in_transaction
    BY <1>1, <1>3, <1>4, Leaving
  <2>. QED BY <1>3, <2>1
<1>5. CASE End(t, c, cn, "failed") /\ ~(c.kind = "load" /\ c.planned /\ ~c.unwinding /\ c.transactional
                                         /\ cn.in_transaction /\ ~cn.closed)
  <2>1. /\ Leaves(t, "failed") /\ conn'.closed = cn.closed
        /\ conn'.dirty = cn.dirty /\ conn'.in_transaction = cn.in_transaction
    BY <1>1, <1>5, Leaving
  <2>. QED BY <1>2, <1>5, <2>1
<1>6. CASE /\ c.kind = "load" /\ c.planned /\ ~c.unwinding /\ c.transactional
           /\ cn.in_transaction /\ ~cn.closed
           /\ At(t, "send") /\ conn' = cn /\ UNCHANGED <<outcome, appTxn>>
           /\ With(t, [c EXCEPT !.unwinding = TRUE, !.todo = <<"rollback">>, !.err = FALSE])
  <2>. DEFINE s == <<"rollback">>
              d == [c EXCEPT !.unwinding = TRUE, !.todo = s, !.err = FALSE]
  <2>0. With(t, d) /\ CallFields = DOMAIN c /\ Flags(c)
    BY <1>1, <1>6 DEF CallOK
  <2>1. s \in Seq(Statements) /\ Only(s, "rollback") /\ s # <<>> /\ Orderly(s)
    <3>1. s \in Seq(Statements) /\ Only(s, "rollback")
      BY Words
    <3>. HIDE DEF s
    <3>. QED BY <3>1, OneStatement
  <2>. HIDE DEF s
  <2>2. /\ CallFields = DOMAIN d /\ d.id = c.id /\ d.kind = "load" /\ d.alone = c.alone
        /\ d.todo = s /\ d.planned = c.planned /\ d.transactional = c.transactional /\ d.unwinding = TRUE
        /\ d.draining = c.draining /\ d.err = FALSE /\ d.found = c.found /\ d.marker = c.marker
        /\ d.src = c.src /\ d.pos = c.pos
    BY <1>6, <2>0 DEF CallFields
  <2>. HIDE DEF d
  <2>3. CallOK(d)
    <3>1. TodoOK(d)
      BY <1>6, <2>1, <2>2 DEF TodoOK, LoadTodo
    <3>2. Flags(d)
      BY <2>0, <2>2 DEF Flags
    <3>. QED BY <1>1, <2>2, <3>1, <3>2 DEF CallOK
  <2>4. /\ pc' = [pc EXCEPT ![t] = "send"] /\ call'[t] = d
        /\ DOMAIN call' = Tasks /\ \A u \in Tasks \ {t} : call'[u] = call[u]
    BY <1>6, <2>0, SetCall DEF Basic, Shape
  <2>5. Moves(t, "send")
    BY <1>1, <1>6, <2>2, <2>3, <2>4 DEF Moves, ConnRecord
  <2>. QED BY <1>6, <2>1, <2>2, <2>4, <2>5 DEF Returns, Stays
<1>7. Raise(t, c, cn)
  OBVIOUS
<1>8. {cn.failure, cn.in_transaction, cn.closed} \subseteq BOOLEAN
  BY DEF ConnRecord
<1>. QED BY <1>1, <1>4, <1>5, <1>6, <1>7, <1>8, RaiseIs

\* The wire is taken: load_data() ends after it has put its source on the connection.
LEMMA PlanRefused ==
  ASSUME Basic, NEW t \in Tasks, Active(t), call[t].kind = "load", ~call[t].planned,
         NEW c, CallOK(c), c.id = call[t].id, c.kind = "load", ~c.planned, ~c.unwinding,
         conn.owner \notin {NoTask, t}, Plan(t, c, conn)
  PROVE  /\ Leaves(t, "failed") /\ conn'.dirty = conn.dirty /\ conn'.in_transaction = conn.in_transaction
         /\ conn'.closed = conn.closed
<1>0. /\ call[t].id \in 0 .. MaxCalls /\ CallFields = DOMAIN c /\ {c.found, c.planned} \subseteq BOOLEAN
      /\ conn \in ConnRecord /\ appTxn \in BOOLEAN /\ "failed" \in Results \ {"none"}
      /\ ~call[t].transactional /\ {call[t].transactional} \subseteq BOOLEAN
  <2>1. CallOK(call[t])
    BY IdsOK
  <2>2. ~call[t].transactional /\ {call[t].transactional} \subseteq BOOLEAN
    BY <2>1 DEF CallOK, Flags, TodoOK, LoadTodo
  <2>. QED BY <2>2, IdsOK DEF CallOK, Flags, Basic, Shape, Types, Results
<1>1. PICK tk, tr, pl :
           /\ tk \in ConnRecord /\ tr \in BOOLEAN
           /\ tr = (~c.found /\ conn.autocommit /\ ~conn.in_transaction)
           /\ tk.closed = conn.closed /\ tk.in_transaction = conn.in_transaction /\ tk.dirty = conn.dirty
           /\ tk.owner = conn.owner /\ tk.source = c.id /\ tk.autocommit = (conn.autocommit /\ ~tr)
           /\ ~tk.failure
           /\ pl = [c EXCEPT !.planned = TRUE, !.transactional = tr]
           /\ IF conn.owner \notin {NoTask, t} THEN Raise(t, pl, tk)
              ELSE /\ At(t, "send") /\ conn' = [tk EXCEPT !.owner = t]
                   /\ With(t, [pl EXCEPT !.todo = Asked(tk, c.found, tr)])
                   /\ UNCHANGED <<outcome, appTxn>>
  BY <1>0, PlanIs
<1>2. /\ pl.planned = TRUE /\ pl.transactional = tr /\ pl.kind = "load" /\ pl.id = c.id
      /\ pl.unwinding = c.unwinding
  BY <1>0, <1>1 DEF CallFields
<1>3. Raise(t, pl, tk) /\ ~(pl.transactional /\ tk.in_transaction)
  BY <1>1, <1>2
<1>4. \E cn \in ConnRecord : /\ End(t, pl, cn, "failed") /\ (conn.closed => cn.closed)
        /\ cn.dirty = conn.dirty /\ cn.in_transaction = conn.in_transaction /\ cn.owner = conn.owner
        /\ cn.closed = conn.closed
        /\ cn.autocommit = (conn.autocommit /\ ~tr)
  <2>1. CASE tk.failure
    BY <1>1, <2>1
  <2>2. CASE End(t, pl, tk, "failed")
    BY <1>1, <2>2
  <2>3. {tk.failure, tk.in_transaction, tk.closed} \subseteq BOOLEAN /\ pl.unwinding \in BOOLEAN
    BY <1>1, <1>2 DEF ConnRecord, CallOK, Flags
  <2>. QED BY <1>3, <2>1, <2>2, <2>3, RaiseIs
<1>5. PICK cn \in ConnRecord : /\ End(t, pl, cn, "failed") /\ (conn.closed => cn.closed)
        /\ cn.dirty = conn.dirty /\ cn.in_transaction = conn.in_transaction /\ cn.owner = conn.owner
        /\ cn.closed = conn.closed
        /\ cn.autocommit = (conn.autocommit /\ ~tr)
  BY <1>4
<1>6. {pl.planned, pl.transactional} \subseteq BOOLEAN
  BY <1>1, <1>2
<1>7. /\ pc' = [pc EXCEPT ![t] = "idle"] /\ call' = [call EXCEPT ![t] = NoCall]
      /\ outcome' = [outcome EXCEPT ![pl.id] = "failed"]
      /\ conn' \in ConnRecord /\ conn'.closed = cn.closed /\ conn'.dirty = cn.dirty
      /\ conn'.in_transaction = cn.in_transaction
      /\ conn'.owner = IF cn.owner = t THEN NoTask ELSE cn.owner
      /\ conn'.source = IF pl.kind = "load" /\ pl.planned THEN 0 ELSE cn.source
      /\ conn'.autocommit = IF pl.kind = "load" /\ pl.planned /\ pl.transactional /\ ~cn.closed
                            THEN TRUE ELSE cn.autocommit
      /\ appTxn' = IF pl.kind = "begin" /\ "failed" = "ok" THEN TRUE
                   ELSE IF pl.kind \in {"commit", "rollback"} \/ cn.closed THEN FALSE ELSE appTxn
  BY <1>0, <1>5, <1>6, EndIs
<1>8. ~conn'.closed => conn'.autocommit = (conn.autocommit \/ call[t].transactional)
  BY <1>0, <1>1, <1>2, <1>5, <1>7 DEF ConnRecord
<1>9. /\ conn'.owner = IF conn.owner = t THEN NoTask ELSE conn.owner
      /\ conn'.source \in {0, conn.source} /\ (call[t].planned => conn'.source = 0)
      /\ conn.closed => conn'.closed
  BY <1>0, <1>2, <1>5, <1>7
<1>10. /\ appTxn' \in BOOLEAN
       /\ appTxn' => appTxn \/ (call[t].kind = "begin" /\ "failed" = "ok")
       /\ ~conn'.closed /\ appTxn /\ call[t].kind \notin Ends => appTxn'
  BY <1>0, <1>2, <1>7 DEF Ends
<1>. QED BY <1>0, <1>2, <1>5, <1>7, <1>8, <1>9, <1>10 DEF Leaves

LEMMA CollectIs ==
  ASSUME Basic, NEW t \in Tasks, Collect(t)
  PROVE  Quits(t) \/ CollectPlans(t)
<1>1. /\ pc[t] = "collect" /\ Active(t) /\ UNCHANGED <<srv, wire, misread>> /\ ~Reads(t)
      /\ pc[t] # "send" /\ pc[t] \notin Frames
  BY DEF Collect, Active, Reads, Readers, Frames
<1>2. /\ CallOK(call[t]) /\ call[t].todo = <<>> /\ conn \in ConnRecord
      /\ ~call[t].draining /\ ~call[t].err
  BY <1>1, IdsOK DEF Basic, Shape, CallsOK, Types, Answers
<1>3. call[t].kind = "load" /\ ~call[t].planned /\ ~call[t].unwinding
  BY <1>2, OneStatement DEF CallOK, Flags, TodoOK, LoadTodo, OtherTodo, Only
<1>4. CASE End(t, call[t], conn, "failed")
  <2>1. "failed" \in Results \ {"none"}
    BY DEF Results
  <2>2. /\ Leaves(t, "failed") /\ conn'.dirty = conn.dirty /\ conn'.in_transaction = conn.in_transaction
        /\ conn'.closed = conn.closed
    BY <1>1, <1>2, <1>4, <2>1, Leaving
  <2>. QED BY <1>1, <2>2 DEF Quits
<1>5. CASE Plan(t, [call[t] EXCEPT !.args.lazy = FALSE], conn)
  <2>. DEFINE c == [call[t] EXCEPT !.args.lazy = FALSE]
  <2>1. /\ CallFields = DOMAIN c /\ c.id = call[t].id /\ c.kind = call[t].kind /\ c.alone = call[t].alone
        /\ c.todo = call[t].todo /\ c.planned = call[t].planned /\ c.transactional = call[t].transactional
        /\ c.unwinding = call[t].unwinding /\ c.draining = call[t].draining /\ c.err = call[t].err
        /\ c.found = call[t].found /\ c.marker = call[t].marker
        /\ c.src = call[t].src /\ c.pos = call[t].pos
    BY <1>2 DEF CallOK, CallFields
  <2>2. Plan(t, c, conn)
    BY <1>5
  <2>. HIDE DEF c
  <2>3. CallOK(c)
    BY <1>2, <2>1 DEF CallOK, Flags, TodoOK, LoadTodo, OtherTodo
  <2>4. CASE conn.owner \notin {NoTask, t}
    <3>1. /\ Leaves(t, "failed") /\ conn'.dirty = conn.dirty /\ conn'.in_transaction = conn.in_transaction
          /\ conn'.closed = conn.closed
      BY <1>1, <1>2, <1>3, <2>1, <2>2, <2>3, <2>4, PlanRefused
    <3>. QED BY <1>1, <3>1 DEF Quits
  <2>5. CASE conn.owner \in {NoTask, t}
    <3>1. conn.owner = NoTask
      BY <1>1, <2>5 DEF Basic, Shape, Held, Holding
    <3>2. Plans(t) /\ conn'.dirty = conn.dirty /\ conn'.in_transaction = conn.in_transaction
      BY <1>1, <1>2, <1>3, <2>1, <2>2, <2>3, <3>1, PlanSends
    <3>. QED BY <1>1, <3>1, <3>2 DEF CollectPlans
  <2>. QED BY <2>4, <2>5
<1>. QED BY <1>4, <1>5 DEF Collect

\* A statement has been answered.
AnswerRead(t) ==
  /\ pc[t] = "read" /\ ~conn.closed /\ ~call[t].draining /\ wire # <<>> /\ wire[1] = "ready"
  /\ wire' = Tail(wire) /\ UNCHANGED <<srv, misread>>

LEMMA CatalogIs ==
  ASSUME Basic, NEW t \in Tasks, AnswerRead(t), ~call[t].err, Now(t) = "catalog",
         NEW c, CallOK(c), c.id = call[t].id, c.kind = call[t].kind, c.alone = call[t].alone,
         c.planned = call[t].planned, c.transactional = call[t].transactional, c.todo = <<>>,
         c.unwinding = call[t].unwinding, ~c.draining, ~c.err,
         NEW cn \in ConnRecord, cn.closed = conn.closed, cn.owner = conn.owner, cn.source = conn.source,
         cn.autocommit = conn.autocommit, cn.in_transaction = conn.in_transaction, ~cn.dirty,
         AfterCatalog(t, c, cn)
  PROVE  Finishes(t) \/ ReadyPlans(t) \/ Collects(t)
<1>1. /\ Active(t) /\ pc[t] = "read" /\ CallOK(call[t]) /\ conn \in ConnRecord /\ call[t].todo # <<>>
      /\ conn.owner = t /\ NoTask # t /\ "failed" \in Results \ {"none"} /\ NoTask \in Tasks \cup {NoTask}
  <2>1. Active(t) /\ pc[t] = "read"
    BY DEF AnswerRead, Active
  <2>2. call[t].todo # <<>> /\ conn.owner = t /\ conn \in ConnRecord
    BY <2>1 DEF Basic, Shape, CallsOK, Held, Holding, Types
  <2>. QED BY <2>1, <2>2, IdsOK, LoadDataAssumption DEF Results, NoTask
<1>2. call[t].todo \in Seq(Statements) /\ call[t].todo[1] = "catalog" /\ 1 \in 1 .. Len(call[t].todo)
  <2>1. call[t].todo \in Seq(Statements)
    BY <1>1 DEF CallOK, TodoOK, Orderly
  <2>. QED BY <1>1, <2>1, TailOf DEF Now
<1>3. call[t].kind = "load" /\ ~call[t].planned /\ ~call[t].unwinding
  BY <1>1, <1>2, LoadDataAssumption, OneStatement
  DEF CallOK, Flags, TodoOK, LoadTodo, OtherTodo, Only
<1>. DEFINE id == Released(t, cn)
<1>4. /\ id \in ConnRecord /\ id.closed = conn.closed /\ id.owner = NoTask /\ id.source = conn.source
      /\ id.autocommit = conn.autocommit /\ id.in_transaction = conn.in_transaction /\ ~id.dirty
  BY <1>1 DEF Released, ConnRecord
<1>5. AfterCatalog(t, c, cn) =>
        \/ End(t, c, cn, "failed")
        \/ At(t, "collect") /\ With(t, c) /\ conn' = id /\ UNCHANGED <<outcome, appTxn>>
        \/ Plan(t, c, id)
  BY DEF AfterCatalog
<1>. HIDE DEF id
<1>6. \A it : it = conn.in_transaction => it = (conn.in_transaction /\ ~(Now(t) \in Ends /\ ~call[t].err))
  BY <1>1 DEF Ends, ConnRecord
<1>7. CASE End(t, c, cn, "failed")
  <2>1. /\ Leaves(t, "failed") /\ conn'.closed = cn.closed
        /\ conn'.dirty = cn.dirty /\ conn'.in_transaction = cn.in_transaction
    BY <1>1, <1>7, Leaving
  <2>2. Ready(t)
    BY <1>6, <2>1 DEF Ready, AnswerRead
  <2>. QED BY <1>3, <2>1, <2>2 DEF Finishes
<1>8. CASE At(t, "collect") /\ With(t, c) /\ conn' = id /\ UNCHANGED <<outcome, appTxn>>
  <2>1. /\ pc' = [pc EXCEPT ![t] = "collect"] /\ call'[t] = c
        /\ DOMAIN call' = Tasks /\ \A u \in Tasks \ {t} : call'[u] = call[u]
    BY <1>8, SetCall DEF Basic, Shape
  <2>2. Ready(t)
    BY <1>4, <1>6, <1>8 DEF Ready, AnswerRead
  <2>. QED BY <1>1, <1>3, <1>4, <1>8, <2>1, <2>2 DEF Collects, Moves
<1>9. CASE Plan(t, c, id)
  <2>1. Plans(t) /\ conn'.dirty = id.dirty /\ conn'.in_transaction = conn.in_transaction
    BY <1>1, <1>3, <1>4, <1>9, PlanSends
  <2>2. Ready(t)
    BY <1>4, <1>6, <2>1 DEF Ready, AnswerRead
  <2>. QED BY <2>1, <2>2 DEF ReadyPlans
<1>. QED BY <1>5, <1>7, <1>8, <1>9

LEMMA AnsweredIs ==
  ASSUME Basic, NEW t \in Tasks, AnswerRead(t), Answered(t, call[t], [conn EXCEPT !.dirty = FALSE])
  PROVE  Finishes(t) \/ NextStatement(t) \/ Unwinds(t) \/ ReadyPlans(t) \/ Collects(t)
<1>. DEFINE c == call[t]
            what == Head(c.todo)
            cn == [[conn EXCEPT !.dirty = FALSE] EXCEPT !.in_transaction =
                     IF what \in {"commit", "rollback"} /\ ~c.err THEN FALSE ELSE @]
            rest == [c EXCEPT !.todo = Tail(@), !.err = FALSE]
            res == CASE c.unwinding -> "failed"
                     [] ~c.unwinding /\ c.kind = "load" /\ c.alone
                        /\ (\A j \in 1..calls : outcome[j] # "cancelled") -> "stored"
                     [] OTHER -> "ok"
<1>1. /\ Active(t) /\ pc[t] = "read" /\ CallOK(c) /\ conn \in ConnRecord /\ c.todo # <<>>
      /\ Flags(c) /\ CallFields = DOMAIN c
  <2>1. Active(t) /\ pc[t] = "read"
    BY DEF AnswerRead, Active
  <2>2. call[t].todo # <<>> /\ conn \in ConnRecord
    BY <2>1 DEF Basic, Shape, CallsOK, Types
  <2>. QED BY <2>1, <2>2, IdsOK DEF CallOK
<1>2. /\ c.todo \in Seq(Statements) /\ Len(c.todo) \in Nat \ {0} /\ Tail(c.todo) \in Seq(Statements)
      /\ what = Now(t) /\ what = c.todo[1] /\ Len(Tail(c.todo)) = Len(c.todo) - 1
  <2>1. c.todo \in Seq(Statements)
    BY <1>1 DEF CallOK, TodoOK, Orderly
  <2>. QED BY <1>1, <2>1, TailOf DEF Now
<1>3. /\ cn \in ConnRecord /\ cn.closed = conn.closed /\ cn.owner = conn.owner /\ cn.source = conn.source
      /\ cn.autocommit = conn.autocommit /\ ~cn.dirty
      /\ cn.in_transaction = (conn.in_transaction /\ ~(Now(t) \in Ends /\ ~c.err))
      /\ (c.err \/ what = "catalog" => cn.in_transaction = conn.in_transaction)
  BY <1>1, <1>2 DEF ConnRecord, Ends, Flags
<1>4. /\ CallFields = DOMAIN rest /\ rest.id = c.id /\ rest.kind = c.kind /\ rest.alone = c.alone
      /\ rest.todo = Tail(c.todo) /\ rest.planned = c.planned /\ rest.transactional = c.transactional
      /\ rest.unwinding = c.unwinding /\ rest.draining = c.draining /\ rest.err = FALSE
      /\ rest.found = c.found /\ rest.marker = c.marker /\ rest.src = c.src /\ rest.pos = c.pos
  BY <1>1 DEF CallFields
<1>5. /\ c.err => Raise(t, c, cn)
      /\ ~c.err /\ what = "catalog" => AfterCatalog(t, rest, cn)
      /\ ~c.err /\ what # "catalog" /\ rest.todo # <<>> =>
           At(t, "send") /\ With(t, rest) /\ conn' = cn /\ UNCHANGED <<outcome, appTxn>>
      /\ ~c.err /\ what # "catalog" /\ rest.todo = <<>> => End(t, c, cn, res)
  <2>. HIDE DEF res
  <2>1. Answered(t, c, [conn EXCEPT !.dirty = FALSE]) =
          CASE c.err -> Raise(t, c, cn)
            [] ~c.err /\ what = "catalog" -> AfterCatalog(t, rest, cn)
            [] ~c.err /\ what # "catalog" /\ rest.todo # <<>> ->
                 At(t, "send") /\ With(t, rest) /\ conn' = cn /\ UNCHANGED <<outcome, appTxn>>
            [] OTHER -> End(t, c, cn, res)
    BY DEF Answered, res
  <2>. HIDE DEF rest, cn, what
  <2>. QED BY <1>1, <2>1 DEF Flags
<1>6. ~c.draining
  BY DEF AnswerRead
<1>7. CallOK(rest) \/ (what # "catalog" /\ rest.todo = <<>>)
  <2>. HIDE DEF rest
  <2>1. ASSUME what = "catalog" \/ rest.todo # <<>> PROVE TodoOK(rest)
    BY <1>1, <1>2, <1>4, <2>1, IdsOK, NextTodo DEF CallOK
  <2>2. Flags(rest)
    BY <1>1, <1>4 DEF Flags
  <2>. QED BY <1>1, <1>4, <2>1, <2>2 DEF CallOK
<1>. HIDE DEF cn, rest, what, res
<1>8. CASE c.err
  <2>1. Raise(t, c, cn)
    BY <1>5, <1>8
  <2>2. \/ /\ Leaves(t, "failed") /\ conn'.dirty = cn.dirty
           /\ conn'.in_transaction = cn.in_transaction /\ (cn.closed => conn'.closed)
           /\ call[t].transactional /\ ~call[t].unwinding => conn'.closed \/ ~conn.in_transaction
        \/ Returns(t, cn)
    BY <1>1, <1>3, <1>6, <1>8, <2>1, Raising
  <2>3. CASE /\ Leaves(t, "failed") /\ conn'.dirty = cn.dirty
             /\ conn'.in_transaction = cn.in_transaction
             /\ call[t].transactional /\ ~call[t].unwinding => conn'.closed \/ ~conn.in_transaction
    <3>1. Ready(t)
      BY <1>3, <2>3 DEF Ready, AnswerRead
    <3>. QED BY <1>8, <2>3, <3>1 DEF Finishes
  <2>4. CASE Returns(t, cn)
    <3>1. Ready(t)
      BY <1>3, <2>4 DEF Ready, AnswerRead, Returns
    <3>. QED BY <1>8, <2>4, <3>1 DEF Unwinds, Returns, Sends
  <2>. QED BY <2>2, <2>3, <2>4
<1>9. CASE ~c.err /\ what = "catalog"
  <2>1. rest.todo = <<>>
    <3>1. Len(c.todo) = 1
      <4>1. Orderly(c.todo) /\ 1 \in 1 .. Len(c.todo) /\ c.todo[1] = "catalog"
        BY <1>1, <1>2, <1>9 DEF CallOK, TodoOK
      <4>. QED BY <4>1 DEF Orderly
    <3>2. Len(Tail(c.todo)) = 0
      BY <1>2, <3>1
    <3>. QED BY <1>2, <1>4, <3>2, EmptyOne
  <2>. QED BY <1>1, <1>2, <1>3, <1>4, <1>5, <1>6, <1>7, <1>9, <2>1, CatalogIs
<1>10. CASE ~c.err /\ what # "catalog" /\ rest.todo # <<>>
  <2>0. At(t, "send") /\ With(t, rest) /\ conn' = cn /\ UNCHANGED <<outcome, appTxn>>
    BY <1>5, <1>10
  <2>1. /\ pc' = [pc EXCEPT ![t] = "send"] /\ call'[t] = rest
        /\ DOMAIN call' = Tasks /\ \A u \in Tasks \ {t} : call'[u] = call[u]
    BY <2>0, SetCall DEF Basic, Shape
  <2>2. Ready(t)
    BY <1>3, <2>0 DEF Ready, AnswerRead
  <2>3. Sends(t)
    BY <1>3, <1>4, <1>6, <1>7, <1>10, <2>0, <2>1 DEF Sends, Moves
  <2>. QED BY <1>1, <1>2, <1>3, <1>4, <1>10, <2>0, <2>1, <2>2, <2>3 DEF NextStatement, Stays
<1>11. CASE ~c.err /\ what # "catalog" /\ rest.todo = <<>>
  <2>1. End(t, c, cn, res)
    BY <1>5, <1>11
  <2>2. /\ res \in {"failed", "ok", "stored"} /\ (res = "failed" <=> c.unwinding)
        /\ res = "stored" => /\ c.kind = "load" /\ c.alone
                             /\ \A j \in 1 .. calls : outcome[j] # "cancelled"
    BY <1>1 DEF res, Flags
  <2>3. res \in Results \ {"none"}
    BY <2>2 DEF Results
  <2>4. /\ Leaves(t, res) /\ conn'.closed = cn.closed
        /\ conn'.dirty = cn.dirty /\ conn'.in_transaction = cn.in_transaction
    BY <1>1, <1>3, <2>1, <2>3, Leaving
  <2>5. Ready(t)
    BY <1>3, <2>4 DEF Ready, AnswerRead
  <2>6. Len(c.todo) = 1
    <3>1. Tail(c.todo) = <<>>
      BY <1>4, <1>11
    <3>2. Len(Tail(c.todo)) = 0
      BY <1>2, <3>1, EmptyOne
    <3>. QED BY <1>2, <3>2
  <2>. QED BY <1>2, <1>11, <2>2, <2>4, <2>5, <2>6 DEF Finishes
<1>. QED BY <1>8, <1>9, <1>10, <1>11

-----------------------------------------------------------------------------
(* A message is read *)

LEMMA AskIs ==
  ASSUME srv \in ServerRecord, NEW yes \in BOOLEAN, IF yes THEN \E t : Ask(t, "greeted") ELSE srv' = srv
  PROVE  Asks(yes)
BY DEF Ask, Asks, ServerRecord

LEMMA FirstOf ==
  ASSUME Basic, wire # <<>>
  PROVE  /\ Head(wire) = wire[1] /\ wire[1] \in Headers \cup Parts /\ wire \in Seq(Headers \cup Parts)
         /\ Tail(wire) \in Seq(Headers \cup Parts) /\ Len(Tail(wire)) = Len(wire) - 1
         /\ \A i \in 1 .. Len(wire) - 1 : Tail(wire)[i] = wire[i + 1]
         /\ 1 \in 1 .. Len(wire)
<1>1. wire \in Seq(Headers \cup Parts)
  BY DEF Basic, Shape, Types
<1>2. 1 \in 1 .. Len(wire)
  BY <1>1, TailOf
<1>. QED BY <1>1, <1>2, TailOf

\* The call with what a message changes in it
LEMMA SameCall ==
  ASSUME Basic, NEW t \in Tasks, Active(t), NEW d, DOMAIN d = CallFields,
         d.id = call[t].id, d.kind = call[t].kind, d.alone = call[t].alone, d.todo = call[t].todo,
         d.planned = call[t].planned, d.transactional = call[t].transactional,
         d.unwinding = call[t].unwinding, {d.draining, d.err, d.found, d.marker} \subseteq BOOLEAN,
         d.src \in 0 .. MaxCalls, d.pos \in Nat,
         NEW where, At(t, where), With(t, d), UNCHANGED <<outcome, appTxn>>,
         conn' \in ConnRecord, conn'.closed = conn.closed
  PROVE  Moves(t, where) /\ SameStatement(t) /\ call'[t] = d
<1>1. CallOK(call[t])
  BY IdsOK
<1>2. CallOK(d)
  BY <1>1 DEF CallOK, Flags, TodoOK, LoadTodo, OtherTodo
<1>3. /\ pc' = [pc EXCEPT ![t] = where] /\ call'[t] = d
      /\ DOMAIN call' = Tasks /\ \A u \in Tasks \ {t} : call'[u] = call[u]
  BY SetCall DEF Basic, Shape
<1>. QED BY <1>2, <1>3 DEF Moves, SameStatement

LEMMA HeaderIs ==
  ASSUME Basic, NEW t \in Tasks, Header(t)
  PROVE  \/ Stumbles(t) \/ Drained(t) \/ ReadsOn(t) \/ EntersFrame(t)
         \/ Finishes(t) \/ NextStatement(t) \/ Unwinds(t) \/ ReadyPlans(t) \/ Collects(t)
<1>. DEFINE m == Head(wire)
            c == call[t]
            stay(d) == At(t, "read") /\ With(t, d) /\ conn' = Tagged(m, c) /\ UNCHANGED <<outcome, appTxn>>
            enter(where, d) == At(t, where) /\ With(t, d) /\ UNCHANGED <<conn, outcome, appTxn>>
<1>1. /\ pc[t] = "read" /\ wire # <<>> /\ ~conn.closed /\ wire' = Tail(wire) /\ Active(t)
      /\ misread' = (misread \/ m \in Parts)
  BY DEF Header, Active
<1>2. /\ m = wire[1] /\ m \in Headers \cup Parts
  BY <1>1, FirstOf
<1>3. /\ CallOK(c) /\ Flags(c) /\ CallFields = DOMAIN c /\ conn \in ConnRecord /\ srv \in ServerRecord
      /\ misread \in BOOLEAN /\ c.src \in 0 .. MaxCalls /\ c.pos \in Nat
      /\ conn.owner = t /\ conn.dirty
  BY <1>1, IdsOK DEF CallOK, Basic, Shape, Types, Held, Reads, Readers, Holding
<1>4. /\ c.draining \in BOOLEAN /\ c.err \in BOOLEAN /\ c.found \in BOOLEAN /\ c.marker \in BOOLEAN
  BY <1>3 DEF Flags
<1>5. c.draining => ~c.err
  BY <1>1 DEF Basic, Shape, CallsOK, Answers
<1>6. /\ m = "ready" /\ c.draining =>
            /\ At(t, "send") /\ With(t, [c EXCEPT !.draining = FALSE])
            /\ conn' = [conn EXCEPT !.dirty = FALSE] /\ UNCHANGED <<outcome, appTxn>>
      /\ m = "ready" /\ ~c.draining => Answered(t, c, [conn EXCEPT !.dirty = FALSE])
      /\ m = "error" => stay([c EXCEPT !.err = ~c.draining])
      /\ m = "rows" => stay([c EXCEPT !.found = @ \/ ~c.draining])
      /\ m = "u" => stay([c EXCEPT !.err = @ \/ (~c.draining /\ c.args.bad = 1)])
      /\ m \in {"l", "lf"} => enter("hello", [c EXCEPT !.marker = m = "l"])
      /\ m = "U" => enter("unload", c)
      /\ m = "e" => enter("logfile", c)
      /\ m \in Parts => Raise(t, c, [conn EXCEPT !.closed = TRUE])
      /\ m \in Headers \ {"ready", "error", "rows", "u", "l", "lf", "U", "e"} => stay(c)
  <2>1. (CASE m = "ready" /\ c.draining ->
               /\ At(t, "send") /\ With(t, [c EXCEPT !.draining = FALSE])
               /\ conn' = [conn EXCEPT !.dirty = FALSE] /\ UNCHANGED <<outcome, appTxn>>
          [] m = "ready" /\ ~c.draining -> Answered(t, c, [conn EXCEPT !.dirty = FALSE])
          [] m = "error" -> stay([c EXCEPT !.err = ~c.draining])
          [] m = "rows" -> stay([c EXCEPT !.found = @ \/ ~c.draining])
          [] m = "u" -> stay([c EXCEPT !.err = @ \/ (~c.draining /\ c.args.bad = 1)])
          [] m \in {"l", "lf"} -> enter("hello", [c EXCEPT !.marker = m = "l"])
          [] m = "U" -> enter("unload", c)
          [] m = "e" -> enter("logfile", c)
          [] m \in Parts -> Raise(t, c, [conn EXCEPT !.closed = TRUE])
          [] OTHER -> stay(c))
    BY DEF Header
  <2>. HIDE DEF stay, enter
  <2>. QED BY <1>4, <2>1 DEF Headers, Parts
<1>7. IF m \in {"l", "lf"} \/ (m = "u" /\ ~c.draining) THEN Ask(t, "greeted") ELSE srv' = srv
  BY DEF Header
<1>8. CASE m = "ready"
  <2>1. UNCHANGED <<srv, misread>>
    BY <1>1, <1>3, <1>7, <1>8 DEF Parts
  <2>2. CASE c.draining
    <3>. DEFINE d == [c EXCEPT !.draining = FALSE]
                cn == [conn EXCEPT !.dirty = FALSE]
    <3>1. /\ DOMAIN d = CallFields /\ d.id = c.id /\ d.kind = c.kind /\ d.alone = c.alone /\ d.todo = c.todo
          /\ d.planned = c.planned /\ d.transactional = c.transactional /\ d.unwinding = c.unwinding
          /\ d.draining = FALSE /\ d.err = c.err /\ d.found = c.found /\ d.marker = c.marker
          /\ d.src = c.src /\ d.pos = c.pos
      BY <1>3 DEF CallFields
    <3>2. /\ cn \in ConnRecord /\ cn.closed = conn.closed /\ cn.owner = conn.owner /\ cn.source = conn.source
          /\ cn.autocommit = conn.autocommit /\ ~cn.dirty /\ cn.in_transaction = conn.in_transaction
      BY <1>3 DEF ConnRecord
    <3>3. At(t, "send") /\ With(t, d) /\ conn' = cn /\ UNCHANGED <<outcome, appTxn>>
      BY <1>6, <1>8, <2>2
    <3>. HIDE DEF d, cn
    <3>30. /\ {d.draining, d.err, d.found, d.marker} \subseteq BOOLEAN
           /\ d.src \in 0 .. MaxCalls /\ d.pos \in Nat
      BY <1>3, <1>4, <3>1
    <3>31. conn' \in ConnRecord /\ conn'.closed = conn.closed
      BY <3>2, <3>3
    <3>4. Moves(t, "send") /\ SameStatement(t) /\ call'[t] = d
      BY <1>1, <3>1, <3>3, <3>30, <3>31, SameCall
    <3>. QED
      BY <1>1, <1>2, <1>5, <1>8, <2>1, <2>2, <3>1, <3>2, <3>3, <3>4 DEF Drained, Sends, Stays
  <2>3. CASE ~c.draining
    <3>1. AnswerRead(t)
      BY <1>1, <1>2, <1>8, <2>1, <2>3 DEF AnswerRead
    <3>. QED BY <1>6, <1>8, <2>3, <3>1, AnsweredIs
  <2>. QED BY <2>2, <2>3
<1>9. CASE m \in Parts
  <2>. DEFINE cn == [conn EXCEPT !.closed = TRUE]
  <2>1. /\ cn \in ConnRecord /\ cn.closed /\ cn.owner = conn.owner /\ cn.source = conn.source
        /\ cn.autocommit = conn.autocommit /\ cn.dirty = conn.dirty
        /\ cn.in_transaction = conn.in_transaction
    BY <1>3 DEF ConnRecord
  <2>2. Raise(t, c, cn) /\ srv' = srv
    BY <1>6, <1>7, <1>9 DEF Parts
  <2>. HIDE DEF cn
  <2>3. /\ Leaves(t, "failed") /\ conn'.dirty = cn.dirty /\ conn'.closed
        /\ conn'.in_transaction = cn.in_transaction
    BY <1>1, <2>1, <2>2, Raising
  <2>. QED BY <1>1, <1>2, <1>9, <2>1, <2>2, <2>3 DEF Stumbles
<1>10. ASSUME NEW d, NEW where, At(t, where), With(t, d), UNCHANGED <<outcome, appTxn>>,
              conn' \in ConnRecord, conn'.closed = conn.closed,
              DOMAIN d = CallFields, d.id = c.id, d.kind = c.kind, d.alone = c.alone, d.todo = c.todo,
              d.planned = c.planned, d.transactional = c.transactional, d.unwinding = c.unwinding,
              d.draining = c.draining, {d.err, d.found, d.marker} \subseteq BOOLEAN,
              d.src = c.src, d.pos = c.pos
       PROVE  Moves(t, where) /\ SameStatement(t) /\ call'[t] = d
  BY <1>1, <1>3, <1>4, <1>10, SameCall
<1>11. /\ Tagged(m, c) \in ConnRecord /\ Tagged(m, c).closed = conn.closed
       /\ Tagged(m, c).owner = conn.owner /\ Tagged(m, c).source = conn.source
       /\ Tagged(m, c).autocommit = conn.autocommit /\ Tagged(m, c).dirty = conn.dirty
       /\ Tagged(m, c).in_transaction =
            IF ~c.draining /\ m = "BEGIN" THEN TRUE
            ELSE IF ~c.draining /\ m \in {"COMMIT", "ROLLBACK"} THEN FALSE ELSE conn.in_transaction
  <2>1. CASE c.draining
    BY <1>3, <2>1 DEF Tagged, ConnRecord
  <2>2. CASE ~c.draining /\ m = "BEGIN"
    BY <1>3, <2>2 DEF Tagged, ConnRecord
  <2>3. CASE ~c.draining /\ m \in {"COMMIT", "ROLLBACK"}
    BY <1>3, <2>3 DEF Tagged, ConnRecord
  <2>4. CASE ~c.draining /\ m \notin {"BEGIN", "COMMIT", "ROLLBACK"}
    BY <1>3, <2>4 DEF Tagged, ConnRecord
  <2>. QED BY <2>1, <2>2, <2>3, <2>4
<1>12. ASSUME NEW d, stay(d), m \in Headers \ {"ready", "l", "lf", "U", "e"},
              DOMAIN d = CallFields, d.id = c.id, d.kind = c.kind, d.alone = c.alone, d.todo = c.todo,
              d.planned = c.planned, d.transactional = c.transactional, d.unwinding = c.unwinding,
              d.draining = c.draining, {d.err, d.found, d.marker} \subseteq BOOLEAN,
              d.src = c.src, d.pos = c.pos,
              d.err => ~c.draining /\ (c.err \/ m \in {"error", "u"}),
              ~d.err => ~c.err /\ (c.draining \/ m # "error")
       PROVE  ReadsOn(t)
  <2>1. At(t, "read") /\ With(t, d) /\ conn' = Tagged(m, c) /\ UNCHANGED <<outcome, appTxn>>
    BY <1>12
  <2>2. Moves(t, "read") /\ SameStatement(t) /\ call'[t] = d
    BY <1>10, <1>11, <1>12, <2>1
  <2>3. misread' = misread
    BY <1>1, <1>3, <1>12 DEF Headers, Parts
  <2>4. Asks(m = "u" /\ ~c.draining)
    <3>1. (m = "u" /\ ~c.draining) \in BOOLEAN
      OBVIOUS
    <3>2. IF m = "u" /\ ~c.draining THEN Ask(t, "greeted") ELSE srv' = srv
      BY <1>7, <1>12
    <3>. QED BY <1>3, <3>1, <3>2, AskIs
  <2>. QED BY <1>1, <1>2, <1>4, <1>11, <1>12, <2>1, <2>2, <2>3, <2>4 DEF ReadsOn, Same, Stays
<1>13. ASSUME NEW d, NEW where, enter(where, d), m \in {"l", "lf", "U", "e"}, where = FrameOf(m),
              DOMAIN d = CallFields, d.id = c.id, d.kind = c.kind, d.alone = c.alone, d.todo = c.todo,
              d.planned = c.planned, d.transactional = c.transactional, d.unwinding = c.unwinding,
              d.draining = c.draining, {d.err, d.found, d.marker} \subseteq BOOLEAN,
              d.src = c.src, d.pos = c.pos, d.err = c.err,
              d.marker = IF m \in {"l", "lf"} THEN m = "l" ELSE c.marker
       PROVE  EntersFrame(t)
  <2>1. At(t, where) /\ With(t, d) /\ conn' = conn /\ UNCHANGED <<outcome, appTxn>>
    BY <1>13
  <2>2. Moves(t, where) /\ SameStatement(t) /\ call'[t] = d
    BY <1>3, <1>10, <1>13, <2>1
  <2>3. misread' = misread
    BY <1>1, <1>3, <1>13 DEF Parts
  <2>4. Asks(m \in {"l", "lf"})
    <3>1. (m \in {"l", "lf"}) \in BOOLEAN
      OBVIOUS
    <3>2. IF m \in {"l", "lf"} THEN Ask(t, "greeted") ELSE srv' = srv
      BY <1>7, <1>13
    <3>. QED BY <1>3, <3>1, <3>2, AskIs
  <2>. QED BY <1>1, <1>2, <1>3, <1>13, <2>1, <2>2, <2>3, <2>4 DEF EntersFrame, Same, Stays
<1>. HIDE DEF stay, enter
<1>14. CASE m = "error"
  <2>. DEFINE d == [c EXCEPT !.err = ~c.draining]
  <2>1. /\ DOMAIN d = CallFields /\ d.id = c.id /\ d.kind = c.kind /\ d.alone = c.alone /\ d.todo = c.todo
        /\ d.planned = c.planned /\ d.transactional = c.transactional /\ d.unwinding = c.unwinding
        /\ d.draining = c.draining /\ d.err = ~c.draining /\ d.found = c.found /\ d.marker = c.marker
        /\ d.src = c.src /\ d.pos = c.pos
    BY <1>3 DEF CallFields
  <2>2. stay(d) /\ m \in Headers \ {"ready", "l", "lf", "U", "e"}
    BY <1>6, <1>14 DEF Headers
  <2>. HIDE DEF d
  <2>. QED BY <1>4, <1>5, <1>12, <1>14, <2>1, <2>2
<1>15. CASE m = "rows"
  <2>. DEFINE d == [c EXCEPT !.found = @ \/ ~c.draining]
  <2>1. /\ DOMAIN d = CallFields /\ d.id = c.id /\ d.kind = c.kind /\ d.alone = c.alone /\ d.todo = c.todo
        /\ d.planned = c.planned /\ d.transactional = c.transactional /\ d.unwinding = c.unwinding
        /\ d.draining = c.draining /\ d.err = c.err /\ d.found \in BOOLEAN /\ d.marker = c.marker
        /\ d.src = c.src /\ d.pos = c.pos
    BY <1>3 DEF CallFields
  <2>2. stay(d) /\ m \in Headers \ {"ready", "l", "lf", "U", "e"}
    BY <1>6, <1>15 DEF Headers
  <2>. HIDE DEF d
  <2>. QED BY <1>4, <1>5, <1>12, <1>15, <2>1, <2>2
<1>16. CASE m = "u"
  <2>. DEFINE d == [c EXCEPT !.err = @ \/ (~c.draining /\ c.args.bad = 1)]
  <2>1. /\ DOMAIN d = CallFields /\ d.id = c.id /\ d.kind = c.kind /\ d.alone = c.alone /\ d.todo = c.todo
        /\ d.planned = c.planned /\ d.transactional = c.transactional /\ d.unwinding = c.unwinding
        /\ d.draining = c.draining /\ d.err \in BOOLEAN /\ d.found = c.found /\ d.marker = c.marker
        /\ d.src = c.src /\ d.pos = c.pos /\ (d.err => c.err \/ ~c.draining) /\ (c.err => d.err)
    BY <1>3 DEF CallFields
  <2>2. stay(d) /\ m \in Headers \ {"ready", "l", "lf", "U", "e"}
    BY <1>6, <1>16 DEF Headers
  <2>. HIDE DEF d
  <2>. QED BY <1>4, <1>5, <1>12, <1>16, <2>1, <2>2
<1>17. CASE m \in {"l", "lf"}
  <2>. DEFINE d == [c EXCEPT !.marker = m = "l"]
  <2>1. /\ DOMAIN d = CallFields /\ d.id = c.id /\ d.kind = c.kind /\ d.alone = c.alone /\ d.todo = c.todo
        /\ d.planned = c.planned /\ d.transactional = c.transactional /\ d.unwinding = c.unwinding
        /\ d.draining = c.draining /\ d.err = c.err /\ d.found = c.found /\ d.marker = (m = "l")
        /\ d.src = c.src /\ d.pos = c.pos
    BY <1>3 DEF CallFields
  <2>2. enter("hello", d) /\ "hello" = FrameOf(m)
    BY <1>6, <1>17 DEF FrameOf
  <2>. HIDE DEF d
  <2>. QED BY <1>4, <1>13, <1>17, <2>1, <2>2
<1>18. CASE m \in {"U", "e"}
  <2>2. \E where : enter(where, c) /\ where = FrameOf(m)
    BY <1>6, <1>18 DEF FrameOf
  <2>. QED BY <1>3, <1>4, <1>13, <1>18, <2>2
<1>19. CASE m \in Headers \ {"ready", "error", "rows", "u", "l", "lf", "U", "e"}
  <2>2. stay(c)
    BY <1>6, <1>19
  <2>. QED BY <1>3, <1>4, <1>5, <1>12, <1>19, <2>2
<1>. QED BY <1>2, <1>8, <1>9, <1>14, <1>15, <1>16, <1>17, <1>18, <1>19

-----------------------------------------------------------------------------
(* The other steps of a task *)

LEMMA ShutIs ==
  ASSUME Basic, NEW t \in Tasks, Active(t), pc[t] # "collect",
         Raise(t, call[t], [conn EXCEPT !.closed = TRUE]), UNCHANGED <<srv, wire, misread>>
  PROVE  Quits(t)
<1>. DEFINE cn == [conn EXCEPT !.closed = TRUE]
<1>1. /\ cn \in ConnRecord /\ cn.closed /\ cn.owner = conn.owner /\ cn.source = conn.source
      /\ cn.autocommit = conn.autocommit /\ cn.dirty = conn.dirty
      /\ cn.in_transaction = conn.in_transaction
  BY DEF ConnRecord, Basic, Shape, Types
<1>2. Raise(t, call[t], cn)
  OBVIOUS
<1>. HIDE DEF cn
<1>3. /\ Leaves(t, "failed") /\ conn'.dirty = cn.dirty /\ conn'.closed
      /\ conn'.in_transaction = cn.in_transaction
  BY <1>1, <1>2, Raising
<1>. QED BY <1>1, <1>3 DEF Quits

LEMMA LostIs ==
  ASSUME Basic, NEW t \in Tasks, EndOfStream(t) \/ DrainGivesUp(t) PROVE Quits(t)
<1>1. Active(t) /\ pc[t] # "collect"
  BY DEF EndOfStream, DrainGivesUp, Active
<1>. QED BY <1>1, ShutIs DEF EndOfStream, DrainGivesUp

\* The statement goes out.
Transmits(t) ==
  /\ pc[t] = "send" /\ ~conn.closed /\ ~conn.dirty
  /\ pc' = [pc EXCEPT ![t] = "read"] /\ UNCHANGED <<call, outcome, appTxn, wire, misread>>
  /\ conn' \in ConnRecord /\ conn'.dirty /\ ~conn'.closed /\ conn'.owner = conn.owner
  /\ conn'.source = conn.source /\ conn'.autocommit = conn.autocommit
  /\ conn'.in_transaction = conn.in_transaction
  /\ srv' \in ServerRecord /\ srv'.up = srv.up /\ srv'.txn = srv.txn /\ srv'.buf = srv.buf
  /\ srv.up => srv'.what = Now(t) /\ srv'.of = call[t].id /\ srv'.st = "run"
  /\ ~srv.up => srv' = srv
\* What an abandoned statement left is read first.
Discards(t) ==
  /\ pc[t] = "send" /\ ~conn.closed /\ conn.dirty
  /\ Moves(t, "read") /\ SameStatement(t) /\ call'[t].draining /\ call'[t].err = call[t].err
  /\ UNCHANGED <<conn, srv, wire, misread>>

LEMMA SendIs ==
  ASSUME Basic, NEW t \in Tasks, Send(t)
  PROVE  Quits(t) \/ Transmits(t) \/ Discards(t)
<1>. DEFINE c == call[t]
<1>1. /\ pc[t] = "send" /\ Active(t) /\ UNCHANGED <<wire, misread>> /\ ~Reads(t)
  BY DEF Send, Active, Reads, Readers
<1>2. /\ CallOK(c) /\ Flags(c) /\ CallFields = DOMAIN c /\ conn \in ConnRecord /\ srv \in ServerRecord
      /\ c.src \in 0 .. MaxCalls /\ c.pos \in Nat /\ c.id \in 0 .. MaxCalls
      /\ c.todo # <<>> /\ ~c.draining /\ ~c.err
  BY <1>1, IdsOK DEF CallOK, Basic, Shape, Types, CallsOK, Answers
<1>3. Head(c.todo) \in Statements /\ Head(c.todo) = Now(t)
  <2>1. c.todo \in Seq(Statements)
    BY <1>2 DEF CallOK, TodoOK, Orderly
  <2>. QED BY <1>2, <2>1, TailOf DEF Now
<1>4. /\ conn.closed => Raise(t, c, conn) /\ UNCHANGED srv
      /\ ~conn.closed /\ conn.dirty =>
            /\ At(t, "read") /\ With(t, [c EXCEPT !.draining = TRUE])
            /\ UNCHANGED <<conn, outcome, appTxn, srv>>
      /\ ~conn.closed /\ ~conn.dirty =>
            /\ At(t, "read") /\ conn' = [conn EXCEPT !.dirty = TRUE]
            /\ srv' = IF srv.up THEN [srv EXCEPT !.what = Head(c.todo), !.of = c.id, !.st = "run"]
                      ELSE srv
            /\ UNCHANGED <<call, outcome, appTxn>>
  <2>1. (CASE conn.closed -> Raise(t, c, conn) /\ UNCHANGED srv
          [] ~conn.closed /\ conn.dirty ->
            /\ At(t, "read") /\ With(t, [c EXCEPT !.draining = TRUE])
            /\ UNCHANGED <<conn, outcome, appTxn, srv>>
          [] OTHER ->
            /\ At(t, "read") /\ conn' = [conn EXCEPT !.dirty = TRUE]
            /\ srv' = IF srv.up THEN [srv EXCEPT !.what = Head(c.todo), !.of = c.id, !.st = "run"]
                      ELSE srv
            /\ UNCHANGED <<call, outcome, appTxn>>)
    BY DEF Send
  <2>2. conn.closed \in BOOLEAN /\ conn.dirty \in BOOLEAN
    BY <1>2 DEF ConnRecord
  <2>. QED BY <2>1, <2>2
<1>5. CASE conn.closed
  <2>1. /\ Leaves(t, "failed") /\ conn'.dirty = conn.dirty /\ conn'.closed
        /\ conn'.in_transaction = conn.in_transaction
    BY <1>1, <1>2, <1>4, <1>5, Raising
  <2>. QED BY <1>1, <1>4, <1>5, <2>1 DEF Quits
<1>6. CASE ~conn.closed /\ conn.dirty
  <2>. DEFINE d == [c EXCEPT !.draining = TRUE]
  <2>1. /\ DOMAIN d = CallFields /\ d.id = c.id /\ d.kind = c.kind /\ d.alone = c.alone /\ d.todo = c.todo
        /\ d.planned = c.planned /\ d.transactional = c.transactional /\ d.unwinding = c.unwinding
        /\ d.draining = TRUE /\ d.err = c.err /\ d.found = c.found /\ d.marker = c.marker
        /\ d.src = c.src /\ d.pos = c.pos
    BY <1>2 DEF CallFields
  <2>2. At(t, "read") /\ With(t, d) /\ UNCHANGED <<conn, outcome, appTxn, srv>>
    BY <1>4, <1>6
  <2>. HIDE DEF d
  <2>3. {d.draining, d.err, d.found, d.marker} \subseteq BOOLEAN /\ d.src \in 0 .. MaxCalls /\ d.pos \in Nat
    BY <1>2, <2>1 DEF Flags
  <2>4. Moves(t, "read") /\ SameStatement(t) /\ call'[t] = d
    BY <1>1, <1>2, <2>1, <2>2, <2>3, SameCall
  <2>. QED BY <1>1, <1>2, <1>6, <2>1, <2>2, <2>4 DEF Discards
<1>7. CASE ~conn.closed /\ ~conn.dirty
  <2>1. /\ At(t, "read") /\ conn' = [conn EXCEPT !.dirty = TRUE]
        /\ srv' = IF srv.up THEN [srv EXCEPT !.what = Head(c.todo), !.of = c.id, !.st = "run"]
                  ELSE srv
        /\ UNCHANGED <<call, outcome, appTxn>>
    BY <1>4, <1>7
  <2>2. /\ conn' \in ConnRecord /\ conn'.dirty /\ ~conn'.closed /\ conn'.owner = conn.owner
        /\ conn'.source = conn.source /\ conn'.autocommit = conn.autocommit
        /\ conn'.in_transaction = conn.in_transaction
    BY <1>2, <1>7, <2>1 DEF ConnRecord
  <2>3. /\ srv' \in ServerRecord /\ srv'.up = srv.up /\ srv'.txn = srv.txn /\ srv'.buf = srv.buf
        /\ srv.up => srv'.what = Now(t) /\ srv'.of = call[t].id /\ srv'.st = "run"
        /\ ~srv.up => srv' = srv
    BY <1>2, <1>3, <2>1 DEF ServerRecord
  <2>. QED BY <1>1, <1>7, <2>1, <2>2, <2>3 DEF Transmits, At
<1>. QED BY <1>2, <1>5, <1>6, <1>7 DEF ConnRecord

LEMMA CancelIs ==
  ASSUME Basic, NEW t \in Tasks, Cancel(t) PROVE Quits(t)
<1>. DEFINE c == call[t]
            cn == [conn EXCEPT !.closed = @ \/ c.draining]
<1>1. Active(t) /\ UNCHANGED <<srv, wire, misread>> /\ End(t, c, cn, "cancelled")
  BY DEF Cancel, Active
<1>2. CallOK(c) /\ c.draining \in BOOLEAN /\ "cancelled" \in Results \ {"none"}
  BY <1>1, IdsOK DEF CallOK, Flags, Results
<1>3. /\ cn \in ConnRecord /\ cn.closed = (conn.closed \/ c.draining) /\ cn.owner = conn.owner
      /\ cn.source = conn.source /\ cn.autocommit = conn.autocommit /\ cn.dirty = conn.dirty
      /\ cn.in_transaction = conn.in_transaction
  BY <1>2 DEF ConnRecord, Basic, Shape, Types
<1>. HIDE DEF cn
<1>4. /\ Leaves(t, "cancelled") /\ conn'.closed = cn.closed
      /\ conn'.dirty = cn.dirty /\ conn'.in_transaction = cn.in_transaction
  BY <1>1, <1>2, <1>3, Leaving
<1>5. Reads(t) => conn'.closed \/ (Answers(t) /\ Now(t) \in scene.cancel)
  BY <1>3, <1>4 DEF Cancel, Reads, Readers, Answers, Now
<1>6. pc[t] # "send" /\ (pc[t] = "collect" => ~call[t].draining)
  BY <1>1 DEF Cancel, Basic, Shape, CallsOK, Reads, Readers
<1>7. pc[t] = "collect" => conn'.closed = conn.closed
  <2>1. conn.closed \in BOOLEAN
    BY DEF Basic, Shape, Types, ConnRecord
  <2>. QED BY <1>2, <1>3, <1>4, <1>6, <2>1
<1>8. conn'.dirty = conn.dirty /\ conn'.in_transaction = conn.in_transaction
  BY <1>3, <1>4
<1>9. pc[t] \in Frames => FrameFaults
  BY DEF Cancel, Frames
<1>. QED BY <1>1, <1>4, <1>5, <1>6, <1>7, <1>8, <1>9 DEF Quits

-----------------------------------------------------------------------------
(* The frames of external tables *)

Greets(t) ==
  /\ pc[t] = "hello" /\ Moves(t, "xfer") /\ Same(t)
  /\ wire # <<>> /\ wire[1] = "fmt" /\ wire' = Tail(wire) /\ UNCHANGED <<srv, misread>>
  /\ conn'.dirty = conn.dirty /\ conn'.in_transaction = conn.in_transaction
  /\ conn'.source = IF call[t].marker THEN 0 ELSE conn.source
  /\ call'[t].err = call[t].err /\ call'[t].marker = call[t].marker
  /\ call'[t].pos = 0 /\ call'[t].src = IF call[t].marker THEN conn.source ELSE 0
SendsBatch(t) ==
  /\ pc[t] = "xfer" /\ Moves(t, "xfer") /\ Same(t) /\ UNCHANGED <<conn, wire, misread>>
  /\ call'[t].err = call[t].err /\ call'[t].marker = call[t].marker /\ call'[t].src = call[t].src
  /\ call[t].pos < Batches /\ call'[t].pos = call[t].pos + 1
  /\ srv' \in ServerRecord
  /\ srv'.up = srv.up /\ srv'.txn = srv.txn /\ srv'.what = srv.what /\ srv'.of = srv.of /\ srv'.st = srv.st
  /\ srv'.buf = IF srv.up /\ srv.st = "data"
                THEN Append(srv.buf, IF call[t].src = 0 THEN srv.of ELSE call[t].src) ELSE srv.buf
EndsStream(t, st) ==
  /\ pc[t] = "xfer" /\ Moves(t, "read") /\ Same(t) /\ UNCHANGED <<wire, misread>>
  /\ conn'.dirty = conn.dirty /\ conn'.in_transaction = conn.in_transaction /\ conn'.source = conn.source
  /\ call'[t].err = call[t].err /\ call'[t].marker = call[t].marker
  /\ st = "end" => call[t].pos = Batches
  /\ srv' \in ServerRecord
  /\ srv'.up = srv.up /\ srv'.txn = srv.txn /\ srv'.what = srv.what /\ srv'.of = srv.of /\ srv'.buf = srv.buf
  /\ srv'.st = IF srv.up /\ srv.st = "data" THEN st ELSE srv.st
ReadsPart(t) ==
  /\ pc[t] \in {"unload", "logfile"} /\ Same(t)
  /\ Moves(t, IF pc[t] = "unload" THEN IF wire[1] = "block" THEN "unload" ELSE "read"
              ELSE IF wire[1] = "end" THEN "read" ELSE "logfile")
  /\ wire # <<>> /\ wire' = Tail(wire) /\ UNCHANGED <<conn, srv, misread>>
  /\ call'[t].err = call[t].err /\ call'[t].marker = call[t].marker

LEMMA HelloIs ==
  ASSUME Basic, NEW t \in Tasks, Hello(t) PROVE Greets(t)
<1>. DEFINE c == call[t]
            d == [c EXCEPT !.pos = 0, !.src = IF c.marker THEN conn.source ELSE 0]
<1>1. /\ pc[t] = "hello" /\ Active(t) /\ wire # <<>> /\ wire' = Tail(wire) /\ Head(wire) = "fmt"
      /\ UNCHANGED <<srv, misread, outcome, appTxn>> /\ At(t, "xfer") /\ With(t, d)
      /\ conn' = IF c.marker THEN [conn EXCEPT !.source = 0] ELSE conn
  BY DEF Hello, Part, Active
<1>2. /\ CallOK(c) /\ Flags(c) /\ CallFields = DOMAIN c /\ conn \in ConnRecord
      /\ c.src \in 0 .. MaxCalls /\ c.pos \in Nat /\ 0 \in 0 .. MaxCalls
  BY <1>1, IdsOK, LoadDataAssumption DEF CallOK, Basic, Shape, Types
<1>3. wire[1] = "fmt"
  BY <1>1, FirstOf
<1>4. /\ conn' \in ConnRecord /\ conn'.closed = conn.closed /\ conn'.owner = conn.owner
      /\ conn'.dirty = conn.dirty /\ conn'.in_transaction = conn.in_transaction
      /\ conn'.autocommit = conn.autocommit /\ conn'.source = IF c.marker THEN 0 ELSE conn.source
  BY <1>1, <1>2 DEF ConnRecord
<1>5. /\ DOMAIN d = CallFields /\ d.id = c.id /\ d.kind = c.kind /\ d.alone = c.alone /\ d.todo = c.todo
      /\ d.planned = c.planned /\ d.transactional = c.transactional /\ d.unwinding = c.unwinding
      /\ d.draining = c.draining /\ d.err = c.err /\ d.found = c.found /\ d.marker = c.marker
      /\ d.src = (IF c.marker THEN conn.source ELSE 0) /\ d.pos = 0
  BY <1>2 DEF CallFields
<1>. HIDE DEF d
<1>6. {d.draining, d.err, d.found, d.marker} \subseteq BOOLEAN /\ d.src \in 0 .. MaxCalls /\ d.pos \in Nat
  BY <1>2, <1>5 DEF Flags, ConnRecord
<1>7. Moves(t, "xfer") /\ SameStatement(t) /\ call'[t] = d
  BY <1>1, <1>4, <1>5, <1>6, SameCall
<1>. QED BY <1>1, <1>3, <1>4, <1>5, <1>7 DEF Greets, Same, Stays

LEMMA TransferIs ==
  ASSUME Basic, NEW t \in Tasks, NEW st \in {"data", "end", "abort"}, NEW b \in Seq(0 .. MaxCalls),
         Transfer(t, st, b)
  PROVE  /\ srv' \in ServerRecord
         /\ srv'.up = srv.up /\ srv'.txn = srv.txn /\ srv'.what = srv.what /\ srv'.of = srv.of
         /\ srv'.st = IF srv.up /\ srv.st = "data" THEN st ELSE srv.st
         /\ srv'.buf = IF srv.up /\ srv.st = "data" THEN b ELSE srv.buf
<1>1. srv \in ServerRecord
  BY DEF Basic, Shape, Types
<1>2. CASE srv.up /\ srv.st = "data"
  BY <1>1, <1>2 DEF Transfer, ServerRecord
<1>3. CASE ~(srv.up /\ srv.st = "data")
  BY <1>1, <1>3 DEF Transfer
<1>. QED BY <1>2, <1>3

LEMMA BatchIs ==
  ASSUME Basic, NEW t \in Tasks, SendBatch(t) PROVE SendsBatch(t)
<1>. DEFINE c == call[t]
            d == [c EXCEPT !.pos = @ + 1]
            b == Append(srv.buf, IF c.src = 0 THEN srv.of ELSE c.src)
<1>1. /\ pc[t] = "xfer" /\ Active(t) /\ UNCHANGED <<conn, wire, misread, outcome, appTxn, pc>>
      /\ With(t, d) /\ c.pos < Batches /\ Transfer(t, "data", b)
  BY DEF SendBatch, Active
<1>2. /\ CallOK(c) /\ Flags(c) /\ CallFields = DOMAIN c /\ conn \in ConnRecord /\ srv \in ServerRecord
      /\ c.src \in 0 .. MaxCalls /\ c.pos \in Nat /\ pc \in [Tasks -> Holding \cup {"idle", "collect"}]
  BY <1>1, IdsOK DEF CallOK, Basic, Shape, Types
<1>3. b \in Seq(0 .. MaxCalls)
  <2>1. srv.buf \in Seq(0 .. MaxCalls) /\ srv.of \in 0 .. MaxCalls
    BY <1>2 DEF ServerRecord
  <2>. QED BY <1>2, <2>1
<1>4. At(t, "xfer")
  BY <1>1, <1>2 DEF At
<1>5. /\ DOMAIN d = CallFields /\ d.id = c.id /\ d.kind = c.kind /\ d.alone = c.alone /\ d.todo = c.todo
      /\ d.planned = c.planned /\ d.transactional = c.transactional /\ d.unwinding = c.unwinding
      /\ d.draining = c.draining /\ d.err = c.err /\ d.found = c.found /\ d.marker = c.marker
      /\ d.src = c.src /\ d.pos = c.pos + 1
  BY <1>2 DEF CallFields
<1>. HIDE DEF d, b
<1>6. {d.draining, d.err, d.found, d.marker} \subseteq BOOLEAN /\ d.src \in 0 .. MaxCalls /\ d.pos \in Nat
  BY <1>2, <1>5 DEF Flags
<1>7. Moves(t, "xfer") /\ SameStatement(t) /\ call'[t] = d
  BY <1>1, <1>2, <1>4, <1>5, <1>6, SameCall
<1>8. /\ srv' \in ServerRecord
      /\ srv'.up = srv.up /\ srv'.txn = srv.txn /\ srv'.what = srv.what /\ srv'.of = srv.of
      /\ srv'.st = IF srv.up /\ srv.st = "data" THEN "data" ELSE srv.st
      /\ srv'.buf = IF srv.up /\ srv.st = "data" THEN b ELSE srv.buf
  BY <1>1, <1>3, TransferIs
<1>9. srv'.st = srv.st
  BY <1>8
<1>. QED BY <1>1, <1>5, <1>7, <1>8, <1>9 DEF SendsBatch, Same, Stays, b

LEMMA StreamEndIs ==
  ASSUME Basic, NEW t \in Tasks, SendDone(t) \/ StreamFails(t)
  PROVE  EndsStream(t, "end") \/ EndsStream(t, "abort")
<1>. DEFINE c == call[t]
<1>1. PICK st \in {"end", "abort"} :
      /\ pc[t] = "xfer" /\ Active(t) /\ UNCHANGED <<call, wire, misread, outcome, appTxn>>
      /\ At(t, "read") /\ (st = "end" => c.pos = Batches) /\ Transfer(t, st, srv.buf)
      /\ conn' = conn \/ conn' = [conn EXCEPT !.failure = TRUE]
  BY DEF SendDone, StreamFails, Active
<1>2. /\ CallOK(c) /\ Flags(c) /\ CallFields = DOMAIN c /\ conn \in ConnRecord /\ srv \in ServerRecord
      /\ c.src \in 0 .. MaxCalls /\ c.pos \in Nat /\ DOMAIN call = Tasks
  BY <1>1, IdsOK DEF CallOK, Basic, Shape, Types
<1>3. /\ conn' \in ConnRecord /\ conn'.closed = conn.closed /\ conn'.owner = conn.owner
      /\ conn'.dirty = conn.dirty /\ conn'.in_transaction = conn.in_transaction
      /\ conn'.autocommit = conn.autocommit /\ conn'.source = conn.source
  BY <1>1, <1>2 DEF ConnRecord
<1>4. Moves(t, "read") /\ SameStatement(t) /\ call'[t] = c
  BY <1>1, <1>2, <1>3 DEF Moves, SameStatement, At
<1>5. /\ srv' \in ServerRecord
      /\ srv'.up = srv.up /\ srv'.txn = srv.txn /\ srv'.what = srv.what /\ srv'.of = srv.of
      /\ srv'.st = IF srv.up /\ srv.st = "data" THEN st ELSE srv.st
      /\ srv'.buf = IF srv.up /\ srv.st = "data" THEN srv.buf ELSE srv.buf
  <2>1. srv.buf \in Seq(0 .. MaxCalls) /\ st \in {"data", "end", "abort"}
    BY <1>2 DEF ServerRecord
  <2>. QED BY <1>1, <2>1, TransferIs
<1>6. srv'.buf = srv.buf
  BY <1>5
<1>7. EndsStream(t, st)
  BY <1>1, <1>3, <1>4, <1>5, <1>6 DEF EndsStream, Same, Stays
<1>. QED BY <1>7

LEMMA PartIs ==
  ASSUME Basic, NEW t \in Tasks, Unload(t) \/ LogFile(t)
  PROVE  ReadsPart(t) \/ BreaksOff(t)
<1>. DEFINE c == call[t]
<1>1. /\ pc[t] \in {"unload", "logfile"} /\ wire # <<>> /\ wire' = Tail(wire) /\ Active(t)
      /\ UNCHANGED <<srv, misread>>
  BY DEF Unload, LogFile, Part, Active
<1>2. /\ CallOK(c) /\ conn \in ConnRecord /\ DOMAIN call = Tasks /\ c.draining \in BOOLEAN
  BY <1>1, IdsOK DEF CallOK, Flags, Basic, Shape, Types
<1>3. Head(wire) = wire[1]
  BY <1>1, FirstOf
<1>4. CASE pc[t] = "logfile"
  <2>1. At(t, IF wire[1] = "end" THEN "read" ELSE "logfile") /\ UNCHANGED <<conn, call, outcome, appTxn>>
    BY <1>3, <1>4 DEF Unload, LogFile, Part
  <2>2. Moves(t, IF wire[1] = "end" THEN "read" ELSE "logfile") /\ SameStatement(t) /\ call'[t] = c
    BY <1>2, <2>1 DEF Moves, SameStatement, At
  <2>. QED BY <1>1, <1>4, <2>1, <2>2 DEF ReadsPart, Same, Stays
<1>5. CASE pc[t] = "unload" /\ At(t, IF Head(wire) = "block" THEN "unload" ELSE "read")
           /\ UNCHANGED <<conn, call, outcome, appTxn>>
  <2>2. Moves(t, IF wire[1] = "block" THEN "unload" ELSE "read") /\ SameStatement(t) /\ call'[t] = c
    BY <1>2, <1>3, <1>5 DEF Moves, SameStatement, At
  <2>. QED BY <1>1, <1>5, <2>2 DEF ReadsPart, Same, Stays
<1>6. CASE /\ pc[t] = "unload" /\ FrameFaults /\ ~call[t].draining /\ Raise(t, call[t], conn)
  <2>1. Answers(t) /\ Now(t) = "unload"
    <3>1. Answers(t)
      BY <1>6 DEF Answers, Reads, Readers
    <3>. QED BY <1>6, <3>1 DEF Basic, Matches
  <2>2. c.todo \in Seq(Statements) /\ c.todo # <<>>
    BY <1>1, <1>2, <1>6 DEF CallOK, TodoOK, Orderly, Basic, Shape, CallsOK
  <2>3. c.todo[1] = "unload" /\ 1 \in 1 .. Len(c.todo)
    BY <2>1, <2>2, TailOf DEF Now
  <2>4. ~c.transactional
    <3>1. c.kind # "load"
      BY <1>2, <2>2, <2>3 DEF CallOK, TodoOK, LoadTodo, Only
    <3>. QED BY <1>2, <3>1 DEF CallOK, TodoOK, OtherTodo
  <2>5. /\ Leaves(t, "failed") /\ conn'.dirty = conn.dirty
        /\ conn'.in_transaction = conn.in_transaction
    BY <1>1, <1>2, <1>6, <2>4, Raising
  <2>. QED BY <1>1, <1>6, <2>1, <2>5 DEF BreaksOff
<1>. QED BY <1>1, <1>4, <1>5, <1>6 DEF Unload, LogFile, Part

-----------------------------------------------------------------------------
(* A call starts *)

Begins(t, kind) ==
  /\ pc[t] = "idle" /\ t \in scene.tasks /\ calls' = calls + 1 /\ calls + 1 \in 1 .. MaxCalls
  /\ ~conn.closed /\ kind \in Others \cup {"load"}
  /\ DOMAIN call' = Tasks /\ \A u \in Tasks \ {t} : call'[u] = call[u]
  /\ conn' \in ConnRecord /\ ~conn'.closed /\ conn'.dirty = conn.dirty
  /\ conn'.in_transaction = conn.in_transaction /\ conn'.autocommit = conn.autocommit
  /\ conn'.source = conn.source /\ UNCHANGED <<srv, wire, misread>>
  /\ kind \in Turns => \A u \in Tasks : ~Active(u)
  /\ kind = "begin" => ~appTxn /\ conn.autocommit
  /\ kind = "commit" => \A k \in 1 .. calls : outcome[k] \in {"ok", "stored"}
Refused(t, kind) ==
  /\ Begins(t, kind) /\ pc' = [pc EXCEPT ![t] = "idle"] /\ conn'.owner = conn.owner
  /\ \E res \in {"ok", "refused"} :
       /\ outcome' = [outcome EXCEPT ![calls + 1] = res]
       /\ res = "ok" => kind = "rollback" /\ ~conn.in_transaction
       /\ res = "refused" => conn.owner # NoTask
  /\ appTxn' \in BOOLEAN /\ (appTxn' => appTxn)
  /\ appTxn /\ ~appTxn' => kind \in Ends /\ (kind = "rollback" => ~conn.in_transaction)
Starts(t, kind) ==
  /\ Begins(t, kind) /\ pc' = [pc EXCEPT ![t] = "send"] /\ UNCHANGED <<outcome, appTxn>>
  /\ conn.owner = NoTask /\ conn'.owner = t
  /\ CallOK(call'[t]) /\ call'[t].kind = kind /\ call'[t].id = calls + 1 /\ call'[t].todo # <<>>
  /\ ~call'[t].planned /\ ~call'[t].unwinding /\ ~call'[t].transactional
  /\ ~call'[t].draining /\ ~call'[t].err
  /\ call'[t].alone = (conn.autocommit /\ ~appTxn)
  /\ call'[t].todo[1] = "begin" /\ kind # "begin" => ~conn.autocommit

LEMMA StartTodo ==
  ASSUME NEW x \in Statements \ ({"begin", "create"} \cup Ends), NEW q \in Seq(Statements), Only(q, x),
         NEW p \in Seq(Statements), p = <<>> \/ Only(p, "begin"),
         NEW s \in Seq(Statements), Joined(p, q, s)
  PROVE  /\ Orderly(s) /\ s # <<>> /\ s[Len(s)] = x /\ (s[1] = "begin" => p # <<>>)
         /\ \A i \in 1 .. Len(s) : s[i] \in {"begin", x}
<1>1. /\ Len(s) = Len(p) + 1 /\ s[Len(p) + 1] = x
      /\ \A i \in 1 .. Len(p) : s[i] = p[i]
  BY DEF Joined, Only
<1>2. CASE p = <<>>
  <2>1. Len(s) = 1 /\ s[1] = x
    BY <1>1, <1>2
  <2>2. s # <<>> /\ \A i \in 1 .. Len(s) : i = 1
    BY <2>1
  <2>3. \A i \in 1 .. Len(s) : s[i] = x
    BY <2>1, <2>2
  <2>4. Orderly(s)
    BY <2>1, <2>2, <2>3 DEF Orderly, Ends, Storing
  <2>. QED BY <2>1, <2>2, <2>3, <2>4
<1>3. CASE Only(p, "begin")
  <2>0. Len(p) = 1 /\ p[1] = "begin" /\ p # <<>>
    BY <1>3 DEF Only
  <2>1. Len(s) = 2 /\ s[1] = "begin" /\ s[2] = x
    BY <1>1, <2>0
  <2>19. Len(s) # 0
    BY <2>1
  <2>20. s # <<>>
    BY <2>19, NotEmpty, Zenon
  <2>21. \A i \in 1 .. Len(s) : i = 1 \/ i = 2
    BY <2>1
  <2>2. s # <<>> /\ \A i \in 1 .. Len(s) : i = 1 \/ i = 2
    BY <2>20, <2>21
  <2>3. Orderly(s)
    BY <2>1, <2>2 DEF Orderly, Ends, Storing
  <2>. QED BY <2>0, <2>1, <2>2, <2>3
<1>. QED BY <1>2, <1>3

FirstTodo(kind) ==
  IF kind \in {"commit", "rollback", "begin"} THEN <<kind>>
  ELSE WithBegin(conn, <<IF kind = "load" THEN "catalog" ELSE kind>>)

LEMMA FirstTodoIs ==
  ASSUME Basic, NEW kind \in Others \cup {"load"}, NEW s, s = FirstTodo(kind)
  PROVE  /\ Orderly(s) /\ s # <<>>
         /\ kind \in Turns => Only(s, kind)
         /\ kind \notin Turns => /\ s[Len(s)] = IF kind = "load" THEN "catalog" ELSE kind
                                 /\ \A i \in 1 .. Len(s) : s[i] \in {"begin", IF kind = "load" THEN "catalog" ELSE kind}
                                 /\ s[1] = "begin" => ~conn.autocommit
<1>0. kind \in Statements \cup {"load"} /\ kind \notin {"create", "insert", "catalog"}
  BY LoadDataAssumption DEF Statements
<1>1. CASE kind \in Turns
  <2>. DEFINE w == <<kind>>
  <2>1. w \in Seq(Statements) /\ Only(w, kind)
    BY <1>1 DEF Turns, Statements, Only
  <2>2. s = w
    BY <1>1 DEF FirstTodo, Turns
  <2>. HIDE DEF w
  <2>3. kind # "create"
    BY <1>0
  <2>. QED BY <1>1, <2>1, <2>2, <2>3, OneStatement
<1>2. CASE kind \notin Turns
  <2>. DEFINE x == IF kind = "load" THEN "catalog" ELSE kind
              q == <<x>>
  <2>1. x \in Statements \ ({"begin", "create"} \cup Ends)
    BY <1>0, <1>2 DEF Statements, Turns, Ends
  <2>. HIDE DEF x
  <2>2. q \in Seq(Statements) /\ Only(q, x)
    BY <2>1 DEF Only
  <2>3. s = WithBegin(conn, q)
    BY <1>2 DEF FirstTodo, Turns, x
  <2>. HIDE DEF q
  <2>4. conn \in ConnRecord
    BY DEF Basic, Shape, Types
  <2>5. PICK p \in Seq(Statements) :
           /\ WithBegin(conn, q) \in Seq(Statements) /\ Joined(p, q, WithBegin(conn, q))
           /\ IF ~conn.in_transaction /\ ~conn.autocommit THEN Only(p, "begin") ELSE p = <<>>
    BY <2>2, <2>4, BeginFirst
  <2>6. s \in Seq(Statements) /\ Joined(p, q, s) /\ (p = <<>> \/ Only(p, "begin"))
        /\ (p # <<>> => ~conn.autocommit)
    BY <2>3, <2>4, <2>5 DEF ConnRecord
  <2>7. /\ Orderly(s) /\ s # <<>> /\ s[Len(s)] = x /\ (s[1] = "begin" => p # <<>>)
        /\ \A i \in 1 .. Len(s) : s[i] \in {"begin", x}
    BY <2>1, <2>2, <2>6, StartTodo
  <2>. QED BY <1>2, <2>6, <2>7 DEF x
<1>. QED BY <1>1, <1>2

LEMMA StartIs ==
  ASSUME Basic, NEW t \in Tasks, NEW kind \in Others \cup {"load"}, NEW args, Start(t, kind, args),
         kind # "load" => Sane(kind)
  PROVE  Refused(t, kind) \/ Starts(t, kind)
<1>. DEFINE n == NewCall(t, kind, args)
            c == [n EXCEPT !.todo = FirstTodo(kind)]
<1>1. /\ t \in scene.tasks /\ pc[t] = "idle" /\ calls < scene.calls /\ ~conn.closed /\ calls' = calls + 1
      /\ UNCHANGED <<scene, srv, wire, misread>>
      /\ IF kind = "rollback" /\ ~conn.in_transaction THEN End(t, c, conn, "ok")
         ELSE IF conn.owner # NoTask THEN End(t, c, conn, "refused")
         ELSE /\ At(t, "send") /\ With(t, c) /\ conn' = [conn EXCEPT !.owner = t]
              /\ UNCHANGED <<outcome, appTxn>>
  BY DEF Start, FirstTodo
<1>2. /\ conn \in ConnRecord /\ calls \in 0 .. MaxCalls /\ DOMAIN call = Tasks
      /\ scene.calls \in 0 .. MaxCalls /\ appTxn \in BOOLEAN /\ MaxCalls \in Nat
      /\ pc \in [Tasks -> Holding \cup {"idle", "collect"}]
  BY LoadDataAssumption DEF Basic, Shape, Types
<1>3. calls + 1 \in 1 .. MaxCalls
  BY <1>1, <1>2
<1>4. conn.owner # t
  BY <1>1 DEF Basic, Shape, Held, Holding
<1>5. /\ kind \in Turns => \A u \in Tasks : ~Active(u)
      /\ kind = "begin" => ~appTxn /\ conn.autocommit
      /\ kind = "commit" => \A k \in 1 .. calls : outcome[k] \in {"ok", "stored"}
  BY DEF Sane, Turns, Active
<1>6. /\ DOMAIN c = CallFields /\ c.id = calls + 1 /\ c.kind = kind /\ c.todo = FirstTodo(kind)
      /\ ~c.planned /\ ~c.transactional /\ ~c.unwinding /\ ~c.draining /\ ~c.err /\ ~c.found /\ ~c.marker
      /\ {c.planned, c.transactional, c.unwinding, c.draining} \subseteq BOOLEAN
      /\ {c.err, c.found, c.marker} \subseteq BOOLEAN
      /\ c.src = 0 /\ c.pos = 0 /\ c.alone = (conn.autocommit /\ ~appTxn) /\ c.alone \in BOOLEAN
  <2>. DEFINE ft == FirstTodo(kind)
  <2>. HIDE DEF ft
  <2>1. c = [n EXCEPT !.todo = ft]
    BY DEF ft
  <2>2. /\ DOMAIN n = CallFields /\ n.id = calls + 1 /\ n.kind = kind
        /\ n.planned = FALSE /\ n.transactional = FALSE /\ n.unwinding = FALSE /\ n.draining = FALSE
        /\ n.err = FALSE /\ n.found = FALSE /\ n.marker = FALSE
        /\ n.src = 0 /\ n.pos = 0 /\ n.alone = (conn.autocommit /\ ~appTxn)
    BY DEF NewCall, CallFields
  <2>. HIDE DEF n, c
  <2>3. (conn.autocommit /\ ~appTxn) \in BOOLEAN
    OBVIOUS
  <2>4. /\ DOMAIN c = CallFields /\ c.id = calls + 1 /\ c.kind = kind /\ c.todo = ft
        /\ c.planned = FALSE /\ c.transactional = FALSE /\ c.unwinding = FALSE /\ c.draining = FALSE
        /\ c.err = FALSE /\ c.found = FALSE /\ c.marker = FALSE
        /\ c.src = 0 /\ c.pos = 0 /\ c.alone = (conn.autocommit /\ ~appTxn)
    BY <2>1, <2>2 DEF CallFields
  <2>. QED BY <2>3, <2>4 DEF ft
<1>. HIDE DEF c, n
<1>7. CASE \E res \in {"ok", "refused"} :
             /\ End(t, c, conn, res) /\ (res = "ok" => kind = "rollback" /\ ~conn.in_transaction)
             /\ (res = "refused" => conn.owner # NoTask)
  <2>1. PICK res \in {"ok", "refused"} :
             /\ End(t, c, conn, res) /\ (res = "ok" => kind = "rollback" /\ ~conn.in_transaction)
             /\ (res = "refused" => conn.owner # NoTask)
    BY <1>7
  <2>2. {c.planned, c.transactional} \subseteq BOOLEAN
    BY <1>6
  <2>3. /\ pc' = [pc EXCEPT ![t] = "idle"] /\ call' = [call EXCEPT ![t] = NoCall]
        /\ outcome' = [outcome EXCEPT ![c.id] = res]
        /\ conn' \in ConnRecord /\ conn'.closed = conn.closed /\ conn'.dirty = conn.dirty
        /\ conn'.in_transaction = conn.in_transaction
        /\ conn'.owner = (IF conn.owner = t THEN NoTask ELSE conn.owner)
        /\ conn'.source = (IF c.kind = "load" /\ c.planned THEN 0 ELSE conn.source)
        /\ conn'.autocommit = (IF c.kind = "load" /\ c.planned /\ c.transactional /\ ~conn.closed
                              THEN TRUE ELSE conn.autocommit)
        /\ appTxn' = (IF c.kind = "begin" /\ res = "ok" THEN TRUE
                     ELSE IF c.kind \in {"commit", "rollback"} \/ conn.closed THEN FALSE ELSE appTxn)
    BY <1>2, <2>1, <2>2, EndIs
  <2>4. Begins(t, kind)
    BY <1>1, <1>2, <1>3, <1>5, <1>6, <2>3 DEF Begins
  <2>5. /\ appTxn' \in BOOLEAN /\ (appTxn' => appTxn)
        /\ appTxn /\ ~appTxn' => kind \in Ends /\ (kind = "rollback" => ~conn.in_transaction)
    <3>1. kind = "rollback" => ~conn.in_transaction
      BY <1>5, <2>1 DEF Basic, Shape, Held, Turns, Active, Holding, Types, ConnRecord
    <3>. QED BY <1>1, <1>2, <1>6, <2>1, <2>3, <3>1 DEF Ends
  <2>. QED BY <1>4, <1>6, <2>1, <2>3, <2>4, <2>5 DEF Refused
<1>8. CASE /\ conn.owner = NoTask /\ At(t, "send") /\ With(t, c) /\ conn' = [conn EXCEPT !.owner = t]
           /\ UNCHANGED <<outcome, appTxn>>
  <2>1. /\ pc' = [pc EXCEPT ![t] = "send"] /\ call'[t] = c
        /\ DOMAIN call' = Tasks /\ \A u \in Tasks \ {t} : call'[u] = call[u]
    BY <1>8, SetCall DEF Basic, Shape
  <2>2. /\ conn' \in ConnRecord /\ conn'.closed = conn.closed /\ conn'.dirty = conn.dirty
        /\ conn'.in_transaction = conn.in_transaction /\ conn'.owner = t
        /\ conn'.source = conn.source /\ conn'.autocommit = conn.autocommit
    BY <1>2, <1>8 DEF ConnRecord
  <2>. DEFINE s == c.todo
  <2>30. s = FirstTodo(kind)
    BY <1>6
  <2>. HIDE DEF s
  <2>3. /\ Orderly(s) /\ s # <<>>
        /\ kind \in Turns => Only(s, kind)
        /\ kind \notin Turns => /\ s[Len(s)] = IF kind = "load" THEN "catalog" ELSE kind
                                /\ \A i \in 1 .. Len(s) : s[i] \in {"begin", IF kind = "load" THEN "catalog" ELSE kind}
                                /\ s[1] = "begin" => ~conn.autocommit
    BY <2>30, FirstTodoIs
  <2>4. TodoOK(c)
    <3>1. kind = "load" => kind \notin Turns
      BY DEF Turns
    <3>. QED BY <1>6, <2>3, <3>1 DEF s, TodoOK, LoadTodo, OtherTodo
  <2>5. CallOK(c)
    BY <1>2, <1>6, <2>4 DEF CallOK, Flags
  <2>6. Begins(t, kind)
    BY <1>1, <1>2, <1>3, <1>5, <1>6, <2>1, <2>2 DEF Begins
  <2>7. c.todo[1] = "begin" /\ kind # "begin" => ~conn.autocommit
    <3>1. kind \in Turns => c.todo[1] = kind
      BY <2>3 DEF s, Only
    <3>. QED BY <2>3, <3>1 DEF s
  <2>. QED BY <1>6, <1>8, <2>1, <2>2, <2>3, <2>5, <2>6, <2>7 DEF Starts, s
<1>. QED BY <1>1, <1>7, <1>8

-----------------------------------------------------------------------------
(* What the backend does *)

Byte == Headers \cup Parts
Adds(x) == x \in Seq(Byte) /\ wire' \in Seq(Byte) /\ Joined(wire, x, wire')
\* Inside what is sent every frame is whole.
Flows(x) == /\ x[1] \in Headers /\ \A i \in 1 .. Len(x) - 1 : x[i + 1] \in Allowed(Enters(x[i]))
            /\ Enters(x[Len(x)]) = "top"
Settles(x) ==
  /\ Adds(x) /\ Len(x) \in Nat \ {0} /\ x[Len(x)] = "ready" /\ (\A i \in 1 .. Len(x) - 1 : x[i] # "ready")
  /\ Flows(x)
  /\ srv' \in ServerRecord /\ srv'.up = srv.up /\ srv'.what = "none" /\ srv'.st = "none"
  /\ srv'.of = 0 /\ srv'.buf = <<>> /\ srv.what # "none"
Alike(x) ==
  /\ \A i \in 1 .. Len(x) : x[i] \in {"e", "chunk", "end"} => srv.what \in {"insert", "copy"}
  /\ \A i \in 1 .. Len(x) : x[i] \notin {"BEGIN", "COMMIT", "ROLLBACK", "l", "lf", "u", "U", "fmt"}
Brings(r) == work'.exists /\ work'.rows = work.rows \cup {r}
Succeeds == \E x :
  /\ Settles(x) /\ srv.what \notin Turns /\ srv'.txn = srv.txn /\ Alike(x)
  /\ \A i \in 1 .. Len(x) : x[i] # "error"
  /\ work' \in Table /\ table' = IF srv.txn = "none" THEN work' ELSE table
  /\ \/ srv.what \in {"catalog", "unload"} /\ work' = work
     \/ srv.what = "create" /\ ~work.exists /\ work'.exists /\ work'.rows = work.rows
        /\ srv.txn # "failed"
     \/ srv.what = "stmt" /\ work.exists /\ Brings(Complete(srv.of)) /\ srv.txn # "failed"
     \/ srv.st = "end" /\ Brings(Stored)
Fails == \E x :
  /\ Settles(x) /\ srv.what \notin Turns /\ Alike(x) /\ \E i \in 1 .. Len(x) : x[i] = "error"
  /\ srv'.txn = IF srv.txn = "none" THEN "none" ELSE "failed"
  /\ srv.st \in {"run", "end", "abort"} /\ UNCHANGED <<work, table>>
TagOf(what) == IF what = "begin" THEN "BEGIN" ELSE IF what = "commit" THEN "COMMIT" ELSE "ROLLBACK"
TurnsOver == \E x :
  /\ Settles(x) /\ srv.what \in Turns /\ Len(x) = 2 /\ x[1] = TagOf(srv.what) /\ x[2] = "ready"
  /\ srv'.txn = IF srv.what # "begin" THEN "none" ELSE IF srv.txn = "none" THEN "open" ELSE srv.txn
  /\ table' = IF srv.what = "commit" /\ srv.txn = "open" THEN work ELSE table
  /\ work' = IF (srv.what = "commit" /\ srv.txn = "open") \/ srv.txn = "none" \/ srv.what = "begin"
             THEN work ELSE table
GoesOn == \E x :
  /\ Adds(x) /\ UNCHANGED <<work, table>>
  /\ srv' \in ServerRecord /\ srv'.up = srv.up /\ srv'.txn = srv.txn /\ srv'.what = srv.what
  /\ srv'.of = srv.of /\ srv'.buf = srv.buf
  /\ \/ /\ Only(x, "l") /\ srv.what = "insert" /\ srv.st = "run" /\ srv'.st = "hello"
        /\ work.exists /\ srv.txn # "failed"
     \/ /\ Only(x, "lf") /\ srv.what = "copy" /\ srv.st = "run" /\ srv'.st = "hello"
        /\ work.exists /\ srv.txn # "failed"
     \/ Only(x, "fmt") /\ srv.what \in {"insert", "copy"} /\ srv.st = "greeted" /\ srv'.st = "data"
     \/ Only(x, "u") /\ srv.what = "unload" /\ srv.st = "run" /\ srv'.st = "hello" /\ srv.txn # "failed"
     \/ /\ Len(x) = 3 /\ x[1] = "U" /\ x[2] = "block" /\ x[3] \in {"done", "sockerr"}
        /\ srv.what = "unload" /\ srv.st = "greeted" /\ srv'.st = "dumped"
Dies ==
  /\ srv' \in ServerRecord /\ ~srv'.up /\ srv'.what = "none" /\ srv'.st = "none" /\ srv'.of = 0
  /\ srv'.buf = <<>> /\ srv'.txn = "none" /\ work' = table /\ table' = table
  /\ \/ srv.st = "abort" /\ srv.up /\ \E x : Adds(x) /\ Only(x, "error")
     \/ /\ wire' \in Seq(Byte) /\ Len(wire') <= Len(wire)
        /\ \A i \in 1 .. Len(wire') : wire'[i] = wire[i]

LEMMA Concat3 ==
  ASSUME NEW S, NEW a \in Seq(S), NEW b \in Seq(S), NEW c \in Seq(S)
  PROVE  \E x \in Seq(S) : Joined(b, c, x) /\ (a \o b) \o c \in Seq(S) /\ Joined(a, x, (a \o b) \o c)
<1>. DEFINE x == b \o c
            y == a \o b
            z == y \o c
<1>1. x \in Seq(S) /\ Joined(b, c, x)
  BY Concat
<1>2. y \in Seq(S) /\ Joined(a, b, y)
  BY Concat
<1>. HIDE DEF x, y
<1>3. z \in Seq(S) /\ Joined(y, c, z)
  BY <1>2, Concat
<1>. HIDE DEF z
<1>4. Joined(a, x, z)
  <2>1. Len(z) = Len(a) + Len(x)
    BY <1>1, <1>2, <1>3 DEF Joined
  <2>2. ASSUME NEW i \in 1 .. Len(a) PROVE z[i] = a[i]
    BY <1>1, <1>2, <1>3 DEF Joined
  <2>3. ASSUME NEW i \in 1 .. Len(x) PROVE z[Len(a) + i] = x[i]
    <3>1. CASE i \in 1 .. Len(b)
      <4>1. x[i] = b[i]
        BY <1>1, <3>1 DEF Joined
      <4>2. y[Len(a) + i] = b[i] /\ Len(a) + i \in 1 .. Len(y)
        BY <1>2, <3>1 DEF Joined
      <4>3. z[Len(a) + i] = y[Len(a) + i]
        BY <1>3, <4>2 DEF Joined
      <4>. QED BY <4>1, <4>2, <4>3
    <3>2. CASE i \notin 1 .. Len(b)
      <4>1. i - Len(b) \in 1 .. Len(c) /\ i = Len(b) + (i - Len(b))
        BY <1>1, <3>2 DEF Joined
      <4>2. x[i] = c[i - Len(b)]
        BY <1>1, <4>1 DEF Joined
      <4>3. Len(a) + i = Len(y) + (i - Len(b))
        BY <1>2, <4>1 DEF Joined
      <4>4. z[Len(y) + (i - Len(b))] = c[i - Len(b)]
        BY <1>3, <4>1 DEF Joined
      <4>. QED BY <4>2, <4>3, <4>4
    <3>. QED BY <3>1, <3>2
  <2>. QED BY <2>1, <2>2, <2>3 DEF Joined
<1>. QED BY <1>1, <1>3, <1>4 DEF x, y, z

LEMMA ByteWords ==
  /\ {"rows", "norows", "complete", "error", "ready", "notice", "e"} \subseteq Headers /\ Headers \subseteq Byte
  /\ {"l", "lf", "u", "U", "BEGIN", "COMMIT", "ROLLBACK"} \subseteq Headers
  /\ {"chunk", "end", "fmt", "block", "done", "sockerr"} \subseteq Byte
  /\ <<>> \in Seq(Byte)
  /\ <<"ready">> \in Seq(Byte) /\ Only(<<"ready">>, "ready")
  /\ <<"complete">> \in Seq(Byte) /\ Only(<<"complete">>, "complete")
  /\ <<"error", "ready">> \in Seq(Byte) /\ Len(<<"error", "ready">>) = 2
  /\ <<"error", "ready">>[1] = "error" /\ <<"error", "ready">>[2] = "ready"
  /\ <<"notice", "complete">> \in Seq(Byte) /\ Len(<<"notice", "complete">>) = 2
  /\ <<"notice", "complete">>[1] = "notice" /\ <<"notice", "complete">>[2] = "complete"
  /\ <<"e", "chunk", "end">> \in Seq(Byte) /\ Len(<<"e", "chunk", "end">>) = 3
  /\ <<"e", "chunk", "end">>[1] = "e" /\ <<"e", "chunk", "end">>[2] = "chunk"
  /\ <<"e", "chunk", "end">>[3] = "end"
BY DEF Byte, Headers, Parts, Only

\* The answer of a statement: what it says first, and how it ends
Opening(a) ==
  /\ a \in Seq(Byte) /\ Len(a) \in Nat
  /\ Len(a) > 0 => /\ a[1] \in Headers /\ Enters(a[Len(a)]) = "top"
                   /\ \A i \in 1 .. Len(a) - 1 : a[i + 1] \in Allowed(Enters(a[i]))
                   /\ \A i \in 1 .. Len(a) : a[i] # "ready"

LEMMA Headed ==
  ASSUME NEW h \in Headers PROVE h \in Allowed("top")
BY DEF Allowed

LEMMA AnswerFlows ==
  ASSUME NEW a, Opening(a), NEW b \in Seq(Byte), Len(b) \in {1, 2}, b[Len(b)] = "ready",
         Len(b) = 2 => b[1] \in Headers \ {"ready"} /\ Enters(b[1]) = "top",
         NEW x \in Seq(Byte), Joined(a, b, x)
  PROVE  /\ Len(x) \in Nat \ {0} /\ x[Len(x)] = "ready" /\ (\A i \in 1 .. Len(x) - 1 : x[i] # "ready")
         /\ Flows(x)
         /\ \A i \in 1 .. Len(x) : x[i] = "ready" \/ (Len(b) = 2 /\ x[i] = b[1])
                                   \/ \E j \in 1 .. Len(a) : x[i] = a[j]
<1>1. /\ Len(a) \in Nat /\ Len(x) = Len(a) + Len(b) /\ Len(x) \in Nat \ {0}
      /\ \A i \in 1 .. Len(a) : x[i] = a[i]
      /\ \A i \in 1 .. Len(b) : x[Len(a) + i] = b[i]
  BY DEF Joined, Opening
<1>2. x[Len(x)] = "ready"
  <2>1. Len(b) \in 1 .. Len(b)
    OBVIOUS
  <2>2. x[Len(a) + Len(b)] = b[Len(b)]
    BY <1>1, <2>1
  <2>. QED BY <1>1, <2>2
<1>3. ASSUME NEW i \in 1 .. Len(x)
      PROVE  \/ i \in 1 .. Len(a) /\ x[i] = a[i]
             \/ i = Len(x)
             \/ Len(b) = 2 /\ i = Len(x) - 1 /\ x[i] = b[1] /\ i = Len(a) + 1
  <2>1. CASE i <= Len(a)
    <3>1. i \in 1 .. Len(a)
      BY <1>1, <2>1
    <3>. QED BY <1>1, <3>1
  <2>2. CASE i > Len(a) /\ Len(b) = 1
    BY <1>1, <2>2
  <2>3. CASE i > Len(a) /\ Len(b) = 2
    <3>1. 1 \in 1 .. Len(b)
      BY <2>3
    <3>2. x[Len(a) + 1] = b[1]
      BY <1>1, <3>1
    <3>3. i = Len(x) \/ i = Len(a) + 1
      BY <1>1, <2>3
    <3>. QED BY <1>1, <2>3, <3>2, <3>3
  <2>. QED BY <1>1, <2>1, <2>2, <2>3
<1>4. \A i \in 1 .. Len(x) - 1 : x[i] # "ready"
  <2>1. ASSUME NEW i \in 1 .. Len(x) - 1 PROVE x[i] # "ready"
    <3>1. i \in 1 .. Len(x) /\ i # Len(x)
      BY <1>1
    <3>. QED BY <1>3, <3>1 DEF Opening
  <2>. QED BY <2>1
<1>5. \A i \in 1 .. Len(x) : x[i] = "ready" \/ (Len(b) = 2 /\ x[i] = b[1])
                                   \/ \E j \in 1 .. Len(a) : x[i] = a[j]
  BY <1>2, <1>3
<1>6. x[1] \in Headers
  <2>1. CASE Len(a) > 0
    BY <1>1, <2>1 DEF Opening
  <2>2. CASE Len(a) = 0
    <3>1. x[1] = b[1] /\ (Len(b) = 1 => b[1] = "ready")
      BY <1>1, <2>2
    <3>. QED BY <3>1, ByteWords
  <2>. QED BY <1>1, <2>1, <2>2
<1>7. Enters(x[Len(x)]) = "top"
  BY <1>2 DEF Enters
<1>8. ASSUME NEW i \in 1 .. Len(x) - 1 PROVE x[i + 1] \in Allowed(Enters(x[i]))
  <2>0. i \in Nat /\ i + 1 \in 1 .. Len(x) /\ i \in 1 .. Len(x)
    BY <1>1
  <2>1. CASE i + 1 \in 1 .. Len(a)
    <3>1. x[i] = a[i] /\ x[i + 1] = a[i + 1] /\ i \in 1 .. Len(a) - 1 /\ Len(a) > 0
      BY <1>1, <2>0, <2>1
    <3>. QED BY <3>1 DEF Opening
  <2>2. CASE i + 1 \notin 1 .. Len(a)
    <3>1. x[i + 1] \in Headers
      <4>1. i + 1 = Len(x) \/ (Len(b) = 2 /\ x[i + 1] = b[1])
        BY <1>3, <2>0, <2>2
      <4>. QED BY <1>2, <4>1, ByteWords
    <3>2. Enters(x[i]) = "top"
      <4>1. CASE i \in 1 .. Len(a)
        <5>1. i = Len(a) /\ x[i] = a[i] /\ Len(a) > 0
          BY <1>1, <2>0, <2>2, <4>1
        <5>. QED BY <5>1 DEF Opening
      <4>2. CASE i \notin 1 .. Len(a)
        <5>1. Len(b) = 2 /\ x[i] = b[1]
          BY <1>1, <1>3, <2>0, <4>2
        <5>. QED BY <5>1
      <4>. QED BY <4>1, <4>2
    <3>. QED BY <3>1, <3>2, Headed
  <2>. QED BY <2>1, <2>2
<1>. QED BY <1>1, <1>2, <1>4, <1>5, <1>6, <1>7, <1>8 DEF Flows

LEMMA FinishIs ==
  ASSUME Basic, NEW w, NEW a, Finish(w, a), Opening(a), srv.what # "none"
  PROVE  \E x : /\ Settles(x) /\ srv'.txn = srv.txn
                /\ \A i \in 1 .. Len(x) : x[i] = "ready" \/ \E j \in 1 .. Len(a) : x[i] = a[j]
                /\ work' = w /\ table' = IF srv.txn = "none" THEN work' ELSE table
<1>. DEFINE b == <<"ready">>
<1>1. /\ wire' = (wire \o a) \o b
      /\ srv' = [srv EXCEPT !.what = "none", !.of = 0, !.st = "none", !.buf = <<>>]
      /\ work' = w /\ table' = IF srv.txn = "none" THEN w ELSE table
  BY DEF Finish
<1>2. wire \in Seq(Byte) /\ srv \in ServerRecord
  BY DEF Basic, Shape, Types, Byte
<1>3. b \in Seq(Byte) /\ Only(b, "ready")
  BY ByteWords
<1>. HIDE DEF b
<1>4. PICK x \in Seq(Byte) : Joined(a, b, x) /\ wire' \in Seq(Byte) /\ Joined(wire, x, wire')
  <2>1. a \in Seq(Byte)
    BY DEF Opening
  <2>. QED BY <1>1, <1>2, <1>3, <2>1, Concat3
<1>5. /\ Len(x) \in Nat \ {0} /\ x[Len(x)] = "ready" /\ (\A i \in 1 .. Len(x) - 1 : x[i] # "ready")
      /\ Flows(x)
      /\ \A i \in 1 .. Len(x) : x[i] = "ready" \/ (Len(b) = 2 /\ x[i] = b[1])
                                   \/ \E j \in 1 .. Len(a) : x[i] = a[j]
  <2>1. Len(b) \in {1, 2} /\ b[Len(b)] = "ready" /\ Len(b) # 2
    BY <1>3 DEF Only
  <2>. QED BY <1>3, <1>4, <2>1, AnswerFlows
<1>6. Len(b) # 2
  BY <1>3 DEF Only
<1>7. /\ srv' \in ServerRecord /\ srv'.up = srv.up /\ srv'.what = "none" /\ srv'.st = "none"
      /\ srv'.of = 0 /\ srv'.buf = <<>> /\ srv'.txn = srv.txn
  <2>1. 0 \in 0 .. MaxCalls /\ <<>> \in Seq(0 .. MaxCalls)
    BY LoadDataAssumption
  <2>. QED BY <1>1, <1>2, <2>1 DEF ServerRecord
<1>8. Settles(x)
  BY <1>4, <1>5, <1>7 DEF Settles, Adds
<1>. QED BY <1>1, <1>5, <1>6, <1>7, <1>8

LEMMA FailIs ==
  ASSUME Basic, NEW a, Fail(a), Opening(a), srv.what \notin Turns \cup {"none"},
         srv.st \in {"run", "end", "abort"},
         \A i \in 1 .. Len(a) : a[i] \in {"e", "chunk", "end"} /\ srv.what \in {"insert", "copy"}
  PROVE  Fails
<1>. DEFINE b == <<"error", "ready">>
<1>1. /\ wire' = (wire \o a) \o b
      /\ srv' = [srv EXCEPT !.what = "none", !.of = 0, !.st = "none", !.buf = <<>>,
                        !.txn = IF srv.txn = "none" THEN "none" ELSE "failed"]
      /\ UNCHANGED <<work, table>>
  BY DEF Fail
<1>2. wire \in Seq(Byte) /\ srv \in ServerRecord
  BY DEF Basic, Shape, Types, Byte
<1>3. b \in Seq(Byte) /\ Len(b) = 2 /\ b[1] = "error" /\ b[2] = "ready"
  BY ByteWords
<1>. HIDE DEF b
<1>4. PICK x \in Seq(Byte) : Joined(a, b, x) /\ wire' \in Seq(Byte) /\ Joined(wire, x, wire')
  <2>1. a \in Seq(Byte)
    BY DEF Opening
  <2>. QED BY <1>1, <1>2, <1>3, <2>1, Concat3
<1>5. /\ Len(x) \in Nat \ {0} /\ x[Len(x)] = "ready" /\ (\A i \in 1 .. Len(x) - 1 : x[i] # "ready")
      /\ Flows(x)
      /\ \A i \in 1 .. Len(x) : x[i] = "ready" \/ (Len(b) = 2 /\ x[i] = b[1])
                                   \/ \E j \in 1 .. Len(a) : x[i] = a[j]
  <2>1. Len(b) \in {1, 2} /\ b[Len(b)] = "ready"
    BY <1>3
  <2>2. Len(b) = 2 => b[1] \in Headers \ {"ready"} /\ Enters(b[1]) = "top"
    BY <1>3, ByteWords DEF Enters
  <2>3. x \in Seq(Byte) /\ Joined(a, b, x) /\ b \in Seq(Byte) /\ Opening(a)
    BY <1>3, <1>4
  <2>. HIDE <1>3, <1>4
  <2>. QED BY <2>1, <2>2, <2>3, AnswerFlows
<1>6. /\ srv' \in ServerRecord /\ srv'.up = srv.up /\ srv'.what = "none" /\ srv'.st = "none"
      /\ srv'.of = 0 /\ srv'.buf = <<>> /\ srv'.txn = IF srv.txn = "none" THEN "none" ELSE "failed"
  <2>1. 0 \in 0 .. MaxCalls /\ <<>> \in Seq(0 .. MaxCalls)
    BY LoadDataAssumption
  <2>. QED BY <1>1, <1>2, <2>1 DEF ServerRecord
<1>7. Settles(x)
  BY <1>4, <1>5, <1>6 DEF Settles, Adds
<1>8. Alike(x)
  BY <1>3, <1>5 DEF Alike
<1>9. \E i \in 1 .. Len(x) : x[i] = "error"
  <2>1. Len(a) + 1 \in 1 .. Len(x) /\ x[Len(a) + 1] = b[1]
    BY <1>3, <1>4 DEF Joined, Opening
  <2>. QED BY <1>3, <2>1
<1>. QED BY <1>1, <1>6, <1>7, <1>8, <1>9 DEF Fails

LEMMA OpensOne ==
  ASSUME NEW a \in Seq(Byte), NEW m \in {"rows", "norows", "complete"}, Only(a, m)
  PROVE  Opening(a) /\ \A i \in 1 .. Len(a) : a[i] = m
<1>1. Len(a) = 1 /\ a[1] = m
  BY DEF Only
<1>2. m \in Headers /\ Enters(m) = "top" /\ m # "ready"
  BY DEF Headers, Enters
<1>. QED BY <1>1, <1>2 DEF Opening

LEMMA OpensTwo ==
  ASSUME NEW a \in Seq(Byte), Len(a) = 2, a[1] = "notice", a[2] = "complete"
  PROVE  Opening(a) /\ \A i \in 1 .. Len(a) : a[i] \in {"notice", "complete"}
<1>1. \A i \in 1 .. Len(a) : i = 1 \/ i = 2
  OBVIOUS
<1>2. a[1] \in Headers /\ Enters(a[2]) = "top" /\ a[2] \in Allowed(Enters(a[1]))
  BY DEF Headers, Enters, Allowed
<1>3. \A i \in 1 .. Len(a) - 1 : i = 1
  OBVIOUS
<1>. QED BY <1>1, <1>2, <1>3 DEF Opening

\* The log file of the bad rows
LEMMA OpensLog ==
  ASSUME NEW a \in Seq(Byte), Len(a) = 3, a[1] = "e", a[2] = "chunk", a[3] = "end"
  PROVE  Opening(a) /\ \A i \in 1 .. Len(a) : a[i] \in {"e", "chunk", "end"}
<1>1. \A i \in 1 .. Len(a) : i = 1 \/ i = 2 \/ i = 3
  OBVIOUS
<1>2. a[1] \in Headers /\ Enters(a[3]) = "top" /\ a[2] \in Allowed(Enters(a[1]))
      /\ a[3] \in Allowed(Enters(a[2]))
  BY DEF Headers, Enters, Allowed
<1>3. \A i \in 1 .. Len(a) - 1 : i = 1 \/ i = 2
  OBVIOUS
<1>. QED BY <1>1, <1>2, <1>3 DEF Opening

LEMMA OpensBoth ==
  ASSUME NEW a \in Seq(Byte), Len(a) = 3, a[1] = "e", a[2] = "chunk", a[3] = "end",
         NEW b \in Seq(Byte), Only(b, "complete"), NEW x \in Seq(Byte), Joined(a, b, x)
  PROVE  Opening(x) /\ \A i \in 1 .. Len(x) : x[i] \in {"e", "chunk", "end", "complete"}
<1>0. 1 \in 1 .. Len(a) /\ 2 \in 1 .. Len(a) /\ 3 \in 1 .. Len(a) /\ 1 \in 1 .. Len(b)
  BY DEF Only
<1>1. Len(x) = 4 /\ x[1] = "e" /\ x[2] = "chunk" /\ x[3] = "end" /\ x[4] = "complete"
  <2>1. x[Len(a) + 1] = b[1]
    BY <1>0 DEF Joined
  <2>. QED BY <1>0, <2>1 DEF Joined, Only
<1>2. \A i \in 1 .. Len(x) : i = 1 \/ i = 2 \/ i = 3 \/ i = 4
  BY <1>1
<1>3. x[1] \in Headers /\ Enters(x[4]) = "top" /\ x[2] \in Allowed(Enters(x[1]))
      /\ x[3] \in Allowed(Enters(x[2])) /\ x[4] \in Allowed(Enters(x[3]))
  BY <1>1 DEF Headers, Enters, Allowed
<1>4. \A i \in 1 .. Len(x) - 1 : i = 1 \/ i = 2 \/ i = 3
  BY <1>1
<1>. QED BY <1>1, <1>2, <1>3, <1>4 DEF Opening

LEMMA OpensNone == Opening(<<>>)
BY ByteWords DEF Opening

LEMMA EndOrBeginIs ==
  ASSUME Basic, EndOrBegin PROVE TurnsOver
<1>. DEFINE m == CASE srv.what = "begin" -> "BEGIN" [] srv.what = "commit" -> "COMMIT"
                   [] OTHER -> "ROLLBACK"
            x == <<m, "ready">>
<1>1. /\ srv.what \in Turns /\ wire' = wire \o x
      /\ srv' = [srv EXCEPT !.what = "none", !.of = 0, !.st = "none",
                        !.txn = IF srv.what # "begin" THEN "none"
                                ELSE IF srv.txn = "none" THEN "open" ELSE srv.txn]
      /\ table' = IF srv.what = "commit" /\ srv.txn = "open" THEN work ELSE table
      /\ work' = IF (srv.what = "commit" /\ srv.txn = "open") \/ srv.txn = "none" \/ srv.what = "begin"
                 THEN work ELSE table
  BY DEF EndOrBegin, Turns
<1>2. m = TagOf(srv.what) /\ m \in Headers \ {"ready"} /\ Enters(m) = "top"
  <2>1. CASE srv.what = "begin"
    BY <2>1 DEF TagOf, Headers, Enters
  <2>2. CASE srv.what = "commit"
    BY <2>2 DEF TagOf, Headers, Enters
  <2>3. CASE srv.what = "rollback"
    BY <2>3 DEF TagOf, Headers, Enters
  <2>. QED BY <1>1, <2>1, <2>2, <2>3 DEF Turns
<1>. HIDE DEF m
<1>3. x \in Seq(Byte) /\ Len(x) = 2 /\ x[1] = m /\ x[2] = "ready"
  BY <1>2, ByteWords
<1>. HIDE DEF x
<1>4. wire \in Seq(Byte) /\ srv \in ServerRecord
  BY DEF Basic, Shape, Types, Byte
<1>5. Adds(x)
  BY <1>1, <1>3, <1>4, Concat DEF Adds
<1>6. /\ srv' \in ServerRecord /\ srv'.up = srv.up /\ srv'.what = "none" /\ srv'.st = "none"
      /\ srv'.of = 0 /\ srv'.buf = srv.buf /\ srv.what # "none"
      /\ srv'.txn = IF srv.what # "begin" THEN "none" ELSE IF srv.txn = "none" THEN "open" ELSE srv.txn
  <2>1. 0 \in 0 .. MaxCalls
    BY LoadDataAssumption
  <2>2. srv.txn \in {"none", "open", "failed"}
    BY <1>4 DEF ServerRecord
  <2>. DEFINE tx == IF srv.what # "begin" THEN "none" ELSE IF srv.txn = "none" THEN "open" ELSE srv.txn
  <2>3. tx \in {"none", "open", "failed"}
    BY <2>2
  <2>4. srv' = [srv EXCEPT !.what = "none", !.of = 0, !.st = "none", !.txn = tx]
    BY <1>1
  <2>5. srv.what # "none"
    BY <1>1 DEF Turns
  <2>6. tx = IF srv.what # "begin" THEN "none" ELSE IF srv.txn = "none" THEN "open" ELSE srv.txn
    OBVIOUS
  <2>. HIDE DEF tx
  <2>7. /\ srv' \in ServerRecord /\ srv'.up = srv.up /\ srv'.what = "none" /\ srv'.st = "none"
        /\ srv'.of = 0 /\ srv'.buf = srv.buf /\ srv'.txn = tx
    <3>. HIDE <1>1
    <3>. QED BY <1>4, <2>1, <2>3, <2>4 DEF ServerRecord
  <2>. QED BY <2>5, <2>6, <2>7
<1>7. srv.buf = <<>>
  BY <1>1 DEF Basic, Serves, Turns
<1>8. Flows(x)
  <2>1. x[1] \in Headers /\ x[2] \in Allowed(Enters(x[1])) /\ Enters(x[2]) = "top"
    BY <1>2, <1>3, ByteWords, Headed DEF Enters
  <2>2. \A i \in 1 .. Len(x) - 1 : i = 1
    BY <1>3
  <2>. QED BY <1>3, <2>1, <2>2 DEF Flows
<1>9. Settles(x)
  <2>1. \A i \in 1 .. Len(x) - 1 : x[i] # "ready"
    BY <1>2, <1>3
  <2>2. Len(x) \in Nat \ {0} /\ x[Len(x)] = "ready"
    BY <1>3
  <2>. QED BY <2>1, <2>2, <1>5, <1>6, <1>7, <1>8 DEF Settles
<1>. QED BY <1>1, <1>2, <1>3, <1>6, <1>9 DEF TurnsOver

LEMMA HeadIn ==
  ASSUME NEW S, NEW s \in Seq(S), s # <<>> PROVE Head(s) \in S
<1>1. Head(s) = s[1] /\ 1 \in 1 .. Len(s)
  BY TailOf
<1>. QED BY <1>1

LEMMA SimpleIs ==
  ASSUME Basic, Simple PROVE Succeeds
<1>. DEFINE cat == <<IF work.exists THEN "rows" ELSE "norows">>
            done == <<"complete">>
            both == <<"notice", "complete">>
<1>1. /\ Opening(cat) /\ \A i \in 1 .. Len(cat) : cat[i] \in {"rows", "norows"}
      /\ Opening(done) /\ \A i \in 1 .. Len(done) : done[i] \in {"complete"}
      /\ Opening(both) /\ \A i \in 1 .. Len(both) : both[i] \in {"notice", "complete"}
  <2>1. cat \in Seq(Byte) /\ Only(cat, IF work.exists THEN "rows" ELSE "norows")
    BY DEF Byte, Headers, Only
  <2>. HIDE DEF cat
  <2>2. Opening(cat) /\ \A i \in 1 .. Len(cat) : cat[i] \in {"rows", "norows"}
    BY <2>1, OpensOne
  <2>3. Opening(done) /\ \A i \in 1 .. Len(done) : done[i] = "complete"
    BY ByteWords, OpensOne
  <2>4. Opening(both) /\ \A i \in 1 .. Len(both) : both[i] \in {"notice", "complete"}
    BY ByteWords, OpensTwo
  <2>. QED BY <2>2, <2>3, <2>4
<1>2. work \in Table /\ table \in Table /\ srv \in ServerRecord
  BY DEF Basic, Shape, Types
<1>. DEFINE made == [work EXCEPT !.exists = TRUE]
            grown == [work EXCEPT !.rows = @ \cup {Complete(srv.of)}]
<1>3. /\ made \in Table /\ made.exists /\ made.rows = work.rows
      /\ grown \in Table /\ grown.exists = work.exists /\ grown.rows = work.rows \cup {Complete(srv.of)}
  <2>1. Complete(srv.of) \in Row
    BY <1>2, LoadDataAssumption DEF Complete, Row, ServerRecord
  <2>. QED BY <1>2, <2>1 DEF Table
<1>4. ASSUME NEW w \in Table, NEW a, Opening(a), srv.what \notin Turns, srv.what # "none", Finish(w, a),
             \A i \in 1 .. Len(a) : a[i] \in {"rows", "norows", "complete", "notice"},
             \/ srv.what \in {"catalog", "unload"} /\ w = work
             \/ srv.what = "create" /\ ~work.exists /\ w.exists /\ w.rows = work.rows
                /\ srv.txn # "failed"
             \/ srv.what = "stmt" /\ work.exists /\ w.exists
                /\ w.rows = work.rows \cup {Complete(srv.of)} /\ srv.txn # "failed"
      PROVE  Succeeds
  <2>1. PICK x : /\ Settles(x) /\ srv'.txn = srv.txn
                 /\ \A i \in 1 .. Len(x) : x[i] = "ready" \/ \E j \in 1 .. Len(a) : x[i] = a[j]
                 /\ work' = w /\ table' = IF srv.txn = "none" THEN work' ELSE table
    BY <1>4, FinishIs
  <2>2. \A i \in 1 .. Len(x) : x[i] \in {"rows", "norows", "complete", "notice", "ready"}
    BY <1>4, <2>1
  <2>3. Alike(x) /\ \A i \in 1 .. Len(x) : x[i] # "error"
    BY <2>2 DEF Alike
  <2>. QED BY <1>4, <2>1, <2>3 DEF Succeeds, Brings
<1>5. CASE Works("catalog") /\ Finish(work, cat)
  <2>1. srv.what = "catalog" /\ srv.what \notin Turns /\ srv.what # "none"
    BY <1>5 DEF Works, Turns
  <2>. HIDE DEF cat
  <2>. QED BY <1>1, <1>2, <1>4, <1>5, <2>1
<1>6. CASE Works("create") /\ ~work.exists /\ Finish(made, done)
  <2>1. srv.what = "create" /\ srv.what \notin Turns /\ srv.what # "none" /\ srv.txn # "failed"
    BY <1>6 DEF Works, Turns
  <2>. HIDE DEF made, done
  <2>. QED BY <1>1, <1>3, <1>4, <1>6, <2>1
<1>7. CASE Works("stmt") /\ work.exists /\ Finish(grown, both)
  <2>1. srv.what = "stmt" /\ srv.what \notin Turns /\ srv.what # "none" /\ srv.txn # "failed"
    BY <1>7 DEF Works, Turns
  <2>. HIDE DEF grown, both
  <2>. QED BY <1>1, <1>3, <1>4, <1>7, <2>1
<1>. QED BY <1>5, <1>6, <1>7 DEF Simple

\* The rows that came in
LEMMA StoreIs ==
  ASSUME Basic, StoreRows PROVE Succeeds
<1>. DEFINE w == [work EXCEPT !.rows = @ \cup {Stored}]
            done == <<"complete">>
<1>1. srv.st = "end" /\ srv.what \in {"insert", "copy"} /\ srv.what \notin Turns /\ srv.what # "none"
      /\ work.exists
  BY DEF StoreRows, Basic, Serves, Turns
<1>2. work \in Table /\ srv \in ServerRecord
  BY DEF Basic, Shape, Types
<1>3. w \in Table /\ w.exists = work.exists /\ w.rows = work.rows \cup {Stored}
  <2>1. Stored \in Row
    <3>1. srv.of \in 0 .. MaxCalls /\ srv.buf \in Seq(0 .. MaxCalls) /\ 0 \in 0 .. MaxCalls
      BY <1>2, LoadDataAssumption DEF ServerRecord
    <3>2. Len(srv.buf) \in Nat
      BY <3>1
    <3>3. srv.buf # <<>> => Head(srv.buf) \in 0 .. MaxCalls
      BY <3>1, HeadIn
    <3>4. (IF srv.buf = <<>> THEN 0 ELSE Head(srv.buf)) \in 0 .. MaxCalls
      BY <3>1, <3>3
    <3>. QED BY <3>1, <3>2, <3>4 DEF Stored, Row
  <2>. QED BY <1>2, <2>1 DEF Table
<1>. HIDE DEF w
<1>4. PICK log \in {<<>>, <<"e", "chunk", "end">>} : Finish(w, log \o done)
  BY DEF StoreRows, w
<1>5. done \in Seq(Byte) /\ Only(done, "complete")
  BY ByteWords
<1>. HIDE DEF done
<1>6. PICK a : /\ a = log \o done /\ Opening(a)
               /\ \A i \in 1 .. Len(a) : a[i] \in {"e", "chunk", "end", "complete"}
  <2>1. CASE log = <<>>
    <3>1. log \o done = done
      BY <1>5, <2>1
    <3>2. Opening(done) /\ \A i \in 1 .. Len(done) : done[i] = "complete"
      BY <1>5, OpensOne
    <3>. QED BY <3>1, <3>2
  <2>2. CASE log = <<"e", "chunk", "end">>
    <3>1. log \in Seq(Byte) /\ Len(log) = 3 /\ log[1] = "e" /\ log[2] = "chunk" /\ log[3] = "end"
      BY <2>2, ByteWords
    <3>. HIDE <2>2
    <3>2. log \o done \in Seq(Byte) /\ Joined(log, done, log \o done)
      BY <3>1, <1>5, Concat
    <3>3. /\ Opening(log \o done)
          /\ \A i \in 1 .. Len(log \o done) : (log \o done)[i] \in {"e", "chunk", "end", "complete"}
      BY <3>1, <3>2, <1>5, OpensBoth
    <3>. QED BY <3>3
  <2>. QED BY <2>1, <2>2
<1>7. PICK x : /\ Settles(x) /\ srv'.txn = srv.txn
               /\ \A i \in 1 .. Len(x) : x[i] = "ready" \/ \E j \in 1 .. Len(a) : x[i] = a[j]
               /\ work' = w /\ table' = IF srv.txn = "none" THEN work' ELSE table
  <2>1. Finish(w, a) /\ Opening(a) /\ srv.what # "none"
    BY <1>1, <1>4, <1>6
  <2>. HIDE <1>1, <1>4, <1>6
  <2>. QED BY <2>1, FinishIs
<1>8. \A i \in 1 .. Len(x) : x[i] \in {"e", "chunk", "end", "complete", "ready"}
  BY <1>6, <1>7
<1>9. Alike(x) /\ \A i \in 1 .. Len(x) : x[i] # "error"
  BY <1>1, <1>8 DEF Alike
<1>. QED BY <1>1, <1>3, <1>7, <1>9 DEF Succeeds, Brings

LEMMA GoesOnIs ==
  ASSUME Basic, NEW m \in {"l", "lf", "fmt", "u"}, NEW st \in {"hello", "data"},
         wire' = Append(wire, m), srv' = [srv EXCEPT !.st = st]
  PROVE  /\ \E x : Adds(x) /\ Only(x, m)
         /\ srv' \in ServerRecord /\ srv'.up = srv.up /\ srv'.txn = srv.txn /\ srv'.what = srv.what
         /\ srv'.of = srv.of /\ srv'.buf = srv.buf /\ srv'.st = st
<1>1. wire \in Seq(Byte) /\ srv \in ServerRecord
  BY DEF Basic, Shape, Types, Byte
<1>2. <<m>> \in Seq(Byte) /\ Only(<<m>>, m)
  BY DEF Byte, Headers, Parts, Only
<1>3. wire' = wire \o <<m>>
  BY <1>1
<1>4. Adds(<<m>>)
  BY <1>1, <1>2, <1>3, Concat DEF Adds
<1>5. /\ srv' \in ServerRecord /\ srv'.up = srv.up /\ srv'.txn = srv.txn /\ srv'.what = srv.what
      /\ srv'.of = srv.of /\ srv'.buf = srv.buf /\ srv'.st = st
  BY <1>1 DEF ServerRecord
<1>. QED BY <1>2, <1>4, <1>5

LEMMA AskForDataIs ==
  ASSUME Basic, AskForData \/ (GiveFormat /\ srv.what # "unload") \/ NameFile PROVE GoesOn
<1>1. CASE AskForData
  <2>1. CASE srv.what = "insert"
    <3>1. wire' = Append(wire, "l") /\ srv' = [srv EXCEPT !.st = "hello"] /\ srv.st = "run"
          /\ work.exists /\ srv.txn # "failed" /\ UNCHANGED <<work, table>>
      BY <1>1, <2>1 DEF AskForData, Works
    <3>. QED BY <2>1, <3>1, GoesOnIs DEF GoesOn
  <2>2. CASE srv.what = "copy"
    <3>1. wire' = Append(wire, "lf") /\ srv' = [srv EXCEPT !.st = "hello"] /\ srv.st = "run"
          /\ work.exists /\ srv.txn # "failed" /\ UNCHANGED <<work, table>>
      BY <1>1, <2>2 DEF AskForData, Works
    <3>. QED BY <2>2, <3>1, GoesOnIs DEF GoesOn
  <2>. QED BY <1>1, <2>1, <2>2 DEF AskForData, Works
<1>2. CASE GiveFormat /\ srv.what # "unload"
  <2>1. wire' = Append(wire, "fmt") /\ srv' = [srv EXCEPT !.st = "data"] /\ srv.st = "greeted"
        /\ UNCHANGED <<work, table>>
    BY <1>2 DEF GiveFormat
  <2>2. srv.what \in {"insert", "copy"}
    BY <1>2, <2>1 DEF Basic, Serves
  <2>. QED BY <2>1, <2>2, GoesOnIs DEF GoesOn
<1>3. CASE NameFile
  <2>1. wire' = Append(wire, "u") /\ srv' = [srv EXCEPT !.st = "hello"] /\ srv.st = "run"
        /\ srv.what = "unload" /\ srv.txn # "failed" /\ UNCHANGED <<work, table>>
    BY <1>3 DEF NameFile, Works
  <2>. QED BY <2>1, GoesOnIs DEF GoesOn
<1>. QED BY <1>1, <1>2, <1>3

LEMMA DumpIs ==
  ASSUME Basic, Dump PROVE GoesOn
<1>1. PICK end \in {"done", "sockerr"} : wire' = wire \o <<"U", "block", end>>
  BY DEF Dump
<1>. DEFINE x == <<"U", "block", end>>
<1>2. x \in Seq(Byte) /\ Len(x) = 3 /\ x[1] = "U" /\ x[2] = "block" /\ x[3] = end
  BY DEF Byte, Headers, Parts
<1>3. wire' = wire \o x
  BY <1>1
<1>. HIDE DEF x
<1>4. wire \in Seq(Byte) /\ srv \in ServerRecord
  BY DEF Basic, Shape, Types, Byte
<1>5. Adds(x)
  BY <1>2, <1>3, <1>4, Concat DEF Adds
<1>6. srv.what = "unload" /\ srv.st = "greeted" /\ srv' = [srv EXCEPT !.st = "dumped"]
      /\ UNCHANGED <<work, table>>
  BY DEF Dump
<1>7. /\ srv' \in ServerRecord /\ srv'.up = srv.up /\ srv'.txn = srv.txn /\ srv'.what = srv.what
      /\ srv'.of = srv.of /\ srv'.buf = srv.buf /\ srv'.st = "dumped"
  <2>. HIDE <1>1, <1>3
  <2>. QED BY <1>4, <1>6 DEF ServerRecord
<1>8. UNCHANGED work /\ UNCHANGED table
  BY <1>6
<1>. HIDE <1>1, <1>3
<1>. QED BY <1>2, <1>5, <1>6, <1>7, <1>8 DEF GoesOn

LEMMA DumpedIs ==
  ASSUME Basic, Dumped PROVE Succeeds
<1>. DEFINE a == <<"complete">>
<1>1. srv.what = "unload" /\ Finish(work, a)
  BY DEF Dumped
<1>2. Opening(a) /\ \A i \in 1 .. Len(a) : a[i] = "complete"
  BY ByteWords, OpensOne
<1>. HIDE DEF a
<1>3. srv.what # "none" /\ srv.what \notin Turns
  BY <1>1 DEF Turns
<1>4. PICK x : /\ Settles(x) /\ srv'.txn = srv.txn
               /\ \A i \in 1 .. Len(x) : x[i] = "ready" \/ \E j \in 1 .. Len(a) : x[i] = a[j]
               /\ work' = work /\ table' = IF srv.txn = "none" THEN work' ELSE table
  BY <1>1, <1>2, <1>3, FinishIs
<1>5. \A i \in 1 .. Len(x) : x[i] \in {"complete", "ready"}
  BY <1>2, <1>4
<1>6. Alike(x) /\ \A i \in 1 .. Len(x) : x[i] # "error"
  BY <1>5 DEF Alike
<1>7. work \in Table
  BY DEF Basic, Shape, Types
<1>. QED BY <1>1, <1>3, <1>4, <1>6, <1>7 DEF Succeeds

LEMMA DeadServer ==
  ASSUME Basic, srv' = [Idle EXCEPT !.up = FALSE]
  PROVE  /\ srv' \in ServerRecord /\ ~srv'.up /\ srv'.what = "none" /\ srv'.st = "none" /\ srv'.of = 0
         /\ srv'.buf = <<>> /\ srv'.txn = "none"
<1>1. 0 \in 0 .. MaxCalls /\ <<>> \in Seq(0 .. MaxCalls)
  BY LoadDataAssumption
<1>. QED BY <1>1 DEF Idle, ServerRecord

LEMMA AbortIs ==
  ASSUME Basic, AbortStream PROVE Fails \/ Dies
<1>1. srv.st = "abort" /\ srv.what \in {"insert", "copy"}
  BY DEF AbortStream, Basic, Serves
<1>2. CASE Fail(<<>>)
  <2>1. srv.what \notin Turns \cup {"none"}
    BY <1>1 DEF Turns
  <2>2. \A i \in 1 .. Len(<<>>) : <<>>[i] \in {"e", "chunk", "end"} /\ srv.what \in {"insert", "copy"}
    OBVIOUS
  <2>. QED BY <1>1, <1>2, <2>1, <2>2, OpensNone, FailIs
<1>3. CASE wire' = Append(wire, "error") /\ srv' = [Idle EXCEPT !.up = FALSE]
           /\ work' = table /\ UNCHANGED table
  <2>1. wire \in Seq(Byte)
    BY DEF Basic, Shape, Types, Byte
  <2>2. <<"error">> \in Seq(Byte) /\ Only(<<"error">>, "error")
    BY DEF Byte, Headers, Parts, Only
  <2>3. wire' = wire \o <<"error">>
    BY <1>3, <2>1
  <2>4. Adds(<<"error">>)
    BY <2>1, <2>2, <2>3, Concat DEF Adds
  <2>5. srv.up
    BY <1>1 DEF Basic, Serves
  <2>. QED BY <1>1, <1>3, <2>2, <2>4, <2>5, DeadServer DEF Dies
<1>. QED BY <1>2, <1>3 DEF AbortStream

LEMMA SessionEndsIs ==
  ASSUME Basic, SessionEnds PROVE Dies
<1>1. PICK n \in 0 .. Len(wire) : wire' = SubSeq(wire, 1, n)
  BY DEF SessionEnds
<1>2. wire \in Seq(Byte)
  BY DEF Basic, Shape, Types, Byte
<1>3. wire' \in Seq(Byte) /\ Len(wire') <= Len(wire) /\ \A i \in 1 .. Len(wire') : wire'[i] = wire[i]
  BY <1>1, <1>2
<1>4. srv' = [Idle EXCEPT !.up = FALSE] /\ work' = table /\ table' = table
  BY DEF SessionEnds
<1>. HIDE <1>1
<1>. QED BY <1>3, <1>4, DeadServer DEF Dies

LEMMA StatementFailsIs ==
  ASSUME Basic, StatementFails PROVE Fails
<1>1. CASE srv.st = "run" /\ srv.what \notin {"none", "begin", "commit", "rollback"} /\ Fail(<<>>)
  <2>1. srv.what \notin Turns \cup {"none"}
    BY <1>1 DEF Turns
  <2>2. \A i \in 1 .. Len(<<>>) : <<>>[i] \in {"e", "chunk", "end"} /\ srv.what \in {"insert", "copy"}
    OBVIOUS
  <2>. QED BY <1>1, <2>1, <2>2, OpensNone, FailIs
<1>2. CASE srv.st = "end" /\ Fail(<<"e", "chunk", "end">>)
  <2>. DEFINE a == <<"e", "chunk", "end">>
  <2>1. Fail(a) /\ srv.what \in {"insert", "copy"} /\ srv.what \notin Turns \cup {"none"}
    BY <1>2 DEF Basic, Serves, Turns
  <2>2. Opening(a) /\ \A i \in 1 .. Len(a) : a[i] \in {"e", "chunk", "end"}
    BY ByteWords, OpensLog
  <2>. HIDE DEF a
  <2>. QED BY <1>2, <2>1, <2>2, FailIs
<1>. QED BY <1>1, <1>2 DEF StatementFails

LEMMA ServerIs ==
  ASSUME Basic, ServerStep \/ StatementFails \/ SessionEnds
  PROVE  Succeeds \/ Fails \/ TurnsOver \/ GoesOn \/ Dies
BY EndOrBeginIs, SimpleIs, StoreIs, AskForDataIs, DumpIs, DumpedIs, AbortIs, SessionEndsIs, StatementFailsIs
   DEF ServerStep

-----------------------------------------------------------------------------
(* What a step is *)

\* The steps of a task that is in a call: it ends, or it goes on
Ending(t) == Quits(t) \/ BreaksOff(t) \/ Stumbles(t) \/ Finishes(t)
Going(t) ==
  \/ Drained(t) \/ ReadsOn(t) \/ EntersFrame(t) \/ NextStatement(t) \/ Unwinds(t)
  \/ ReadyPlans(t) \/ CollectPlans(t) \/ Collects(t) \/ Transmits(t) \/ Discards(t)
  \/ Greets(t) \/ SendsBatch(t) \/ EndsStream(t, "end") \/ EndsStream(t, "abort") \/ ReadsPart(t)
Serving == Succeeds \/ Fails \/ TurnsOver \/ GoesOn \/ Dies

LEMMA NextIs ==
  ASSUME Basic, [Next]_vars
  PROVE  \/ UNCHANGED vars
         \/ \E t \in Tasks : (Ending(t) \/ Going(t)) /\ UNCHANGED <<scene, calls, work, table>>
         \/ \E t \in Tasks, kind \in Others \cup {"load"} :
              (Refused(t, kind) \/ Starts(t, kind)) /\ UNCHANGED <<scene, work, table>>
         \/ Serving /\ UNCHANGED <<scene, conn, pc, call, calls, outcome, appTxn, misread>>
<1>1. CASE UNCHANGED vars
  BY <1>1
<1>2. ASSUME NEW t \in Tasks, Load(t) \/ Other(t)
      PROVE  \E kind \in Others \cup {"load"} :
               (Refused(t, kind) \/ Starts(t, kind)) /\ UNCHANGED <<scene, work, table>>
  <2>1. CASE Load(t)
    <3>1. PICK args \in Loads : Start(t, "load", args)
      BY <2>1 DEF Load
    <3>. QED BY <3>1, StartIs DEF Start
  <2>2. CASE Other(t)
    <3>1. PICK kind \in Others, bad \in {0, 1} : Sane(kind) /\ Start(t, kind, [bad |-> bad])
      BY <2>2 DEF Other
    <3>2. Refused(t, kind) \/ Starts(t, kind)
      BY <3>1, StartIs
    <3>. QED BY <3>1, <3>2 DEF Start
  <2>. QED BY <1>2, <2>1, <2>2
<1>3. ASSUME NEW t \in Tasks, Client(t) \/ Cancel(t)
      PROVE  (Ending(t) \/ Going(t)) /\ UNCHANGED <<scene, calls, work, table>>
  <2>1. UNCHANGED <<scene, calls, work, table>>
    BY <1>3 DEF Client, Cancel, Collect, Send, Header, EndOfStream, DrainGivesUp, Hello, SendBatch,
       SendDone, StreamFails, Unload, LogFile
  <2>2. CASE Collect(t)
    BY <2>1, <2>2, CollectIs DEF Ending, Going
  <2>3. CASE Send(t)
    BY <2>1, <2>3, SendIs DEF Ending, Going
  <2>4. CASE Header(t)
    BY <2>1, <2>4, HeaderIs DEF Ending, Going
  <2>5. CASE EndOfStream(t) \/ DrainGivesUp(t)
    BY <2>1, <2>5, LostIs DEF Ending
  <2>6. CASE Hello(t)
    BY <2>1, <2>6, HelloIs DEF Going
  <2>7. CASE SendBatch(t)
    BY <2>1, <2>7, BatchIs DEF Going
  <2>8. CASE SendDone(t) \/ StreamFails(t)
    BY <2>1, <2>8, StreamEndIs DEF Going
  <2>9. CASE Unload(t) \/ LogFile(t)
    BY <2>1, <2>9, PartIs DEF Ending, Going
  <2>10. CASE Cancel(t)
    BY <2>1, <2>10, CancelIs DEF Ending
  <2>. QED BY <1>3, <2>2, <2>3, <2>4, <2>5, <2>6, <2>7, <2>8, <2>9, <2>10 DEF Client
<1>4. CASE Server \/ SessionEnds
  <2>1. UNCHANGED <<scene, conn, pc, call, calls, outcome, appTxn, misread>>
    BY <1>4 DEF Server, ServerStep, StatementFails, SessionEnds
  <2>. QED BY <1>4, <2>1, ServerIs DEF Server, Serving
<1>5. CASE Next
  BY <1>1, <1>2, <1>3, <1>4, <1>5 DEF Next
<1>. QED BY <1>1, <1>5

LEMMA WireShifts ==
  ASSUME Basic, wire # <<>>, wire' = Tail(wire)
  PROVE  /\ wire' \in Seq(Headers \cup Parts) /\ Len(wire') = Len(wire) - 1
         /\ \A i \in 1 .. Len(wire') : wire'[i] = wire[i + 1] /\ i + 1 \in 1 .. Len(wire)
         /\ \A m : OnWire(m)' => OnWire(m)
         /\ \A m : OnWire(m) /\ wire[1] # m => OnWire(m)'
<1>1. /\ wire' \in Seq(Headers \cup Parts) /\ Len(wire') = Len(wire) - 1 /\ Len(wire) \in Nat
      /\ \A i \in 1 .. Len(wire) - 1 : wire'[i] = wire[i + 1]
  BY FirstOf
<1>2. \A i \in 1 .. Len(wire') : wire'[i] = wire[i + 1] /\ i + 1 \in 1 .. Len(wire)
  BY <1>1
<1>3. ASSUME NEW m, OnWire(m)' PROVE OnWire(m)
  BY <1>2, <1>3 DEF OnWire
<1>4. ASSUME NEW m, OnWire(m), wire[1] # m PROVE OnWire(m)'
  <2>1. PICK i \in 1 .. Len(wire) : wire[i] = m
    BY <1>4 DEF OnWire
  <2>2. i - 1 \in 1 .. Len(wire) - 1 /\ (i - 1) + 1 = i
    BY <1>1, <1>4, <2>1
  <2>3. wire'[i - 1] = m
    BY <1>1, <2>1, <2>2
  <2>. QED BY <1>1, <2>2, <2>3 DEF OnWire
<1>. QED BY <1>1, <1>2, <1>3, <1>4

LEMMA WireGrows ==
  ASSUME Basic, NEW x, Adds(x)
  PROVE  /\ wire' \in Seq(Headers \cup Parts) /\ Len(wire') = Len(wire) + Len(x)
         /\ Len(wire) \in Nat /\ Len(x) \in Nat
         /\ \A i \in 1 .. Len(wire) : wire'[i] = wire[i]
         /\ \A i \in 1 .. Len(wire') : \/ i \in 1 .. Len(wire) /\ wire'[i] = wire[i]
                                       \/ i - Len(wire) \in 1 .. Len(x) /\ wire'[i] = x[i - Len(wire)]
         /\ \A m : OnWire(m)' => OnWire(m) \/ \E i \in 1 .. Len(x) : x[i] = m
         /\ \A m : OnWire(m) => OnWire(m)'
         /\ \A i \in 1 .. Len(x) : OnWire(x[i])'
<1>1. wire \in Seq(Headers \cup Parts)
  BY DEF Basic, Shape, Types
<1>2. /\ wire' \in Seq(Headers \cup Parts) /\ Len(wire') = Len(wire) + Len(x)
      /\ Len(wire) \in Nat /\ Len(x) \in Nat
      /\ \A i \in 1 .. Len(wire) : wire'[i] = wire[i]
      /\ \A i \in 1 .. Len(x) : wire'[Len(wire) + i] = x[i]
  BY <1>1 DEF Adds, Byte, Joined
<1>3. ASSUME NEW i \in 1 .. Len(wire')
      PROVE  \/ i \in 1 .. Len(wire) /\ wire'[i] = wire[i]
             \/ i - Len(wire) \in 1 .. Len(x) /\ wire'[i] = x[i - Len(wire)]
  <2>1. CASE i <= Len(wire)
    <3>1. i \in 1 .. Len(wire)
      BY <1>2, <2>1
    <3>. QED BY <1>2, <3>1
  <2>2. CASE i > Len(wire)
    <3>1. i - Len(wire) \in 1 .. Len(x) /\ Len(wire) + (i - Len(wire)) = i
      BY <1>2, <2>2
    <3>2. wire'[Len(wire) + (i - Len(wire))] = x[i - Len(wire)]
      BY <1>2, <3>1
    <3>. QED BY <3>1, <3>2
  <2>. QED BY <1>2, <2>1, <2>2
<1>4. ASSUME NEW m, OnWire(m)' PROVE OnWire(m) \/ \E i \in 1 .. Len(x) : x[i] = m
  BY <1>3, <1>4 DEF OnWire
<1>5. ASSUME NEW m, OnWire(m) PROVE OnWire(m)'
  <2>1. PICK i \in 1 .. Len(wire) : wire[i] = m
    BY <1>5 DEF OnWire
  <2>2. i \in 1 .. Len(wire') /\ wire'[i] = m
    BY <1>2, <2>1
  <2>. QED BY <2>2 DEF OnWire
<1>6. ASSUME NEW i \in 1 .. Len(x) PROVE OnWire(x[i])'
  <2>1. Len(wire) + i \in 1 .. Len(wire') /\ wire'[Len(wire) + i] = x[i]
    BY <1>2
  <2>. QED BY <2>1 DEF OnWire
<1>. QED BY <1>2, <1>3, <1>4, <1>5, <1>6

-----------------------------------------------------------------------------
(* Calls and the wire stay with their task *)

\* The last message of an answer leaves nothing.
LEMMA Emptied ==
  ASSUME Basic, wire # <<>>, wire[1] = "ready", wire' = Tail(wire), srv' = srv
  PROVE  wire' = <<>> /\ srv'.what = "none"
<1>1. 1 = Len(wire) /\ srv.what = "none"
  BY FirstOf DEF Basic, Serves
<1>2. wire' \in Seq(Headers \cup Parts) /\ Len(wire') = 0
  BY <1>1, FirstOf
<1>. QED BY <1>1, <1>2, EmptyOne

LEMMA EndingKeeps ==
  ASSUME Basic, NEW t \in Tasks, Ending(t), UNCHANGED <<scene, calls>>
  PROVE  CallsOK' /\ Held'
<1>1. PICK res \in Results \ {"none"} : Active(t) /\ Leaves(t, res)
  BY DEF Ending, Quits, BreaksOff, Stumbles, Finishes, Ready, Active, Results
<1>2. /\ DOMAIN call = Tasks /\ pc \in [Tasks -> Holding \cup {"idle", "collect"}]
      /\ outcome \in [1 .. MaxCalls -> Results] /\ calls \in 0 .. MaxCalls /\ MaxCalls \in Nat
      /\ conn \in ConnRecord
  BY LoadDataAssumption DEF Basic, Shape, Types
<1>3. /\ pc' = [pc EXCEPT ![t] = "idle"] /\ call' = [call EXCEPT ![t] = NoCall]
      /\ outcome' = [outcome EXCEPT ![call[t].id] = res]
      /\ conn'.owner = IF conn.owner = t THEN NoTask ELSE conn.owner
      /\ conn'.source \in {0, conn.source} /\ (call[t].planned => conn'.source = 0)
  BY <1>1 DEF Leaves
<1>4. /\ \A u \in Tasks : Active(u)' => Active(u) /\ u # t
      /\ \A u \in Tasks \ {t} : pc'[u] = pc[u] /\ call'[u] = call[u]
      /\ pc'[t] = "idle"
  BY <1>2, <1>3 DEF Active
<1>5. CallsOK'
  <2>1. ASSUME NEW u \in Tasks, Active(u)'
        PROVE  /\ CallOK(call[u])' /\ call'[u].id \in 1 .. calls' /\ outcome'[call'[u].id] = "none"
               /\ u \in scene'.tasks
               /\ pc'[u] = "collect" <=> call'[u].todo = <<>>
               /\ ~Reads(u)' => ~call'[u].draining
               /\ ~Answers(u)' => ~call'[u].err
    <3>1. /\ CallOK(call[u]) /\ call[u].id \in 1 .. calls /\ outcome[call[u].id] = "none"
          /\ u \in scene.tasks
          /\ pc[u] = "collect" <=> call[u].todo = <<>>
          /\ ~Reads(u) => ~call[u].draining
          /\ ~Answers(u) => ~call[u].err
          /\ call[u].id # call[t].id
      BY <1>1, <1>4, <2>1 DEF Basic, Shape, CallsOK
    <3>2. call'[u] = call[u] /\ pc'[u] = pc[u]
      BY <1>4, <2>1
    <3>3. CallOK(call[u])'
      BY <3>1, <3>2 DEF CallOK, Flags, TodoOK, LoadTodo, OtherTodo, Orderly, Only
    <3>4. outcome'[call'[u].id] = "none"
      BY <1>2, <1>3, <3>1, <3>2
    <3>5. (Reads(u)' <=> Reads(u)) /\ (Answers(u)' <=> Answers(u))
      BY <3>2 DEF Reads, Answers
    <3>. QED BY <3>1, <3>2, <3>3, <3>4, <3>5
  <2>2. ASSUME NEW u \in Tasks, NEW v \in Tasks, Active(u)', Active(v)', u # v
        PROVE  call'[u].id # call'[v].id
    BY <1>4, <2>2 DEF Basic, Shape, CallsOK
  <2>3. ASSUME NEW k \in 1 .. MaxCalls, k > calls' PROVE outcome'[k] = "none"
    <3>1. call[t].id \in 1 .. calls
      BY <1>1 DEF Basic, Shape, CallsOK
    <3>2. k # call[t].id /\ outcome[k] = "none"
      BY <1>2, <2>3, <3>1 DEF Basic, Shape, CallsOK
    <3>. QED BY <1>2, <1>3, <3>2
  <2>. QED BY <2>1, <2>2, <2>3 DEF CallsOK
<1>6. Held'
  <2>1. ASSUME NEW u \in Tasks PROVE pc'[u] \in Holding <=> conn'.owner = u
    <3>1. pc[u] \in Holding <=> conn.owner = u
      BY DEF Basic, Shape, Held
    <3>2. NoTask # u
      BY LoadDataAssumption DEF NoTask
    <3>. QED BY <1>3, <1>4, <3>1, <3>2 DEF Holding
  <2>2. ASSUME NEW u \in Tasks, Reads(u)' PROVE ~conn'.closed /\ conn'.dirty
    <3>1. u # t /\ Reads(u)
      BY <1>4, <2>2 DEF Reads, Readers
    <3>2. conn.owner = u /\ ~conn.closed /\ conn.dirty /\ pc[t] \notin Holding
      BY <3>1 DEF Basic, Shape, Held, Reads, Readers, Holding
    <3>3. pc[t] = "collect"
      BY <1>1, <1>2, <3>2 DEF Active
    <3>4. Quits(t)
      BY <3>3 DEF Ending, BreaksOff, Stumbles, Finishes, Ready
    <3>. QED BY <3>2, <3>3, <3>4 DEF Quits
  <2>3. ~conn'.dirty => wire' = <<>> /\ srv'.what = "none"
    <3>1. CASE Quits(t)
      BY <3>1 DEF Quits, Basic, Shape, Held
    <3>2. CASE BreaksOff(t) \/ Stumbles(t)
      <4>1. conn'.dirty = conn.dirty /\ Reads(t)
        BY <3>2 DEF BreaksOff, Stumbles, Answers, Reads, Readers
      <4>. QED BY <4>1 DEF Basic, Shape, Held
    <3>3. CASE Finishes(t)
      BY <3>3, Emptied DEF Finishes, Ready
    <3>. QED BY <3>1, <3>2, <3>3 DEF Ending
  <2>4. conn'.source # 0 =>
          \E u \in Tasks : conn'.owner = u /\ call'[u].planned /\ call'[u].id = conn'.source
    <3>1. SUFFICES ASSUME conn'.source # 0
          PROVE  \E u \in Tasks : conn'.owner = u /\ call'[u].planned /\ call'[u].id = conn'.source
      OBVIOUS
    <3>2. conn.source # 0 /\ conn'.source = conn.source /\ ~call[t].planned
      BY <1>3, <3>1
    <3>3. PICK u \in Tasks : conn.owner = u /\ call[u].planned /\ call[u].id = conn.source
      BY <3>2 DEF Basic, Shape, Held
    <3>4. u # t
      BY <3>2, <3>3
    <3>. QED BY <1>3, <1>4, <3>2, <3>3, <3>4
  <2>. QED BY <2>1, <2>2, <2>3, <2>4 DEF Held
<1>. QED BY <1>5, <1>6

\* What the steps of a task that goes on have in common
Continues(t, where) ==
  /\ Active(t) /\ Moves(t, where) /\ where \in Holding \cup {"collect"}
  /\ where = "collect" <=> call'[t].todo = <<>>
  /\ where \notin Readers => ~call'[t].draining
  /\ where \notin Readers \/ call'[t].draining => ~call'[t].err
  /\ where \in Holding => conn'.owner = t
  /\ where = "collect" => conn'.owner = NoTask
  /\ conn.owner \in {t, NoTask}
  /\ where \in Readers => conn'.dirty /\ ~conn'.closed
  /\ ~conn'.dirty => wire' = <<>> /\ srv'.what = "none"
  /\ conn'.source # 0 => conn'.owner = t /\ call'[t].planned /\ call'[t].id = conn'.source

\* A task that reads holds the wire, and what it is in is not planned, or it owns its source.
LEMMA Holds ==
  ASSUME Basic, NEW t \in Tasks, pc[t] \in Holding
  PROVE  /\ Active(t) /\ conn.owner = t /\ call[t].todo # <<>>
         /\ conn.source # 0 => call[t].planned /\ call[t].id = conn.source
         /\ Reads(t) => conn.dirty /\ ~conn.closed
         /\ ~conn.dirty => wire = <<>> /\ srv.what = "none"
         /\ call[t].draining => ~call[t].err
         /\ ~Reads(t) => ~call[t].draining /\ ~call[t].err
         /\ CallOK(call[t]) /\ call[t].id \in 1 .. calls
<1>1. Active(t) /\ pc[t] # "collect"
  BY DEF Active, Holding
<1>. QED BY <1>1 DEF Basic, Shape, CallsOK, Held, Answers, Reads, Readers, Holding

\* A catalog call has not planned anything.
LEMMA Unplanned ==
  ASSUME NEW c, TodoOK(c), c.todo # <<>>, Head(c.todo) = "catalog", c.kind = "load"
  PROVE  ~c.planned
<1>1. c.todo \in Seq(Statements)
  BY DEF TodoOK, Orderly
<1>2. c.todo[1] = "catalog" /\ 1 \in 1 .. Len(c.todo)
  BY <1>1, TailOf
<1>. QED BY <1>1, <1>2 DEF TodoOK, LoadTodo, Only

LEMMA TransmitsMoves ==
  ASSUME Basic, NEW t \in Tasks, Transmits(t) PROVE Moves(t, "read") /\ call'[t] = call[t]
<1>1. CallOK(call[t])
  BY Holds DEF Transmits, Holding
<1>2. conn'.closed = conn.closed
  BY DEF Transmits, Basic, Shape, Types, ConnRecord
<1>. QED BY <1>1, <1>2 DEF Transmits, Moves, Basic, Shape, Types

LEMMA GoingIs ==
  ASSUME Basic, NEW t \in Tasks, Going(t)
  PROVE  \E where : Continues(t, where)
<1>0. {"read", "xfer", "send"} \subseteq Holding /\ {"read", "xfer"} \subseteq Readers /\ "send" \notin Readers
      /\ "collect" \notin Holding /\ "collect" \notin Readers /\ Frames \subseteq Holding /\ Frames \subseteq Readers
      /\ NoTask \notin Tasks
  BY LoadDataAssumption DEF Holding, Readers, Frames, NoTask
<1>1. CASE Drained(t)
  <2>1. wire' = <<>> /\ srv'.what = "none"
    BY <1>1, Emptied DEF Drained
  <2>2. pc[t] = "read"
    BY <1>1 DEF Drained
  <2>3. Continues(t, "send")
    BY <1>0, <1>1, <2>1, <2>2, Holds DEF Drained, Sends, Stays, SameStatement, Continues, Moves
  <2>. QED BY <2>3
<1>2. CASE ReadsOn(t)
  <2>1. pc[t] = "read" /\ Reads(t)
    BY <1>2 DEF ReadsOn, Reads, Readers
  <2>2. Continues(t, "read")
    BY <1>0, <1>2, <2>1, Holds DEF ReadsOn, Same, Stays, SameStatement, Continues, Moves
  <2>. QED BY <2>2
<1>3. CASE EntersFrame(t)
  <2>1. pc[t] = "read" /\ Reads(t)
    BY <1>3 DEF EntersFrame, Reads, Readers
  <2>2. FrameOf(wire[1]) \in Frames
    BY DEF FrameOf, Frames
  <2>3. Continues(t, FrameOf(wire[1]))
    BY <1>0, <1>3, <2>1, <2>2, Holds DEF EntersFrame, Same, Stays, SameStatement, Continues, Moves
  <2>. QED BY <2>3
<1>4. CASE NextStatement(t)
  <2>1. wire' = <<>> /\ srv'.what = "none" /\ pc[t] = "read"
    BY <1>4, Emptied DEF NextStatement, Ready
  <2>2. Continues(t, "send")
    BY <1>0, <1>4, <2>1, Holds DEF NextStatement, Ready, Sends, Stays, Continues, Moves
  <2>. QED BY <2>2
<1>5. CASE Unwinds(t)
  <2>1. wire' = <<>> /\ srv'.what = "none" /\ pc[t] = "read"
    BY <1>5, Emptied DEF Unwinds, Ready
  <2>2. call'[t].todo # <<>>
    BY <1>5, NotEmpty DEF Unwinds, Only
  <2>3. Continues(t, "send")
    BY <1>0, <1>5, <2>1, <2>2, Holds DEF Unwinds, Ready, Sends, Stays, Continues, Moves
  <2>. QED BY <2>3
<1>6. CASE ReadyPlans(t)
  <2>1. wire' = <<>> /\ srv'.what = "none" /\ pc[t] = "read"
    BY <1>6, Emptied DEF ReadyPlans, Ready
  <2>2. Continues(t, "send")
    BY <1>0, <1>6, <2>1, Holds DEF ReadyPlans, Ready, Plans, Sends, Continues, Moves
  <2>. QED BY <2>2
<1>7. CASE CollectPlans(t)
  <2>1. Continues(t, "send")
    BY <1>0, <1>7 DEF CollectPlans, Plans, Sends, Continues, Moves, Basic, Shape, Held
  <2>. QED BY <2>1
<1>8. CASE Collects(t)
  <2>1. wire' = <<>> /\ srv'.what = "none" /\ pc[t] = "read"
    BY <1>8, Emptied DEF Collects, Ready
  <2>2. ~call[t].planned
    BY <1>0, <1>8, <2>1, Holds, Unplanned DEF Collects, CallOK, Now
  <2>3. Continues(t, "collect")
    BY <1>0, <1>8, <2>1, <2>2, Holds DEF Collects, Ready, Continues, Moves
  <2>. QED BY <2>3
<1>9. CASE Transmits(t)
  <2>1. Continues(t, "read")
    BY <1>0, <1>9, Holds, TransmitsMoves DEF Transmits, Continues, Moves, Reads
  <2>. QED BY <2>1
<1>10. CASE Discards(t)
  <2>1. Continues(t, "read")
    BY <1>0, <1>10, Holds DEF Discards, SameStatement, Continues, Moves, Reads
  <2>. QED BY <2>1
<1>11. CASE Greets(t)
  <2>1. pc[t] = "hello" /\ Reads(t) /\ pc[t] \in Holding
    BY <1>11 DEF Greets, Reads, Readers, Holding
  <2>2. Continues(t, "xfer")
    BY <1>0, <1>11, <2>1, Holds DEF Greets, Same, Stays, SameStatement, Continues, Moves
  <2>. QED BY <2>2
<1>12. CASE SendsBatch(t)
  <2>1. pc[t] = "xfer" /\ Reads(t) /\ pc[t] \in Holding
    BY <1>12 DEF SendsBatch, Reads, Readers, Holding
  <2>2. Continues(t, "xfer")
    BY <1>0, <1>12, <2>1, Holds DEF SendsBatch, Same, Stays, SameStatement, Continues, Moves
  <2>. QED BY <2>2
<1>13. ASSUME NEW st, EndsStream(t, st) PROVE \E where : Continues(t, where)
  <2>1. pc[t] = "xfer" /\ Reads(t) /\ pc[t] \in Holding
    BY <1>13 DEF EndsStream, Reads, Readers, Holding
  <2>2. Continues(t, "read")
    BY <1>0, <1>13, <2>1, Holds DEF EndsStream, Same, Stays, SameStatement, Continues, Moves
  <2>. QED BY <2>2
<1>14. CASE ReadsPart(t)
  <2>1. Reads(t) /\ pc[t] \in Holding
    BY <1>14 DEF ReadsPart, Reads, Readers, Holding
  <2>. DEFINE where == IF pc[t] = "unload" THEN IF wire[1] = "block" THEN "unload" ELSE "read"
                       ELSE IF wire[1] = "end" THEN "read" ELSE "logfile"
  <2>2. Moves(t, where) /\ where \in Readers /\ where \in Holding /\ where # "collect"
    BY <1>14 DEF ReadsPart, Readers, Holding
  <2>. HIDE DEF where
  <2>3. Continues(t, where)
    BY <1>0, <1>14, <2>1, <2>2, Holds DEF ReadsPart, Same, Stays, SameStatement, Continues, Moves
  <2>. QED BY <2>3
<1>. QED
  BY <1>1, <1>2, <1>3, <1>4, <1>5, <1>6, <1>7, <1>8, <1>9, <1>10, <1>11, <1>12, <1>13, <1>14 DEF Going

LEMMA GoingKeeps ==
  ASSUME Basic, NEW t \in Tasks, Going(t), UNCHANGED <<scene, calls>>
  PROVE  CallsOK' /\ Held'
<1>1. PICK where : Continues(t, where)
  BY GoingIs
<1>2. /\ DOMAIN call = Tasks /\ pc \in [Tasks -> Holding \cup {"idle", "collect"}]
      /\ NoTask \notin Tasks
  BY LoadDataAssumption DEF Basic, Shape, Types, NoTask
<1>3. /\ pc' = [pc EXCEPT ![t] = where] /\ \A u \in Tasks \ {t} : call'[u] = call[u]
      /\ call'[t].id = call[t].id /\ CallOK(call'[t]) /\ outcome' = outcome /\ Active(t)
  BY <1>1 DEF Continues, Moves
<1>4. /\ \A u \in Tasks \ {t} : pc'[u] = pc[u] /\ (Active(u)' <=> Active(u))
      /\ pc'[t] = where /\ \A u \in Tasks : Active(u)' => Active(u)
  BY <1>2, <1>3 DEF Active
<1>5. CallsOK'
  <2>1. ASSUME NEW u \in Tasks, Active(u)'
        PROVE  /\ CallOK(call[u])' /\ call'[u].id \in 1 .. calls' /\ outcome'[call'[u].id] = "none"
               /\ u \in scene'.tasks
               /\ pc'[u] = "collect" <=> call'[u].todo = <<>>
               /\ ~Reads(u)' => ~call'[u].draining
               /\ ~Answers(u)' => ~call'[u].err
    <3>1. /\ CallOK(call[u]) /\ call[u].id \in 1 .. calls /\ outcome[call[u].id] = "none"
          /\ u \in scene.tasks
          /\ pc[u] = "collect" <=> call[u].todo = <<>>
          /\ ~Reads(u) => ~call[u].draining
          /\ ~Answers(u) => ~call[u].err
      BY <1>4, <2>1 DEF Basic, Shape, CallsOK
    <3>2. CASE u = t
      <4>1. CallOK(call[u])'
        BY <1>3, <3>2 DEF CallOK, Flags, TodoOK, LoadTodo, OtherTodo, Orderly, Only
      <4>2. /\ where = "collect" <=> call'[t].todo = <<>>
            /\ where \notin Readers => ~call'[t].draining
            /\ where \notin Readers \/ call'[t].draining => ~call'[t].err
        BY <1>1 DEF Continues
      <4>3. (Reads(u)' <=> where \in Readers) /\ (Answers(u)' <=> where \in Readers /\ ~call'[t].draining)
        BY <1>4, <3>2 DEF Reads, Answers
      <4>. QED BY <1>3, <1>4, <3>1, <3>2, <4>1, <4>2, <4>3
    <3>3. CASE u # t
      <4>1. call'[u] = call[u] /\ pc'[u] = pc[u]
        BY <1>3, <1>4, <3>3
      <4>2. CallOK(call[u])'
        BY <3>1, <4>1 DEF CallOK, Flags, TodoOK, LoadTodo, OtherTodo, Orderly, Only
      <4>3. (Reads(u)' <=> Reads(u)) /\ (Answers(u)' <=> Answers(u))
        BY <4>1 DEF Reads, Answers
      <4>. QED BY <1>3, <3>1, <4>1, <4>2, <4>3
    <3>. QED BY <3>2, <3>3
  <2>2. ASSUME NEW u \in Tasks, NEW v \in Tasks, Active(u)', Active(v)', u # v
        PROVE  call'[u].id # call'[v].id
    <3>1. Active(u) /\ Active(v) /\ call[u].id # call[v].id
      BY <1>4, <2>2 DEF Basic, Shape, CallsOK
    <3>2. call'[u].id = call[u].id /\ call'[v].id = call[v].id
      BY <1>3
    <3>. QED BY <3>1, <3>2
  <2>3. ASSUME NEW k \in 1 .. MaxCalls, k > calls' PROVE outcome'[k] = "none"
    BY <1>3, <2>3 DEF Basic, Shape, CallsOK
  <2>. QED BY <2>1, <2>2, <2>3 DEF CallsOK
<1>6. Held'
  <2>0. /\ where \in Holding \cup {"collect"}
        /\ where \in Holding => conn'.owner = t
        /\ where = "collect" => conn'.owner = NoTask
        /\ conn.owner \in {t, NoTask}
        /\ where \in Readers => conn'.dirty /\ ~conn'.closed
        /\ ~conn'.dirty => wire' = <<>> /\ srv'.what = "none"
        /\ conn'.source # 0 => conn'.owner = t /\ call'[t].planned /\ call'[t].id = conn'.source
    BY <1>1 DEF Continues
  <2>1. ASSUME NEW u \in Tasks PROVE pc'[u] \in Holding <=> conn'.owner = u
    <3>1. pc[u] \in Holding <=> conn.owner = u
      BY DEF Basic, Shape, Held
    <3>2. "collect" \notin Holding
      BY DEF Holding
    <3>3. CASE u = t
      BY <1>2, <1>4, <2>0, <3>2, <3>3
    <3>4. CASE u # t
      BY <1>2, <1>4, <2>0, <3>1, <3>2, <3>4
    <3>. QED BY <3>3, <3>4
  <2>2. ASSUME NEW u \in Tasks, Reads(u)' PROVE ~conn'.closed /\ conn'.dirty
    <3>1. CASE u = t
      BY <1>4, <2>0, <2>2, <3>1 DEF Reads
    <3>2. CASE u # t
      <4>1. pc'[u] \in Holding
        BY <2>2 DEF Reads, Readers, Holding
      <4>. QED BY <1>2, <2>0, <2>1, <3>2, <4>1
    <3>. QED BY <3>1, <3>2
  <2>. QED BY <2>0, <2>1, <2>2 DEF Held
<1>. QED BY <1>5, <1>6

LEMMA StartKeeps ==
  ASSUME Basic, NEW t \in Tasks, NEW kind, Refused(t, kind) \/ Starts(t, kind), UNCHANGED scene
  PROVE  CallsOK' /\ Held'
<1>1. Begins(t, kind)
  BY DEF Refused, Starts
<1>2. /\ pc \in [Tasks -> Holding \cup {"idle", "collect"}] /\ NoTask \notin Tasks
      /\ outcome \in [1 .. MaxCalls -> Results] /\ calls \in 0 .. MaxCalls /\ MaxCalls \in Nat
  BY LoadDataAssumption DEF Basic, Shape, Types, NoTask
<1>3. /\ pc[t] = "idle" /\ t \in scene.tasks /\ calls' = calls + 1 /\ calls + 1 \in 1 .. MaxCalls
      /\ \A u \in Tasks \ {t} : call'[u] = call[u]
      /\ conn'.dirty = conn.dirty /\ conn'.source = conn.source /\ ~conn'.closed
      /\ UNCHANGED <<srv, wire>>
  BY <1>1 DEF Begins
<1>4. /\ outcome'[calls + 1] = "none" \/ Refused(t, kind)
      /\ \A k \in 1 .. MaxCalls : k # calls + 1 => outcome'[k] = outcome[k]
      /\ \A u \in Tasks \ {t} : pc'[u] = pc[u] /\ (Active(u)' <=> Active(u))
      /\ Active(t)' => Starts(t, kind)
  <2>1. outcome[calls + 1] = "none"
    BY <1>2, <1>3 DEF Basic, Shape, CallsOK
  <2>. QED BY <1>2, <1>3, <2>1 DEF Refused, Starts, Active
<1>5. Starts(t, kind) => /\ pc'[t] = "send" /\ conn.owner = NoTask /\ conn'.owner = t
                         /\ CallOK(call'[t]) /\ call'[t].id = calls + 1 /\ call'[t].todo # <<>>
                         /\ ~call'[t].draining /\ ~call'[t].err
                         /\ outcome' = outcome
  BY <1>2 DEF Starts
<1>6. Refused(t, kind) => pc'[t] = "idle" /\ conn'.owner = conn.owner
  BY <1>2 DEF Refused
<1>7. CallsOK'
  <2>1. ASSUME NEW u \in Tasks, Active(u)'
        PROVE  /\ CallOK(call[u])' /\ call'[u].id \in 1 .. calls' /\ outcome'[call'[u].id] = "none"
               /\ u \in scene'.tasks
               /\ pc'[u] = "collect" <=> call'[u].todo = <<>>
               /\ ~Reads(u)' => ~call'[u].draining
               /\ ~Answers(u)' => ~call'[u].err
    <3>1. CASE u = t
      <4>0. Starts(t, kind)
        BY <1>4, <2>1, <3>1
      <4>1. CallOK(call[u])'
        BY <1>5, <3>1, <4>0 DEF CallOK, Flags, TodoOK, LoadTodo, OtherTodo, Orderly, Only
      <4>2. outcome'[calls + 1] = "none"
        <5>1. outcome[calls + 1] = "none"
          BY <1>2, <1>3 DEF Basic, Shape, CallsOK
        <5>. QED BY <1>5, <4>0, <5>1
      <4>. QED BY <1>2, <1>3, <1>5, <3>1, <4>0, <4>1, <4>2
    <3>2. CASE u # t
      <4>1. call'[u] = call[u] /\ pc'[u] = pc[u] /\ Active(u)
        BY <1>3, <1>4, <2>1, <3>2
      <4>2. /\ CallOK(call[u]) /\ call[u].id \in 1 .. calls /\ outcome[call[u].id] = "none"
            /\ u \in scene.tasks
            /\ pc[u] = "collect" <=> call[u].todo = <<>>
            /\ ~Reads(u) => ~call[u].draining
            /\ ~Answers(u) => ~call[u].err
        BY <4>1 DEF Basic, Shape, CallsOK
      <4>3. CallOK(call[u])'
        BY <4>1, <4>2 DEF CallOK, Flags, TodoOK, LoadTodo, OtherTodo, Orderly, Only
      <4>4. (Reads(u)' <=> Reads(u)) /\ (Answers(u)' <=> Answers(u))
        BY <4>1 DEF Reads, Answers
      <4>5. call[u].id \in 1 .. MaxCalls /\ call[u].id # calls + 1 /\ call[u].id \in 1 .. calls'
        BY <1>2, <1>3, <4>2
      <4>. QED BY <1>4, <4>1, <4>2, <4>3, <4>4, <4>5
    <3>. QED BY <3>1, <3>2
  <2>2. ASSUME NEW u \in Tasks, NEW v \in Tasks, Active(u)', Active(v)', u # v
        PROVE  call'[u].id # call'[v].id
    <3>1. ASSUME NEW w \in Tasks, Active(w)', w # t PROVE call'[w].id \in 1 .. calls /\ call'[w] = call[w] /\ Active(w)
      BY <1>3, <1>4, <3>1 DEF Basic, Shape, CallsOK
    <3>2. Active(t)' => call'[t].id = calls + 1
      BY <1>4, <1>5
    <3>3. CASE u = t
      BY <1>2, <2>2, <3>1, <3>2, <3>3
    <3>4. CASE v = t
      BY <1>2, <2>2, <3>1, <3>2, <3>4
    <3>5. CASE u # t /\ v # t
      BY <2>2, <3>1, <3>5 DEF Basic, Shape, CallsOK
    <3>. QED BY <3>3, <3>4, <3>5
  <2>3. ASSUME NEW k \in 1 .. MaxCalls, k > calls' PROVE outcome'[k] = "none"
    <3>1. k > calls /\ k # calls + 1
      BY <1>2, <1>3, <2>3
    <3>. QED BY <1>4, <3>1 DEF Basic, Shape, CallsOK
  <2>. QED BY <2>1, <2>2, <2>3 DEF CallsOK
<1>8. Held'
  <2>0. "send" \in Holding /\ "idle" \notin Holding /\ "send" \notin Readers
    BY DEF Holding, Readers
  <2>1. ASSUME NEW u \in Tasks PROVE pc'[u] \in Holding <=> conn'.owner = u
    <3>1. (pc[u] \in Holding <=> conn.owner = u) /\ conn.owner # t
      BY <1>3, <2>0 DEF Basic, Shape, Held
    <3>2. CASE Starts(t, kind)
      BY <1>2, <1>4, <1>5, <2>0, <3>1, <3>2
    <3>3. CASE Refused(t, kind)
      BY <1>4, <1>6, <2>0, <3>1, <3>3
    <3>. QED BY <3>2, <3>3
  <2>2. ASSUME NEW u \in Tasks, Reads(u)' PROVE ~conn'.closed /\ conn'.dirty
    <3>1. u # t
      <4>1. pc'[t] \in {"send", "idle"}
        BY <1>5, <1>6
      <4>. QED BY <2>2, <4>1 DEF Reads, Readers
    <3>2. Reads(u)
      BY <1>4, <2>2, <3>1 DEF Reads
    <3>. QED BY <1>3, <3>2 DEF Basic, Shape, Held
  <2>3. ~conn'.dirty => wire' = <<>> /\ srv'.what = "none"
    BY <1>3 DEF Basic, Shape, Held
  <2>4. conn'.source # 0 =>
          \E u \in Tasks : conn'.owner = u /\ call'[u].planned /\ call'[u].id = conn'.source
    <3>1. SUFFICES ASSUME conn'.source # 0
          PROVE  \E u \in Tasks : conn'.owner = u /\ call'[u].planned /\ call'[u].id = conn'.source
      OBVIOUS
    <3>2. PICK u \in Tasks : conn.owner = u /\ call[u].planned /\ call[u].id = conn.source
      BY <1>3, <3>1 DEF Basic, Shape, Held
    <3>3. ~Starts(t, kind)
      BY <1>2, <1>5, <3>2
    <3>4. u # t
      BY <1>3, <2>0, <3>2 DEF Basic, Shape, Held
    <3>. QED BY <1>3, <1>6, <3>2, <3>3, <3>4
  <2>. QED BY <2>1, <2>2, <2>3, <2>4 DEF Held
<1>. QED BY <1>7, <1>8

LEMMA ServingKeeps ==
  ASSUME Basic, Serving, UNCHANGED <<scene, conn, pc, call, calls, outcome>>
  PROVE  CallsOK' /\ Held'
<1>1. CallsOK'
  BY DEF Basic, Shape, CallsOK, Active, Reads, Answers
<1>2. ~conn.dirty => wire' = <<>> /\ srv'.what = "none"
  <2>1. SUFFICES ASSUME ~conn.dirty PROVE wire' = <<>> /\ srv'.what = "none"
    OBVIOUS
  <2>2. wire = <<>> /\ srv.what = "none"
    BY <2>1 DEF Basic, Shape, Held
  <2>3. Dies
    BY <2>2 DEF Serving, Succeeds, Fails, TurnsOver, GoesOn, Settles
  <2>4. srv.st # "abort"
    BY <2>2 DEF Basic, Serves
  <2>5. wire' \in Seq(Byte) /\ Len(wire') <= Len(wire)
    BY <2>3, <2>4 DEF Dies
  <2>6. wire' = <<>>
    BY <2>2, <2>5, EmptyOne
  <2>. QED BY <2>3, <2>6 DEF Dies
<1>3. Held'
  BY <1>2 DEF Basic, Shape, Held, Reads
<1>. QED BY <1>1, <1>3

LEMMA TypesKept ==
  ASSUME Basic, [Next]_vars PROVE Types'
<1>1. /\ scene \in Scenes /\ conn \in ConnRecord /\ srv \in ServerRecord
      /\ pc \in [Tasks -> Holding \cup {"idle", "collect"}] /\ DOMAIN call = Tasks
      /\ calls \in 0 .. MaxCalls /\ wire \in Seq(Headers \cup Parts)
      /\ work \in Table /\ table \in Table /\ outcome \in [1 .. MaxCalls -> Results]
      /\ {appTxn, misread} \subseteq BOOLEAN /\ MaxCalls \in Nat
  BY LoadDataAssumption DEF Basic, Shape, Types
<1>2. CASE UNCHANGED vars
  BY <1>1, <1>2 DEF Types, vars
<1>3. ASSUME NEW t \in Tasks, Ending(t), UNCHANGED <<scene, calls, work, table>> PROVE Types'
  <2>1. PICK res \in Results \ {"none"} : Leaves(t, res)
    BY <1>3 DEF Ending, Quits, BreaksOff, Stumbles, Finishes, Results
  <2>2. pc' \in [Tasks -> Holding \cup {"idle", "collect"}] /\ DOMAIN call' = Tasks
        /\ outcome' \in [1 .. MaxCalls -> Results] /\ conn' \in ConnRecord /\ appTxn' \in BOOLEAN
    BY <1>1, <2>1 DEF Leaves
  <2>3. srv' = srv /\ misread' \in BOOLEAN
    BY <1>1, <1>3 DEF Ending, Quits, BreaksOff, Stumbles, Finishes, Ready
  <2>4. wire' \in Seq(Headers \cup Parts)
    BY <1>1, <1>3, WireShifts DEF Ending, Quits, BreaksOff, Stumbles, Finishes, Ready
  <2>. QED BY <1>1, <1>3, <2>2, <2>3, <2>4 DEF Types
<1>4. ASSUME NEW t \in Tasks, Going(t), UNCHANGED <<scene, calls, work, table>> PROVE Types'
  <2>1. PICK where : Continues(t, where)
    BY <1>4, GoingIs
  <2>2. pc' \in [Tasks -> Holding \cup {"idle", "collect"}] /\ DOMAIN call' = Tasks
        /\ outcome' = outcome /\ conn' \in ConnRecord /\ appTxn' = appTxn
    BY <1>1, <2>1 DEF Continues, Moves
  <2>3. srv' \in ServerRecord /\ misread' = misread
    BY <1>1, <1>4 DEF Going, Drained, ReadsOn, EntersFrame, NextStatement, Unwinds, ReadyPlans, CollectPlans,
       Collects, Transmits, Discards, Greets, SendsBatch, EndsStream, ReadsPart, Ready, Asks
  <2>4. wire' = wire \/ (wire # <<>> /\ wire' = Tail(wire))
    BY <1>4 DEF Going, Drained, ReadsOn, EntersFrame, NextStatement, Unwinds, ReadyPlans, CollectPlans,
       Collects, Transmits, Discards, Greets, SendsBatch, EndsStream, ReadsPart, Ready
  <2>5. wire' \in Seq(Headers \cup Parts)
    BY <1>1, <2>4, WireShifts
  <2>. QED BY <1>1, <1>4, <2>2, <2>3, <2>5 DEF Types
<1>5. ASSUME NEW t \in Tasks, NEW kind, Refused(t, kind) \/ Starts(t, kind), UNCHANGED <<scene, work, table>>
      PROVE  Types'
  <2>1. Begins(t, kind)
    BY <1>5 DEF Refused, Starts
  <2>2. pc' \in [Tasks -> Holding \cup {"idle", "collect"}]
    <3>1. {"idle", "send"} \subseteq Holding \cup {"idle", "collect"}
      BY DEF Holding
    <3>. QED BY <1>1, <1>5, <3>1 DEF Refused, Starts
  <2>3. outcome' \in [1 .. MaxCalls -> Results] /\ appTxn' \in BOOLEAN
    <3>1. {"ok", "refused"} \subseteq Results
      BY DEF Results
    <3>. QED BY <1>1, <1>5, <3>1 DEF Refused, Starts
  <2>4. /\ calls' \in 0 .. MaxCalls /\ DOMAIN call' = Tasks /\ conn' \in ConnRecord
        /\ srv' = srv /\ wire' = wire /\ misread' = misread
    BY <1>1, <2>1 DEF Begins
  <2>. QED BY <1>1, <1>5, <2>2, <2>3, <2>4 DEF Types
<1>6. ASSUME Serving, UNCHANGED <<scene, conn, pc, call, calls, outcome, appTxn, misread>>
      PROVE  Types'
  <2>1. srv' \in ServerRecord
    BY <1>6 DEF Serving, Succeeds, Fails, TurnsOver, GoesOn, Dies, Settles
  <2>2. wire' \in Seq(Headers \cup Parts)
    BY <1>6 DEF Serving, Succeeds, Fails, TurnsOver, GoesOn, Dies, Settles, Adds, Byte
  <2>3. work' \in Table /\ table' \in Table
    BY <1>1, <1>6 DEF Serving, Succeeds, Fails, TurnsOver, GoesOn, Dies
  <2>. QED BY <1>1, <1>6, <2>1, <2>2, <2>3 DEF Types
<1>. QED BY <1>2, <1>3, <1>4, <1>5, <1>6, NextIs

LEMMA ShapeKept ==
  ASSUME Basic, [Next]_vars PROVE Shape'
<1>1. CASE UNCHANGED vars
  <2>1. CallsOK'
    BY <1>1 DEF vars, Basic, Shape, CallsOK, CallOK, Flags, TodoOK, LoadTodo, OtherTodo, Orderly, Only, Active,
       Reads, Answers
  <2>2. Held'
    BY <1>1 DEF vars, Basic, Shape, Held, Reads
  <2>. QED BY <2>1, <2>2, TypesKept DEF Shape
<1>. QED BY <1>1, NextIs, TypesKept, EndingKeeps, GoingKeeps, StartKeeps, ServingKeeps DEF Shape

-----------------------------------------------------------------------------
(* The backend keeps its word *)

\* What the task does to the backend
Nudged ==
  \/ srv' = srv
  \/ \E yes \in BOOLEAN : Asks(yes)
  \/ \E t \in Tasks : Transmits(t)
  \/ \E t \in Tasks : SendsBatch(t)
  \/ \E t \in Tasks, st \in {"end", "abort"} : EndsStream(t, st)

LEMMA Nudges ==
  ASSUME Basic, NEW t \in Tasks, Ending(t) \/ Going(t)
  PROVE  Nudged /\ (wire' = wire \/ (wire # <<>> /\ wire' = Tail(wire)))
<1>1. CASE Ending(t)
  BY <1>1 DEF Ending, Quits, BreaksOff, Stumbles, Finishes, Ready, Nudged
<1>2. CASE Going(t)
  <2>1. wire' = wire \/ (wire # <<>> /\ wire' = Tail(wire))
    BY <1>2 DEF Going, Drained, ReadsOn, EntersFrame, NextStatement, Unwinds, ReadyPlans, CollectPlans,
       Collects, Transmits, Discards, Greets, SendsBatch, EndsStream, ReadsPart, Ready
  <2>2. CASE ReadsOn(t) \/ EntersFrame(t)
    <3>1. \E yes \in BOOLEAN : Asks(yes)
      <4>. DEFINE a == wire[1] = "u" /\ ~call[t].draining
                  b == wire[1] \in {"l", "lf"}
      <4>1. a \in BOOLEAN /\ b \in BOOLEAN
        OBVIOUS
      <4>2. Asks(a) \/ Asks(b)
        BY <2>2 DEF ReadsOn, EntersFrame
      <4>. HIDE DEF a, b
      <4>. QED BY <4>1, <4>2, Zenon
    <3>. QED BY <2>1, <3>1 DEF Nudged
  <2>3. CASE Transmits(t) \/ SendsBatch(t) \/ EndsStream(t, "end") \/ EndsStream(t, "abort")
    BY <2>1, <2>3 DEF Nudged
  <2>4. ASSUME ~(ReadsOn(t) \/ EntersFrame(t)),
               ~(Transmits(t) \/ SendsBatch(t) \/ EndsStream(t, "end") \/ EndsStream(t, "abort"))
        PROVE  srv' = srv
    BY <1>2, <2>4 DEF Going, Drained, NextStatement, Unwinds, ReadyPlans, CollectPlans,
       Collects, Discards, Greets, ReadsPart, Ready
  <2>. QED BY <2>1, <2>2, <2>3, <2>4 DEF Nudged
<1>. QED BY <1>1, <1>2

\* The backend's part of Serves that does not depend on the wire
ServerOK ==
  /\ srv.what = "none" <=> srv.st = "none"
  /\ ~srv.up => srv.what = "none" /\ srv.txn = "none" /\ srv.buf = <<>>
  /\ srv.st \in {"data", "end", "abort"} => srv.what \in {"insert", "copy"}
  /\ srv.st \in {"hello", "greeted"} => srv.what \in {"insert", "copy", "unload"}
  /\ srv.st = "dumped" => srv.what = "unload"
  /\ srv.st \notin {"data", "end", "abort"} => srv.buf = <<>>
  /\ srv.what # "none" => srv.of \in 1 .. calls
  /\ srv.st \in {"hello", "greeted", "data", "end"} => srv.txn # "failed"
  /\ srv.st \in {"hello", "greeted", "data", "end"} /\ srv.what # "unload" => work.exists
ReadyLast == \A i \in 1 .. Len(wire) : wire[i] = "ready" => i = Len(wire) /\ srv.what = "none"

LEMMA ServesIs == Serves <=> ServerOK /\ ReadyLast
BY DEF Serves, ServerOK, ReadyLast

LEMMA NudgeKeeps ==
  ASSUME Basic, Nudged, UNCHANGED <<work, calls>> PROVE ServerOK'
<1>0. ServerOK /\ srv \in ServerRecord
  BY ServesIs DEF Basic, Shape, Types
<1>1. CASE srv' = srv
  BY <1>0, <1>1 DEF ServerOK
<1>2. ASSUME NEW yes \in BOOLEAN, Asks(yes) PROVE ServerOK'
  BY <1>0, <1>2 DEF ServerOK, Asks
<1>3. ASSUME NEW t \in Tasks, Transmits(t) PROVE ServerOK'
  <2>1. Now(t) \in Statements /\ Now(t) # "none" /\ call[t].id \in 1 .. calls /\ ~conn.dirty
        /\ srv.what = "none"
    <3>1. call[t].todo # <<>> /\ CallOK(call[t]) /\ ~conn.dirty /\ call[t].id \in 1 .. calls
          /\ (~conn.dirty => srv.what = "none")
      BY <1>3, Holds DEF Transmits, Holding
    <3>2. call[t].todo \in Seq(Statements)
      BY <3>1 DEF CallOK, TodoOK, Orderly
    <3>3. Now(t) \in Statements
      BY <3>1, <3>2, HeadIn DEF Now
    <3>. QED BY <3>1, <3>3 DEF Statements
  <2>2. srv.st = "none" /\ srv.buf = <<>>
    BY <1>0, <2>1 DEF ServerOK
  <2>3. CASE srv.up
    <3>1. /\ srv'.what = Now(t) /\ srv'.of = call[t].id /\ srv'.st = "run" /\ srv'.up = srv.up
          /\ srv'.txn = srv.txn /\ srv'.buf = <<>>
      BY <1>3, <2>2, <2>3 DEF Transmits
    <3>. QED BY <2>1, <2>3, <3>1 DEF ServerOK
  <2>4. CASE ~srv.up
    BY <1>0, <1>3, <2>4 DEF ServerOK, Transmits
  <2>. QED BY <2>3, <2>4
<1>4. ASSUME NEW t \in Tasks, SendsBatch(t) PROVE ServerOK'
  <2>1. /\ srv'.up = srv.up /\ srv'.txn = srv.txn /\ srv'.what = srv.what /\ srv'.of = srv.of /\ srv'.st = srv.st
        /\ ~(srv.up /\ srv.st = "data") => srv'.buf = srv.buf
    BY <1>4 DEF SendsBatch
  <2>. QED BY <1>0, <2>1 DEF ServerOK
<1>5. ASSUME NEW t \in Tasks, NEW st \in {"end", "abort"}, EndsStream(t, st) PROVE ServerOK'
  <2>1. /\ srv'.up = srv.up /\ srv'.txn = srv.txn /\ srv'.what = srv.what /\ srv'.of = srv.of /\ srv'.buf = srv.buf
        /\ srv'.st = IF srv.up /\ srv.st = "data" THEN st ELSE srv.st
    BY <1>5 DEF EndsStream
  <2>. QED BY <1>0, <1>5, <2>1 DEF ServerOK
<1>. QED BY <1>1, <1>2, <1>3, <1>4, <1>5 DEF Nudged

LEMMA NudgedWhat ==
  ASSUME Basic, Nudged, srv.what = "none", \A t \in Tasks : ~Transmits(t)
  PROVE  srv'.what = "none"
BY DEF Nudged, Asks, SendsBatch, EndsStream

LEMMA ReadyKept ==
  ASSUME Basic, NEW t \in Tasks, Ending(t) \/ Going(t) PROVE ReadyLast'
<1>1. ReadyLast
  BY ServesIs DEF Basic
<1>2. CASE Transmits(t)
  <2>1. wire = <<>> /\ wire' = wire
    BY <1>2, Holds DEF Transmits, Holding
  <2>. QED BY <2>1 DEF ReadyLast
<1>3. ASSUME ~Transmits(t) PROVE ReadyLast'
  <2>1. srv.what = "none" => srv'.what = "none"
    <3>1. ASSUME NEW u \in Tasks, Transmits(u) PROVE FALSE
      <4>1. pc[u] = "send" /\ pc'[u] = "read" /\ u # t
        BY <1>3, <3>1 DEF Transmits, Basic, Shape, Types
      <4>2. pc'[u] = pc[u]
        <5>1. CASE Ending(t)
          <6>1. pc' = [pc EXCEPT ![t] = "idle"]
            BY <5>1 DEF Ending, Quits, BreaksOff, Stumbles, Finishes, Leaves
          <6>. QED BY <4>1, <6>1 DEF Basic, Shape, Types
        <5>2. CASE Going(t)
          <6>1. PICK where : pc' = [pc EXCEPT ![t] = where]
            BY <5>2, GoingIs DEF Continues, Moves
          <6>. QED BY <4>1, <6>1 DEF Basic, Shape, Types
        <5>. QED BY <5>1, <5>2
      <4>. QED BY <4>1, <4>2
    <3>. QED BY <3>1, Nudges, NudgedWhat
  <2>2. CASE wire' = wire
    BY <1>1, <2>1, <2>2 DEF ReadyLast
  <2>3. CASE wire # <<>> /\ wire' = Tail(wire)
    <3>1. ASSUME NEW i \in 1 .. Len(wire'), wire'[i] = "ready" PROVE i = Len(wire') /\ srv.what = "none"
      <4>1. wire[i + 1] = "ready" /\ i + 1 \in 1 .. Len(wire) /\ Len(wire') = Len(wire) - 1
        BY <2>3, <3>1, WireShifts
      <4>2. i + 1 = Len(wire) /\ srv.what = "none"
        BY <1>1, <4>1 DEF ReadyLast
      <4>. QED BY <4>1, <4>2
    <3>. QED BY <2>1, <3>1 DEF ReadyLast
  <2>. QED BY <2>2, <2>3, Nudges
<1>. QED BY <1>2, <1>3

LEMMA ServingServes ==
  ASSUME Basic, Serving, UNCHANGED calls PROVE ServerOK' /\ ReadyLast'
<1>0. ServerOK /\ ReadyLast /\ wire \in Seq(Headers \cup Parts) /\ srv \in ServerRecord
  BY ServesIs DEF Basic, Shape, Types
<1>1. ASSUME NEW x, Settles(x), srv'.txn \in {"none", srv.txn} \/ srv.up
      PROVE  ServerOK' /\ ReadyLast'
  <2>1. /\ srv'.up = srv.up /\ srv'.what = "none" /\ srv'.st = "none" /\ srv'.buf = <<>> /\ srv.what # "none"
        /\ Adds(x) /\ x[Len(x)] = "ready" /\ \A i \in 1 .. Len(x) - 1 : x[i] # "ready"
    BY <1>1 DEF Settles
  <2>2. srv.up
    BY <1>0, <2>1 DEF ServerOK
  <2>3. ServerOK'
    BY <2>1, <2>2 DEF ServerOK
  <2>4. ASSUME NEW i \in 1 .. Len(wire'), wire'[i] = "ready" PROVE i = Len(wire')
    <3>1. CASE i \in 1 .. Len(wire) /\ wire'[i] = wire[i]
      BY <1>0, <2>1, <2>4, <3>1 DEF ReadyLast
    <3>2. CASE i - Len(wire) \in 1 .. Len(x) /\ wire'[i] = x[i - Len(wire)]
      <4>1. /\ Len(wire') = Len(wire) + Len(x) /\ Len(wire) \in Nat /\ Len(x) \in Nat
        BY <2>1, WireGrows
      <4>2. i - Len(wire) = Len(x)
        <5>1. i - Len(wire) \notin 1 .. Len(x) - 1
          BY <2>1, <2>4, <3>2
        <5>. QED BY <3>2, <4>1, <5>1
      <4>. QED BY <4>1, <4>2
    <3>. QED BY <2>1, <3>1, <3>2, WireGrows
  <2>. QED BY <2>1, <2>3, <2>4 DEF ReadyLast
<1>2. CASE Succeeds
  <2>1. PICK x : Settles(x) /\ srv'.txn = srv.txn
    BY <1>2 DEF Succeeds
  <2>. QED BY <1>1, <2>1
<1>3. CASE Fails
  <2>1. PICK x : Settles(x)
    BY <1>3 DEF Fails
  <2>2. srv.up
    BY <1>0, <2>1 DEF ServerOK, Settles
  <2>. QED BY <1>1, <2>1, <2>2
<1>4. CASE TurnsOver
  <2>1. PICK x : Settles(x)
    BY <1>4 DEF TurnsOver
  <2>2. srv.up
    BY <1>0, <2>1 DEF ServerOK, Settles
  <2>. QED BY <1>1, <2>1, <2>2
<1>5. CASE GoesOn
  <2>1. PICK x : /\ Adds(x) /\ UNCHANGED <<work, table>>
                 /\ srv'.up = srv.up /\ srv'.txn = srv.txn /\ srv'.what = srv.what
                 /\ srv'.of = srv.of /\ srv'.buf = srv.buf
                 /\ \/ /\ Only(x, "l") /\ srv.what = "insert" /\ srv.st = "run" /\ srv'.st = "hello"
                       /\ work.exists /\ srv.txn # "failed"
                    \/ /\ Only(x, "lf") /\ srv.what = "copy" /\ srv.st = "run" /\ srv'.st = "hello"
                       /\ work.exists /\ srv.txn # "failed"
                    \/ Only(x, "fmt") /\ srv.what \in {"insert", "copy"} /\ srv.st = "greeted" /\ srv'.st = "data"
                    \/ Only(x, "u") /\ srv.what = "unload" /\ srv.st = "run" /\ srv'.st = "hello" /\ srv.txn # "failed"
                    \/ /\ Len(x) = 3 /\ x[1] = "U" /\ x[2] = "block" /\ x[3] \in {"done", "sockerr"}
                       /\ srv.what = "unload" /\ srv.st = "greeted" /\ srv'.st = "dumped"
    BY <1>5 DEF GoesOn
  <2>2. srv.what # "none"
    BY <2>1
  <2>3. ServerOK'
    BY <1>0, <2>1 DEF ServerOK
  <2>4. \A i \in 1 .. Len(x) : x[i] # "ready"
    <3>1. ASSUME NEW i \in 1 .. Len(x) PROVE x[i] # "ready"
      <4>1. i = 1 \/ (Len(x) = 3 /\ (i = 2 \/ i = 3))
        <5>1. Len(x) = 1 \/ Len(x) = 3
          BY <2>1 DEF Only
        <5>2. CASE Len(x) = 1
          BY <5>2
        <5>3. CASE Len(x) = 3
          BY <5>3
        <5>. QED BY <5>1, <5>2, <5>3
      <4>. QED BY <2>1, <4>1 DEF Only
    <3>. QED BY <3>1
  <2>5. ASSUME NEW i \in 1 .. Len(wire'), wire'[i] = "ready" PROVE FALSE
    <3>1. CASE i \in 1 .. Len(wire) /\ wire'[i] = wire[i]
      BY <1>0, <2>2, <2>5, <3>1 DEF ReadyLast
    <3>2. CASE i - Len(wire) \in 1 .. Len(x) /\ wire'[i] = x[i - Len(wire)]
      BY <2>4, <2>5, <3>2
    <3>. QED BY <2>1, <3>1, <3>2, WireGrows
  <2>. QED BY <2>3, <2>5 DEF ReadyLast
<1>6. CASE Dies
  <2>1. ServerOK'
    BY <1>6 DEF Dies, ServerOK
  <2>2. srv'.what = "none"
    BY <1>6 DEF Dies
  <2>3. CASE srv.st = "abort" /\ \E x : Adds(x) /\ Only(x, "error")
    <3>1. PICK x : Adds(x) /\ Only(x, "error")
      BY <2>3
    <3>2. srv.what # "none"
      BY <1>0, <2>3 DEF ServerOK
    <3>3. ASSUME NEW i \in 1 .. Len(wire'), wire'[i] = "ready" PROVE FALSE
      <4>1. CASE i \in 1 .. Len(wire) /\ wire'[i] = wire[i]
        BY <1>0, <3>2, <3>3, <4>1 DEF ReadyLast
      <4>2. CASE i - Len(wire) \in 1 .. Len(x) /\ wire'[i] = x[i - Len(wire)]
        BY <3>1, <3>3, <4>2 DEF Only
      <4>. QED BY <3>1, <4>1, <4>2, WireGrows
    <3>. QED BY <2>1, <3>3 DEF ReadyLast
  <2>4. CASE /\ wire' \in Seq(Byte) /\ Len(wire') <= Len(wire)
             /\ \A i \in 1 .. Len(wire') : wire'[i] = wire[i]
    <3>1. ASSUME NEW i \in 1 .. Len(wire'), wire'[i] = "ready" PROVE i = Len(wire')
      <4>1. i \in 1 .. Len(wire) /\ wire[i] = "ready" /\ Len(wire') \in Nat /\ Len(wire) \in Nat
        BY <1>0, <2>4, <3>1
      <4>2. i = Len(wire)
        BY <1>0, <4>1 DEF ReadyLast
      <4>. QED BY <2>4, <4>1, <4>2
    <3>. QED BY <2>1, <2>2, <3>1 DEF ReadyLast
  <2>. QED BY <1>6, <2>3, <2>4 DEF Dies
<1>. QED BY <1>2, <1>3, <1>4, <1>5, <1>6 DEF Serving

LEMMA ServesKept ==
  ASSUME Basic, [Next]_vars PROVE Serves'
<1>0. ServerOK /\ ReadyLast /\ calls \in 0 .. MaxCalls /\ MaxCalls \in Nat
  BY ServesIs, LoadDataAssumption DEF Basic, Shape, Types
<1>1. CASE UNCHANGED vars
  BY <1>1 DEF vars, Basic, Serves
<1>2. ASSUME NEW t \in Tasks, Ending(t) \/ Going(t), UNCHANGED <<scene, calls, work, table>>
      PROVE  ServerOK' /\ ReadyLast'
  BY <1>2, Nudges, NudgeKeeps, ReadyKept
<1>3. ASSUME NEW t \in Tasks, NEW kind, Refused(t, kind) \/ Starts(t, kind), UNCHANGED <<scene, work, table>>
      PROVE  ServerOK' /\ ReadyLast'
  <2>1. srv' = srv /\ wire' = wire /\ calls' = calls + 1
    BY <1>3 DEF Refused, Starts, Begins
  <2>2. \A k \in 1 .. calls : k \in 1 .. calls'
    BY <1>0, <2>1
  <2>. QED BY <1>0, <1>3, <2>1, <2>2 DEF ServerOK, ReadyLast
<1>4. ASSUME Serving, UNCHANGED <<scene, conn, pc, call, calls, outcome, appTxn, misread>>
      PROVE  ServerOK' /\ ReadyLast'
  BY <1>4, ServingServes
<1>. QED
  <2>1. (ServerOK /\ ReadyLast)' => Serves'
    BY DEF Serves, ServerOK, ReadyLast
  <2>2. CASE ~UNCHANGED vars
    BY <2>1, <2>2, <1>2, <1>3, <1>4, NextIs
  <2>. QED BY <1>1, <2>2

LEMMA TablesKept ==
  ASSUME Basic, [Next]_vars PROVE Tables'
<1>0. Tables /\ srv \in ServerRecord /\ work \in Table /\ table \in Table
  BY DEF Basic, Shape, Types
<1>1. CASE UNCHANGED <<work, table, srv>>
  BY <1>0, <1>1 DEF Tables
<1>2. ASSUME NEW t \in Tasks, Ending(t) \/ Going(t), UNCHANGED <<scene, calls, work, table>> PROVE Tables'
  <2>1. srv'.txn = srv.txn
    BY <1>2, Nudges DEF Nudged, Asks, Transmits, SendsBatch, EndsStream
  <2>. QED BY <1>0, <1>2, <2>1 DEF Tables
<1>3. CASE Serving
  <2>0. srv.txn \in {"none", "open", "failed"} /\ ServerOK
    BY <1>0, ServesIs DEF ServerRecord, Basic
  <2>1. CASE Succeeds
    <3>1. /\ srv'.txn = srv.txn /\ table' = (IF srv.txn = "none" THEN work' ELSE table)
      BY <2>1 DEF Succeeds
    <3>2. work.rows \subseteq work'.rows /\ (work.exists => work'.exists)
      BY <2>1 DEF Succeeds, Brings
    <3>3. work'.rows # {} => work'.exists
      BY <1>0, <2>1 DEF Succeeds, Brings, Tables
    <3>. QED BY <1>0, <3>1, <3>2, <3>3 DEF Tables
  <2>2. CASE Fails \/ GoesOn
    <3>1. UNCHANGED <<work, table>> /\ (srv'.txn = "none" => srv.txn = "none")
      BY <2>2 DEF Fails, GoesOn
    <3>. QED BY <1>0, <3>1 DEF Tables
  <2>3. CASE TurnsOver
    <3>1. /\ srv'.txn = IF srv.what # "begin" THEN "none" ELSE IF srv.txn = "none" THEN "open" ELSE srv.txn
          /\ table' = IF srv.what = "commit" /\ srv.txn = "open" THEN work ELSE table
          /\ work' = IF (srv.what = "commit" /\ srv.txn = "open") \/ srv.txn = "none" \/ srv.what = "begin"
                     THEN work ELSE table
          /\ srv.what \in Turns
      BY <2>3 DEF TurnsOver
    <3>. QED BY <1>0, <2>0, <3>1 DEF Tables, Turns
  <2>4. CASE Dies
    BY <1>0, <2>4 DEF Dies, Tables
  <2>. QED BY <1>3, <2>1, <2>2, <2>3, <2>4 DEF Serving
<1>. QED BY <1>1, <1>2, <1>3, NextIs DEF vars, Refused, Starts, Begins

-----------------------------------------------------------------------------
(* Who reads has asked *)

Matching(t) ==
  /\ srv.what # "none" => srv.what = Now(t) /\ srv.of = call[t].id
  /\ \A m \in Headers \cup Parts : OnWire(m) => Now(t) \in Answering(m)
  /\ pc[t] = "hello" => Now(t) = IF call[t].marker THEN "insert" ELSE "copy"
  /\ pc[t] = "unload" => Now(t) = "unload"
  /\ pc[t] \in {"xfer", "logfile"} => Now(t) \in {"insert", "copy"}
  /\ Now(t) \in Turns => ~call[t].err
  /\ Now(t) \in Ends /\ OnWire("ready") => srv.txn = "none"
  /\ OnWire("BEGIN") => srv.txn # "none" \/ ~srv.up
  /\ Now(t) = "begin" /\ OnWire("ready") => OnWire("BEGIN") \/ conn.in_transaction

LEMMA MatchesIs == Matches <=> \A t \in Tasks : Answers(t) => Matching(t)
BY DEF Matches, Matching

\* Only the holder of the wire touches it.
LEMMA Bystander ==
  ASSUME Basic, NEW t \in Tasks, NEW u \in Tasks, u # t, Reads(u)',
         \/ (Ending(t) \/ Going(t)) /\ UNCHANGED <<scene, calls>>
         \/ \E kind : Refused(t, kind) \/ Starts(t, kind)
  PROVE  /\ Reads(u) /\ conn.owner = u
         /\ UNCHANGED <<srv, wire>> /\ conn'.in_transaction = conn.in_transaction
         /\ call'[u] = call[u] /\ pc'[u] = pc[u]
         /\ ~Going(t) /\ pc[t] \in {"collect", "idle"} /\ conn'.closed = conn.closed
         /\ conn'.dirty = conn.dirty /\ pc'[t] = "idle"
<1>1. pc \in [Tasks -> Holding \cup {"idle", "collect"}] /\ DOMAIN call = Tasks /\ NoTask \notin Tasks
      /\ conn \in ConnRecord
  BY LoadDataAssumption DEF Basic, Shape, Types, NoTask
<1>2. ASSUME Reads(u) PROVE conn.owner = u /\ pc[t] \in {"collect", "idle"} /\ ~conn.closed
  <2>1. conn.owner = u /\ ~conn.closed
    BY <1>2, Holds DEF Reads, Readers, Holding
  <2>. QED BY <1>1, <2>1 DEF Basic, Shape, Held
<1>3. CASE Ending(t)
  <2>1. pc' = [pc EXCEPT ![t] = "idle"] /\ call' = [call EXCEPT ![t] = NoCall]
    BY <1>3 DEF Ending, Quits, BreaksOff, Stumbles, Finishes, Leaves
  <2>2. pc'[u] = pc[u] /\ call'[u] = call[u] /\ Reads(u) /\ pc'[t] = "idle"
    BY <1>1, <2>1 DEF Reads
  <2>3. pc[t] = "collect"
    BY <1>2, <1>3, <2>2 DEF Ending, Quits, BreaksOff, Stumbles, Finishes, Ready, Active
  <2>4. Quits(t)
    BY <1>3, <2>3 DEF Ending, BreaksOff, Stumbles, Finishes, Ready
  <2>5. ~Going(t)
    <3>1. SUFFICES ASSUME Going(t) PROVE FALSE
      OBVIOUS
    <3>2. conn.owner \in {t, NoTask}
      BY <3>1, GoingIs DEF Continues
    <3>. QED BY <1>1, <1>2, <2>2, <3>2
  <2>. QED BY <1>2, <2>2, <2>3, <2>4, <2>5 DEF Quits
<1>4. CASE Going(t)
  <2>1. PICK where : Continues(t, where)
    BY <1>4, GoingIs
  <2>2. pc'[u] = pc[u] /\ Reads(u)
    BY <1>1, <2>1 DEF Continues, Moves, Reads
  <2>. QED BY <1>1, <1>2, <2>1, <2>2 DEF Continues
<1>5. ASSUME NEW kind, Refused(t, kind) \/ Starts(t, kind)
      PROVE  Refused(t, kind) /\ Reads(u) /\ call'[u] = call[u] /\ pc'[u] = pc[u] /\ pc'[t] = "idle"
  <2>1. pc'[u] = pc[u] /\ call'[u] = call[u] /\ Reads(u)
    BY <1>1, <1>5 DEF Refused, Starts, Begins, Reads
  <2>2. Refused(t, kind)
    BY <1>1, <1>2, <1>5, <2>1 DEF Starts
  <2>. QED BY <1>1, <2>1, <2>2 DEF Refused
<1>6. CASE \E kind : Refused(t, kind) \/ Starts(t, kind)
  <2>1. PICK kind : Refused(t, kind) /\ Reads(u) /\ call'[u] = call[u] /\ pc'[u] = pc[u] /\ pc'[t] = "idle"
    BY <1>5, <1>6
  <2>2. conn.owner = u /\ pc[t] \in {"collect", "idle"} /\ ~conn.closed
    BY <1>2, <2>1
  <2>3. ~Going(t)
    <3>1. SUFFICES ASSUME Going(t) PROVE FALSE
      OBVIOUS
    <3>2. conn.owner \in {t, NoTask}
      BY <3>1, GoingIs DEF Continues
    <3>. QED BY <1>1, <2>2, <3>2
  <2>4. UNCHANGED <<srv, wire>> /\ conn'.in_transaction = conn.in_transaction /\ conn'.dirty = conn.dirty
        /\ ~conn'.closed /\ conn' \in ConnRecord
    BY <2>1 DEF Refused, Begins
  <2>5. conn'.closed = conn.closed
    BY <1>1, <2>2, <2>4 DEF ConnRecord
  <2>. QED BY <2>1, <2>2, <2>3, <2>4, <2>5
<1>. QED BY <1>3, <1>4, <1>6

LEMMA GoingMatches ==
  ASSUME Basic, NEW t \in Tasks, Going(t), Answers(t)' PROVE Matching(t)'
<1>0. /\ pc \in [Tasks -> Holding \cup {"idle", "collect"}] /\ DOMAIN call = Tasks
      /\ wire \in Seq(Headers \cup Parts) /\ Serves
      /\ Answers(t) => Matching(t)
  BY MatchesIs DEF Basic, Shape, Types
<1>1. ASSUME NEW where, Continues(t, where)
      PROVE  pc'[t] = where /\ where \in Readers /\ ~call'[t].draining /\ call'[t].id = call[t].id
  BY <1>0, <1>1 DEF Continues, Moves, Answers, Reads
<1>2. PICK where : /\ Continues(t, where) /\ pc'[t] = where /\ where \in Readers /\ ~call'[t].draining
                   /\ call'[t].id = call[t].id
  BY <1>1, GoingIs
<1>3. CASE Transmits(t)
  <2>1. /\ wire = <<>> /\ wire' = wire /\ srv.what = "none" /\ call'[t] = call[t] /\ ~call[t].err
        /\ pc'[t] = "read"
    BY <1>0, <1>3, Holds, TransmitsMoves DEF Transmits, Holding, Reads, Readers
  <2>2. \A m : ~OnWire(m)'
    BY <2>1 DEF OnWire
  <2>3. srv'.what # "none" => srv'.what = Now(t)' /\ srv'.of = call'[t].id
    BY <1>3, <2>1 DEF Transmits, Now
  <2>. QED BY <2>1, <2>2, <2>3 DEF Matching
<1>4. ASSUME Answers(t), call'[t].todo = call[t].todo,
             wire' = wire \/ (wire # <<>> /\ wire' = Tail(wire)),
             srv'.up = srv.up, srv'.txn = srv.txn, srv'.what = srv.what, srv'.of = srv.of,
             where = "hello" => Now(t) = IF call'[t].marker THEN "insert" ELSE "copy",
             where = "unload" => Now(t) = "unload",
             where \in {"xfer", "logfile"} => Now(t) \in {"insert", "copy"},
             Now(t) \in Turns => ~call'[t].err,
             Now(t) = "begin" /\ (wire' = wire \/ wire[1] # "BEGIN")
               => (conn.in_transaction => conn'.in_transaction),
             wire' # wire /\ wire[1] = "BEGIN" => conn'.in_transaction
      PROVE  Matching(t)'
  <2>1. Matching(t) /\ Now(t)' = Now(t)
    BY <1>0, <1>4 DEF Now
  <2>2. \A m : OnWire(m)' => OnWire(m)
    BY <1>4, WireShifts DEF OnWire
  <2>3. \A m \in Headers \cup Parts : OnWire(m)' => Now(t)' \in Answering(m)
    BY <2>1, <2>2 DEF Matching
  <2>4. Now(t)' = "begin" /\ OnWire("ready")' => OnWire("BEGIN")' \/ conn'.in_transaction
    <3>1. SUFFICES ASSUME Now(t) = "begin", OnWire("ready")' PROVE OnWire("BEGIN")' \/ conn'.in_transaction
      BY <2>1
    <3>2. OnWire("BEGIN") \/ conn.in_transaction
      BY <2>1, <2>2, <3>1 DEF Matching
    <3>3. CASE wire' = wire
      BY <1>4, <3>1, <3>2, <3>3 DEF OnWire
    <3>4. CASE wire' # wire /\ wire[1] = "BEGIN"
      BY <1>4, <3>4
    <3>5. CASE wire' # wire /\ wire[1] # "BEGIN"
      <4>1. OnWire("BEGIN") => OnWire("BEGIN")'
        BY <1>4, <3>5, WireShifts
      <4>. QED BY <1>4, <3>1, <3>2, <3>5, <4>1
    <3>. QED BY <3>3, <3>4, <3>5
  <2>5. Now(t)' \in Ends /\ OnWire("ready")' => srv'.txn = "none"
    BY <1>4, <2>1, <2>2 DEF Matching
  <2>6. OnWire("BEGIN")' => srv'.txn # "none" \/ ~srv'.up
    BY <1>4, <2>1, <2>2 DEF Matching
  <2>7. srv'.what # "none" => srv'.what = Now(t)' /\ srv'.of = call'[t].id
    BY <1>2, <1>4, <2>1 DEF Matching
  <2>. QED BY <1>2, <1>4, <2>1, <2>3, <2>4, <2>5, <2>6, <2>7 DEF Matching
<1>5. ASSUME pc[t] \in Readers, call'[t].draining = call[t].draining PROVE Answers(t) /\ Matching(t)
  BY <1>0, <1>2, <1>5 DEF Answers, Reads
<1>6. ASSUME wire # <<>> PROVE OnWire(wire[1]) /\ wire[1] \in Headers \cup Parts
  <2>1. 1 \in 1 .. Len(wire) /\ wire[1] \in Headers \cup Parts
    BY <1>6, FirstOf
  <2>. QED BY <2>1 DEF OnWire
<1>7. CASE ReadsOn(t)
  <2>1. /\ pc[t] = "read" /\ wire # <<>> /\ wire' = Tail(wire) /\ Asks(wire[1] = "u" /\ ~call[t].draining)
        /\ call'[t].draining = call[t].draining /\ call'[t].todo = call[t].todo /\ pc'[t] = "read"
        /\ (call'[t].err => call[t].err \/ wire[1] \in {"error", "u"})
        /\ conn'.in_transaction =
             IF ~call[t].draining /\ wire[1] = "BEGIN" THEN TRUE
             ELSE IF ~call[t].draining /\ wire[1] \in {"COMMIT", "ROLLBACK"} THEN FALSE ELSE conn.in_transaction
    BY <1>0, <1>7 DEF ReadsOn, Same, SameStatement, Moves
  <2>2. Answers(t) /\ Matching(t)
    BY <1>5, <2>1 DEF Readers
  <2>3. Now(t) \in Answering(wire[1])
    BY <1>6, <2>1, <2>2 DEF Matching
  <2>4. Now(t) \in Turns => ~call'[t].err
    BY <2>1, <2>2, <2>3 DEF Matching, Answering, Turns
  <2>5. Now(t) = "begin" => wire[1] \notin {"COMMIT", "ROLLBACK"}
    BY <2>3 DEF Answering
  <2>6. where = "read"
    BY <1>2, <2>1
  <2>7. wire' # wire
    <3>1. Len(wire') = Len(wire) - 1 /\ Len(wire) \in Nat
      BY <1>0, <2>1, WireShifts
    <3>. QED BY <3>1
  <2>8. srv'.up = srv.up /\ srv'.txn = srv.txn /\ srv'.what = srv.what /\ srv'.of = srv.of
    BY <2>1 DEF Asks
  <2>9. ~call[t].draining
    BY <2>2 DEF Answers
  <2>. QED BY <1>4, <2>1, <2>2, <2>4, <2>5, <2>6, <2>7, <2>8, <2>9
<1>8. CASE EntersFrame(t)
  <2>1. /\ pc[t] = "read" /\ wire # <<>> /\ wire' = Tail(wire) /\ Asks(wire[1] \in {"l", "lf"})
        /\ call'[t].draining = call[t].draining /\ call'[t].todo = call[t].todo
        /\ pc'[t] = FrameOf(wire[1]) /\ wire[1] \in {"l", "lf", "U", "e"}
        /\ call'[t].err = call[t].err /\ conn' = conn
        /\ call'[t].marker = IF wire[1] \in {"l", "lf"} THEN wire[1] = "l" ELSE call[t].marker
    BY <1>0, <1>8 DEF EntersFrame, Same, SameStatement, Moves
  <2>2. Answers(t) /\ Matching(t)
    BY <1>5, <2>1 DEF Readers
  <2>3. Now(t) \in Answering(wire[1])
    BY <1>6, <2>1, <2>2 DEF Matching
  <2>4. Now(t) \in Turns => ~call'[t].err
    BY <2>1, <2>2 DEF Matching
  <2>5. wire[1] # "BEGIN" /\ where = FrameOf(wire[1])
    BY <1>2, <2>1
  <2>6. where = "hello" => Now(t) = IF call'[t].marker THEN "insert" ELSE "copy"
    BY <2>1, <2>3, <2>5 DEF FrameOf, Answering
  <2>7. where = "unload" => Now(t) = "unload"
    BY <2>1, <2>3, <2>5 DEF FrameOf, Answering
  <2>8. where \in {"xfer", "logfile"} => Now(t) \in {"insert", "copy"}
    BY <2>1, <2>3, <2>5 DEF FrameOf, Answering
  <2>9. srv'.up = srv.up /\ srv'.txn = srv.txn /\ srv'.what = srv.what /\ srv'.of = srv.of
    BY <2>1 DEF Asks
  <2>. QED BY <1>4, <2>1, <2>2, <2>4, <2>5, <2>6, <2>7, <2>8, <2>9
<1>9. CASE Greets(t)
  <2>1. /\ pc[t] = "hello" /\ wire # <<>> /\ wire' = Tail(wire) /\ srv' = srv /\ wire[1] = "fmt"
        /\ call'[t].draining = call[t].draining /\ call'[t].todo = call[t].todo /\ pc'[t] = "xfer"
        /\ call'[t].err = call[t].err /\ conn'.in_transaction = conn.in_transaction
    BY <1>0, <1>9 DEF Greets, Same, SameStatement, Moves
  <2>2. Answers(t) /\ Matching(t)
    BY <1>5, <2>1 DEF Readers
  <2>3. Now(t) \in {"insert", "copy"} /\ (Now(t) \in Turns => ~call'[t].err) /\ where = "xfer"
    BY <1>2, <2>1, <2>2 DEF Matching
  <2>. QED BY <1>4, <2>1, <2>2, <2>3
<1>10. CASE SendsBatch(t)
  <2>1. /\ pc[t] = "xfer" /\ wire' = wire /\ conn' = conn
        /\ call'[t].draining = call[t].draining /\ call'[t].todo = call[t].todo /\ pc'[t] = "xfer"
        /\ call'[t].err = call[t].err
        /\ srv'.up = srv.up /\ srv'.txn = srv.txn /\ srv'.what = srv.what /\ srv'.of = srv.of
    BY <1>0, <1>10 DEF SendsBatch, Same, SameStatement, Moves
  <2>2. Answers(t) /\ Matching(t)
    BY <1>5, <2>1 DEF Readers
  <2>3. Now(t) \in {"insert", "copy"} /\ (Now(t) \in Turns => ~call'[t].err) /\ where = "xfer"
    BY <1>2, <2>1, <2>2 DEF Matching
  <2>. QED BY <1>4, <2>1, <2>2, <2>3
<1>11. ASSUME NEW st, EndsStream(t, st) PROVE Matching(t)'
  <2>1. /\ pc[t] = "xfer" /\ wire' = wire /\ conn'.in_transaction = conn.in_transaction
        /\ call'[t].draining = call[t].draining /\ call'[t].todo = call[t].todo /\ pc'[t] = "read"
        /\ call'[t].err = call[t].err
        /\ srv'.up = srv.up /\ srv'.txn = srv.txn /\ srv'.what = srv.what /\ srv'.of = srv.of
    BY <1>0, <1>11 DEF EndsStream, Same, SameStatement, Moves
  <2>2. Answers(t) /\ Matching(t)
    BY <1>5, <2>1 DEF Readers
  <2>3. (Now(t) \in Turns => ~call'[t].err) /\ where = "read"
    BY <1>2, <2>1, <2>2 DEF Matching
  <2>. QED BY <1>4, <2>1, <2>2, <2>3
<1>12. CASE ReadsPart(t)
  <2>1. /\ pc[t] \in {"unload", "logfile"} /\ wire # <<>> /\ wire' = Tail(wire) /\ conn' = conn /\ srv' = srv
        /\ call'[t].draining = call[t].draining /\ call'[t].todo = call[t].todo
        /\ pc'[t] = (IF pc[t] = "unload" THEN IF wire[1] = "block" THEN "unload" ELSE "read"
                     ELSE IF wire[1] = "end" THEN "read" ELSE "logfile")
        /\ call'[t].err = call[t].err
    BY <1>0, <1>12 DEF ReadsPart, Same, SameStatement, Moves
  <2>2. Answers(t) /\ Matching(t)
    BY <1>5, <2>1 DEF Readers
  <2>3. (Now(t) \in Turns => ~call'[t].err) /\ where \in {"unload", "read", "logfile"}
        /\ (where = "unload" => Now(t) = "unload")
        /\ (where = "logfile" => Now(t) \in {"insert", "copy"})
    BY <1>2, <2>1, <2>2 DEF Matching
  <2>4. wire[1] # "BEGIN"
    <3>1. wire[1] = "BEGIN" => Now(t) = "begin"
      BY <1>6, <2>1, <2>2 DEF Matching, Answering
    <3>2. Now(t) # "begin"
      BY <2>1, <2>2 DEF Matching
    <3>. QED BY <3>1, <3>2
  <2>. QED BY <1>4, <2>1, <2>2, <2>3, <2>4
<1>13. CASE Discards(t)
  BY <1>2, <1>13 DEF Discards
<1>14. CASE Drained(t) \/ NextStatement(t) \/ Unwinds(t) \/ ReadyPlans(t) \/ CollectPlans(t) \/ Collects(t)
  <2>1. pc'[t] \in {"send", "collect"}
    BY <1>0, <1>14 DEF Drained, NextStatement, Unwinds, ReadyPlans, CollectPlans, Collects, Plans, Sends, Moves
  <2>. QED BY <1>2, <2>1 DEF Readers
<1>. QED BY <1>3, <1>7, <1>8, <1>9, <1>10, <1>11, <1>12, <1>13, <1>14 DEF Going

\* What an answer says fits the statement it answers.
LEMMA AnswerFits ==
  ASSUME Basic, NEW t \in Tasks, Answers(t), srv.what # "none", NEW x, Adds(x),
         \A i \in 1 .. Len(x) : srv.what \in Answering(x[i])
  PROVE  \A m \in Headers \cup Parts : OnWire(m)' => Now(t) \in Answering(m)
<1>1. Matching(t)
  BY MatchesIs DEF Basic
<1>2. srv.what = Now(t)
  BY <1>1 DEF Matching
<1>3. ASSUME NEW m \in Headers \cup Parts, OnWire(m)' PROVE Now(t) \in Answering(m)
  <2>1. CASE OnWire(m)
    BY <1>1, <2>1 DEF Matching
  <2>2. CASE \E i \in 1 .. Len(x) : x[i] = m
    BY <1>2, <2>2
  <2>. QED BY <1>3, <2>1, <2>2, WireGrows
<1>. QED BY <1>3

LEMMA ServingMatches ==
  ASSUME Basic, Serving, UNCHANGED <<scene, conn, pc, call>>, NEW t \in Tasks, Answers(t)'
  PROVE  Matching(t)'
<1>0. Answers(t) /\ Matching(t) /\ Now(t)' = Now(t) /\ call'[t] = call[t] /\ pc'[t] = pc[t]
  BY MatchesIs DEF Basic, Answers, Reads, Now
<1>1. ServerOK /\ ReadyLast /\ srv \in ServerRecord
  BY ServesIs DEF Basic, Shape, Types
<1>2. ASSUME \A m \in Headers \cup Parts : OnWire(m)' => Now(t) \in Answering(m),
             srv'.what # "none" => srv'.what = srv.what /\ srv'.of = srv.of,
             Now(t) \in Ends /\ OnWire("ready")' => srv'.txn = "none",
             OnWire("BEGIN")' => srv'.txn # "none" \/ ~srv'.up,
             Now(t) = "begin" /\ OnWire("ready")' => OnWire("BEGIN")' \/ conn.in_transaction
      PROVE  Matching(t)'
  <2>1. /\ srv'.what # "none" => srv'.what = Now(t)' /\ srv'.of = call'[t].id
    BY <1>0, <1>2 DEF Matching
  <2>2. /\ pc'[t] = "hello" => Now(t)' = IF call'[t].marker THEN "insert" ELSE "copy"
        /\ pc'[t] = "unload" => Now(t)' = "unload"
        /\ pc'[t] \in {"xfer", "logfile"} => Now(t)' \in {"insert", "copy"}
        /\ Now(t)' \in Turns => ~call'[t].err
    BY <1>0 DEF Matching
  <2>. QED BY <1>0, <1>2, <2>1, <2>2 DEF Matching
<1>3. ASSUME NEW x, Settles(x), srv.what \notin Turns, Alike(x),
             (\A i \in 1 .. Len(x) : x[i] # "error") \/ srv.what \in Statements \ Turns
      PROVE  Matching(t)'
  <2>1. Adds(x) /\ srv'.what = "none" /\ srv.what # "none"
    BY <1>3 DEF Settles
  <2>2. srv.what = Now(t) /\ srv.what \in Statements
    BY <1>0, <1>1, <2>1 DEF Matching, ServerRecord
  <2>3. \A i \in 1 .. Len(x) : srv.what \in Answering(x[i])
    BY <1>3, <2>2 DEF Alike, Answering
  <2>4. \A m \in Headers \cup Parts : OnWire(m)' => Now(t) \in Answering(m)
    BY <1>0, <2>1, <2>3, AnswerFits
  <2>5. ~OnWire("BEGIN")'
    BY <1>3, <2>2, <2>4 DEF Answering, Turns, Headers
  <2>6. Now(t) \notin Ends /\ Now(t) # "begin"
    BY <1>3, <2>2 DEF Ends, Turns
  <2>. QED BY <1>2, <2>1, <2>4, <2>5, <2>6
<1>4. CASE Succeeds
  <2>1. PICK x : Settles(x) /\ srv.what \notin Turns /\ Alike(x) /\ \A i \in 1 .. Len(x) : x[i] # "error"
    BY <1>4 DEF Succeeds
  <2>. QED BY <1>3, <2>1
<1>5. CASE Fails
  <2>1. PICK x : Settles(x) /\ srv.what \notin Turns /\ Alike(x)
    BY <1>5 DEF Fails
  <2>2. srv.what \in Statements \ Turns
    BY <1>1, <2>1 DEF Settles, ServerRecord
  <2>. QED BY <1>3, <2>1, <2>2
<1>6. CASE TurnsOver
  <2>1. PICK x : /\ Settles(x) /\ srv.what \in Turns /\ Len(x) = 2 /\ x[1] = TagOf(srv.what) /\ x[2] = "ready"
                 /\ srv'.txn = IF srv.what # "begin" THEN "none" ELSE IF srv.txn = "none" THEN "open" ELSE srv.txn
    BY <1>6 DEF TurnsOver
  <2>2. Adds(x) /\ srv'.what = "none" /\ srv.what # "none" /\ srv.what = Now(t)
    BY <1>0, <2>1 DEF Settles, Matching
  <2>3. \A i \in 1 .. Len(x) : i = 1 \/ i = 2
    BY <2>1
  <2>4. srv.what \in Answering(x[1]) /\ srv.what \in Answering(x[2])
    BY <2>1 DEF Answering, TagOf, Turns, Statements
  <2>5. \A m \in Headers \cup Parts : OnWire(m)' => Now(t) \in Answering(m)
    BY <1>0, <2>2, <2>3, <2>4, AnswerFits
  <2>6. srv.what = "begin" => OnWire("BEGIN")'
    <3>1. 1 \in 1 .. Len(x)
      BY <2>1
    <3>2. OnWire(x[1])'
      BY <2>2, <3>1, WireGrows
    <3>. QED BY <2>1, <3>2 DEF TagOf, OnWire
  <2>7. OnWire("BEGIN")' => srv.what = "begin"
    BY <2>2, <2>5 DEF Answering, Headers
  <2>8. Now(t) \in Ends => srv'.txn = "none"
    BY <2>1, <2>2 DEF Ends
  <2>. QED BY <1>2, <2>1, <2>2, <2>5, <2>6, <2>7, <2>8
<1>7. CASE GoesOn
  <2>1. PICK x : /\ Adds(x) /\ UNCHANGED <<work, table>>
                 /\ srv'.up = srv.up /\ srv'.txn = srv.txn /\ srv'.what = srv.what
                 /\ srv'.of = srv.of /\ srv'.buf = srv.buf
                 /\ \/ /\ Only(x, "l") /\ srv.what = "insert"
                    \/ /\ Only(x, "lf") /\ srv.what = "copy"
                    \/ Only(x, "fmt") /\ srv.what \in {"insert", "copy"}
                    \/ Only(x, "u") /\ srv.what = "unload"
                    \/ /\ Len(x) = 3 /\ x[1] = "U" /\ x[2] = "block" /\ x[3] \in {"done", "sockerr"}
                       /\ srv.what = "unload"
    BY <1>7 DEF GoesOn
  <2>2. srv.what # "none" /\ srv.what = Now(t)
    BY <1>0, <2>1 DEF Matching
  <2>3. ASSUME NEW i \in 1 .. Len(x) PROVE srv.what \in Answering(x[i])
    <3>1. Len(x) = 1 => i = 1
      OBVIOUS
    <3>2. Len(x) = 3 => i = 1 \/ i = 2 \/ i = 3
      OBVIOUS
    <3>3. CASE Len(x) = 1 /\ \/ x[1] = "l" /\ srv.what = "insert"
                             \/ x[1] = "lf" /\ srv.what = "copy"
                             \/ x[1] = "fmt" /\ srv.what \in {"insert", "copy"}
                             \/ x[1] = "u" /\ srv.what = "unload"
      BY <3>1, <3>3 DEF Answering
    <3>4. CASE /\ Len(x) = 3 /\ x[1] = "U" /\ x[2] = "block" /\ x[3] \in {"done", "sockerr"}
               /\ srv.what = "unload"
      BY <3>2, <3>4 DEF Answering, Statements
    <3>. QED BY <2>1, <3>3, <3>4 DEF Only
  <2>4. \A m \in Headers \cup Parts : OnWire(m)' => Now(t) \in Answering(m)
    BY <1>0, <2>1, <2>2, <2>3, AnswerFits
  <2>5. Now(t) \notin Turns
    BY <2>1, <2>2 DEF Turns
  <2>6. ~OnWire("BEGIN")'
    BY <2>4, <2>5 DEF Answering, Turns, Headers
  <2>. QED BY <1>2, <2>1, <2>4, <2>5, <2>6 DEF Ends, Turns
<1>8. CASE Dies
  <2>1. srv'.what = "none" /\ srv'.txn = "none" /\ ~srv'.up
    BY <1>8 DEF Dies
  <2>2. CASE srv.st = "abort" /\ \E x : Adds(x) /\ Only(x, "error")
    <3>1. PICK x : Adds(x) /\ Only(x, "error")
      BY <2>2
    <3>2. srv.what \in {"insert", "copy"} /\ srv.what = Now(t)
      BY <1>0, <1>1, <2>2 DEF ServerOK, Matching
    <3>3. \A i \in 1 .. Len(x) : srv.what \in Answering(x[i])
      BY <3>1, <3>2 DEF Only, Answering, Turns, Statements
    <3>4. \A m \in Headers \cup Parts : OnWire(m)' => Now(t) \in Answering(m)
      BY <1>0, <3>1, <3>2, <3>3, AnswerFits
    <3>. QED BY <1>2, <2>1, <3>2, <3>4
  <2>3. CASE /\ wire' \in Seq(Byte) /\ Len(wire') <= Len(wire)
             /\ \A i \in 1 .. Len(wire') : wire'[i] = wire[i]
    <3>0. Len(wire) \in Nat /\ Len(wire') \in Nat
      BY <2>3 DEF Basic, Shape, Types
    <3>1. \A m : OnWire(m)' => OnWire(m)
      <4>1. \A i \in 1 .. Len(wire') : i \in 1 .. Len(wire)
        BY <2>3, <3>0
      <4>. QED BY <2>3, <4>1 DEF OnWire
    <3>2. OnWire("ready")' /\ OnWire("BEGIN") => OnWire("BEGIN")'
      <4>1. SUFFICES ASSUME OnWire("ready")', OnWire("BEGIN") PROVE OnWire("BEGIN")'
        OBVIOUS
      <4>2. PICK i \in 1 .. Len(wire') : wire'[i] = "ready"
        BY <4>1 DEF OnWire
      <4>3. i \in 1 .. Len(wire) /\ wire[i] = "ready"
        BY <2>3, <3>0, <4>2
      <4>4. i = Len(wire)
        BY <1>1, <4>3 DEF ReadyLast
      <4>5. Len(wire') = Len(wire)
        BY <2>3, <3>0, <4>2, <4>4
      <4>. QED BY <2>3, <4>1, <4>5 DEF OnWire
    <3>3. Now(t) = "begin" /\ OnWire("ready")' => OnWire("BEGIN")' \/ conn.in_transaction
      BY <1>0, <3>1, <3>2 DEF Matching
    <3>4. \A m \in Headers \cup Parts : OnWire(m)' => Now(t) \in Answering(m)
      BY <1>0, <3>1 DEF Matching
    <3>. QED BY <1>2, <2>1, <3>3, <3>4
  <2>. QED BY <1>8, <2>2, <2>3 DEF Dies
<1>. QED BY <1>4, <1>5, <1>6, <1>7, <1>8 DEF Serving

LEMMA MatchesKept ==
  ASSUME Basic, [Next]_vars PROVE Matches'
<1>1. SUFFICES ASSUME NEW u \in Tasks, Answers(u)' PROVE Matching(u)'
  BY DEF Matches, Matching
<1>2. ASSUME Answers(u), UNCHANGED <<srv, wire>>, conn'.in_transaction = conn.in_transaction,
             call'[u] = call[u], pc'[u] = pc[u]
      PROVE  Matching(u)'
  BY <1>2, MatchesIs DEF Basic, Matching, OnWire, Now
<1>3. CASE UNCHANGED vars
  BY <1>1, <1>2, <1>3 DEF vars, Answers, Reads
<1>4. ASSUME NEW t \in Tasks,
             \/ (Ending(t) \/ Going(t)) /\ UNCHANGED <<scene, calls>>
             \/ \E kind : Refused(t, kind) \/ Starts(t, kind)
      PROVE  Matching(u)'
  <2>0. pc \in [Tasks -> Holding \cup {"idle", "collect"}] /\ Reads(u)'
    BY <1>1 DEF Basic, Shape, Types, Answers
  <2>1. CASE u # t
    <3>1. /\ Reads(u) /\ UNCHANGED <<srv, wire>> /\ conn'.in_transaction = conn.in_transaction
          /\ call'[u] = call[u] /\ pc'[u] = pc[u]
      BY <1>4, <2>0, <2>1, Bystander
    <3>2. Answers(u)
      BY <1>1, <3>1 DEF Answers
    <3>. QED BY <1>2, <3>1, <3>2
  <2>2. CASE u = t /\ Ending(t)
    <3>1. pc'[t] = "idle"
      BY <2>0, <2>2 DEF Ending, Quits, BreaksOff, Stumbles, Finishes, Leaves
    <3>. QED BY <2>0, <2>2, <3>1 DEF Reads, Readers
  <2>3. CASE u = t /\ Going(t)
    BY <1>1, <2>3, GoingMatches
  <2>4. CASE u = t /\ \E kind : Refused(t, kind) \/ Starts(t, kind)
    <3>1. pc'[t] \in {"idle", "send"}
      BY <2>0, <2>4 DEF Refused, Starts
    <3>. QED BY <2>0, <2>4, <3>1 DEF Reads, Readers
  <2>. QED BY <1>4, <2>1, <2>2, <2>3, <2>4
<1>5. CASE Serving /\ UNCHANGED <<scene, conn, pc, call, calls, outcome, appTxn, misread>>
  BY <1>1, <1>5, ServingMatches
<1>. QED BY <1>3, <1>4, <1>5, NextIs

LEMMA BasicStarts ==
  ASSUME Init PROVE Basic
<1>1. Types
  <2>1. Idle \in ServerRecord
    <3>1. 0 \in 0 .. MaxCalls /\ <<>> \in Seq(0 .. MaxCalls)
      BY LoadDataAssumption
    <3>. QED BY <3>1 DEF Idle, ServerRecord
  <2>2. conn \in ConnRecord
    <3>1. Autocommit \subseteq BOOLEAN /\ 0 \in 0 .. MaxCalls
      BY LoadDataAssumption
    <3>2. conn \in [closed : {FALSE}, autocommit : Autocommit, in_transaction : {FALSE},
                    dirty : {FALSE}, source : {0}, failure : {FALSE}, owner : {NoTask}]
      BY DEF Init
    <3>. QED BY <3>1, <3>2 DEF ConnRecord
  <2>3. work \in Table /\ table \in Table
    BY DEF Init, Table
  <2>4. outcome \in [1 .. MaxCalls -> Results]
    BY DEF Init, Results
  <2>5. pc \in [Tasks -> Holding \cup {"idle", "collect"}] /\ DOMAIN call = Tasks
    BY DEF Init
  <2>6. wire \in Seq(Headers \cup Parts) /\ calls \in 0 .. MaxCalls
    BY LoadDataAssumption DEF Init
  <2>. QED BY <2>1, <2>2, <2>3, <2>4, <2>5, <2>6 DEF Init, Types
<1>2. /\ \A t \in Tasks : pc[t] = "idle"
      /\ wire = <<>> /\ conn.owner = NoTask /\ conn.source = 0 /\ NoTask \notin Tasks
      /\ srv = Idle /\ work = table /\ work.rows = {} /\ \A k \in 1 .. MaxCalls : outcome[k] = "none"
  BY LoadDataAssumption DEF Init, NoTask
<1>3. \A t \in Tasks : ~Active(t) /\ ~Reads(t) /\ pc[t] \notin Holding
  BY <1>2 DEF Active, Reads, Readers, Holding
<1>4. CallsOK
  BY <1>2, <1>3 DEF CallsOK
<1>5. Held
  BY <1>2, <1>3 DEF Held, Idle
<1>6. Serves
  BY <1>2 DEF Serves, Idle
<1>7. Tables
  BY <1>2 DEF Tables
<1>8. Matches
  BY <1>3 DEF Matches, Answers
<1>. QED BY <1>1, <1>4, <1>5, <1>6, <1>7, <1>8 DEF Basic, Shape

LEMMA BasicKept ==
  ASSUME Basic, [Next]_vars PROVE Basic'
BY ShapeKept, ServesKept, TablesKept, MatchesKept DEF Basic

-----------------------------------------------------------------------------
(* Frames *)

\* What the reader is inside of, and what it will be inside of at the end of the wire
Mode == IF conn.owner \in Tasks /\ pc[conn.owner] \in Frames THEN pc[conn.owner] ELSE "top"
EndMode == IF wire = <<>> THEN Mode ELSE Enters(wire[Len(wire)])
Awaited == IF srv.what \in {"insert", "copy"} /\ srv.st \in {"hello", "greeted"} THEN "hello" ELSE "top"

\* Every byte fits where the bytes before it leave the reader.
Chained ==
  /\ wire # <<>> => wire[1] \in Allowed(Mode)
  /\ \A i \in 1 .. Len(wire) - 1 : wire[i + 1] \in Allowed(Enters(wire[i]))
Framed == ~conn.closed => Chained /\ (srv.up => EndMode = Awaited)

LEMMA ModeOf ==
  ASSUME Basic, NEW t \in Tasks
  PROVE  /\ conn.owner = t => Mode = IF pc[t] \in Frames THEN pc[t] ELSE "top"
         /\ conn.owner = NoTask => Mode = "top"
BY LoadDataAssumption DEF Mode, NoTask

LEMMA NextModeOf ==
  ASSUME NEW t \in Tasks
  PROVE  /\ conn'.owner = t => Mode' = IF pc'[t] \in Frames THEN pc'[t] ELSE "top"
         /\ conn'.owner = NoTask => Mode' = "top"
BY LoadDataAssumption DEF Mode, NoTask

\* A byte is read.
LEMMA ShiftFrames ==
  ASSUME Basic, Framed, ~conn.closed, wire # <<>>, wire' = Tail(wire), Mode' = Enters(wire[1]),
         srv'.up = srv.up, Awaited' = Awaited
  PROVE  Framed'
<1>1. Chained /\ (srv.up => EndMode = Awaited)
  BY DEF Framed
<1>2. /\ wire' \in Seq(Headers \cup Parts) /\ Len(wire') = Len(wire) - 1 /\ Len(wire) \in Nat
      /\ \A i \in 1 .. Len(wire') : wire'[i] = wire[i + 1] /\ i + 1 \in 1 .. Len(wire)
  BY WireShifts DEF Basic, Shape, Types
<1>3. wire' # <<>> => wire'[1] \in Allowed(Mode')
  <2>1. SUFFICES ASSUME wire' # <<>> PROVE wire'[1] \in Allowed(Mode')
    OBVIOUS
  <2>2. Len(wire') # 0
    BY <1>2, <2>1, EmptyOne
  <2>3. 1 \in 1 .. Len(wire') /\ 1 \in 1 .. Len(wire) - 1
    BY <1>2, <2>2
  <2>4. wire'[1] = wire[1 + 1] /\ wire[1 + 1] \in Allowed(Enters(wire[1]))
    BY <1>1, <1>2, <2>3 DEF Chained
  <2>. QED BY <2>4
<1>4. ASSUME NEW i \in 1 .. Len(wire') - 1 PROVE wire'[i + 1] \in Allowed(Enters(wire'[i]))
  <2>1. i \in 1 .. Len(wire') /\ i + 1 \in 1 .. Len(wire') /\ i + 1 \in 1 .. Len(wire) - 1
    BY <1>2
  <2>2. wire'[i] = wire[i + 1] /\ wire'[i + 1] = wire[(i + 1) + 1]
    BY <1>2, <2>1
  <2>. QED BY <1>1, <2>1, <2>2 DEF Chained
<1>5. srv'.up => EndMode' = Awaited'
  <2>1. SUFFICES ASSUME srv'.up PROVE EndMode' = Awaited'
    OBVIOUS
  <2>2. EndMode = Awaited /\ EndMode = Enters(wire[Len(wire)])
    BY <1>1, <2>1 DEF EndMode
  <2>3. CASE wire' = <<>>
    <3>1. Len(wire) = 1
      BY <1>2, <2>3, EmptyOne
    <3>. QED BY <2>2, <2>3, <3>1 DEF EndMode
  <2>4. CASE wire' # <<>>
    <3>1. Len(wire') # 0
      BY <1>2, <2>4, EmptyOne
    <3>2. Len(wire') \in 1 .. Len(wire') /\ Len(wire') + 1 = Len(wire)
      BY <1>2, <3>1
    <3>3. wire'[Len(wire')] = wire[Len(wire)]
      BY <1>2, <3>2
    <3>. QED BY <2>2, <2>4, <3>3 DEF EndMode
  <2>. QED BY <2>3, <2>4
<1>. QED BY <1>3, <1>4, <1>5 DEF Framed, Chained

\* The backend sends.
LEMMA GrowFrames ==
  ASSUME Basic, Framed, ~conn.closed, UNCHANGED <<conn, pc>>, NEW x, Adds(x), Len(x) # 0,
         srv.up, x[1] \in Allowed(Awaited),
         \A i \in 1 .. Len(x) - 1 : x[i + 1] \in Allowed(Enters(x[i])),
         srv'.up => Awaited' = Enters(x[Len(x)])
  PROVE  Framed'
<1>1. Chained /\ EndMode = Awaited /\ Mode' = Mode
  BY DEF Framed, Mode
<1>2. /\ wire' \in Seq(Headers \cup Parts) /\ Len(wire') = Len(wire) + Len(x)
      /\ Len(wire) \in Nat /\ Len(x) \in Nat
      /\ \A i \in 1 .. Len(wire) : wire'[i] = wire[i]
      /\ \A i \in 1 .. Len(wire') : \/ i \in 1 .. Len(wire) /\ wire'[i] = wire[i]
                                    \/ i - Len(wire) \in 1 .. Len(x) /\ wire'[i] = x[i - Len(wire)]
  BY WireGrows
<1>3. wire \in Seq(Headers \cup Parts)
  BY DEF Basic, Shape, Types
<1>4. Len(wire') # 0 /\ wire' # <<>> /\ wire'[Len(wire')] = x[Len(x)]
  <2>1. Len(wire') # 0 /\ Len(wire') \in 1 .. Len(wire') /\ Len(wire') \notin 1 .. Len(wire)
        /\ Len(wire') - Len(wire) = Len(x)
    BY <1>2
  <2>. QED BY <1>2, <2>1, NotEmpty
<1>5. wire = <<>> => wire'[1] = x[1]
  <2>1. wire = <<>> => Len(wire) = 0
    BY <1>3, EmptyOne
  <2>2. 1 \in 1 .. Len(wire')
    BY <1>2, <1>4
  <2>3. wire = <<>> => 1 \notin 1 .. Len(wire) /\ 1 - Len(wire) = 1
    BY <2>1
  <2>. QED BY <1>2, <2>2, <2>3
<1>6. wire'[1] \in Allowed(Mode')
  <2>1. CASE wire = <<>>
    BY <1>1, <1>5, <2>1 DEF EndMode
  <2>2. CASE wire # <<>>
    <3>1. 1 \in 1 .. Len(wire)
      BY <1>2, <1>3, <2>2, EmptyOne
    <3>. QED BY <1>1, <1>2, <2>2, <3>1 DEF Chained
  <2>. QED BY <2>1, <2>2
<1>7. ASSUME NEW i \in 1 .. Len(wire') - 1 PROVE wire'[i + 1] \in Allowed(Enters(wire'[i]))
  <2>0. i \in 1 .. Len(wire') /\ i + 1 \in 1 .. Len(wire') /\ i \in Nat
    BY <1>2
  <2>1. CASE i < Len(wire)
    <3>1. i \in 1 .. Len(wire) /\ i + 1 \in 1 .. Len(wire) /\ i \in 1 .. Len(wire) - 1
      BY <1>2, <2>0, <2>1
    <3>2. wire'[i] = wire[i] /\ wire'[i + 1] = wire[i + 1]
      BY <1>2, <3>1
    <3>. QED BY <1>1, <3>1, <3>2 DEF Chained
  <2>2. CASE i = Len(wire)
    <3>1. i \in 1 .. Len(wire) /\ i + 1 \notin 1 .. Len(wire) /\ (i + 1) - Len(wire) = 1
      BY <1>2, <2>0, <2>2
    <3>2. wire'[i] = wire[Len(wire)] /\ wire'[i + 1] = x[1]
      BY <1>2, <2>0, <2>2, <3>1
    <3>3. wire # <<>>
      BY <1>3, <3>1, EmptyOne
    <3>. QED BY <1>1, <3>2, <3>3 DEF EndMode
  <2>3. CASE i > Len(wire)
    <3>1. i \notin 1 .. Len(wire) /\ i + 1 \notin 1 .. Len(wire) /\ i - Len(wire) \in 1 .. Len(x) - 1
          /\ (i + 1) - Len(wire) = (i - Len(wire)) + 1
      BY <1>2, <2>0, <2>3
    <3>2. wire'[i] = x[i - Len(wire)] /\ wire'[i + 1] = x[(i - Len(wire)) + 1]
      BY <1>2, <2>0, <3>1
    <3>. QED BY <3>1, <3>2
  <2>. QED BY <1>2, <2>0, <2>1, <2>2, <2>3
<1>8. srv'.up => EndMode' = Awaited'
  BY <1>4 DEF EndMode
<1>. QED BY <1>6, <1>7, <1>8 DEF Framed, Chained

\* Nothing that was sent and nothing the reader is inside of changes.
LEMMA SameFrames ==
  ASSUME Framed, ~conn.closed, UNCHANGED wire, Mode' = Mode, srv'.up = srv.up, Awaited' = Awaited
  PROVE  Framed'
BY DEF Framed, Chained, EndMode

LEMMA ReadsOutside ==
  ASSUME Basic, Framed, ~conn.closed, NEW t \in Tasks, conn.owner = t, pc[t] \notin Frames, wire # <<>>
  PROVE  wire[1] \in Headers /\ wire[1] \notin Parts
<1>1. Mode = "top"
  BY ModeOf
<1>. QED BY <1>1 DEF Framed, Chained, Allowed, Headers, Parts

LEMMA ReadyFrames ==
  ASSUME Basic, Framed, NEW t \in Tasks, Ready(t), conn'.owner \in {t, NoTask}, pc'[t] \notin Frames
  PROVE  Framed'
<1>1. /\ ~conn.closed /\ wire # <<>> /\ wire' = Tail(wire) /\ srv' = srv /\ Enters(wire[1]) = "top"
  BY DEF Ready, Enters
<1>2. Mode' = "top"
  BY NextModeOf
<1>3. Awaited' = Awaited
  BY <1>1 DEF Awaited
<1>. QED BY <1>1, <1>2, <1>3, ShiftFrames

LEMMA EndingFrames ==
  ASSUME Basic, Framed, ~FrameFaults, NEW t \in Tasks, Ending(t)
  PROVE  Framed' /\ misread' = misread
<1>0. pc \in [Tasks -> Holding \cup {"idle", "collect"}] /\ NoTask \notin Tasks /\ "idle" \notin Frames
  BY LoadDataAssumption DEF Basic, Shape, Types, NoTask, Frames
<1>1. PICK res : Leaves(t, res)
  BY DEF Ending, Quits, BreaksOff, Stumbles, Finishes
<1>2. pc' = [pc EXCEPT ![t] = "idle"] /\ conn'.owner = (IF conn.owner = t THEN NoTask ELSE conn.owner)
      /\ (conn.closed => conn'.closed) /\ pc'[t] = "idle"
  BY <1>0, <1>1 DEF Leaves
<1>3. CASE Quits(t)
  <2>1. srv' = srv /\ wire' = wire /\ misread' = misread /\ (pc[t] \in Frames => conn'.closed)
    BY <1>3 DEF Quits
  <2>2. CASE conn'.closed
    BY <2>1, <2>2 DEF Framed
  <2>3. CASE ~conn'.closed
    <3>1. ~conn.closed /\ pc[t] \notin Frames
      BY <1>2, <2>1, <2>3
    <3>2. Mode' = Mode
      <4>1. CASE conn.owner = t
        BY <1>2, <3>1, <4>1, ModeOf, NextModeOf
      <4>2. CASE conn.owner # t
        BY <1>0, <1>2, <4>2 DEF Mode
      <4>. QED BY <4>1, <4>2
    <3>3. Awaited' = Awaited
      BY <2>1 DEF Awaited
    <3>. QED BY <2>1, <3>1, <3>2, <3>3, SameFrames
  <2>. QED BY <2>1, <2>2, <2>3
<1>4. CASE BreaksOff(t)
  BY <1>4 DEF BreaksOff
<1>5. CASE Stumbles(t)
  <2>1. pc[t] = "read" /\ wire # <<>> /\ wire[1] \in Parts
    BY <1>5 DEF Stumbles
  <2>2. conn.owner = t /\ ~conn.closed /\ pc[t] \notin Frames
    BY <2>1, Holds DEF Holding, Frames, Reads, Readers
  <2>. QED BY <2>1, <2>2, ReadsOutside
<1>6. CASE Finishes(t)
  <2>1. Ready(t) /\ pc[t] = "read" /\ misread' = misread
    BY <1>6 DEF Finishes, Ready
  <2>2. conn.owner = t
    BY <2>1, Holds DEF Holding
  <2>. QED BY <1>0, <1>2, <2>1, <2>2, ReadyFrames
<1>. QED BY <1>3, <1>4, <1>5, <1>6 DEF Ending

LEMMA GoingFrames ==
  ASSUME Basic, Framed, NEW t \in Tasks, Going(t)
  PROVE  Framed' /\ misread' = misread
<1>0. pc \in [Tasks -> Holding \cup {"idle", "collect"}] /\ NoTask \notin Tasks
  BY LoadDataAssumption DEF Basic, Shape, Types, NoTask
<1>1. ASSUME NEW where, Continues(t, where)
      PROVE  /\ pc'[t] = where /\ conn'.owner \in {t, NoTask} /\ conn.owner \in {t, NoTask}
             /\ where \in Holding \cup {"collect"}
             /\ where \in Frames => conn'.owner = t
  <2>1. Frames \subseteq Holding
    BY DEF Frames, Holding
  <2>. QED BY <1>0, <1>1, <2>1 DEF Continues, Moves
<1>2. PICK where : /\ Continues(t, where) /\ pc'[t] = where /\ conn'.owner \in {t, NoTask}
                   /\ conn.owner \in {t, NoTask} /\ where \in Holding \cup {"collect"}
                   /\ where \in Frames => conn'.owner = t
  BY <1>1, GoingIs
<1>3. Mode' = IF where \in Frames THEN where ELSE "top"
  BY <1>2, NextModeOf
<1>4. ASSUME pc[t] \in Holding
      PROVE  conn.owner = t /\ (Reads(t) => ~conn.closed) /\ Mode = IF pc[t] \in Frames THEN pc[t] ELSE "top"
  BY <1>4, Holds, ModeOf
<1>5. CASE NextStatement(t) \/ Unwinds(t) \/ ReadyPlans(t) \/ Collects(t)
  <2>1. Ready(t) /\ pc'[t] \in {"send", "collect"} /\ misread' = misread
    BY <1>0, <1>5 DEF NextStatement, Unwinds, ReadyPlans, Collects, Plans, Sends, Moves, Ready
  <2>. QED BY <1>2, <2>1, ReadyFrames DEF Frames
<1>6. CASE CollectPlans(t) \/ Discards(t)
  <2>1. srv' = srv /\ wire' = wire /\ misread' = misread /\ pc'[t] \in {"send", "read"}
        /\ pc[t] \in {"collect", "send"} /\ conn'.closed = conn.closed
    BY <1>0, <1>6 DEF CollectPlans, Discards, Plans, Sends, Moves
  <2>2. Mode = "top" /\ Mode' = "top"
    BY <1>2, <1>3, <2>1, ModeOf DEF Frames
  <2>3. Awaited' = Awaited
    BY <2>1 DEF Awaited
  <2>4. CASE conn.closed
    BY <2>1, <2>4 DEF Framed
  <2>5. CASE ~conn.closed
    BY <2>1, <2>2, <2>3, <2>5, SameFrames
  <2>. QED BY <2>1, <2>4, <2>5
<1>7. CASE Transmits(t)
  <2>1. /\ wire = <<>> /\ wire' = wire /\ misread' = misread /\ pc'[t] = "read" /\ srv'.up = srv.up
        /\ srv.up => srv'.what = Now(t) /\ srv'.st = "run"
        /\ ~conn.closed
    BY <1>0, <1>7, Holds DEF Transmits, Holding
  <2>2. Mode' = "top"
    BY <1>2, <1>3, <2>1 DEF Frames
  <2>3. srv.up => Awaited' = "top"
    BY <2>1 DEF Awaited
  <2>4. Len(wire') = 0
    BY <2>1
  <2>. QED BY <2>1, <2>2, <2>3, <2>4 DEF Framed, Chained, EndMode
<1>8. CASE SendsBatch(t) \/ EndsStream(t, "end") \/ EndsStream(t, "abort")
  <2>1. /\ pc[t] = "xfer" /\ wire' = wire /\ misread' = misread /\ pc'[t] \in {"read", "xfer"}
        /\ srv'.up = srv.up /\ srv'.what = srv.what
        /\ (srv'.st \in {"hello", "greeted"} <=> srv.st \in {"hello", "greeted"})
    BY <1>0, <1>8 DEF SendsBatch, EndsStream, Moves
  <2>2. ~conn.closed /\ Mode = "top" /\ Mode' = "top"
    BY <1>2, <1>3, <1>4, <2>1 DEF Frames, Holding, Reads, Readers
  <2>3. Awaited' = Awaited
    BY <2>1 DEF Awaited
  <2>. QED BY <2>1, <2>2, <2>3, SameFrames
<1>9. ASSUME Reads(t), pc[t] \in Holding, wire # <<>>, wire' = Tail(wire), misread' = misread,
             (where \notin Frames /\ Enters(wire[1]) = "top") \/ (where \in Frames /\ where = Enters(wire[1])),
             srv' = srv \/ \E yes : Asks(yes)
      PROVE  Framed' /\ misread' = misread
  <2>1. Mode' = Enters(wire[1])
    BY <1>3, <1>9
  <2>2. srv'.up = srv.up /\ Awaited' = Awaited
    BY <1>9 DEF Asks, Awaited
  <2>. QED BY <1>4, <1>9, <2>1, <2>2, ShiftFrames
<1>10. CASE Drained(t)
  <2>1. /\ pc[t] = "read" /\ Reads(t) /\ pc[t] \in Holding /\ where = "send" /\ wire[1] = "ready"
        /\ wire # <<>> /\ wire' = Tail(wire) /\ misread' = misread /\ srv' = srv
    BY <1>0, <1>2, <1>10 DEF Drained, Sends, Moves, Reads, Readers, Holding
  <2>2. where \notin Frames /\ Enters(wire[1]) = "top"
    BY <2>1 DEF Frames, Enters
  <2>. QED BY <1>9, <2>1, <2>2
<1>11. CASE ReadsOn(t)
  <2>1. /\ pc[t] = "read" /\ Reads(t) /\ pc[t] \in Holding /\ where = "read"
        /\ wire # <<>> /\ wire' = Tail(wire) /\ misread' = misread
        /\ wire[1] \in Headers \ {"ready", "l", "lf", "U", "e"}
    BY <1>0, <1>2, <1>11 DEF ReadsOn, Moves, Reads, Readers, Holding
  <2>2. where \notin Frames /\ Enters(wire[1]) = "top"
    BY <2>1 DEF Frames, Enters, Headers
  <2>3. \E yes : Asks(yes)
    BY <1>11 DEF ReadsOn
  <2>. QED BY <1>9, <2>1, <2>2, <2>3
<1>12. CASE EntersFrame(t)
  <2>1. /\ pc[t] = "read" /\ Reads(t) /\ pc[t] \in Holding /\ where = FrameOf(wire[1])
        /\ wire # <<>> /\ wire' = Tail(wire) /\ misread' = misread
        /\ wire[1] \in {"l", "lf", "U", "e"}
    BY <1>0, <1>2, <1>12 DEF EntersFrame, Moves, Reads, Readers, Holding
  <2>2. where \in Frames /\ where = Enters(wire[1])
    BY <2>1 DEF Frames, Enters, FrameOf
  <2>3. \E yes : Asks(yes)
    BY <1>12 DEF EntersFrame
  <2>. QED BY <1>9, <2>1, <2>2, <2>3
<1>13. CASE Greets(t)
  <2>1. /\ pc[t] = "hello" /\ Reads(t) /\ pc[t] \in Holding /\ where = "xfer" /\ wire[1] = "fmt"
        /\ wire # <<>> /\ wire' = Tail(wire) /\ misread' = misread /\ srv' = srv
    BY <1>0, <1>2, <1>13 DEF Greets, Moves, Reads, Readers, Holding
  <2>2. where \notin Frames /\ Enters(wire[1]) = "top"
    BY <2>1 DEF Frames, Enters
  <2>. QED BY <1>9, <2>1, <2>2
<1>14. CASE ReadsPart(t)
  <2>1. /\ pc[t] \in {"unload", "logfile"} /\ Reads(t) /\ pc[t] \in Holding
        /\ where = (IF pc[t] = "unload" THEN IF wire[1] = "block" THEN "unload" ELSE "read"
                    ELSE IF wire[1] = "end" THEN "read" ELSE "logfile")
        /\ wire # <<>> /\ wire' = Tail(wire) /\ misread' = misread /\ srv' = srv
    BY <1>0, <1>2, <1>14 DEF ReadsPart, Moves, Reads, Readers, Holding
  <2>2. Mode = pc[t] /\ ~conn.closed
    BY <1>4, <2>1 DEF Frames
  <2>3. wire[1] \in Allowed(pc[t])
    BY <2>1, <2>2 DEF Framed, Chained
  <2>4. (where \notin Frames /\ Enters(wire[1]) = "top") \/ (where \in Frames /\ where = Enters(wire[1]))
    BY <2>1, <2>3 DEF Allowed, Enters, Frames
  <2>. QED BY <1>9, <2>1, <2>4
<1>. QED BY <1>5, <1>6, <1>7, <1>8, <1>10, <1>11, <1>12, <1>13, <1>14 DEF Going

LEMMA StartFrames ==
  ASSUME Basic, Framed, NEW t \in Tasks, NEW kind, Refused(t, kind) \/ Starts(t, kind)
  PROVE  Framed' /\ misread' = misread
<1>0. pc \in [Tasks -> Holding \cup {"idle", "collect"}] /\ NoTask \notin Tasks
  BY LoadDataAssumption DEF Basic, Shape, Types, NoTask
<1>1. srv' = srv /\ wire' = wire /\ misread' = misread /\ ~conn.closed /\ pc[t] = "idle"
  BY DEF Refused, Starts, Begins
<1>2. Awaited' = Awaited
  BY <1>1 DEF Awaited
<1>3. CASE Refused(t, kind)
  <2>1. pc' = [pc EXCEPT ![t] = "idle"] /\ conn'.owner = conn.owner
    BY <1>3 DEF Refused
  <2>2. pc' = pc
    BY <1>0, <1>1, <2>1
  <2>3. Mode' = Mode
    BY <2>1, <2>2 DEF Mode
  <2>. QED BY <1>1, <1>2, <2>3, SameFrames
<1>4. CASE Starts(t, kind)
  <2>1. pc'[t] = "send" /\ conn.owner = NoTask /\ conn'.owner = t
    BY <1>0, <1>4 DEF Starts
  <2>2. Mode = "top" /\ Mode' = "top"
    BY <2>1, ModeOf, NextModeOf DEF Frames
  <2>. QED BY <1>1, <1>2, <2>2, SameFrames
<1>. QED BY <1>3, <1>4

LEMMA ServingFrames ==
  ASSUME Basic, Framed, Serving, UNCHANGED <<conn, pc>>
  PROVE  Framed'
<1>0. ServerOK /\ wire \in Seq(Headers \cup Parts)
  BY ServesIs DEF Basic, Shape, Types
<1>1. CASE conn.closed
  BY <1>1 DEF Framed
<1>2. ASSUME ~conn.closed, NEW x, Settles(x), ~(srv.what \in {"insert", "copy"} /\ srv.st \in {"hello", "greeted"})
      PROVE  Framed'
  <2>1. /\ Adds(x) /\ Len(x) # 0 /\ srv.what # "none" /\ srv'.st = "none"
        /\ x[1] \in Headers /\ \A i \in 1 .. Len(x) - 1 : x[i + 1] \in Allowed(Enters(x[i]))
        /\ Enters(x[Len(x)]) = "top"
    BY <1>2 DEF Settles, Flows
  <2>2. srv.up
    BY <1>0, <2>1 DEF ServerOK
  <2>3. Awaited = "top" /\ Awaited' = "top"
    BY <1>2, <2>1 DEF Awaited
  <2>4. x[1] \in Allowed(Awaited)
    BY <2>1, <2>3, Headed
  <2>. QED BY <1>2, <2>1, <2>2, <2>3, <2>4, GrowFrames
<1>3. CASE ~conn.closed /\ Succeeds
  <2>1. PICK x : Settles(x) /\ \/ srv.what \in {"catalog", "unload", "create", "stmt"}
                               \/ srv.st = "end"
    BY <1>3 DEF Succeeds
  <2>. QED BY <1>2, <1>3, <2>1
<1>4. CASE ~conn.closed /\ Fails
  <2>1. PICK x : Settles(x) /\ srv.st \notin {"hello", "greeted"}
    BY <1>4 DEF Fails
  <2>. QED BY <1>2, <1>4, <2>1
<1>5. CASE ~conn.closed /\ TurnsOver
  <2>1. PICK x : Settles(x) /\ srv.what \in Turns
    BY <1>5 DEF TurnsOver
  <2>. QED BY <1>2, <1>5, <2>1 DEF Turns
<1>6. CASE ~conn.closed /\ GoesOn
  <2>1. PICK x : /\ Adds(x) /\ srv'.up = srv.up /\ srv'.what = srv.what
                 /\ \/ /\ Only(x, "l") /\ srv.what = "insert" /\ srv.st = "run" /\ srv'.st = "hello"
                    \/ /\ Only(x, "lf") /\ srv.what = "copy" /\ srv.st = "run" /\ srv'.st = "hello"
                    \/ Only(x, "fmt") /\ srv.what \in {"insert", "copy"} /\ srv.st = "greeted" /\ srv'.st = "data"
                    \/ Only(x, "u") /\ srv.what = "unload" /\ srv.st = "run" /\ srv'.st = "hello"
                    \/ /\ Len(x) = 3 /\ x[1] = "U" /\ x[2] = "block" /\ x[3] \in {"done", "sockerr"}
                       /\ srv.what = "unload" /\ srv.st = "greeted" /\ srv'.st = "dumped"
    BY <1>6 DEF GoesOn
  <2>2. srv.up
    BY <1>0, <2>1 DEF ServerOK
  <2>3. CASE Len(x) = 1 /\ \/ x[1] = "l" /\ srv.what = "insert" /\ srv.st = "run" /\ srv'.st = "hello"
                           \/ x[1] = "lf" /\ srv.what = "copy" /\ srv.st = "run" /\ srv'.st = "hello"
                           \/ x[1] = "fmt" /\ srv.what \in {"insert", "copy"} /\ srv.st = "greeted" /\ srv'.st = "data"
                           \/ x[1] = "u" /\ srv.what = "unload" /\ srv.st = "run" /\ srv'.st = "hello"
    <3>1. x[1] \in Allowed(Awaited)
      BY <2>3 DEF Allowed, Awaited, Headers
    <3>2. Awaited' = Enters(x[1])
      BY <2>1, <2>3 DEF Awaited, Enters
    <3>3. \A i \in 1 .. Len(x) - 1 : x[i + 1] \in Allowed(Enters(x[i]))
      BY <2>3
    <3>4. Awaited' = Enters(x[Len(x)]) /\ Len(x) # 0
      BY <2>3, <3>2
    <3>. QED BY <1>6, <2>1, <2>2, <3>1, <3>3, <3>4, GrowFrames
  <2>4. CASE /\ Len(x) = 3 /\ x[1] = "U" /\ x[2] = "block" /\ x[3] \in {"done", "sockerr"}
             /\ srv.what = "unload"
    <3>1. x[1] \in Allowed(Awaited)
      BY <2>4 DEF Allowed, Awaited, Headers
    <3>2. Awaited' = "top" /\ Enters(x[3]) = "top"
      BY <2>1, <2>4 DEF Awaited, Enters
    <3>3. x[2] \in Allowed(Enters(x[1])) /\ x[3] \in Allowed(Enters(x[2]))
      BY <2>4 DEF Allowed, Enters
    <3>4. \A i \in 1 .. Len(x) - 1 : i = 1 \/ i = 2
      BY <2>4
    <3>5. \A i \in 1 .. Len(x) - 1 : x[i + 1] \in Allowed(Enters(x[i]))
      BY <3>3, <3>4
    <3>6. Awaited' = Enters(x[Len(x)]) /\ Len(x) # 0
      BY <2>4, <3>2
    <3>. QED BY <1>6, <2>1, <2>2, <3>1, <3>5, <3>6, GrowFrames
  <2>. QED BY <2>1, <2>3, <2>4 DEF Only
<1>7. CASE ~conn.closed /\ Dies
  <2>0. ~srv'.up
    BY <1>7 DEF Dies
  <2>1. CASE srv.st = "abort" /\ srv.up /\ \E x : Adds(x) /\ Only(x, "error")
    <3>1. PICK x : Adds(x) /\ Only(x, "error")
      BY <2>1
    <3>2. x[1] \in Allowed(Awaited)
      BY <2>1, <3>1 DEF Only, Allowed, Awaited, Headers
    <3>3. Len(x) # 0 /\ \A i \in 1 .. Len(x) - 1 : x[i + 1] \in Allowed(Enters(x[i]))
      BY <3>1 DEF Only
    <3>. QED BY <1>7, <2>0, <2>1, <3>1, <3>2, <3>3, GrowFrames
  <2>2. CASE /\ wire' \in Seq(Byte) /\ Len(wire') <= Len(wire)
             /\ \A i \in 1 .. Len(wire') : wire'[i] = wire[i]
    <3>1. Len(wire) \in Nat /\ Len(wire') \in Nat /\ Chained /\ Mode' = Mode
      BY <1>0, <1>7, <2>2 DEF Framed, Mode
    <3>2. wire' # <<>> => wire'[1] \in Allowed(Mode')
      <4>1. SUFFICES ASSUME wire' # <<>> PROVE wire'[1] \in Allowed(Mode')
        OBVIOUS
      <4>2. Len(wire') # 0
        BY <2>2, <4>1, EmptyOne
      <4>3. 1 \in 1 .. Len(wire') /\ Len(wire) # 0
        BY <2>2, <3>1, <4>2
      <4>. QED BY <2>2, <3>1, <4>3, NotEmpty DEF Chained
    <3>3. ASSUME NEW i \in 1 .. Len(wire') - 1 PROVE wire'[i + 1] \in Allowed(Enters(wire'[i]))
      <4>1. i \in 1 .. Len(wire') /\ i + 1 \in 1 .. Len(wire') /\ i \in 1 .. Len(wire) - 1
        BY <2>2, <3>1
      <4>. QED BY <2>2, <3>1, <4>1 DEF Chained
    <3>. QED BY <2>0, <3>2, <3>3 DEF Framed, Chained
  <2>. QED BY <1>7, <2>1, <2>2 DEF Dies
<1>. QED BY <1>1, <1>3, <1>4, <1>5, <1>6, <1>7 DEF Serving

LEMMA FramedStarts ==
  ASSUME Init PROVE Framed /\ ~misread
<1>1. wire = <<>> /\ conn.owner = NoTask /\ NoTask \notin Tasks /\ srv.what = "none" /\ ~misread
  BY LoadDataAssumption DEF Init, NoTask, Idle
<1>2. Len(wire) = 0 /\ Mode = "top" /\ Awaited = "top"
  BY <1>1 DEF Mode, Awaited
<1>. QED BY <1>1, <1>2 DEF Framed, Chained, EndMode

LEMMA FramedKept ==
  ASSUME Basic, Framed, ~misread, ~FrameFaults, [Next]_vars PROVE Framed' /\ ~misread'
<1>1. CASE UNCHANGED vars
  <2>1. Mode' = Mode /\ Awaited' = Awaited
    BY <1>1 DEF vars, Mode, Awaited
  <2>. QED BY <1>1, <2>1 DEF vars, Framed, Chained, EndMode
<1>. QED BY <1>1, NextIs, EndingFrames, GoingFrames, StartFrames, ServingFrames

\* No byte inside the frame of an external table is taken for the header of a message
\* (_protocol.py, _extab.py), whatever the loads, the failures of the backend and the
\* cancellations - as long as none of them hits inside of a frame.
THEOREM FramesAreRead ==
  ASSUME ~FrameFaults PROVE Spec => []HeadersAreHeaders
<1>1. Init => Basic /\ Framed /\ ~misread
  BY BasicStarts, FramedStarts
<1>2. Basic /\ Framed /\ ~misread /\ [Next]_vars => (Basic /\ Framed /\ ~misread)'
  BY BasicKept, FramedKept
<1>3. Basic /\ Framed /\ ~misread => HeadersAreHeaders
  BY DEF HeadersAreHeaders
<1>. QED BY <1>1, <1>2, <1>3, PTL DEF Spec

-----------------------------------------------------------------------------
(* What is stored.                                                             *)
(*                                                                             *)
(* A statement that was cancelled is answered later, when another one drains   *)
(* the connection.  If that is a COMMIT or a ROLLBACK, the connection does not *)
(* learn that its transaction has ended; if it is the INSERT of a load and     *)
(* several tasks share the connection, it may be given the rows of the next    *)
(* load.  A scene in which neither can happen is tame, and until a call is     *)
(* cancelled every scene behaves like a tame one.                              *)
Clean == \A k \in 1 .. calls : outcome[k] # "cancelled"
Single(s) == \A t, u \in s.tasks : t = u
Tame(s) == s.cancel \cap Ends = {} /\ ("insert" \in s.cancel => Single(s))
Trusted == Clean \/ Tame(scene)

\* Nobody reads the answer that is under way, if there is one.
Abandoned == \A t \in Tasks : ~Answers(t)

\* The format is given once, before the rows.
FormatOnce ==
  /\ srv.up /\ OnWire("fmt") =>
       srv.st = "data" /\ srv.buf = <<>> /\ \A t \in Tasks : pc[t] # "xfer"
  /\ \A i, j \in 1 .. Len(wire) : wire[i] = "fmt" /\ wire[j] = "fmt" => i = j
  /\ \A t \in Tasks : pc[t] = "xfer" /\ srv.up => srv.st = "data"

\* A load creates its table in a transaction, and so fills it if it is to commit.
Within ==
  \A t \in Tasks :
    Active(t) /\ call[t].planned
    /\ (Now(t) = "create" \/ (Now(t) = "insert" /\ call[t].transactional)) => conn.in_transaction

LeftFailed ==
  conn.dirty /\ Abandoned => \E k \in 1 .. calls : outcome[k] \in {"failed", "cancelled"}

\* The end of a transaction was reported to who ended it.
Ended ==
  \A t \in Tasks : Answers(t) /\ (OnWire("COMMIT") \/ OnWire("ROLLBACK")) => srv.txn = "none"

Plain == FormatOnce /\ Within /\ LeftFailed /\ Ended

\* What abandoned statements there may be
LeftEnds ==
  Abandoned /\ ~conn.closed => srv.what \notin Ends /\ ~OnWire("COMMIT") /\ ~OnWire("ROLLBACK")

LeftInsert ==
  Abandoned /\ ~conn.closed /\ (Clean \/ "insert" \notin scene.cancel) =>
    /\ srv.what # "insert" /\ ~OnWire("l")
    /\ \A t \in Tasks : pc[t] = "hello" => ~call[t].marker

LeftAlone ==
  Single(scene) => \A t \in Tasks :
    pc[t] = "collect" \/ (Active(t) /\ call[t].planned /\ ~Answers(t)) => ~conn.dirty

\* The connection knows of the end of its transaction, or is about to.
Belief ==
  srv.up /\ conn.in_transaction /\ srv.txn = "none" => OnWire("COMMIT") \/ OnWire("ROLLBACK")

CreatesInside == srv.what = "create" => srv.txn # "none"

\* The call has rows to store that it has not asked for yet.
Due(t) ==
  \/ call[t].kind = "load" /\ ~call[t].planned
  \/ \E i \in 1 .. Len(call[t].todo) : call[t].todo[i] \in Storing /\ (i = 1 => ~Answers(t))

Once ==
  /\ work.rows \subseteq {Complete(k) : k \in 1 .. calls}
  /\ srv.what \in Storing => Complete(srv.of) \notin work.rows
  /\ \A t \in Tasks : Active(t) /\ Due(t) =>
       Complete(call[t].id) \notin work.rows /\ (srv.what \in Storing => srv.of # call[t].id)

\* The rows that came in are those of the statement.
OwnRows ==
  /\ srv.st \in {"data", "end"} => \A i \in 1 .. Len(srv.buf) : srv.buf[i] = srv.of
  /\ srv.st = "end" => Len(srv.buf) = Batches
  /\ \A t \in Tasks : pc[t] = "xfer" /\ srv.st = "data" =>
       Len(srv.buf) = call[t].pos /\ call[t].src \in {0, srv.of}

\* An INSERT that was answered without an error has stored its rows.
Inserted ==
  \A t \in Tasks :
    Answers(t) /\ Now(t) = "insert" /\ OnWire("ready") /\ ~OnWire("error") /\ ~call[t].err /\ srv.up =>
      Complete(call[t].id) \in work.rows /\ srv.txn # "failed"

\* What a load commits
Commits ==
  \A t \in Tasks : Active(t) /\ call[t].planned /\ Now(t) = "commit" =>
    /\ ~Answers(t) => ~conn.dirty /\ (srv.up => Complete(call[t].id) \in work.rows /\ srv.txn = "open")
    /\ Answers(t) /\ srv.what = "commit" => Complete(call[t].id) \in work.rows /\ srv.txn = "open"
    /\ Answers(t) /\ OnWire("ready") => Complete(call[t].id) \in table.rows

\* A table that was created and has no rows yet is not committed.
Bare == work.exists /\ ~table.exists /\ work.rows = {}
BareKnown ==
  Bare => \/ \E k \in 1 .. calls : outcome[k] \in {"failed", "cancelled", "refused"}
          \/ \E t \in Tasks : /\ Active(t) /\ call[t].planned
                              /\ call[t].unwinding \/ Now(t) \in {"create", "insert"}

BareKept ==
  /\ \A t \in Tasks : Active(t) /\ call[t].kind = "commit" => ~Bare /\ srv.what # "create"
  /\ srv.what = "commit" /\ srv.txn = "open" => ~Bare

Careful ==
  /\ LeftEnds /\ LeftInsert /\ LeftAlone /\ Belief /\ CreatesInside
  /\ Once /\ OwnRows /\ Inserted /\ Commits /\ BareKnown /\ BareKept

Stores == Plain /\ (Trusted => Careful)

\* Before a call is cancelled: whose transaction it is
LeftBegin == Abandoned /\ ~conn.closed => srv.what # "begin"
NoBegin == ~appTxn /\ \A t \in Tasks : Active(t) => call[t].kind # "begin"
NoTransaction == conn.autocommit /\ NoBegin => ~conn.in_transaction /\ srv.txn = "none"
BegunUnread ==
  srv.txn # "none" /\ ~conn.in_transaction => \E t \in Tasks : Answers(t) /\ Now(t) = "begin"

ManualBegin ==
  \A t \in Tasks :
    /\ Active(t) /\ call[t].kind # "begin" /\ pc[t] # "collect" /\ Now(t) = "begin" => ~conn.autocommit
    /\ Active(t) /\ call[t].transactional => ~conn.autocommit

LoadsAlone ==
  \A t \in Tasks : Active(t) /\ call[t].kind = "load" /\ call[t].alone =>
    /\ NoBegin
    /\ conn.autocommit \/ \E u \in Tasks : conn.owner = u /\ call[u].planned /\ call[u].transactional
    /\ call[t].planned /\ ~call[t].transactional => Only(call[t].todo, "insert")
    /\ Answers(t) /\ Now(t) = "insert" /\ ~call[t].transactional
       /\ OnWire("ready") /\ ~OnWire("error") /\ ~call[t].err => Complete(call[t].id) \in table.rows

Own == LeftBegin /\ NoTransaction /\ BegunUnread /\ ManualBegin /\ LoadsAlone
OwnIfClean == Clean /\ ~conn.closed => Own

-----------------------------------------------------------------------------
(* The kinds of steps *)
Others1(t) == \A u \in Tasks : u # t => pc'[u] = pc[u] /\ call'[u] = call[u]
SameWork(t) ==
  /\ SameStatement(t) /\ call'[t].id = call[t].id /\ call'[t].kind = call[t].kind
  /\ call'[t].alone = call[t].alone

SameEnds(t) == Others1(t) /\ UNCHANGED <<outcome, appTxn>> /\ Active(t) /\ conn'.closed = conn.closed
WireMoves == wire' = wire \/ (wire # <<>> /\ wire' = Tail(wire))
Reading(t) ==
  /\ Reads(t) /\ pc'[t] \in Readers /\ SameWork(t) /\ call'[t].draining = call[t].draining
  /\ SameEnds(t) /\ WireMoves
  /\ conn'.dirty = conn.dirty /\ conn'.autocommit = conn.autocommit /\ conn'.owner = conn.owner
  /\ srv'.up = srv.up /\ srv'.txn = srv.txn /\ srv'.what = srv.what /\ srv'.of = srv.of
  /\ \/ /\ conn'.in_transaction = conn.in_transaction
        /\ wire' = wire \/ call[t].draining \/ wire[1] \notin {"BEGIN", "COMMIT", "ROLLBACK"}
     \/ conn'.in_transaction /\ wire # <<>> /\ wire' = Tail(wire) /\ wire[1] = "BEGIN" /\ Answers(t)
     \/ /\ ~conn'.in_transaction /\ wire # <<>> /\ wire' = Tail(wire)
        /\ wire[1] \in {"COMMIT", "ROLLBACK"} /\ Answers(t)

Passing(t) ==
  /\ Ready(t) /\ pc'[t] \in {"send", "collect"} /\ SameEnds(t) /\ ~call'[t].draining /\ ~call'[t].err
  /\ call'[t].id = call[t].id /\ call'[t].kind = call[t].kind /\ call'[t].alone = call[t].alone
  /\ wire' = <<>> /\ srv.what = "none" /\ Answers(t)

Waits(t) ==
  /\ ~Answers(t) /\ pc[t] \in Holding /\ pc'[t] \in {"send", "read"} /\ (pc'[t] = "read" => call'[t].draining)
  /\ SameWork(t) /\ SameEnds(t) /\ WireMoves /\ conn.dirty
  /\ UNCHANGED srv /\ conn'.autocommit = conn.autocommit /\ conn'.owner = conn.owner
  /\ conn'.in_transaction = conn.in_transaction
  /\ \/ conn'.dirty = conn.dirty /\ wire' = wire
     \/ ~conn'.dirty /\ wire # <<>> /\ wire[1] = "ready" /\ wire' = <<>> /\ srv.what = "none"

LEMMA State ==
  ASSUME Basic
  PROVE  /\ pc \in [Tasks -> Holding \cup {"idle", "collect"}] /\ DOMAIN call = Tasks
         /\ conn \in ConnRecord /\ srv \in ServerRecord /\ wire \in Seq(Headers \cup Parts)
         /\ NoTask \notin Tasks /\ calls \in 0 .. MaxCalls /\ outcome \in [1 .. MaxCalls -> Results]
         /\ work \in Table /\ table \in Table /\ appTxn \in BOOLEAN /\ scene \in Scenes
         /\ MaxCalls \in Nat /\ Batches \in Nat \ {0}
BY LoadDataAssumption DEF Basic, Shape, Types, NoTask

LEMMA OneReader ==
  ASSUME Basic, NEW t \in Tasks, NEW u \in Tasks, Reads(t), pc[u] \in Holding PROVE t = u
BY State DEF Basic, Shape, Held, Reads, Readers, Holding

LEMMA MovesOthers ==
  ASSUME Basic, NEW t \in Tasks, NEW where, Moves(t, where)
  PROVE  Others1(t) /\ pc'[t] = where /\ UNCHANGED <<outcome, appTxn>> /\ conn'.closed = conn.closed
BY State DEF Moves, Others1

LEMMA ReadsUnload ==
  ASSUME Basic, NEW t \in Tasks, Answers(t), Now(t) \notin Turns, wire # <<>>
  PROVE  wire[1] \notin {"BEGIN", "COMMIT", "ROLLBACK"}
<1>1. wire[1] \in Headers \cup Parts /\ OnWire(wire[1]) /\ Matching(t)
  <2>1. 1 \in 1 .. Len(wire) /\ wire[1] \in Headers \cup Parts
    BY FirstOf
  <2>2. Matching(t)
    BY MatchesIs DEF Basic
  <2>. QED BY <2>1, <2>2 DEF OnWire
<1>. QED BY <1>1 DEF Matching, Answering, Turns

LEMMA ReadingIs ==
  ASSUME Basic, NEW t \in Tasks,
         ReadsOn(t) \/ EntersFrame(t) \/ Greets(t) \/ SendsBatch(t) \/ EndsStream(t, "end")
         \/ EndsStream(t, "abort") \/ ReadsPart(t)
  PROVE  Reading(t)
<1>1. \E where : Moves(t, where) /\ where \in Readers
  BY DEF ReadsOn, EntersFrame, Greets, SendsBatch, EndsStream, ReadsPart, Readers, FrameOf
<1>2. SameEnds(t) /\ pc'[t] \in Readers
  <2>1. Active(t)
    BY DEF ReadsOn, EntersFrame, Greets, SendsBatch, EndsStream, ReadsPart, Active
  <2>. QED BY <1>1, <2>1, MovesOthers DEF SameEnds
<1>3. SameWork(t) /\ call'[t].draining = call[t].draining
  BY <1>1 DEF ReadsOn, EntersFrame, Greets, SendsBatch, EndsStream, ReadsPart, Same, SameWork, Moves
<1>4. Reads(t) /\ WireMoves /\ conn'.dirty = conn.dirty /\ conn'.autocommit = conn.autocommit /\ conn'.owner = conn.owner
  BY DEF ReadsOn, EntersFrame, Greets, SendsBatch, EndsStream, ReadsPart, Same, Stays, Reads, Readers, WireMoves
<1>5. srv'.up = srv.up /\ srv'.txn = srv.txn /\ srv'.what = srv.what /\ srv'.of = srv.of
  BY DEF ReadsOn, EntersFrame, Greets, SendsBatch, EndsStream, ReadsPart, Asks
<1>6. \/ /\ conn'.in_transaction = conn.in_transaction
         /\ wire' = wire \/ call[t].draining \/ wire[1] \notin {"BEGIN", "COMMIT", "ROLLBACK"}
      \/ conn'.in_transaction /\ wire # <<>> /\ wire' = Tail(wire) /\ wire[1] = "BEGIN" /\ Answers(t)
      \/ /\ ~conn'.in_transaction /\ wire # <<>> /\ wire' = Tail(wire)
         /\ wire[1] \in {"COMMIT", "ROLLBACK"} /\ Answers(t)
  <2>1. CASE ReadsOn(t)
    BY <2>1, <1>4 DEF ReadsOn, Answers
  <2>2. CASE EntersFrame(t) \/ Greets(t) \/ SendsBatch(t) \/ EndsStream(t, "end") \/ EndsStream(t, "abort")
    BY <2>2 DEF EntersFrame, Greets, SendsBatch, EndsStream
  <2>3. CASE ReadsPart(t)
    <3>1. conn' = conn /\ wire # <<>> /\ pc[t] \in {"unload", "logfile"}
      BY <2>3 DEF ReadsPart
    <3>2. Answers(t) => Now(t) \notin Turns
      BY <3>1 DEF Basic, Matches, Turns
    <3>. QED BY <3>1, <3>2, <1>4, ReadsUnload DEF Answers
  <2>. QED BY <2>1, <2>2, <2>3
<1>. QED BY <1>2, <1>3, <1>4, <1>5, <1>6 DEF Reading

LEMMA PassingIs ==
  ASSUME Basic, NEW t \in Tasks, NextStatement(t) \/ Unwinds(t) \/ ReadyPlans(t) \/ Collects(t)
  PROVE  Passing(t)
<1>1. Ready(t)
  BY DEF NextStatement, Unwinds, ReadyPlans, Collects
<1>2. \E where \in {"send", "collect"} : Moves(t, where) /\ ~call'[t].draining /\ ~call'[t].err
  BY DEF NextStatement, Unwinds, ReadyPlans, Collects, Plans, Sends
<1>3. Others1(t) /\ pc'[t] \in {"send", "collect"} /\ UNCHANGED <<outcome, appTxn>> /\ conn'.closed = conn.closed
  BY <1>2, MovesOthers
<1>4. wire' = <<>> /\ srv.what = "none"
  BY <1>1, Emptied DEF Ready
<1>5. Answers(t) /\ Active(t)
  BY <1>1 DEF Ready, Answers, Reads, Readers, Active
<1>. QED BY <1>1, <1>2, <1>3, <1>4, <1>5 DEF Passing, SameEnds, Moves

LEMMA WaitsIs ==
  ASSUME Basic, NEW t \in Tasks, Drained(t) \/ Discards(t) PROVE Waits(t)
<1>1. CASE Drained(t)
  <2>1. Moves(t, "send") /\ pc[t] = "read" /\ call[t].draining
    BY <1>1 DEF Drained, Sends
  <2>2. SameEnds(t) /\ pc'[t] = "send"
    BY <2>1, MovesOthers DEF SameEnds, Active
  <2>3. wire' = <<>> /\ srv.what = "none"
    BY <1>1, Emptied DEF Drained
  <2>4. conn.dirty
    BY <2>1, Holds DEF Reads, Readers, Holding
  <2>. QED
    BY <1>1, <2>1, <2>2, <2>3, <2>4 DEF Drained, Waits, Answers, Holding, SameWork, Moves, WireMoves, Stays
<1>2. CASE Discards(t)
  <2>1. Moves(t, "read") /\ pc[t] = "send" /\ call'[t].draining
    BY <1>2 DEF Discards
  <2>2. SameEnds(t) /\ pc'[t] = "read"
    BY <2>1, MovesOthers DEF SameEnds, Active
  <2>. QED
    BY <1>2, <2>1, <2>2 DEF Discards, Waits, Answers, Reads, Readers, Holding, SameWork, Moves, WireMoves
<1>. QED BY <1>1, <1>2

LEMMA Kinds ==
  ASSUME Basic, NEW t \in Tasks, Going(t)
  PROVE  Reading(t) \/ Passing(t) \/ Waits(t) \/ Transmits(t) \/ CollectPlans(t)
BY ReadingIs, PassingIs, WaitsIs DEF Going

\* How a call ends: the connection with it, or by a cancellation, without having
\* anything under way, by a full disk, or with its last answer
Over(t, res) ==
  /\ Active(t) /\ pc'[t] = "idle" /\ Others1(t) /\ UNCHANGED srv /\ WireMoves
  /\ outcome' = [outcome EXCEPT ![call[t].id] = res] /\ res \in Results \ {"none"}
  /\ (conn.closed => conn'.closed)
  /\ conn'.owner = (IF conn.owner = t THEN NoTask ELSE conn.owner)
  /\ (~conn'.closed => conn'.autocommit = (conn.autocommit \/ call[t].transactional))
  /\ (appTxn' => appTxn \/ (call[t].kind = "begin" /\ res = "ok"))
  /\ (call[t].kind = "begin" /\ res = "ok" => appTxn')
  /\ (~conn'.closed /\ appTxn /\ call[t].kind \notin Ends => appTxn')

Shut(t) ==
  /\ conn'.closed /\ \E res \in {"failed", "cancelled"} : Over(t, res)
  /\ wire' = wire \/ (wire # <<>> /\ wire' = Tail(wire) /\ wire[1] \in Parts)

Cancelled(t) ==
  /\ Answers(t) /\ Now(t) \in scene.cancel /\ Over(t, "cancelled") /\ wire' = wire
  /\ ~conn'.closed /\ conn'.in_transaction = conn.in_transaction /\ conn'.dirty = conn.dirty

Dropped(t) ==
  /\ pc[t] = "collect" /\ wire' = wire /\ \E res \in {"failed", "cancelled"} : Over(t, res)
  /\ conn'.in_transaction = conn.in_transaction /\ conn'.dirty = conn.dirty /\ conn'.closed = conn.closed

Broken(t) ==
  /\ Answers(t) /\ Now(t) = "unload" /\ Over(t, "failed") /\ wire # <<>> /\ wire' = Tail(wire)
  /\ conn'.in_transaction = conn.in_transaction /\ conn'.dirty = conn.dirty

Ended1(t) == Finishes(t) /\ Answers(t) /\ wire' = <<>> /\ srv.what = "none"
             /\ \E res \in {"failed", "ok", "stored"} : Over(t, res)

LEMMA OverIs ==
  ASSUME Basic, NEW t \in Tasks, NEW res, Active(t), Leaves(t, res), UNCHANGED srv, WireMoves
  PROVE  Over(t, res)
<1>1. Others1(t) /\ pc'[t] = "idle"
  BY State DEF Leaves, Others1
<1>. QED BY <1>1 DEF Leaves, Over

LEMMA EndKinds ==
  ASSUME Basic, NEW t \in Tasks, Ending(t)
  PROVE  /\ Shut(t) \/ Cancelled(t) \/ Dropped(t) \/ Broken(t) \/ Ended1(t)
         /\ \E res : Over(t, res)
         /\ conn'.in_transaction = conn.in_transaction \/ Ended1(t)
<1>1. CASE Quits(t)
  <2>1. PICK res \in {"failed", "cancelled"} :
          /\ Active(t) /\ Leaves(t, res)
          /\ conn'.dirty = conn.dirty /\ conn'.in_transaction = conn.in_transaction
          /\ UNCHANGED <<srv, wire, misread>>
          /\ Reads(t) => conn'.closed \/ (Answers(t) /\ res = "cancelled" /\ Now(t) \in scene.cancel)
          /\ pc[t] = "send" => conn'.closed
          /\ pc[t] = "collect" => conn'.closed = conn.closed
    BY <1>1 DEF Quits
  <2>2. Over(t, res)
    BY <2>1, OverIs DEF WireMoves
  <2>3. pc[t] \in {"collect", "send"} \cup Readers
    BY <2>1, State DEF Active, Holding, Readers
  <2>4. CASE pc[t] = "collect"
    BY <2>1, <2>2, <2>4 DEF Dropped
  <2>5. CASE conn'.closed
    BY <2>1, <2>2, <2>5 DEF Shut
  <2>6. CASE ~conn'.closed /\ Reads(t)
    BY <2>1, <2>2, <2>6 DEF Cancelled
  <2>. QED BY <2>1, <2>2, <2>3, <2>4, <2>5, <2>6 DEF Reads
<1>2. CASE BreaksOff(t)
  <2>1. Active(t) /\ Leaves(t, "failed") /\ pc[t] = "unload" /\ Answers(t) /\ wire # <<>> /\ wire' = Tail(wire)
        /\ UNCHANGED srv /\ conn'.dirty = conn.dirty /\ conn'.in_transaction = conn.in_transaction
    BY <1>2 DEF BreaksOff
  <2>2. Over(t, "failed")
    BY <2>1, OverIs DEF WireMoves
  <2>3. Now(t) = "unload"
    BY <2>1 DEF Basic, Matches
  <2>. QED BY <2>1, <2>2, <2>3 DEF Broken
<1>3. CASE Stumbles(t)
  <2>1. Active(t) /\ Leaves(t, "failed") /\ conn'.closed /\ wire # <<>> /\ wire' = Tail(wire) /\ UNCHANGED srv
        /\ wire[1] \in Parts /\ conn'.in_transaction = conn.in_transaction
    BY <1>3 DEF Stumbles
  <2>2. Over(t, "failed")
    BY <2>1, OverIs DEF WireMoves
  <2>. QED BY <2>1, <2>2 DEF Shut
<1>4. CASE Finishes(t)
  <2>1. PICK res \in {"failed", "ok", "stored"} : Ready(t) /\ Leaves(t, res)
    BY <1>4 DEF Finishes
  <2>2. /\ wire # <<>> /\ wire' = Tail(wire) /\ UNCHANGED srv /\ Answers(t) /\ Active(t)
        /\ wire' = <<>> /\ srv.what = "none"
    BY <2>1, Emptied DEF Ready, Answers, Reads, Readers, Active
  <2>3. Over(t, res)
    BY <2>1, <2>2, OverIs DEF WireMoves
  <2>. QED BY <1>4, <2>2, <2>3 DEF Ended1
<1>. QED BY <1>1, <1>2, <1>3, <1>4 DEF Ending

\* A step of a task, a call that starts, and a step of the backend
Acts(t) == (Ending(t) \/ Going(t)) /\ UNCHANGED <<scene, calls, work, table>>
Comes(t, kind) == (Refused(t, kind) \/ Starts(t, kind)) /\ UNCHANGED <<scene, work, table>>
Works1 == Serving /\ UNCHANGED <<scene, conn, pc, call, calls, outcome, appTxn, misread>>

LEMMA Steps ==
  ASSUME Basic, [Next]_vars
  PROVE  \/ UNCHANGED vars
         \/ \E t \in Tasks : Acts(t)
         \/ \E t \in Tasks, kind \in Others \cup {"load"} : Comes(t, kind)
         \/ Works1
BY NextIs DEF Acts, Comes, Works1

LEMMA ActsOthers ==
  ASSUME Basic, NEW t \in Tasks, Ending(t) \/ Going(t) PROVE Others1(t) /\ Active(t) /\ WireMoves
<1>1. CASE Ending(t)
  BY <1>1, EndKinds DEF Over
<1>2. CASE Going(t)
  <2>1. CASE Transmits(t) \/ CollectPlans(t)
    <3>1. Moves(t, "read") \/ Moves(t, "send")
      BY <2>1, TransmitsMoves DEF CollectPlans, Plans, Sends
    <3>2. Active(t)
      BY <2>1 DEF Transmits, CollectPlans, Active
    <3>. QED BY <2>1, <3>1, <3>2, MovesOthers DEF Transmits, CollectPlans, WireMoves
  <2>2. CASE Passing(t)
    BY <2>2 DEF Passing, SameEnds, Ready, WireMoves
  <2>. QED BY <1>2, <2>1, <2>2, Kinds DEF Reading, Waits, SameEnds
<1>. QED BY <1>1, <1>2

\* The history of outcomes, and whom to trust
LEMMA Histories ==
  ASSUME Basic, [Next]_vars
  PROVE  /\ scene' = scene /\ calls' \in Nat /\ calls <= calls'
         /\ \A k \in 1 .. calls : outcome[k] # "none" => outcome'[k] = outcome[k]
<1>1. calls \in Nat
  BY State
<1>2. CASE UNCHANGED vars
  BY <1>1, <1>2 DEF vars
<1>3. ASSUME NEW t \in Tasks, Acts(t)
      PROVE scene' = scene /\ calls' = calls /\ \A k \in 1 .. calls : outcome[k] # "none" => outcome'[k] = outcome[k]
  <2>1. CASE Going(t)
    <3>1. outcome' = outcome
      BY <2>1, Kinds DEF Reading, Passing, Waits, Transmits, CollectPlans, Plans, Sends, SameEnds, Moves
    <3>. QED BY <1>3, <3>1 DEF Acts
  <2>2. CASE Ending(t)
    <3>1. PICK res : Over(t, res)
      BY <2>2, EndKinds
    <3>2. outcome[call[t].id] = "none"
      BY <3>1 DEF Over, Basic, Shape, CallsOK
    <3>. QED BY <1>3, <3>1, <3>2, State DEF Over, Acts
  <2>. QED BY <1>3, <2>1, <2>2 DEF Acts
<1>4. ASSUME NEW t \in Tasks, NEW kind, Comes(t, kind)
      PROVE scene' = scene /\ calls' = calls + 1 /\ \A k \in 1 .. calls : outcome[k] # "none" => outcome'[k] = outcome[k]
  <2>1. scene' = scene /\ calls' = calls + 1
    BY <1>4 DEF Comes, Refused, Starts, Begins
  <2>2. outcome' = outcome \/ \E res : outcome' = [outcome EXCEPT ![calls + 1] = res]
    BY <1>4 DEF Comes, Refused, Starts
  <2>. QED BY <1>1, <2>1, <2>2, State
<1>5. CASE Works1
  BY <1>1, <1>5 DEF Works1
<1>. QED BY <1>1, <1>2, <1>3, <1>4, <1>5, Steps

LEMMA TrustLasts ==
  ASSUME Basic, [Next]_vars
  PROVE  (Clean' => Clean) /\ (Trusted' => Trusted)
<1>1. Clean' => Clean
  BY Histories, State DEF Clean
<1>. QED BY <1>1, Histories DEF Trusted

-----------------------------------------------------------------------------
(* The kinds of steps of the backend *)
Says ==
  \A m \in Headers \cup Parts : OnWire(m)' => OnWire(m) \/ (srv.what # "none" /\ srv.what \in Answering(m))

Spoken == \A m : OnWire(m) => OnWire(m)'
Settled ==
  /\ srv.what # "none" /\ srv.up /\ srv'.up /\ srv'.what = "none" /\ srv'.st = "none" /\ srv'.buf = <<>>
  /\ ~OnWire("ready") /\ OnWire("ready")' /\ Spoken

\* The table after a statement that did not fail
Leaves1 ==
  \/ srv.what \in {"catalog", "unload"} /\ work' = work
  \/ srv.what = "create" /\ ~work.exists /\ work'.exists /\ work'.rows = work.rows
  \/ srv.what = "stmt" /\ work.exists /\ Brings(Complete(srv.of)) /\ srv.txn # "failed"
  \/ srv.st = "end" /\ Brings(Stored)

Done1 ==
  /\ Settled /\ srv.what \notin Turns /\ srv'.txn = srv.txn /\ Leaves1
  /\ work' \in Table /\ table' = IF srv.txn = "none" THEN work' ELSE table

Failed1 ==
  /\ Settled /\ srv.what \notin Turns /\ OnWire("error")' /\ UNCHANGED <<work, table>>
  /\ srv'.txn = (IF srv.txn = "none" THEN "none" ELSE "failed") /\ srv.st \in {"run", "end", "abort"}

Turned ==
  /\ Settled /\ srv.what \in Turns /\ \A m : m = TagOf(srv.what) => OnWire(m)'
  /\ srv'.txn = (IF srv.what # "begin" THEN "none" ELSE IF srv.txn = "none" THEN "open" ELSE srv.txn)
  /\ table' = (IF srv.what = "commit" /\ srv.txn = "open" THEN work ELSE table)
  /\ work' = (IF (srv.what = "commit" /\ srv.txn = "open") \/ srv.txn = "none" \/ srv.what = "begin"
              THEN work ELSE table)

Waiting ==
  /\ srv.what \notin Turns \cup {"none"} /\ srv.up /\ UNCHANGED <<work, table>> /\ Spoken
  /\ srv'.up /\ srv'.txn = srv.txn /\ srv'.what = srv.what /\ srv'.of = srv.of /\ srv'.buf = srv.buf
  /\ srv.st \in {"run", "greeted"} /\ srv'.st \in {"hello", "data", "dumped"}
  /\ srv'.st = "data" => srv.st = "greeted" /\ srv.what \in {"insert", "copy"}

LEMMA SettlesSays ==
  ASSUME Basic, NEW x, Settles(x) PROVE Settled
<1>1. Adds(x) /\ Len(x) \in Nat \ {0} /\ x[Len(x)] = "ready" /\ srv.what # "none" /\ srv'.up = srv.up
      /\ srv'.what = "none" /\ srv'.st = "none" /\ srv'.buf = <<>>
  BY DEF Settles
<1>2. OnWire("ready")' /\ Spoken
  <2>1. Len(x) \in 1 .. Len(x)
    BY <1>1
  <2>. QED BY <1>1, <2>1, WireGrows DEF Spoken
<1>3. srv.up /\ ~OnWire("ready")
  BY <1>1 DEF Basic, Serves, OnWire
<1>. QED BY <1>1, <1>2, <1>3 DEF Settled

LEMMA AddsSays ==
  ASSUME Basic, NEW x, Adds(x), srv.what # "none", \A i \in 1 .. Len(x) : srv.what \in Answering(x[i])
  PROVE  Says /\ Spoken
BY WireGrows DEF Says, Spoken

LEMMA AlikeSays ==
  ASSUME Basic, NEW x, Settles(x), srv.what \notin Turns, Alike(x) PROVE Says
<1>1. Adds(x) /\ srv.what \in Statements \ Turns
  BY State DEF Settles, ServerRecord
<1>2. \A i \in 1 .. Len(x) : srv.what \in Answering(x[i])
  BY <1>1 DEF Alike, Answering
<1>. QED BY <1>1, <1>2, AddsSays DEF Settles

LEMMA TurnSays ==
  ASSUME Basic, TurnsOver PROVE Turned /\ Says
<1>1. PICK x :
        /\ Settles(x) /\ srv.what \in Turns /\ Len(x) = 2 /\ x[1] = TagOf(srv.what) /\ x[2] = "ready"
        /\ srv'.txn = IF srv.what # "begin" THEN "none" ELSE IF srv.txn = "none" THEN "open" ELSE srv.txn
        /\ table' = IF srv.what = "commit" /\ srv.txn = "open" THEN work ELSE table
        /\ work' = IF (srv.what = "commit" /\ srv.txn = "open") \/ srv.txn = "none" \/ srv.what = "begin"
                   THEN work ELSE table
  BY DEF TurnsOver
<1>2. Settled /\ Adds(x) /\ 1 \in 1 .. Len(x) /\ srv.what # "none"
  <2>1. Settles(x) /\ Len(x) = 2
    BY <1>1
  <2>2. 1 \in 1 .. Len(x)
    BY <2>1
  <2>. QED BY <2>1, <2>2, SettlesSays DEF Settles
<1>3. OnWire(x[1])'
  BY <1>2, WireGrows
<1>4. Says
  <2>1. \A i \in 1 .. Len(x) : i = 1 \/ i = 2
    BY <1>1
  <2>2. srv.what \in Answering(x[1]) /\ srv.what \in Answering(x[2])
    BY <1>1 DEF Answering, TagOf, Turns, Statements
  <2>. QED BY <1>2, <2>1, <2>2, AddsSays
<1>5. \A m : m = TagOf(srv.what) => OnWire(m)'
  <2>1. x[1] = TagOf(srv.what)
    BY <1>1
  <2>. QED BY <1>3, <2>1
<1>6. /\ srv.what \in Turns
      /\ srv'.txn = (IF srv.what # "begin" THEN "none" ELSE IF srv.txn = "none" THEN "open" ELSE srv.txn)
      /\ table' = (IF srv.what = "commit" /\ srv.txn = "open" THEN work ELSE table)
      /\ work' = (IF (srv.what = "commit" /\ srv.txn = "open") \/ srv.txn = "none" \/ srv.what = "begin"
                  THEN work ELSE table)
  BY <1>1
<1>. QED BY <1>2, <1>4, <1>5, <1>6 DEF Turned

LEMMA GoesOnSays ==
  ASSUME Basic, GoesOn PROVE Waiting /\ Says
<1>1. PICK x :
        /\ Adds(x) /\ UNCHANGED <<work, table>>
        /\ srv'.up = srv.up /\ srv'.txn = srv.txn /\ srv'.what = srv.what
        /\ srv'.of = srv.of /\ srv'.buf = srv.buf
        /\ \/ Only(x, "l") /\ srv.what = "insert" /\ srv.st = "run" /\ srv'.st = "hello"
           \/ Only(x, "lf") /\ srv.what = "copy" /\ srv.st = "run" /\ srv'.st = "hello"
           \/ Only(x, "fmt") /\ srv.what \in {"insert", "copy"} /\ srv.st = "greeted" /\ srv'.st = "data"
           \/ Only(x, "u") /\ srv.what = "unload" /\ srv.st = "run" /\ srv'.st = "hello"
           \/ /\ Len(x) = 3 /\ x[1] = "U" /\ x[2] = "block" /\ x[3] \in {"done", "sockerr"}
              /\ srv.what = "unload" /\ srv.st = "greeted" /\ srv'.st = "dumped"
  BY DEF GoesOn
<1>2. ASSUME NEW i \in 1 .. Len(x) PROVE srv.what \in Answering(x[i])
  <2>1. Len(x) = 1 => i = 1
    OBVIOUS
  <2>2. Len(x) = 3 => i = 1 \/ i = 2 \/ i = 3
    OBVIOUS
  <2>3. CASE Len(x) = 1 /\ \/ x[1] = "l" /\ srv.what = "insert"
                           \/ x[1] = "lf" /\ srv.what = "copy"
                           \/ x[1] = "fmt" /\ srv.what \in {"insert", "copy"}
                           \/ x[1] = "u" /\ srv.what = "unload"
    BY <2>1, <2>3 DEF Answering
  <2>4. CASE /\ Len(x) = 3 /\ x[1] = "U" /\ x[2] = "block" /\ x[3] \in {"done", "sockerr"}
             /\ srv.what = "unload"
    BY <2>2, <2>4 DEF Answering, Statements
  <2>. QED BY <1>1, <2>3, <2>4 DEF Only
<1>3. srv.what \in {"insert", "copy", "unload"}
  BY <1>1
<1>4. Says /\ Spoken /\ srv.up
  <2>1. Says /\ Spoken
    BY <1>1, <1>2, <1>3, AddsSays
  <2>. QED BY <1>3, <2>1 DEF Basic, Serves
<1>. QED BY <1>1, <1>3, <1>4 DEF Waiting, Turns

LEMMA DiesSays ==
  ASSUME Basic, Dies PROVE Says
<1>1. CASE \E x : Adds(x) /\ Only(x, "error") /\ srv.st = "abort"
  <2>1. PICK x : Adds(x) /\ Only(x, "error")
    BY <1>1
  <2>2. srv.what \in {"insert", "copy"}
    BY <1>1 DEF Basic, Serves
  <2>3. ASSUME NEW i \in 1 .. Len(x) PROVE srv.what \in Answering(x[i])
    <3>1. i = 1 /\ x[1] = "error"
      BY <2>1 DEF Only
    <3>. QED BY <2>2, <3>1 DEF Answering, Statements, Turns
  <2>. QED BY <2>1, <2>2, <2>3, AddsSays
<1>2. CASE /\ wire' \in Seq(Byte) /\ Len(wire') <= Len(wire)
           /\ \A i \in 1 .. Len(wire') : wire'[i] = wire[i]
  <2>1. Len(wire) \in Nat /\ Len(wire') \in Nat
    BY <1>2, State
  <2>2. \A i \in 1 .. Len(wire') : i \in 1 .. Len(wire)
    BY <1>2, <2>1
  <2>. QED BY <1>2, <2>2 DEF Says, OnWire
<1>. QED BY <1>1, <1>2 DEF Dies

LEMMA ServerKinds ==
  ASSUME Basic, Serving
  PROVE  Says /\ (Done1 \/ Failed1 \/ Turned \/ Waiting \/ Dies)
<1>1. CASE Succeeds
  <2>1. PICK x :
          /\ Settles(x) /\ srv.what \notin Turns /\ srv'.txn = srv.txn /\ Alike(x)
          /\ work' \in Table /\ table' = IF srv.txn = "none" THEN work' ELSE table
          /\ \/ srv.what \in {"catalog", "unload"} /\ work' = work
             \/ srv.what = "create" /\ ~work.exists /\ work'.exists /\ work'.rows = work.rows
                /\ srv.txn # "failed"
             \/ srv.what = "stmt" /\ work.exists /\ Brings(Complete(srv.of)) /\ srv.txn # "failed"
             \/ srv.st = "end" /\ Brings(Stored)
    BY <1>1 DEF Succeeds
  <2>. QED BY <2>1, SettlesSays, AlikeSays DEF Done1, Leaves1
<1>2. CASE Fails
  <2>1. PICK x :
          /\ Settles(x) /\ srv.what \notin Turns /\ Alike(x) /\ \E i \in 1 .. Len(x) : x[i] = "error"
          /\ srv'.txn = IF srv.txn = "none" THEN "none" ELSE "failed"
          /\ srv.st \in {"run", "end", "abort"} /\ UNCHANGED <<work, table>>
    BY <1>2 DEF Fails
  <2>2. OnWire("error")'
    BY <2>1, WireGrows DEF Settles
  <2>. QED BY <2>1, <2>2, SettlesSays, AlikeSays DEF Failed1
<1>. QED BY <1>1, <1>2, TurnSays, GoesOnSays, DiesSays DEF Serving

-----------------------------------------------------------------------------
(* What abandoned statements there may be *)

LEMMA OthersKeep ==
  ASSUME NEW t \in Tasks, Others1(t), NEW u \in Tasks, u # t
  PROVE  /\ (Answers(u)' <=> Answers(u)) /\ (Active(u)' <=> Active(u)) /\ (Reads(u)' <=> Reads(u))
         /\ call'[u] = call[u] /\ pc'[u] = pc[u] /\ Now(u)' = Now(u)
BY DEF Others1, Answers, Active, Reads, Now

LEMMA WireMovesOn ==
  ASSUME Basic, WireMoves PROVE \A m : OnWire(m)' => OnWire(m)
BY WireShifts DEF WireMoves, OnWire

LEMMA ComesHow ==
  ASSUME Basic, NEW t \in Tasks, NEW kind, Comes(t, kind)
  PROVE  /\ pc[t] = "idle" /\ Others1(t) /\ calls' = calls + 1 /\ UNCHANGED <<srv, wire, work, table, scene>>
         /\ conn'.in_transaction = conn.in_transaction /\ conn'.dirty = conn.dirty
         /\ conn'.autocommit = conn.autocommit /\ conn'.source = conn.source
         /\ ~conn.closed /\ ~conn'.closed /\ ~Answers(t) /\ ~Answers(t)' /\ pc'[t] \in {"idle", "send"}
         /\ calls + 1 \in 1 .. MaxCalls
<1>1. Begins(t, kind) /\ UNCHANGED <<scene, work, table>>
  BY DEF Comes, Refused, Starts
<1>2. pc' = [pc EXCEPT ![t] = "idle"] \/ pc' = [pc EXCEPT ![t] = "send"]
  BY DEF Comes, Refused, Starts
<1>3. Others1(t) /\ pc'[t] \in {"idle", "send"}
  BY <1>1, <1>2, State DEF Others1, Begins
<1>. QED BY <1>1, <1>3 DEF Begins, Answers, Reads, Readers

\* While nobody reads the answer, only the backend makes something of it.
LEMMA Lingers ==
  ASSUME Basic, [Next]_vars, Abandoned, Abandoned'
  PROVE  /\ srv'.what \in {srv.what, "none"} /\ Says
         /\ \A k \in 1 .. MaxCalls : outcome[k] # "none" => outcome'[k] = outcome[k]
<1>0. ASSUME NEW k \in 1 .. MaxCalls, outcome[k] # "none" PROVE outcome'[k] = outcome[k]
  BY <1>0, Histories, State DEF Basic, Shape, CallsOK
<1>1. CASE UNCHANGED vars
  BY <1>0, <1>1 DEF vars, Says, OnWire
<1>2. ASSUME NEW t \in Tasks, Acts(t) PROVE srv'.what = srv.what /\ WireMoves
  <2>1. WireMoves
    BY <1>2, ActsOthers DEF Acts
  <2>2. CASE Ending(t)
    BY <2>1, <2>2, EndKinds DEF Over
  <2>3. CASE Transmits(t)
    <3>1. Moves(t, "read") /\ call'[t] = call[t] /\ ~call[t].draining
      BY <2>3, TransmitsMoves, Holds DEF Transmits, Holding, Reads, Readers
    <3>2. Answers(t)'
      BY <3>1, MovesOthers DEF Answers, Reads, Readers
    <3>. QED BY <3>2 DEF Abandoned
  <2>4. CASE Going(t) /\ ~Transmits(t)
    <3>1. Reading(t) \/ Passing(t) \/ Waits(t) \/ CollectPlans(t)
      BY <2>4, Kinds
    <3>2. srv'.what = srv.what
      BY <3>1 DEF Reading, Passing, Waits, CollectPlans, Ready
    <3>. QED BY <2>1, <3>2
  <2>. QED BY <1>2, <2>1, <2>2, <2>3, <2>4 DEF Acts
<1>3. CASE \E t \in Tasks : Acts(t)
  BY <1>0, <1>2, <1>3, WireMovesOn DEF Says
<1>4. ASSUME NEW t \in Tasks, NEW kind, Comes(t, kind) PROVE UNCHANGED <<srv, wire>>
  BY <1>4, ComesHow
<1>5. CASE \E t \in Tasks, kind \in Others \cup {"load"} : Comes(t, kind)
  BY <1>0, <1>4, <1>5 DEF Says, OnWire
<1>6. CASE Works1
  BY <1>0, <1>6, ServerKinds DEF Works1, Done1, Failed1, Turned, Waiting, Settled, Dies
<1>. QED BY <1>1, <1>3, <1>5, <1>6, Steps

\* How it comes that nobody reads it
LEMMA Abandons ==
  ASSUME Basic, [Next]_vars, ~Abandoned, Abandoned'
  PROVE  /\ \A u \in Tasks : ~Reads(u)'
         /\ \/ ~conn'.dirty /\ wire' = <<>> /\ srv'.what = "none"
            \/ conn'.closed /\ \E k \in 1 .. calls' : outcome'[k] \in {"failed", "cancelled"}
            \/ \E t \in Tasks : /\ Answers(t) /\ UNCHANGED srv /\ WireMoves
                                /\ \/ Now(t) = "unload"
                                   \/ Now(t) \in scene.cancel /\ ~Clean'
                                /\ \E k \in 1 .. calls' : outcome'[k] \in {"failed", "cancelled"}
<1>1. PICK u \in Tasks : Answers(u) /\ ~Answers(u)'
  BY DEF Abandoned
<1>2. ~UNCHANGED vars /\ ~Works1
  BY <1>1 DEF vars, Works1, Answers, Reads
<1>3. ASSUME NEW t \in Tasks, NEW kind, Comes(t, kind) PROVE FALSE
  BY <1>1, <1>3, ComesHow, OthersKeep
<1>4. PICK t \in Tasks : Acts(t)
  BY <1>2, <1>3, Steps
<1>5. t = u
  BY <1>1, <1>4, ActsOthers, OthersKeep DEF Acts
<1>6. call[t].id \in 1 .. calls /\ Active(t) /\ calls' = calls /\ call[t].id \in 1 .. MaxCalls
  BY <1>4, ActsOthers, IdsOK DEF Acts
<1>14. \A v \in Tasks : ~Reads(v)'
  <2>1. ~Reads(t)'
    <3>1. Ending(t) => ~Reads(t)'
      BY EndKinds DEF Over, Reads, Readers
    <3>2. Passing(t) => ~Reads(t)'
      BY DEF Passing, Reads, Readers
    <3>3. ~Reading(t) /\ ~Waits(t) /\ ~Transmits(t) /\ ~CollectPlans(t)
      BY <1>1, <1>5 DEF Reading, Waits, Transmits, CollectPlans, Answers, Reads, Readers
    <3>. QED BY <1>4, <3>1, <3>2, <3>3, Kinds DEF Acts
  <2>2. ASSUME NEW v \in Tasks, v # t, Reads(v)' PROVE FALSE
    <3>1. Reads(v)
      BY <1>4, <2>2, ActsOthers, OthersKeep DEF Acts
    <3>. QED BY <1>1, <1>5, <2>2, <3>1, OneReader DEF Answers, Reads, Readers, Holding
  <2>. QED BY <2>1, <2>2
<1>7. CASE Going(t)
  <2>1. ~Reading(t)
    BY <1>1, <1>5 DEF Reading, Answers, Reads
  <2>2. ~Waits(t) /\ ~Transmits(t) /\ ~CollectPlans(t)
    BY <1>1, <1>5 DEF Waits, Transmits, CollectPlans, Answers, Reads, Readers
  <2>3. Passing(t)
    BY <1>7, <2>1, <2>2, Kinds
  <2>. QED BY <2>3, <1>14 DEF Passing, Ready
<1>8. ASSUME NEW res \in {"failed", "cancelled"}, Over(t, res)
      PROVE  outcome'[call[t].id] = res /\ \E k \in 1 .. calls' : outcome'[k] \in {"failed", "cancelled"}
  BY <1>6, <1>8, State DEF Over
<1>9. CASE Shut(t)
  BY <1>8, <1>9, <1>14 DEF Shut
<1>10. CASE Cancelled(t)
  <2>1. ~Clean'
    BY <1>6, <1>8, <1>10 DEF Cancelled, Clean
  <2>. QED BY <1>8, <1>10, <1>14, <2>1 DEF Cancelled, Over
<1>11. CASE Dropped(t)
  BY <1>1, <1>5, <1>11 DEF Dropped, Answers, Reads, Readers
<1>12. CASE Broken(t)
  BY <1>8, <1>12, <1>14 DEF Broken, Over
<1>13. CASE Ended1(t)
  BY <1>13, <1>14 DEF Ended1, Finishes, Ready
<1>. QED BY <1>4, <1>7, <1>9, <1>10, <1>11, <1>12, <1>13, <1>14, EndKinds DEF Acts

LEMMA ClosedStays ==
  ASSUME Basic, [Next]_vars, conn.closed PROVE conn'.closed
<1>1. ASSUME NEW t \in Tasks, Acts(t) PROVE conn'.closed
  <2>1. (~Transmits(t) /\ ~CollectPlans(t)) \/ conn'.closed
    BY DEF Transmits, CollectPlans, Plans, Sends, Moves
  <2>2. conn' \in ConnRecord
    BY TypesKept DEF Types
  <2>. QED
    BY <1>1, <2>1, <2>2, Kinds, EndKinds, State DEF Acts, Reading, Passing, Waits, SameEnds, Over, ConnRecord
<1>2. ASSUME NEW t \in Tasks, NEW kind, Comes(t, kind) PROVE FALSE
  BY <1>2, ComesHow
<1>. QED BY <1>1, <1>2, Steps DEF vars, Works1

LEMMA DirtyStays ==
  ASSUME Basic, [Next]_vars, Abandoned, Abandoned', conn'.dirty PROVE conn.dirty
<1>1. ASSUME NEW t \in Tasks, Acts(t) PROVE conn.dirty
  <2>1. CASE Ending(t)
    BY <2>1 DEF Ending, Quits, BreaksOff, Stumbles, Finishes, Ready
  <2>2. ~Transmits(t)
    <3>1. SUFFICES ASSUME Transmits(t) PROVE FALSE
      OBVIOUS
    <3>2. Moves(t, "read") /\ call'[t] = call[t] /\ ~call[t].draining
      BY <3>1, TransmitsMoves, Holds DEF Transmits, Holding, Reads, Readers
    <3>3. Answers(t)'
      BY <3>2, MovesOthers DEF Answers, Reads, Readers
    <3>. QED BY <3>3 DEF Abandoned
  <2>3. CASE Going(t)
    BY <2>2, <2>3, Kinds DEF Reading, Passing, Waits, CollectPlans, Ready
  <2>. QED BY <1>1, <2>1, <2>3 DEF Acts
<1>2. ASSUME NEW t \in Tasks, NEW kind, Comes(t, kind) PROVE conn.dirty
  BY <1>2, ComesHow
<1>. QED BY <1>1, <1>2, Steps DEF vars, Works1

LEMMA LeftFailedKept ==
  ASSUME Basic, [Next]_vars, LeftFailed PROVE LeftFailed'
<1>1. SUFFICES ASSUME conn'.dirty, Abandoned'
               PROVE  \E k \in 1 .. calls' : outcome'[k] \in {"failed", "cancelled"}
  BY DEF LeftFailed
<1>2. CASE Abandoned
  <2>1. PICK k \in 1 .. calls : outcome[k] \in {"failed", "cancelled"}
    BY <1>1, <1>2, DirtyStays DEF LeftFailed
  <2>2. k \in 1 .. calls' /\ outcome'[k] = outcome[k]
    BY <2>1, Histories, State
  <2>. QED BY <2>1, <2>2
<1>3. CASE ~Abandoned
  BY <1>1, <1>3, Abandons
<1>. QED BY <1>2, <1>3

LEMMA LeftEndsKept ==
  ASSUME Basic, [Next]_vars, LeftEnds, Trusted' PROVE LeftEnds'
<1>1. SUFFICES ASSUME Abandoned', ~conn'.closed
               PROVE  srv'.what \notin Ends /\ ~OnWire("COMMIT")' /\ ~OnWire("ROLLBACK")'
  BY DEF LeftEnds
<1>2. CASE Abandoned
  <2>1. srv.what \notin Ends /\ ~OnWire("COMMIT") /\ ~OnWire("ROLLBACK")
    BY <1>1, <1>2, ClosedStays DEF LeftEnds
  <2>2. srv'.what \in {srv.what, "none"} /\ Says
    BY <1>1, <1>2, Lingers
  <2>. QED BY <2>1, <2>2 DEF Says, Answering, Ends, Headers
<1>3. CASE ~Abandoned
  <2>1. CASE ~conn'.dirty /\ wire' = <<>> /\ srv'.what = "none"
    BY <2>1 DEF OnWire, Ends
  <2>2. ASSUME NEW t \in Tasks, Answers(t), UNCHANGED srv, WireMoves,
               Now(t) = "unload" \/ (Now(t) \in scene.cancel /\ ~Clean')
        PROVE  srv'.what \notin Ends /\ ~OnWire("COMMIT")' /\ ~OnWire("ROLLBACK")'
    <3>1. Now(t) \notin Ends
      BY <2>2, Histories DEF Trusted, Tame, Ends
    <3>2. srv.what # "none" => srv.what = Now(t)
      BY <2>2 DEF Basic, Matches
    <3>3. \A m \in Headers \cup Parts : OnWire(m) => Now(t) \in Answering(m)
      BY <2>2 DEF Basic, Matches
    <3>4. ~OnWire("COMMIT") /\ ~OnWire("ROLLBACK")
      BY <3>1, <3>3 DEF Answering, Headers, Ends
    <3>. QED BY <2>2, <3>1, <3>2, <3>4, WireMovesOn DEF Ends
  <2>. QED BY <1>1, <1>3, <2>1, <2>2, Abandons
<1>. QED BY <1>2, <1>3

LEMMA LeftBeginKept ==
  ASSUME Basic, [Next]_vars, LeftBegin, Clean' PROVE LeftBegin'
<1>1. SUFFICES ASSUME Abandoned', ~conn'.closed PROVE srv'.what # "begin"
  BY DEF LeftBegin
<1>2. CASE Abandoned
  BY <1>1, <1>2, ClosedStays, Lingers DEF LeftBegin
<1>3. CASE ~Abandoned
  <2>1. ASSUME NEW t \in Tasks, Answers(t), UNCHANGED srv, Now(t) = "unload" PROVE srv'.what # "begin"
    BY <2>1 DEF Basic, Matches
  <2>. QED BY <1>1, <1>3, <2>1, Abandons
<1>. QED BY <1>2, <1>3

LEMMA LeftInsertKept ==
  ASSUME Basic, [Next]_vars, LeftInsert PROVE LeftInsert'
<1>1. SUFFICES ASSUME Abandoned', ~conn'.closed, Clean' \/ "insert" \notin scene'.cancel
               PROVE  /\ srv'.what # "insert" /\ ~OnWire("l")'
                      /\ \A t \in Tasks : pc'[t] = "hello" => ~call'[t].marker
  BY DEF LeftInsert
<1>2. scene' = scene /\ (Clean' => Clean)
  BY Histories, TrustLasts
<1>3. CASE Abandoned
  <2>1. /\ srv.what # "insert" /\ ~OnWire("l")
        /\ \A t \in Tasks : pc[t] = "hello" => ~call[t].marker
    BY <1>1, <1>2, <1>3, ClosedStays DEF LeftInsert
  <2>2. srv'.what # "insert" /\ ~OnWire("l")'
    BY <1>1, <1>3, <2>1, Lingers DEF Says, Answering, Headers
  <2>3. ASSUME NEW t \in Tasks, pc'[t] = "hello" PROVE ~call'[t].marker
    <3>1. CASE pc'[t] = pc[t] /\ call'[t] = call[t]
      BY <2>1, <2>3, <3>1
    <3>2. ASSUME NEW u \in Tasks, Acts(u) PROVE ~call'[t].marker
      <4>1. CASE u # t
        BY <3>1, <3>2, <4>1, ActsOthers, OthersKeep DEF Acts
      <4>2. CASE u = t
        <5>1. ~Ending(t)
          BY <2>3, EndKinds DEF Over
        <5>2. ~Passing(t) /\ ~Waits(t)
          BY <2>3 DEF Passing, Waits
        <5>3. ~Transmits(t) /\ ~CollectPlans(t)
          BY <2>3, State DEF Transmits, CollectPlans, Plans, Sends, Moves
        <5>4. EntersFrame(t)
          <6>1. ~ReadsOn(t) /\ ~Greets(t) /\ ~SendsBatch(t) /\ ~EndsStream(t, "end") /\ ~EndsStream(t, "abort")
                /\ ~ReadsPart(t)
            BY <2>3, State DEF ReadsOn, Greets, SendsBatch, EndsStream, ReadsPart, Moves
          <6>. QED BY <3>2, <4>2, <5>1, <5>2, <5>3, <6>1, PassingIs, WaitsIs DEF Acts, Going
        <5>5. wire # <<>> /\ call'[t].marker = (IF wire[1] \in {"l", "lf"} THEN wire[1] = "l" ELSE call[t].marker)
              /\ FrameOf(wire[1]) = "hello"
          BY <2>3, <5>4, State DEF EntersFrame, Moves
        <5>6. wire[1] # "l"
          <6>1. 1 \in 1 .. Len(wire)
            BY <5>5, FirstOf
          <6>. QED BY <2>1, <6>1 DEF OnWire
        <5>. QED BY <5>5, <5>6 DEF FrameOf
      <4>. QED BY <4>1, <4>2
    <3>3. ASSUME NEW u \in Tasks, NEW kind, Comes(u, kind) PROVE ~call'[t].marker
      <4>1. u # t
        BY <2>3, <3>3, ComesHow
      <4>. QED BY <3>1, <3>3, <4>1, ComesHow, OthersKeep
    <3>. QED BY <3>1, <3>2, <3>3, Steps DEF vars, Works1
  <2>. QED BY <2>2, <2>3
<1>4. CASE ~Abandoned
  <2>1. \A t \in Tasks : pc'[t] # "hello"
    BY <1>1, <1>4, Abandons DEF Reads, Readers
  <2>2. CASE ~conn'.dirty /\ wire' = <<>> /\ srv'.what = "none"
    BY <2>1, <2>2 DEF OnWire
  <2>3. ASSUME NEW t \in Tasks, Answers(t), UNCHANGED srv, WireMoves,
               Now(t) = "unload" \/ (Now(t) \in scene.cancel /\ ~Clean')
        PROVE  srv'.what # "insert" /\ ~OnWire("l")'
    <3>1. Now(t) # "insert"
      BY <1>1, <1>2, <2>3
    <3>2. srv.what # "none" => srv.what = Now(t)
      BY <2>3 DEF Basic, Matches
    <3>3. \A m \in Headers \cup Parts : OnWire(m) => Now(t) \in Answering(m)
      BY <2>3 DEF Basic, Matches
    <3>4. ~OnWire("l")
      BY <3>1, <3>3 DEF Answering, Headers
    <3>. QED BY <2>3, <3>1, <3>2, <3>4, WireMovesOn
  <2>. QED BY <1>1, <1>4, <2>1, <2>2, <2>3, Abandons
<1>. QED BY <1>3, <1>4

-----------------------------------------------------------------------------
(* What the connection knows of its transaction *)

LEMMA HeadOf ==
  ASSUME NEW c, CallOK(c), c.todo # <<>>
  PROVE  Head(c.todo) = c.todo[1] /\ 1 \in 1 .. Len(c.todo) /\ c.todo \in Seq(Statements) /\ Len(c.todo) \in Nat
<1>1. c.todo \in Seq(Statements)
  BY DEF CallOK, TodoOK, Orderly
<1>2. Len(c.todo) \in Nat /\ Len(c.todo) # 0
  BY <1>1, EmptyOne
<1>. QED BY <1>1, <1>2

LEMMA LastReady ==
  ASSUME Basic, wire # <<>>, wire[1] = "ready" PROVE \A m : OnWire(m) => m = "ready"
<1>1. Len(wire) = 1
  BY FirstOf DEF Basic, Serves
<1>. QED BY <1>1 DEF OnWire

\* A task that comes to its end in collect() while another holds the wire
LEMMA Aside ==
  ASSUME Basic, NEW t \in Tasks, NEW u \in Tasks, u # t, pc[u] \in Holding, Ending(t) \/ Going(t)
  PROVE  /\ Dropped(t) /\ ~call[t].transactional /\ ~call[t].planned /\ call[t].kind = "load"
         /\ conn'.owner = conn.owner
<1>1. conn.owner = u /\ Active(t) /\ u # NoTask
  BY ActsOthers, Holds, State
<1>2. pc[t] = "collect"
  BY <1>1, State DEF Basic, Shape, Held, Active
<1>3. ~Going(t)
  <2>1. Going(t) => conn.owner \in {t, NoTask}
    BY GoingIs DEF Continues
  <2>. QED BY <1>1, <2>1
<1>4. Quits(t)
  BY <1>2, <1>3 DEF Ending, BreaksOff, Stumbles, Finishes, Ready
<1>5. PICK res \in {"failed", "cancelled"} :
        /\ Active(t) /\ Leaves(t, res) /\ conn'.dirty = conn.dirty /\ conn'.in_transaction = conn.in_transaction
        /\ UNCHANGED <<srv, wire, misread>> /\ conn'.closed = conn.closed
  BY <1>2, <1>4 DEF Quits
<1>6. Over(t, res)
  BY <1>5, OverIs DEF WireMoves
<1>7. ~call[t].transactional /\ ~call[t].planned /\ call[t].kind = "load"
  <2>1. CallOK(call[t]) /\ call[t].todo = <<>>
    BY <1>1, <1>2 DEF Basic, Shape, CallsOK
  <2>2. TodoOK(call[t]) /\ Flags(call[t])
    BY <2>1 DEF CallOK
  <2>3. call[t].kind = "load"
    BY <2>1, <2>2 DEF TodoOK, OtherTodo
  <2>4. LoadTodo(call[t]) /\ Len(call[t].todo) = 0
    BY <2>1, <2>2, <2>3 DEF TodoOK
  <2>5. ~call[t].planned
    BY <2>1, <2>2, <2>4 DEF LoadTodo, Only, Flags
  <2>. QED BY <2>3, <2>4, <2>5 DEF LoadTodo
<1>. QED BY <1>1, <1>2, <1>5, <1>6, <1>7 DEF Dropped, Over

LEMMA LeftAloneKept ==
  ASSUME Basic, [Next]_vars, LeftAlone PROVE LeftAlone'
<1>1. SUFFICES ASSUME Single(scene), NEW t \in Tasks,
                      pc'[t] = "collect" \/ (Active(t)' /\ call'[t].planned /\ ~Answers(t)')
               PROVE  ~conn'.dirty
  BY Histories DEF LeftAlone, Single
<1>2. Active(t)'
  BY <1>1 DEF Active
<1>3. pc[t] = "collect" \/ (Active(t) /\ call[t].planned /\ ~Answers(t)) => ~conn.dirty
  BY <1>1 DEF LeftAlone
<1>4. ASSUME NEW u \in Tasks, Acts(u) PROVE ~conn'.dirty
  <2>1. u = t
    <3>1. Active(u) /\ (u # t => Active(t))
      BY <1>2, <1>4, ActsOthers, OthersKeep DEF Acts
    <3>. QED BY <1>1, <3>1 DEF Basic, Shape, CallsOK, Single
  <2>2. ~Ending(t)
    BY <1>2, EndKinds DEF Over, Active
  <2>3. CASE Reading(t)
    <3>1. call[t].planned /\ ~Answers(t) /\ Active(t)
      BY <1>1, <2>3 DEF Reading, Answers, Reads, Readers, SameWork, SameStatement, SameEnds
    <3>. QED BY <1>3, <2>3, <3>1 DEF Reading
  <2>4. CASE Passing(t)
    BY <2>4 DEF Passing, Ready
  <2>5. CASE Waits(t)
    BY <1>1, <1>3, <2>5 DEF Waits, SameWork, SameStatement, SameEnds
  <2>6. CASE Transmits(t)
    <3>1. Moves(t, "read") /\ call'[t] = call[t] /\ ~call[t].draining
      BY <2>6, TransmitsMoves, Holds DEF Transmits, Holding, Reads, Readers
    <3>2. Answers(t)' /\ pc'[t] = "read"
      BY <3>1, MovesOthers DEF Answers, Reads, Readers
    <3>. QED BY <1>1, <3>2
  <2>7. CASE CollectPlans(t)
    BY <1>3, <2>7 DEF CollectPlans
  <2>. QED BY <1>4, <2>1, <2>2, <2>3, <2>4, <2>5, <2>6, <2>7, Kinds DEF Acts
<1>5. ASSUME NEW u \in Tasks, NEW kind, Comes(u, kind) PROVE ~conn'.dirty
  <2>1. CASE u = t
    BY <1>1, <1>2, <1>5, <2>1, State DEF Comes, Refused, Starts, Begins, Active
  <2>2. CASE u # t
    <3>1. Active(t) /\ u \in scene.tasks
      BY <1>2, <1>5, <2>2, ComesHow, OthersKeep DEF Comes, Refused, Starts, Begins
    <3>. QED BY <1>1, <2>2, <3>1 DEF Basic, Shape, CallsOK, Single
  <2>. QED BY <2>1, <2>2
<1>6. CASE UNCHANGED vars
  BY <1>1, <1>3, <1>6 DEF vars, Active, Answers, Reads
<1>7. CASE Works1
  BY <1>1, <1>3, <1>7 DEF Works1, Active, Answers, Reads
<1>. QED BY <1>4, <1>5, <1>6, <1>7, Steps

LEMMA EndedKept ==
  ASSUME Basic, [Next]_vars, Ended PROVE Ended'
<1>1. SUFFICES ASSUME NEW t \in Tasks, Answers(t)', OnWire("COMMIT")' \/ OnWire("ROLLBACK")'
               PROVE  srv'.txn = "none"
  BY DEF Ended
<1>2. Answers(t) /\ (OnWire("COMMIT") \/ OnWire("ROLLBACK")) => srv.txn = "none" /\ Now(t) \in Ends
  <2>1. Answers(t) => \A m \in Headers \cup Parts : OnWire(m) => Now(t) \in Answering(m)
    BY DEF Basic, Matches
  <2>. QED BY <2>1 DEF Ended, Answering, Ends, Headers
<1>3. ASSUME Answers(t), UNCHANGED <<srv, wire>> PROVE srv'.txn = "none"
  BY <1>1, <1>2, <1>3 DEF OnWire
<1>4. ASSUME NEW u \in Tasks, Acts(u) PROVE srv'.txn = "none"
  <2>1. CASE u # t
    <3>1. Answers(t) /\ pc[t] \in Holding
      BY <1>1, <1>4, <2>1, ActsOthers, OthersKeep DEF Acts, Answers, Reads, Readers, Holding
    <3>2. Dropped(u)
      BY <1>4, <2>1, <3>1, Aside DEF Acts
    <3>. QED BY <1>3, <3>1, <3>2 DEF Dropped, Over
  <2>2. CASE u = t
    <3>1. ~Ending(t) /\ ~Passing(t) /\ ~Waits(t) /\ ~CollectPlans(t)
      <4>1. ~Ending(t)
        BY <1>1, EndKinds DEF Over, Answers, Reads, Readers
      <4>2. ~CollectPlans(t)
        BY <1>1, State DEF CollectPlans, Plans, Sends, Moves, Answers, Reads, Readers
      <4>. QED BY <1>1, <4>1, <4>2 DEF Passing, Waits, Answers, Reads, Readers
    <3>2. CASE Reading(t)
      BY <1>1, <1>2, <3>2, WireMovesOn DEF Reading, Answers, Reads, SameEnds
    <3>3. CASE Transmits(t)
      <4>1. wire = <<>> /\ wire' = wire
        BY <3>3, Holds DEF Transmits, Holding
      <4>. QED BY <1>1, <4>1 DEF OnWire
    <3>. QED BY <1>4, <2>2, <3>1, <3>2, <3>3, Kinds DEF Acts
  <2>. QED BY <2>1, <2>2
<1>5. ASSUME NEW u \in Tasks, NEW kind, Comes(u, kind) PROVE srv'.txn = "none"
  BY <1>1, <1>3, <1>5, ComesHow, OthersKeep
<1>6. CASE UNCHANGED vars
  BY <1>1, <1>3, <1>6 DEF vars, Answers, Reads
<1>7. CASE Works1
  <2>1. Answers(t) /\ Says
    BY <1>1, <1>7, ServerKinds DEF Works1, Answers, Reads
  <2>2. srv.what # "none" => srv.what = Now(t)
    BY <2>1 DEF Basic, Matches
  <2>3. OnWire("COMMIT") \/ OnWire("ROLLBACK") \/ srv.what \in Ends
    BY <1>1, <2>1 DEF Says, Answering, Ends, Headers
  <2>4. srv.txn = "none" \/ srv.what \in Ends
    BY <1>2, <2>1, <2>3
  <2>5. srv.what = "none" \/ srv.what = "begin" => srv.txn = "none" /\ srv.what # "begin"
    BY <1>2, <2>1, <2>2, <2>3 DEF Ends
  <2>. QED
    BY <1>7, <2>4, <2>5, ServerKinds DEF Works1, Done1, Failed1, Turned, Waiting, Dies, Ends, Turns, Settled
<1>. QED BY <1>4, <1>5, <1>6, <1>7, Steps

LEMMA TailKeeps ==
  ASSUME Basic, WireMoves, NEW m, OnWire(m), wire' = wire \/ wire[1] # m PROVE OnWire(m)'
BY WireShifts DEF WireMoves, OnWire

LEMMA BeliefKept ==
  ASSUME Basic, [Next]_vars, Belief, LeftEnds PROVE Belief'
<1>1. SUFFICES ASSUME srv'.up, conn'.in_transaction, srv'.txn = "none"
               PROVE  OnWire("COMMIT")' \/ OnWire("ROLLBACK")'
  BY DEF Belief
<1>2. srv.up /\ conn.in_transaction /\ srv.txn = "none" => OnWire("COMMIT") \/ OnWire("ROLLBACK")
  BY DEF Belief
<1>3. ASSUME srv.up, conn.in_transaction, srv.txn = "none", WireMoves,
             wire' = wire \/ wire[1] \notin {"COMMIT", "ROLLBACK"}
      PROVE  OnWire("COMMIT")' \/ OnWire("ROLLBACK")'
  BY <1>2, <1>3, TailKeeps
<1>4. wire # <<>> /\ wire[1] = "ready" => ~OnWire("COMMIT") /\ ~OnWire("ROLLBACK")
  BY LastReady
<1>5. ASSUME NEW t \in Tasks, Acts(t) PROVE OnWire("COMMIT")' \/ OnWire("ROLLBACK")'
  <2>1. CASE Ending(t)
    <3>1. UNCHANGED srv /\ WireMoves
      BY <2>1, EndKinds DEF Over
    <3>2. CASE Ended1(t)
      <4>1. Ready(t)
        BY <3>2 DEF Ended1, Finishes
      <4>2. wire # <<>> /\ wire[1] = "ready" /\ conn.in_transaction
        BY <1>1, <4>1 DEF Ready
      <4>. QED BY <1>1, <1>2, <1>4, <3>1, <4>2
    <3>3. CASE ~Ended1(t)
      <4>1. conn.in_transaction
        BY <1>1, <2>1, <3>3, EndKinds
      <4>2. CASE Broken(t)
        BY <1>1, <1>3, <3>1, <4>1, <4>2, ReadsUnload DEF Broken, Turns
      <4>3. CASE Shut(t) \/ Cancelled(t) \/ Dropped(t)
        <5>1. wire' = wire \/ wire[1] \in Parts
          BY <4>3 DEF Shut, Cancelled, Dropped
        <5>. QED BY <1>1, <1>3, <3>1, <4>1, <5>1 DEF Parts
      <4>. QED BY <2>1, <3>3, <4>2, <4>3, EndKinds
    <3>. QED BY <3>2, <3>3
  <2>2. CASE Reading(t)
    <3>1. srv.up /\ srv.txn = "none" /\ WireMoves
      BY <1>1, <2>2 DEF Reading, SameEnds
    <3>2. CASE /\ conn'.in_transaction = conn.in_transaction
               /\ wire' = wire \/ wire[1] \notin {"BEGIN", "COMMIT", "ROLLBACK"}
      BY <1>1, <1>3, <3>1, <3>2
    <3>3. CASE conn'.in_transaction = conn.in_transaction /\ call[t].draining
      <4>1. Abandoned /\ ~conn.closed
        <5>1. \A u \in Tasks : Reads(u) => u = t
          BY <2>2, OneReader DEF Reading, Reads, Readers, Holding
        <5>2. ~conn.closed
          BY <2>2, Holds DEF Reading, Reads, Readers, Holding
        <5>. QED BY <3>3, <5>1, <5>2 DEF Abandoned, Answers
      <4>. QED BY <1>1, <1>2, <3>1, <3>3, <4>1 DEF LeftEnds
    <3>4. CASE wire # <<>> /\ wire[1] = "BEGIN" /\ Answers(t)
      <4>1. OnWire("BEGIN")
        BY <3>4, FirstOf DEF OnWire
      <4>. QED BY <3>1, <3>4, <4>1 DEF Basic, Matches
    <3>. QED BY <1>1, <2>2, <3>2, <3>3, <3>4 DEF Reading
  <2>3. CASE Passing(t)
    BY <1>1, <1>2, <1>4, <2>3 DEF Passing, Ready
  <2>4. CASE Waits(t)
    BY <1>1, <1>2, <1>3, <1>4, <2>4 DEF Waits
  <2>5. CASE Transmits(t) \/ CollectPlans(t)
    BY <1>1, <1>3, <2>5 DEF Transmits, CollectPlans, WireMoves
  <2>. QED BY <1>5, <2>1, <2>2, <2>3, <2>4, <2>5, Kinds DEF Acts
<1>6. ASSUME NEW u \in Tasks, NEW kind, Comes(u, kind) PROVE OnWire("COMMIT")' \/ OnWire("ROLLBACK")'
  BY <1>1, <1>3, <1>6, ComesHow DEF WireMoves
<1>7. CASE UNCHANGED vars
  BY <1>1, <1>3, <1>7 DEF vars, WireMoves
<1>8. CASE Works1
  <2>1. conn.in_transaction
    BY <1>1, <1>8 DEF Works1
  <2>2. CASE Done1 \/ Failed1 \/ Waiting
    <3>1. Spoken /\ srv.up /\ srv.txn = "none"
      BY <1>1, <2>2 DEF Done1, Failed1, Waiting, Settled
    <3>. QED BY <1>2, <2>1, <3>1 DEF Spoken
  <2>3. CASE Turned
    <3>1. CASE srv.what = "begin"
      BY <1>1, <2>3, <3>1 DEF Turned
    <3>2. CASE srv.what # "begin"
      BY <2>3, <3>2 DEF Turned, TagOf
    <3>. QED BY <3>1, <3>2
  <2>4. ~Dies
    BY <1>1 DEF Dies
  <2>. QED BY <1>8, <2>2, <2>3, <2>4, ServerKinds DEF Works1
<1>. QED BY <1>5, <1>6, <1>7, <1>8, Steps

\* An Orderly plan goes from BEGIN to CREATE or INSERT, from CREATE to INSERT.
LEMMA PlanGoes ==
  ASSUME NEW c, CallOK(c), c.planned, Len(c.todo) \in Nat \ {0, 1}
  PROVE  /\ c.todo[1] \in {"begin", "create", "insert"} /\ ~c.unwinding /\ c.kind = "load"
         /\ c.todo[1] = "insert" => c.todo[2] = "commit" /\ Len(c.todo) = 2 /\ c.transactional
         /\ c.todo[1] = "create" => c.todo[2] = "insert"
         /\ c.todo[2] = "commit" => c.todo[1] = "insert"
<1>1. Orderly(c.todo) /\ c.kind = "load" /\ LoadTodo(c) /\ Flags(c)
  BY DEF CallOK, TodoOK, OtherTodo
<1>3. 1 \in 1 .. Len(c.todo) /\ Len(c.todo) \in Nat
  OBVIOUS
<1>2. ~c.unwinding
  <2>1. c.unwinding => Only(c.todo, "rollback")
    BY <1>1 DEF LoadTodo
  <2>. QED BY <1>3, <2>1 DEF Only
<1>4. c.todo[1] \in {"begin", "create", "insert", "commit"}
  BY <1>1, <1>2, <1>3 DEF LoadTodo
<1>5. c.todo[1] # "commit"
  BY <1>1, <1>3 DEF Orderly, Ends
<1>6. c.todo[1] = "insert" => c.todo[2] = "commit" /\ Len(c.todo) = 2
  <2>1. c.todo[1] = "insert" => 1 = Len(c.todo) \/ (1 = Len(c.todo) - 1 /\ c.todo[Len(c.todo)] = "commit")
    BY <1>1, <1>3 DEF Orderly, Storing
  <2>2. Len(c.todo) # 1
    BY <1>3
  <2>. QED BY <1>3, <2>1, <2>2
<1>7. c.todo[1] = "insert" => c.transactional
  BY <1>1, <1>2, <1>6 DEF LoadTodo, Flags
<1>8. c.todo[1] = "create" => c.todo[2] = "insert"
  BY <1>1, <1>3 DEF Orderly
<1>9. c.todo[2] = "commit" => c.todo[1] = "insert"
  <2>0. \A n \in Nat \ {0, 1} : 2 \in 1 .. n
    OBVIOUS
  <2>1. 2 \in 1 .. Len(c.todo)
    BY <2>0, Zenon
  <2>2. c.todo[2] \in Ends => 2 = 1 \/ c.todo[2 - 1] = "insert"
    BY <1>1, <2>1 DEF Orderly
  <2>. QED BY <2>2 DEF Ends
<1>. QED BY <1>1, <1>2, <1>4, <1>5, <1>6, <1>7, <1>8, <1>9

LEMMA NextIsSecond ==
  ASSUME Basic, NEW t \in Tasks, NextStatement(t)
  PROVE  /\ call[t].todo # <<>> /\ Len(call[t].todo) \in Nat \ {0, 1} /\ Now(t) = call[t].todo[1]
         /\ Now(t)' = call[t].todo[2] /\ CallOK(call[t]) /\ call'[t].todo = Tail(call[t].todo)
         /\ Len(call'[t].todo) = Len(call[t].todo) - 1
         /\ \A i \in 1 .. Len(call[t].todo) - 1 : call'[t].todo[i] = call[t].todo[i + 1]
<1>1. call[t].todo # <<>> /\ call'[t].todo = Tail(call[t].todo) /\ call'[t].todo # <<>> /\ CallOK(call[t])
  BY Holds DEF NextStatement, Ready, Holding
<1>2. call[t].todo \in Seq(Statements)
  BY <1>1, HeadOf
<1>3. Len(call[t].todo) \in Nat /\ Len(call[t].todo) # 0 /\ Len(call'[t].todo) # 0
  BY <1>1, <1>2, TailOf, EmptyOne
<1>4. Len(call'[t].todo) = Len(call[t].todo) - 1
  BY <1>1, <1>2, TailOf
<1>5. Len(call[t].todo) # 1
  BY <1>3, <1>4
<1>. QED BY <1>1, <1>2, <1>3, <1>4, <1>5, TailOf DEF Now

-----------------------------------------------------------------------------
(* The steps as a task sees them that holds the wire *)
\* It has no part in the step.
Aloof(u) ==
  /\ pc'[u] = pc[u] /\ call'[u] = call[u] /\ Active(u) /\ pc[u] \in Holding
  /\ conn'.in_transaction = conn.in_transaction /\ (conn.closed \/ conn'.autocommit = conn.autocommit)
  /\ conn'.owner = conn.owner /\ conn'.dirty = conn.dirty /\ conn'.closed = conn.closed
  /\ (Answers(u)' <=> Answers(u)) /\ (Reads(u)' <=> Reads(u)) /\ Now(u)' = Now(u)
  /\ \A k \in 1 .. calls : outcome[k] # "none" => outcome'[k] = outcome[k]
  /\ Works1 \/ UNCHANGED <<srv, wire, work, table>>

LEMMA Fates ==
  ASSUME Basic, [Next]_vars, NEW u \in Tasks, pc'[u] \in Holding
  PROVE  \/ Acts(u) /\ Going(u)
         \/ \E kind \in Others \cup {"load"} : Comes(u, kind) /\ Starts(u, kind)
         \/ Aloof(u)
<1>0. pc \in [Tasks -> Holding \cup {"idle", "collect"}] /\ conn \in ConnRecord /\ conn' \in ConnRecord
  BY State, TypesKept DEF Types
<1>h. \A k \in 1 .. calls : outcome[k] # "none" => outcome'[k] = outcome[k]
  BY Histories
<1>a. pc'[u] # "idle"
  BY DEF Holding
<1>1. ASSUME NEW t \in Tasks, Acts(t), t = u PROVE Acts(u) /\ Going(u)
  BY <1>a, <1>1, EndKinds DEF Acts, Over
<1>2. ASSUME NEW t \in Tasks, NEW kind \in Others \cup {"load"}, Comes(t, kind), t = u
      PROVE  Comes(u, kind) /\ Starts(u, kind)
  BY <1>0, <1>a, <1>2 DEF Comes, Refused
<1>3. ASSUME NEW t \in Tasks, Acts(t), t # u PROVE Aloof(u)
  <2>1. Others1(t)
    BY <1>3, ActsOthers DEF Acts
  <2>2. pc[u] \in Holding /\ Active(u) /\ pc'[u] = pc[u] /\ call'[u] = call[u]
    BY <1>3, <1>a, <2>1 DEF Others1, Active
  <2>3. Dropped(t) /\ ~call[t].transactional /\ conn'.owner = conn.owner
    BY <1>3, <2>2, Aside DEF Acts
  <2>4. PICK res : Over(t, res)
    BY <2>3 DEF Dropped
  <2>5. /\ conn'.in_transaction = conn.in_transaction /\ conn'.dirty = conn.dirty
        /\ conn'.closed = conn.closed /\ UNCHANGED <<srv, wire>>
    BY <2>3, <2>4 DEF Dropped, Over
  <2>6. conn.closed \/ conn'.autocommit = conn.autocommit
    BY <1>0, <2>3, <2>4, <2>5 DEF Over, ConnRecord
  <2>. QED BY <1>3, <1>h, <2>1, <2>2, <2>3, <2>5, <2>6, OthersKeep DEF Aloof, Acts
<1>4. ASSUME NEW t \in Tasks, NEW kind \in Others \cup {"load"}, Comes(t, kind), t # u PROVE Aloof(u)
  <2>1. Others1(t) /\ UNCHANGED <<srv, wire, work, table>> /\ conn'.in_transaction = conn.in_transaction
        /\ conn'.dirty = conn.dirty /\ conn'.autocommit = conn.autocommit /\ ~conn.closed /\ ~conn'.closed
    BY <1>4, ComesHow
  <2>2. pc[u] \in Holding /\ Active(u) /\ pc'[u] = pc[u] /\ call'[u] = call[u]
    BY <1>4, <1>a, <2>1 DEF Others1, Active
  <2>3. conn.owner = u
    BY <2>2, Holds
  <2>4. conn'.owner = conn.owner
    BY <1>4, <2>3, State DEF Comes, Refused, Starts
  <2>. QED BY <1>0, <1>4, <1>h, <2>1, <2>2, <2>4, OthersKeep DEF Aloof, ConnRecord
<1>5. CASE UNCHANGED vars
  BY <1>5, <1>a, <1>h DEF vars, Aloof, Active, Answers, Reads, Now
<1>6. CASE Works1
  BY <1>6, <1>a, <1>h DEF Works1, Aloof, Active, Answers, Reads, Now
<1>. QED BY <1>1, <1>2, <1>3, <1>4, <1>5, <1>6, Steps

LEMMA PassingOnly ==
  ASSUME Basic, NEW t \in Tasks, Going(t), Passing(t)
  PROVE  NextStatement(t) \/ Unwinds(t) \/ ReadyPlans(t) \/ Collects(t)
<1>1. pc[t] = "read" /\ ~call[t].draining /\ wire # <<>> /\ wire[1] = "ready" /\ pc'[t] \in {"send", "collect"}
  BY DEF Passing, Ready
<1>2. ~Drained(t) /\ ~Transmits(t) /\ ~Discards(t) /\ ~Greets(t) /\ ~SendsBatch(t) /\ ~CollectPlans(t)
  BY <1>1 DEF Drained, Transmits, Discards, Greets, SendsBatch, CollectPlans
<1>3. ~EndsStream(t, "end") /\ ~EndsStream(t, "abort") /\ ~ReadsPart(t) /\ ~ReadsOn(t) /\ ~EntersFrame(t)
  BY <1>1 DEF EndsStream, ReadsPart, ReadsOn, EntersFrame
<1>. QED BY <1>2, <1>3 DEF Going

\* The first statement of a plan
LEMMA PlansWithin ==
  ASSUME Basic, NEW t \in Tasks, Plans(t), Ready(t) \/ conn'.in_transaction = conn.in_transaction,
         Now(t) = "catalog" \/ conn'.in_transaction = conn.in_transaction
  PROVE  /\ Now(t)' = call'[t].todo[1] /\ CallOK(call'[t]) /\ conn'.in_transaction = conn.in_transaction
         /\ Now(t)' \in {"begin", "create", "insert"}
         /\ Now(t)' = "create" => conn'.in_transaction
         /\ call'[t].transactional => Now(t)' = "begin"
<1>1. CallOK(call'[t]) /\ call'[t].todo # <<>>
  BY DEF Plans, Sends, Moves
<1>2. Now(t)' = call'[t].todo[1]
  BY <1>1, HeadOf DEF Now
<1>3. conn \in ConnRecord /\ conn' \in ConnRecord
  BY State DEF Plans, Sends, Moves
<1>4. conn'.in_transaction = conn.in_transaction
  <2>1. CASE Ready(t) /\ Now(t) = "catalog"
    BY <1>3, <2>1 DEF Ready, Ends, ConnRecord
  <2>. QED BY <2>1
<1>. QED BY <1>1, <1>2, <1>4 DEF Plans

LEMMA PlannedTodo ==
  ASSUME NEW c, CallOK(c), c.planned PROVE c.kind = "load" /\ c.todo # <<>> /\ LoadTodo(c)
<1>2. c.kind = "load"
  BY DEF CallOK, TodoOK, OtherTodo
<1>3. LoadTodo(c) /\ c.todo \in Seq(Statements) /\ Flags(c)
  BY <1>2 DEF CallOK, TodoOK, Orderly
<1>4. c.todo # <<>>
  <2>1. CASE c.unwinding
    BY <1>3, <2>1, EmptyOne DEF LoadTodo, Only
  <2>2. CASE ~c.unwinding
    BY <1>3, <2>2 DEF LoadTodo
  <2>. QED BY <2>1, <2>2
<1>. QED BY <1>2, <1>3, <1>4

LEMMA PlannedHolds ==
  ASSUME Basic, NEW t \in Tasks, Active(t), call[t].planned
  PROVE  /\ pc[t] \in Holding /\ CallOK(call[t]) /\ call[t].kind = "load" /\ call[t].todo # <<>>
         /\ conn.owner = t
<1>1. CallOK(call[t]) /\ (pc[t] = "collect" <=> call[t].todo = <<>>)
  BY DEF Basic, Shape, CallsOK
<1>4. call[t].todo # <<>> /\ call[t].kind = "load"
  BY <1>1, PlannedTodo
<1>5. pc[t] \in Holding
  BY <1>1, <1>4, State DEF Active
<1>. QED BY <1>1, <1>4, <1>5, Holds

LEMMA PlannedHoldsNext ==
  ASSUME Basic', NEW t \in Tasks, pc'[t] # "idle", call'[t].planned
  PROVE  pc'[t] \in Holding /\ CallOK(call'[t])
<1>1. CallOK(call'[t]) /\ (pc'[t] = "collect" <=> call'[t].todo = <<>>)
  BY DEF Basic, Shape, CallsOK, Active
<1>2. pc' \in [Tasks -> Holding \cup {"idle", "collect"}]
  BY DEF Basic, Shape, Types
<1>4. call'[t].todo # <<>>
  BY <1>1, PlannedTodo
<1>. QED BY <1>1, <1>2, <1>4

LEMMA WithinKept ==
  ASSUME Basic, Basic', [Next]_vars, Within PROVE Within'
<1>. SUFFICES ASSUME NEW u \in Tasks, pc'[u] \in Holding, call'[u].planned,
                     Now(u)' = "create" \/ (Now(u)' = "insert" /\ call'[u].transactional)
              PROVE  conn'.in_transaction
  <2>1. ASSUME NEW u \in Tasks, Active(u)', call'[u].planned PROVE pc'[u] \in Holding
    BY <2>1, PlannedHoldsNext DEF Active
  <2>. QED BY <2>1 DEF Within, Active
<1>1. ASSUME call[u].planned, Active(u), Now(u) = Now(u)', call'[u].transactional = call[u].transactional
      PROVE  conn.in_transaction
  BY <1>1 DEF Within
<1>2. CASE Acts(u) /\ Going(u)
  <2>1. CASE Reading(u)
    <3>1. conn.in_transaction
      BY <1>1, <2>1 DEF Reading, SameWork, SameStatement, SameEnds, Now
    <3>2. wire # <<>> => wire[1] \in Headers \cup Parts /\ OnWire(wire[1])
      BY FirstOf DEF OnWire
    <3>3. ASSUME Answers(u), wire # <<>>, wire[1] \in {"COMMIT", "ROLLBACK"} PROVE FALSE
      <4>1. Now(u) \in Ends
        BY <3>2, <3>3 DEF Basic, Matches, Answering, Ends
      <4>. QED BY <2>1, <4>1 DEF Reading, SameWork, SameStatement, Now, Ends
    <3>. QED BY <2>1, <3>1, <3>3 DEF Reading
  <2>2. CASE Passing(u)
    <3>0. NextStatement(u) \/ Unwinds(u) \/ ReadyPlans(u) \/ Collects(u)
      BY <1>2, <2>2, PassingOnly
    <3>1. CASE NextStatement(u)
      <4>1. /\ call[u].todo # <<>> /\ Now(u) = call[u].todo[1] /\ Now(u)' = call[u].todo[2]
            /\ call[u].planned /\ Len(call[u].todo) \in Nat \ {0, 1} /\ CallOK(call[u])
            /\ call'[u].transactional = call[u].transactional /\ Active(u) /\ Answers(u)
            /\ wire # <<>> /\ wire[1] = "ready" /\ ~call[u].err
            /\ conn'.in_transaction = (conn.in_transaction /\ ~(Now(u) \in Ends /\ ~call[u].err))
        BY <2>2, <3>1, NextIsSecond DEF NextStatement, Ready, Passing, SameEnds
      <4>2. /\ Now(u) \in {"begin", "create", "insert"}
            /\ Now(u) = "insert" => Now(u)' = "commit"
        BY <4>1, PlanGoes
      <4>3. Now(u) # "insert"
        BY <4>2
      <4>4. CASE Now(u) = "create"
        BY <4>1, <4>4 DEF Within, Ends
      <4>5. CASE Now(u) = "begin"
        <5>1. OnWire("ready") /\ ~OnWire("BEGIN")
          BY <4>1, FirstOf, LastReady DEF OnWire
        <5>2. conn.in_transaction
          BY <4>1, <4>5, <5>1 DEF Basic, Matches
        <5>. QED BY <4>1, <4>5, <5>2 DEF Ends
      <4>. QED BY <4>2, <4>3, <4>4, <4>5
    <3>2. CASE Unwinds(u)
      <4>1. call'[u].todo \in Seq(Statements) /\ Only(call'[u].todo, "rollback")
        BY <3>2, PlannedHolds DEF Unwinds, CallOK, TodoOK, Orderly, Sends, Moves
      <4>. QED BY <4>1, OneStatement DEF Now
    <3>3. CASE ReadyPlans(u)
      BY <3>3, PlansWithin DEF ReadyPlans
    <3>4. CASE Collects(u)
      BY <3>4, State DEF Collects, Moves, Holding
    <3>. QED BY <3>0, <3>1, <3>2, <3>3, <3>4
  <2>3. CASE Waits(u)
    BY <1>1, <2>3 DEF Waits, SameWork, SameStatement, SameEnds, Now
  <2>4. CASE Transmits(u)
    BY <1>1, <1>2, <2>4 DEF Transmits, Now, Active
  <2>5. CASE CollectPlans(u)
    BY <2>5, PlansWithin DEF CollectPlans
  <2>. QED BY <1>2, <2>1, <2>2, <2>3, <2>4, <2>5, Kinds
<1>3. ASSUME NEW kind, Starts(u, kind) PROVE FALSE
  BY <1>3 DEF Starts
<1>4. CASE Aloof(u)
  BY <1>1, <1>4 DEF Aloof
<1>. QED BY <1>2, <1>3, <1>4, Fates

\* Only who sends a statement gives the backend one.
LEMMA ServerStays ==
  ASSUME Basic, NEW t \in Tasks, Acts(t), ~Transmits(t)
  PROVE  srv'.up = srv.up /\ srv'.txn = srv.txn /\ srv'.what = srv.what /\ srv'.of = srv.of
<1>1. CASE Ending(t)
  BY <1>1, EndKinds DEF Over
<1>2. CASE Going(t)
  BY <1>2, Kinds DEF Reading, Passing, Ready, Waits, CollectPlans
<1>. QED BY <1>1, <1>2 DEF Acts

\* What a call may send
LEMMA NowKnown ==
  ASSUME NEW c, CallOK(c), c.todo # <<>>
  PROVE  /\ Head(c.todo) \in {"create", "insert"} => c.planned
         /\ Head(c.todo) = "commit" => c.planned \/ c.kind = "commit"
         /\ Head(c.todo) = "rollback" => c.planned \/ c.kind = "rollback"
         /\ c.planned /\ ~c.unwinding => Head(c.todo) \in {"begin", "create", "insert", "commit"}
         /\ c.planned /\ c.unwinding => Head(c.todo) = "rollback"
         /\ ~c.planned /\ c.kind = "load" => Head(c.todo) \in {"begin", "catalog"}
         /\ c.kind # "load" => ~c.planned /\ Head(c.todo) \in {"begin", c.kind}
         /\ c.kind \in Turns => Head(c.todo) = c.kind
<1>1. Head(c.todo) = c.todo[1] /\ 1 \in 1 .. Len(c.todo) /\ Flags(c) /\ TodoOK(c) /\ c.kind \in Others \cup {"load"}
  BY HeadOf DEF CallOK
<1>2. CASE c.kind = "load"
  <2>1. LoadTodo(c)
    BY <1>1, <1>2 DEF TodoOK
  <2>2. ~c.planned => Head(c.todo) \in {"begin", "catalog"} /\ ~c.unwinding
    BY <1>1, <2>1 DEF LoadTodo
  <2>3. c.planned /\ ~c.unwinding => Head(c.todo) \in {"begin", "create", "insert", "commit"}
    BY <1>1, <2>1 DEF LoadTodo
  <2>4. c.planned /\ c.unwinding => Head(c.todo) = "rollback"
    BY <1>1, <2>1 DEF LoadTodo, Only
  <2>. QED BY <1>2, <2>2, <2>3, <2>4 DEF Turns
<1>3. CASE c.kind # "load"
  <2>1. OtherTodo(c) /\ c.kind \in {"stmt", "copy", "unload", "begin", "commit", "rollback"}
    BY <1>1, <1>3, LoadDataAssumption DEF TodoOK
  <2>2. ~c.planned
    BY <2>1 DEF OtherTodo
  <2>3. c.kind \in Turns => Head(c.todo) = c.kind
    BY <1>1, <2>1 DEF OtherTodo, Only
  <2>4. c.kind \notin Turns => Head(c.todo) \in {"begin", c.kind}
    BY <1>1, <2>1 DEF OtherTodo
  <2>. QED BY <1>3, <2>1, <2>2, <2>3, <2>4 DEF Turns
<1>. QED BY <1>2, <1>3

LEMMA CreatesInsideKept ==
  ASSUME Basic, [Next]_vars, CreatesInside, Within, Belief PROVE CreatesInside'
<1>1. ASSUME NEW t \in Tasks, Acts(t) PROVE CreatesInside'
  <2>1. CASE ~Transmits(t)
    BY <1>1, <2>1, ServerStays DEF CreatesInside
  <2>2. CASE Transmits(t) /\ srv.up
    <3>1. wire = <<>> /\ srv.what = "none" /\ Active(t) /\ CallOK(call[t]) /\ call[t].todo # <<>>
      BY <2>2, Holds DEF Transmits, Holding
    <3>2. srv'.what = Now(t) /\ srv'.txn = srv.txn
      BY <2>2 DEF Transmits
    <3>3. Now(t) = "create" => call[t].planned
      BY <3>1, NowKnown DEF Now
    <3>4. Now(t) = "create" => conn.in_transaction
      BY <3>1, <3>3 DEF Within
    <3>5. ~OnWire("COMMIT") /\ ~OnWire("ROLLBACK")
      BY <3>1 DEF OnWire
    <3>. QED BY <2>2, <3>2, <3>4, <3>5 DEF CreatesInside, Belief
  <2>3. CASE Transmits(t) /\ ~srv.up
    BY <2>3 DEF Transmits, CreatesInside
  <2>. QED BY <2>1, <2>2, <2>3
<1>2. ASSUME NEW t \in Tasks, NEW kind, Comes(t, kind) PROVE CreatesInside'
  BY <1>2, ComesHow DEF CreatesInside
<1>3. CASE UNCHANGED vars
  BY <1>3 DEF vars, CreatesInside
<1>4. CASE Works1
  BY <1>4, ServerKinds DEF Works1, CreatesInside, Done1, Failed1, Turned, Settled, Waiting, Dies
<1>. QED BY <1>1, <1>2, <1>3, <1>4, Steps

-----------------------------------------------------------------------------
(* The format of the rows *)
OneFormat == \A i, j \in 1 .. Len(wire) : wire[i] = "fmt" /\ wire[j] = "fmt" => i = j
FormatWaits == srv.up /\ OnWire("fmt") =>
                 srv.st = "data" /\ srv.buf = <<>> /\ \A t \in Tasks : pc[t] # "xfer"

FormatTaken == \A t \in Tasks : pc[t] = "xfer" /\ srv.up => srv.st = "data"

LEMMA FormatIs == FormatOnce <=> OneFormat /\ FormatWaits /\ FormatTaken
BY DEF FormatOnce, OneFormat, FormatWaits, FormatTaken

LEMMA OneFormatShifts ==
  ASSUME Basic, WireMoves, OneFormat
  PROVE  OneFormat' /\ (wire' # wire /\ wire[1] = "fmt" => ~OnWire("fmt")')
<1>1. CASE wire' = wire
  BY <1>1 DEF OneFormat
<1>2. CASE wire # <<>> /\ wire' = Tail(wire)
  <2>1. /\ Len(wire') = Len(wire) - 1 /\ Len(wire) \in Nat
        /\ \A i \in 1 .. Len(wire') : wire'[i] = wire[i + 1] /\ i + 1 \in 1 .. Len(wire) /\ i + 1 # 1
        /\ 1 \in 1 .. Len(wire) /\ Len(wire') \in Nat
    BY <1>2, WireShifts, FirstOf
  <2>2. ASSUME NEW i \in 1 .. Len(wire'), NEW j \in 1 .. Len(wire'), wire'[i] = "fmt", wire'[j] = "fmt"
        PROVE  i = j
    <3>1. i + 1 = j + 1
      BY <2>1, <2>2 DEF OneFormat
    <3>. QED BY <3>1
  <2>3. ASSUME wire[1] = "fmt", NEW i \in 1 .. Len(wire'), wire'[i] = "fmt" PROVE FALSE
    BY <2>1, <2>3 DEF OneFormat
  <2>4. OneFormat'
    BY <2>2 DEF OneFormat
  <2>5. wire[1] = "fmt" => ~OnWire("fmt")'
    BY <2>3 DEF OnWire
  <2>. QED BY <2>4, <2>5
<1>. QED BY <1>1, <1>2 DEF WireMoves

LEMMA OneFormatGrows ==
  ASSUME Basic, NEW x, Adds(x), OneFormat
  PROVE  /\ (\A i \in 1 .. Len(x) : x[i] # "fmt") => OneFormat' /\ (OnWire("fmt")' => OnWire("fmt"))
         /\ Len(x) = 1 /\ ~OnWire("fmt") => OneFormat'
<1>1. /\ Len(wire) \in Nat /\ Len(x) \in Nat /\ Len(wire') = Len(wire) + Len(x)
      /\ \A i \in 1 .. Len(wire') : \/ i \in 1 .. Len(wire) /\ wire'[i] = wire[i]
                                    \/ i - Len(wire) \in 1 .. Len(x) /\ wire'[i] = x[i - Len(wire)]
  BY WireGrows
<1>2. ASSUME \A i \in 1 .. Len(x) : x[i] # "fmt" PROVE OneFormat' /\ (OnWire("fmt")' => OnWire("fmt"))
  <2>1. \A i \in 1 .. Len(wire') : wire'[i] = "fmt" => i \in 1 .. Len(wire) /\ wire[i] = "fmt"
    BY <1>1, <1>2
  <2>. QED BY <2>1 DEF OneFormat, OnWire
<1>3. ASSUME Len(x) = 1, ~OnWire("fmt") PROVE OneFormat'
  <2>1. \A i \in 1 .. Len(wire') : wire'[i] = "fmt" => i = Len(wire) + 1
    BY <1>1, <1>3 DEF OnWire
  <2>. QED BY <2>1 DEF OneFormat
<1>. QED BY <1>2, <1>3

\* The backend gives it when the client has answered, once.
LEMMA FormatGoesOn ==
  ASSUME Basic, GoesOn, OneFormat, FormatWaits
  PROVE  /\ OneFormat' /\ srv.st \in {"run", "greeted"} /\ srv.up /\ srv'.buf = <<>>
         /\ OnWire("fmt")' => srv'.st = "data"
<1>1. srv.st \in {"run", "greeted"} /\ srv.up /\ srv'.buf = <<>>
  BY GoesOnSays DEF Waiting, Basic, Serves
<1>2. ~OnWire("fmt")
  BY <1>1 DEF FormatWaits
<1>3. CASE \E x : Adds(x) /\ Only(x, "fmt") /\ srv'.st = "data"
  BY <1>1, <1>2, <1>3, OneFormatGrows DEF Only
<1>4. ASSUME NEW x, Adds(x), \A i \in 1 .. Len(x) : x[i] # "fmt" PROVE OneFormat' /\ ~OnWire("fmt")'
  BY <1>2, <1>4, OneFormatGrows
<1>5. PICK x : /\ Adds(x)
               /\ \/ Only(x, "l") \/ Only(x, "lf") \/ Only(x, "u") \/ (Only(x, "fmt") /\ srv'.st = "data")
                  \/ Len(x) = 3 /\ x[1] = "U" /\ x[2] = "block" /\ x[3] \in {"done", "sockerr"}
  BY DEF GoesOn
<1>6. CASE Only(x, "l") \/ Only(x, "lf") \/ Only(x, "u")
  <2>1. \A i \in 1 .. Len(x) : x[i] # "fmt"
    BY <1>6 DEF Only
  <2>. QED BY <1>1, <1>4, <1>5, <2>1
<1>7. CASE Len(x) = 3 /\ x[1] = "U" /\ x[2] = "block" /\ x[3] \in {"done", "sockerr"}
  <2>1. \A i \in 1 .. Len(x) : x[i] # "fmt"
    BY <1>7
  <2>. QED BY <1>1, <1>4, <1>5, <2>1
<1>. QED BY <1>3, <1>5, <1>6, <1>7

LEMMA OneFormatKept ==
  ASSUME Basic, [Next]_vars, FormatOnce PROVE OneFormat'
<1>0. OneFormat /\ FormatWaits
  BY FormatIs
<1>1. ASSUME NEW t \in Tasks, Acts(t) PROVE OneFormat'
  BY <1>0, <1>1, ActsOthers, OneFormatShifts DEF Acts
<1>2. ASSUME NEW t \in Tasks, NEW kind, Comes(t, kind) PROVE OneFormat'
  BY <1>0, <1>2, ComesHow DEF OneFormat
<1>3. CASE UNCHANGED vars
  BY <1>0, <1>3 DEF vars, OneFormat
<1>4. CASE Works1
  <2>1. CASE Succeeds \/ Fails
    <3>1. PICK x : Adds(x) /\ \A i \in 1 .. Len(x) : x[i] # "fmt"
      BY <2>1 DEF Succeeds, Fails, Settles, Alike
    <3>. QED BY <1>0, <3>1, OneFormatGrows
  <2>2. CASE TurnsOver
    <3>1. PICK x : Adds(x) /\ Len(x) = 2 /\ x[1] = TagOf(srv.what) /\ x[2] = "ready"
      BY <2>2 DEF TurnsOver, Settles
    <3>2. \A i \in 1 .. Len(x) : x[i] # "fmt"
      BY <3>1 DEF TagOf
    <3>. QED BY <1>0, <3>1, <3>2, OneFormatGrows
  <2>3. CASE GoesOn
    BY <1>0, <2>3, FormatGoesOn
  <2>4. CASE Dies
    <3>1. CASE \E x : Adds(x) /\ Only(x, "error")
      <4>1. PICK x : Adds(x) /\ Only(x, "error")
        BY <3>1
      <4>2. \A i \in 1 .. Len(x) : x[i] # "fmt"
        BY <4>1 DEF Only
      <4>. QED BY <1>0, <4>1, <4>2, OneFormatGrows
    <3>2. CASE wire' \in Seq(Byte) /\ Len(wire') <= Len(wire) /\ \A i \in 1 .. Len(wire') : wire'[i] = wire[i]
      <4>1. \A i \in 1 .. Len(wire') : i \in 1 .. Len(wire) /\ wire'[i] = wire[i]
        <5>1. Len(wire') \in Nat /\ Len(wire) \in Nat
          BY <3>2, State DEF Byte
        <5>. QED BY <3>2, <5>1
      <4>. QED BY <1>0, <4>1 DEF OneFormat
    <3>. QED BY <2>4, <3>1, <3>2 DEF Dies
  <2>. QED BY <1>4, <2>1, <2>2, <2>3, <2>4 DEF Works1, Serving
<1>. QED BY <1>1, <1>2, <1>3, <1>4, Steps

LEMMA FormatActs ==
  ASSUME Basic, NEW t \in Tasks, Acts(t), FormatOnce PROVE FormatWaits' /\ FormatTaken'
<1>0. OneFormat /\ FormatWaits /\ FormatTaken
  BY FormatIs
<1>1. Others1(t) /\ Active(t) /\ WireMoves /\ (OnWire("fmt")' => OnWire("fmt"))
  BY ActsOthers, WireMovesOn DEF Acts
<1>2. ASSUME UNCHANGED srv, pc'[t] # "xfer" PROVE FormatWaits' /\ FormatTaken'
  BY <1>0, <1>1, <1>2 DEF FormatWaits, FormatTaken, Others1
<1>3. CASE Ending(t)
  <2>1. UNCHANGED srv /\ pc'[t] = "idle"
    BY <1>3, EndKinds DEF Over
  <2>. QED BY <1>2, <2>1
<1>4. ASSUME NEW where, Moves(t, where) PROVE pc'[t] = where
  BY <1>4, MovesOthers
<1>5. CASE Drained(t) \/ NextStatement(t) \/ Unwinds(t) \/ ReadyPlans(t) \/ Collects(t) \/ CollectPlans(t)
           \/ Discards(t)
  <2>1. UNCHANGED srv
    BY <1>5 DEF Drained, NextStatement, Unwinds, ReadyPlans, Collects, CollectPlans, Discards, Ready
  <2>2. Moves(t, "send") \/ Moves(t, "collect") \/ Moves(t, "read")
    BY <1>5 DEF Drained, NextStatement, Unwinds, ReadyPlans, Collects, CollectPlans, Discards, Plans, Sends
  <2>. QED BY <1>2, <1>4, <2>1, <2>2
<1>6. CASE ReadsPart(t)
  <2>1. UNCHANGED srv /\ (Moves(t, "unload") \/ Moves(t, "logfile") \/ Moves(t, "read"))
    BY <1>6 DEF ReadsPart
  <2>. QED BY <1>2, <1>4, <2>1
<1>7. CASE ReadsOn(t) \/ EntersFrame(t)
  <2>2. srv'.up = srv.up /\ srv'.buf = srv.buf /\ (srv.st = "data" => srv'.st = "data")
    BY <1>7 DEF ReadsOn, EntersFrame, Asks
  <2>3. pc'[t] # "xfer"
    BY <1>4, <1>7 DEF ReadsOn, EntersFrame, FrameOf
  <2>. QED BY <1>0, <1>1, <2>2, <2>3 DEF FormatWaits, FormatTaken, Others1
<1>8. CASE Transmits(t)
  <2>1. wire = <<>> /\ wire' = <<>> /\ pc[t] = "send" /\ srv'.up = srv.up
    BY <1>8, Holds DEF Transmits, Holding
  <2>2. \A u \in Tasks : pc'[u] # "xfer"
    <3>1. ASSUME NEW u \in Tasks, u # t, pc[u] = "xfer" PROVE FALSE
      BY <2>1, <3>1, OneReader DEF Reads, Readers, Holding
    <3>2. pc'[t] = "read"
      BY <1>8, State DEF Transmits
    <3>. QED BY <1>1, <3>1, <3>2 DEF Others1
  <2>3. ~OnWire("fmt")'
    BY <2>1 DEF OnWire
  <2>. QED BY <2>2, <2>3 DEF FormatWaits, FormatTaken
<1>9. ASSUME Reads(t), NEW u \in Tasks, u # t, pc[u] = "xfer" PROVE FALSE
  BY <1>9, OneReader DEF Reads, Readers, Holding
<1>10. CASE Greets(t)
  <2>0. wire # <<>> /\ wire' = Tail(wire) /\ wire[1] = "fmt" /\ UNCHANGED srv /\ pc[t] = "hello"
    BY <1>10 DEF Greets
  <2>4. Len(wire') = Len(wire) - 1 /\ Len(wire) \in Nat /\ OnWire("fmt")
    BY <2>0, FirstOf, WireShifts, State DEF OnWire
  <2>5. wire' # wire
    BY <2>4
  <2>1. /\ wire' # wire /\ wire[1] = "fmt" /\ UNCHANGED srv /\ pc[t] = "hello" /\ OnWire("fmt")
    BY <2>0, <2>4, <2>5
  <2>2. ~OnWire("fmt")'
    BY <1>0, <1>1, <2>1, OneFormatShifts
  <2>3. srv.up => srv.st = "data"
    BY <1>0, <2>1 DEF FormatWaits
  <2>. QED BY <2>1, <2>2, <2>3 DEF FormatWaits, FormatTaken
<1>11. CASE SendsBatch(t)
  <2>1. pc[t] = "xfer" /\ srv'.up = srv.up /\ srv'.st = srv.st
    BY <1>11 DEF SendsBatch
  <2>. QED BY <1>0, <1>1, <2>1 DEF FormatWaits, FormatTaken, Others1
<1>12. CASE EndsStream(t, "end") \/ EndsStream(t, "abort")
  <2>1. pc[t] = "xfer" /\ srv'.up = srv.up /\ pc'[t] = "read"
    BY <1>4, <1>12 DEF EndsStream
  <2>2. \A u \in Tasks : pc'[u] # "xfer"
    BY <1>1, <1>9, <2>1 DEF Others1, Reads, Readers
  <2>. QED BY <1>0, <1>1, <2>1, <2>2 DEF FormatWaits, FormatTaken
<1>. QED BY <1>3, <1>5, <1>6, <1>7, <1>8, <1>10, <1>11, <1>12 DEF Acts, Going

LEMMA FormatServes ==
  ASSUME Basic, Works1, FormatOnce PROVE FormatWaits' /\ FormatTaken'
<1>0. OneFormat /\ FormatWaits /\ FormatTaken /\ UNCHANGED pc
  BY FormatIs DEF Works1
<1>1. srv.up => (srv.st = "data" => srv.what \in {"insert", "copy"})
  BY DEF Basic, Serves
<1>2. ASSUME srv.st # "data", srv.up, OnWire("fmt")' => OnWire("fmt") PROVE FormatWaits' /\ FormatTaken'
  BY <1>0, <1>2 DEF FormatWaits, FormatTaken
<1>3. CASE Succeeds \/ Fails
  <2>1. PICK x : Settles(x) /\ \A i \in 1 .. Len(x) : x[i] # "fmt"
    BY <1>3 DEF Succeeds, Fails, Alike
  <2>2. OnWire("fmt")' => OnWire("fmt")
    BY <1>0, <2>1, OneFormatGrows DEF Settles
  <2>3. srv.up /\ srv.st # "data"
    BY <1>3, <2>1, SettlesSays DEF Succeeds, Fails, Settled, Basic, Serves
  <2>. QED BY <1>2, <2>2, <2>3
<1>4. CASE TurnsOver
  <2>1. PICK x : Settles(x) /\ Len(x) = 2 /\ x[1] = TagOf(srv.what) /\ x[2] = "ready" /\ srv.what \in Turns
    BY <1>4 DEF TurnsOver
  <2>2. \A i \in 1 .. Len(x) : x[i] # "fmt"
    BY <2>1 DEF TagOf
  <2>3. OnWire("fmt")' => OnWire("fmt")
    BY <1>0, <2>1, <2>2, OneFormatGrows DEF Settles
  <2>4. srv.up /\ srv.st # "data"
    BY <1>1, <2>1, SettlesSays DEF Settled, Turns
  <2>. QED BY <1>2, <2>3, <2>4
<1>5. CASE GoesOn
  <2>1. srv.st \in {"run", "greeted"} /\ srv.up /\ srv'.buf = <<>> /\ (OnWire("fmt")' => srv'.st = "data")
    BY <1>0, <1>5, FormatGoesOn
  <2>2. \A u \in Tasks : pc'[u] # "xfer"
    BY <1>0, <2>1 DEF FormatTaken
  <2>. QED BY <2>1, <2>2 DEF FormatWaits, FormatTaken
<1>6. CASE Dies
  BY <1>6 DEF Dies, FormatWaits, FormatTaken
<1>. QED BY <1>3, <1>4, <1>5, <1>6 DEF Works1, Serving

LEMMA FormatOnceKept ==
  ASSUME Basic, [Next]_vars, FormatOnce PROVE FormatOnce'
<1>0. FormatWaits /\ FormatTaken
  BY FormatIs
<1>1. FormatWaits' /\ FormatTaken'
  <2>1. ASSUME NEW t \in Tasks, NEW kind, Comes(t, kind) PROVE FormatWaits' /\ FormatTaken'
    <3>1. UNCHANGED <<srv, wire>> /\ Others1(t) /\ pc'[t] # "xfer"
      BY <2>1, ComesHow
    <3>. QED BY <1>0, <3>1 DEF FormatWaits, FormatTaken, Others1, OnWire
  <2>2. CASE UNCHANGED vars
    BY <1>0, <2>2 DEF vars, FormatWaits, FormatTaken, OnWire
  <2>. QED BY <2>1, <2>2, FormatActs, FormatServes, Steps
<1>2. OneFormat'
  BY OneFormatKept
<1>. QED BY <1>1, <1>2 DEF FormatOnce, OneFormat, FormatWaits, FormatTaken

-----------------------------------------------------------------------------
(* The frames of an answer that is awaited are whole, whatever became of earlier ones. *)
FramedOwn == (\E t \in Tasks : Answers(t)) => Chained /\ (srv.up => EndMode = Awaited)

LEMMA AnswersAnew ==
  ASSUME Basic, NEW t \in Tasks, Going(t), Answers(t)', ~Answers(t) PROVE Transmits(t)
<1>1. ~Reading(t)
  BY DEF Reading, Answers, Reads
<1>2. ~Passing(t)
  BY DEF Passing, Answers, Reads, Readers
<1>3. ~Waits(t)
  BY DEF Waits, Answers, Reads, Readers
<1>4. ~CollectPlans(t)
  <2>1. CollectPlans(t) => pc'[t] = "send"
    BY MovesOthers DEF CollectPlans, Plans, Sends
  <2>. QED BY <2>1 DEF Answers, Reads, Readers
<1>. QED BY <1>1, <1>2, <1>3, <1>4, Kinds

LEMMA FramedOwnKept ==
  ASSUME Basic, Basic', [Next]_vars, FramedOwn PROVE FramedOwn'
<1>. SUFFICES ASSUME NEW u \in Tasks, Answers(u)' PROVE Chained' /\ (srv'.up => EndMode' = Awaited')
  BY DEF FramedOwn
<1>1. pc'[u] \in Holding /\ ~conn'.closed
  BY DEF Answers, Reads, Readers, Holding, Basic, Shape, Held
<1>2. Framed' => Chained' /\ (srv'.up => EndMode' = Awaited')
  BY <1>1 DEF Framed
<1>3. Answers(u) => Framed
  BY DEF FramedOwn, Framed
<1>4. CASE Acts(u) /\ Going(u)
  <2>1. CASE Answers(u)
    BY <1>2, <1>3, <1>4, <2>1, GoingFrames
  <2>2. CASE ~Answers(u)
    <3>1. Transmits(u)
      BY <1>4, <2>2, AnswersAnew
    <3>2. wire' = <<>> /\ conn'.owner = u /\ pc'[u] = "read"
      BY <3>1, Holds, State DEF Transmits, Holding
    <3>3. Mode' = "top"
      BY <3>2, NextModeOf DEF Frames
    <3>4. Chained' /\ EndMode' = "top"
      <4>1. wire' \in Seq(Headers \cup Parts) /\ Len(wire') = 0
        BY <3>2
      <4>2. \A i \in 1 .. Len(wire') - 1 : FALSE
        BY <4>1
      <4>. QED BY <3>2, <3>3, <4>2 DEF Chained, EndMode
    <3>5. srv'.up => Awaited' = "top"
      BY <3>1 DEF Transmits, Awaited
    <3>. QED BY <3>4, <3>5
  <2>. QED BY <2>1, <2>2
<1>5. ASSUME NEW kind, Starts(u, kind) PROVE FALSE
  BY <1>5, State DEF Starts, Answers, Reads, Readers
<1>6. CASE Aloof(u)
  <2>1. Answers(u) /\ Framed /\ pc'[u] = pc[u] /\ conn'.owner = conn.owner /\ pc[u] \in Holding
    BY <1>3, <1>6 DEF Aloof
  <2>2. CASE Works1
    BY <1>2, <2>1, <2>2, ServingFrames DEF Works1
  <2>3. CASE UNCHANGED <<srv, wire, work, table>>
    <3>1. conn.owner = u /\ conn'.owner = u
      BY <2>1, Holds
    <3>2. Mode' = Mode
      BY <2>1, <3>1, ModeOf, NextModeOf
    <3>3. ~conn.closed
      BY <2>1 DEF Answers, Basic, Shape, Held
    <3>. QED BY <1>2, <2>1, <2>3, <3>2, <3>3, SameFrames DEF Awaited
  <2>. QED BY <1>6, <2>2, <2>3 DEF Aloof
<1>. QED BY <1>4, <1>5, <1>6, Fates, <1>1

-----------------------------------------------------------------------------
(* The rows that come in *)

LEMMA DrainsAlone ==
  ASSUME Basic, NEW t \in Tasks, Reads(t), call[t].draining PROVE Abandoned /\ ~conn.closed /\ conn.dirty
<1>1. pc[t] \in Holding /\ ~conn.closed /\ conn.dirty
  BY DEF Reads, Readers, Holding, Basic, Shape, Held
<1>2. ASSUME NEW u \in Tasks, Answers(u) PROVE FALSE
  <2>1. u = t
    BY <1>1, <1>2, OneReader DEF Answers
  <2>. QED BY <1>2, <2>1 DEF Answers
<1>. QED BY <1>1, <1>2 DEF Abandoned

LEMMA GreetsOwn ==
  ASSUME Basic, NEW t \in Tasks, Greets(t), LeftInsert, LeftAlone, Trusted, srv.st = "data"
  PROVE  call'[t].src \in {0, srv.of}
<1>1. /\ pc[t] = "hello" /\ Reads(t) /\ Active(t) /\ pc[t] \in Holding
      /\ call'[t].src = (IF call[t].marker THEN conn.source ELSE 0)
  BY DEF Greets, Reads, Readers, Active, Holding
<1>2. conn.source # 0 => call[t].planned /\ call[t].id = conn.source
  BY <1>1, Holds
<1>3. CASE Answers(t)
  <2>1. srv.what # "none"
    BY DEF Basic, Serves
  <2>2. srv.of = call[t].id
    BY <1>3, <2>1 DEF Basic, Matches
  <2>. QED BY <1>1, <1>2, <2>2
<1>4. CASE ~Answers(t)
  <2>1. call[t].draining
    BY <1>1, <1>4 DEF Answers
  <2>2. Abandoned /\ ~conn.closed /\ conn.dirty
    BY <1>1, <2>1, DrainsAlone
  <2>3. CASE Clean \/ "insert" \notin scene.cancel
    BY <1>1, <2>2, <2>3 DEF LeftInsert
  <2>4. CASE ~Clean /\ "insert" \in scene.cancel
    <3>1. Single(scene)
      BY <2>4 DEF Trusted, Tame
    <3>2. ~call[t].planned
      BY <1>1, <1>4, <2>2, <3>1 DEF LeftAlone
    <3>. QED BY <1>1, <1>2, <3>2
  <2>. QED BY <2>3, <2>4
<1>. QED BY <1>3, <1>4

Own1 == srv.st \in {"data", "end"} => \A i \in 1 .. Len(srv.buf) : srv.buf[i] = srv.of
Own2 == srv.st = "end" => Len(srv.buf) = Batches
Own3 == \A t \in Tasks : pc[t] = "xfer" /\ srv.st = "data" =>
          Len(srv.buf) = call[t].pos /\ call[t].src \in {0, srv.of}

LEMMA OwnRowsIs == OwnRows <=> Own1 /\ Own2 /\ Own3
BY DEF OwnRows, Own1, Own2, Own3

LEMMA OwnRowsActs ==
  ASSUME Basic, NEW t \in Tasks, Acts(t), FormatOnce, LeftInsert, LeftAlone, Trusted, Own1, Own2, Own3
  PROVE  Own1' /\ Own2' /\ Own3'
<1>1. Others1(t) /\ Active(t)
  BY ActsOthers DEF Acts
<1>2. ASSUME UNCHANGED srv, pc'[t] # "xfer" PROVE Own1' /\ Own2' /\ Own3'
  BY <1>1, <1>2 DEF Own1, Own2, Own3, Others1
<1>3. CASE Ending(t)
  <2>1. UNCHANGED srv /\ pc'[t] = "idle"
    BY <1>3, EndKinds DEF Over
  <2>. QED BY <1>2, <2>1
<1>4. ASSUME NEW where, Moves(t, where) PROVE pc'[t] = where
  BY <1>4, MovesOthers
<1>5. CASE Drained(t) \/ NextStatement(t) \/ Unwinds(t) \/ ReadyPlans(t) \/ Collects(t) \/ CollectPlans(t)
           \/ Discards(t)
  <2>1. UNCHANGED srv
    BY <1>5 DEF Drained, NextStatement, Unwinds, ReadyPlans, Collects, CollectPlans, Discards, Ready
  <2>2. Moves(t, "send") \/ Moves(t, "collect") \/ Moves(t, "read")
    BY <1>5 DEF Drained, NextStatement, Unwinds, ReadyPlans, Collects, CollectPlans, Discards, Plans, Sends
  <2>. QED BY <1>2, <1>4, <2>1, <2>2
<1>6. CASE ReadsPart(t)
  <2>1. UNCHANGED srv /\ (Moves(t, "unload") \/ Moves(t, "logfile") \/ Moves(t, "read"))
    BY <1>6 DEF ReadsPart
  <2>. QED BY <1>2, <1>4, <2>1
<1>7. CASE ReadsOn(t) \/ EntersFrame(t)
  <2>2. srv'.of = srv.of /\ srv'.buf = srv.buf /\ (srv'.st \in {"data", "end"} => srv'.st = srv.st)
    BY <1>7 DEF ReadsOn, EntersFrame, Asks
  <2>3. pc'[t] # "xfer"
    BY <1>4, <1>7 DEF ReadsOn, EntersFrame, FrameOf
  <2>. QED BY <1>1, <2>2, <2>3 DEF Own1, Own2, Own3, Others1
<1>8. CASE Transmits(t)
  <2>1. CASE srv.up
    <3>1. srv'.st = "run"
      BY <1>8, <2>1 DEF Transmits
    <3>. QED BY <3>1 DEF Own1, Own2, Own3
  <2>2. CASE ~srv.up
    <3>1. srv' = srv /\ pc'[t] = "read"
      BY <1>8, <2>2, State DEF Transmits
    <3>. QED BY <1>2, <3>1
  <2>. QED BY <2>1, <2>2
<1>9. ASSUME pc[t] \in Readers, NEW u \in Tasks, u # t, pc'[u] = "xfer" PROVE FALSE
  <2>1. pc[u] = "xfer"
    BY <1>1, <1>9 DEF Others1
  <2>. QED BY <1>9, <2>1, OneReader DEF Reads, Readers, Holding
<1>10. CASE Greets(t)
  <2>1. /\ wire # <<>> /\ wire[1] = "fmt" /\ UNCHANGED srv /\ pc[t] = "hello" /\ call'[t].pos = 0
    BY <1>10 DEF Greets
  <2>2. OnWire("fmt")
    BY <2>1, FirstOf DEF OnWire
  <2>3. srv.st = "data" => srv.buf = <<>>
    <3>1. srv.st = "data" => srv.up
      BY DEF Basic, Serves
    <3>. QED BY <2>2, <3>1 DEF FormatOnce
  <2>4. srv.st = "data" => Len(srv.buf) = 0
    BY <2>3
  <2>5. srv.st = "data" => call'[t].src \in {0, srv.of}
    BY <1>10, GreetsOwn
  <2>6. Own3'
    BY <1>9, <2>1, <2>4, <2>5 DEF Own3, Readers
  <2>. QED BY <2>1, <2>6 DEF Own1, Own2
<1>11. CASE SendsBatch(t)
  <2>1. /\ pc[t] = "xfer" /\ srv'.st = srv.st /\ srv'.of = srv.of /\ call'[t].pos = call[t].pos + 1
        /\ call'[t].src = call[t].src
        /\ srv'.buf = (IF srv.up /\ srv.st = "data"
                       THEN Append(srv.buf, IF call[t].src = 0 THEN srv.of ELSE call[t].src) ELSE srv.buf)
    BY <1>11 DEF SendsBatch
  <2>2. CASE srv.up /\ srv.st = "data"
    <3>1. Len(srv.buf) = call[t].pos /\ srv'.buf = Append(srv.buf, srv.of)
      <4>1. (IF call[t].src = 0 THEN srv.of ELSE call[t].src) = srv.of
        BY <2>1, <2>2 DEF Own3
      <4>. QED BY <2>1, <2>2, <4>1 DEF Own3
    <3>2. srv.buf \in Seq(0 .. MaxCalls) /\ srv.of \in 0 .. MaxCalls
      BY State DEF ServerRecord
    <3>3. Len(srv'.buf) = Len(srv.buf) + 1 /\ \A i \in 1 .. Len(srv'.buf) :
            srv'.buf[i] = srv.of \/ (i \in 1 .. Len(srv.buf) /\ srv'.buf[i] = srv.buf[i])
      BY <3>1, <3>2
    <3>4. \A i \in 1 .. Len(srv'.buf) : srv'.buf[i] = srv'.of
      BY <2>1, <2>2, <3>3 DEF Own1
    <3>5. Len(srv'.buf) = call'[t].pos /\ call'[t].src \in {0, srv'.of}
      BY <2>1, <2>2, <3>1, <3>3 DEF Own3
    <3>6. Own3'
      BY <1>9, <2>1, <3>5 DEF Own3, Readers
    <3>. QED BY <2>1, <2>2, <3>4, <3>6 DEF Own1, Own2
  <2>3. CASE ~(srv.up /\ srv.st = "data")
    <3>1. srv.st # "data" /\ srv'.buf = srv.buf
      BY <2>1, <2>3 DEF Basic, Serves
    <3>. QED BY <2>1, <3>1 DEF Own1, Own2, Own3
  <2>. QED BY <2>2, <2>3
<1>12. ASSUME NEW st \in {"end", "abort"}, EndsStream(t, st) PROVE Own1' /\ Own2' /\ Own3'
  <2>1. /\ pc[t] = "xfer" /\ srv'.of = srv.of /\ srv'.buf = srv.buf /\ pc'[t] = "read"
        /\ srv'.st = (IF srv.up /\ srv.st = "data" THEN st ELSE srv.st)
        /\ st = "end" => call[t].pos = Batches
    BY <1>4, <1>12 DEF EndsStream
  <2>2. Own3'
    BY <1>9, <2>1 DEF Own3, Readers
  <2>3. CASE srv.up /\ srv.st = "data"
    BY <2>1, <2>2, <2>3 DEF Own1, Own2, Own3
  <2>4. CASE ~(srv.up /\ srv.st = "data")
    BY <2>1, <2>2, <2>4 DEF Own1, Own2
  <2>. QED BY <2>3, <2>4
<1>. QED BY <1>3, <1>5, <1>6, <1>7, <1>8, <1>10, <1>11, <1>12 DEF Acts, Going

LEMMA OwnRowsKept ==
  ASSUME Basic, [Next]_vars, FormatOnce, LeftInsert, LeftAlone, Trusted, OwnRows PROVE OwnRows'
<1>. SUFFICES Own1' /\ Own2' /\ Own3'
  BY DEF OwnRows, Own1, Own2, Own3
<1>0. Own1 /\ Own2 /\ Own3
  BY OwnRowsIs
<1>1. ASSUME NEW t \in Tasks, Acts(t) PROVE Own1' /\ Own2' /\ Own3'
  BY <1>0, <1>1, OwnRowsActs
<1>2. ASSUME NEW t \in Tasks, NEW kind, Comes(t, kind) PROVE Own1' /\ Own2' /\ Own3'
  <2>1. UNCHANGED srv /\ Others1(t) /\ pc'[t] # "xfer"
    BY <1>2, ComesHow
  <2>. QED BY <1>0, <2>1 DEF Own1, Own2, Own3, Others1
<1>3. CASE UNCHANGED vars
  BY <1>0, <1>3 DEF vars, Own1, Own2, Own3
<1>4. CASE Works1
  <2>1. CASE srv'.st \notin {"data", "end"}
    BY <2>1 DEF Own1, Own2, Own3
  <2>2. CASE Waiting /\ srv'.st = "data"
    <3>1. srv.st = "greeted" /\ srv'.buf = <<>> /\ srv.up
      BY <2>2 DEF Waiting, Basic, Serves
    <3>2. \A u \in Tasks : pc'[u] # "xfer"
      BY <1>4, <3>1 DEF Works1, FormatOnce
    <3>3. \A i \in 1 .. Len(srv'.buf) : FALSE
      BY <3>1
    <3>. QED BY <2>2, <3>2, <3>3 DEF Own1, Own2, Own3
  <2>. QED
    BY <1>4, <2>1, <2>2, ServerKinds DEF Works1, Done1, Failed1, Turned, Settled, Waiting, Dies
<1>. QED BY <1>1, <1>2, <1>3, <1>4, Steps

-----------------------------------------------------------------------------
(* Rows are stored once. *)

LEMMA StoredIs ==
  ASSUME Basic, OwnRows, srv.st = "end"
  PROVE  Stored = Complete(srv.of) /\ srv.what \in {"insert", "copy"}
<1>1. srv.buf \in Seq(0 .. MaxCalls) /\ Batches \in Nat \ {0} /\ Len(srv.buf) = Batches
  BY State DEF ServerRecord, OwnRows
<1>2. srv.buf # <<>> /\ Head(srv.buf) = srv.buf[1] /\ 1 \in 1 .. Len(srv.buf)
  BY <1>1
<1>3. srv.buf[1] = srv.of
  BY <1>2 DEF OwnRows
<1>4. Stored = [of |-> srv.of, from |-> srv.of, n |-> Batches]
  BY <1>1, <1>2, <1>3 DEF Stored
<1>. QED BY <1>4 DEF Complete, Basic, Serves

LEMMA OneComplete ==
  ASSUME NEW j, NEW k, Complete(j) = Complete(k) PROVE j = k
<1>1. Complete(j).of = j /\ Complete(k).of = k
  BY DEF Complete
<1>. QED BY <1>1

\* Rows are asked for by the last statement, or by the one before COMMIT.
LEMMA StoresLast ==
  ASSUME NEW c, CallOK(c), c.todo[1] \in Storing, NEW i \in 1 .. Len(c.todo), c.todo[i] \in Storing
  PROVE  i = 1
<1>1. Orderly(c.todo) /\ Len(c.todo) \in Nat
  <2>1. Orderly(c.todo)
    BY DEF CallOK, TodoOK
  <2>. QED BY <2>1 DEF Orderly
<1>5. 1 \in 1 .. Len(c.todo)
  BY <1>1
<1>2. 1 = Len(c.todo) \/ (1 = Len(c.todo) - 1 /\ c.todo[Len(c.todo)] = "commit")
  BY <1>1, <1>5 DEF Orderly
<1>3. CASE 1 = Len(c.todo)
  BY <1>3
<1>4. CASE 1 = Len(c.todo) - 1 /\ c.todo[Len(c.todo)] = "commit"
  <2>1. i # Len(c.todo)
    BY <1>4 DEF Storing
  <2>. QED BY <1>1, <1>4, <2>1
<1>. QED BY <1>2, <1>3, <1>4

LEMMA DueBefore ==
  ASSUME Basic, NEW t \in Tasks, Going(t), Due(t)' PROVE Due(t) /\ call'[t].id = call[t].id
<1>a. Active(t)
  BY GoingIs DEF Continues
<1>0. CallOK(call[t])
  BY <1>a, IdsOK
<1>1. PICK where : Moves(t, where)
  BY GoingIs DEF Continues
<1>2. call'[t].id = call[t].id /\ call'[t].kind = call[t].kind
  BY <1>1 DEF Moves
<1>. DEFINE Stored1(i) == i \in 1 .. Len(call'[t].todo) /\ call'[t].todo[i] \in Storing /\ (i = 1 => ~Answers(t)')
<1>3. \/ call'[t].kind = "load" /\ ~call'[t].planned
      \/ \E i \in 1 .. Len(call'[t].todo) : Stored1(i)
  BY DEF Due
<1>4. CASE Reading(t)
  <2>1. call'[t].todo = call[t].todo /\ call'[t].planned = call[t].planned /\ (Answers(t)' <=> Answers(t))
    BY <1>4 DEF Reading, SameWork, SameStatement, Answers, Reads
  <2>. QED BY <1>2, <1>3, <2>1 DEF Due
<1>5. CASE Waits(t)
  <2>1. call'[t].todo = call[t].todo /\ call'[t].planned = call[t].planned /\ ~Answers(t)
    BY <1>5 DEF Waits, SameWork, SameStatement
  <2>. QED BY <1>2, <1>3, <2>1 DEF Due
<1>6. CASE Transmits(t)
  <2>1. call' = call /\ ~Answers(t)
    BY <1>6 DEF Transmits, Answers, Reads, Readers
  <2>. QED BY <1>2, <1>3, <2>1 DEF Due
<1>7. CASE CollectPlans(t) \/ ReadyPlans(t)
  BY <1>2, <1>7 DEF CollectPlans, ReadyPlans, Plans, Due
<1>8. CASE Collects(t)
  <2>1. call[t].kind = "load" /\ Now(t) = "catalog" /\ TodoOK(call[t])
    BY <1>0, <1>8 DEF Collects, CallOK
  <2>2. call[t].todo # <<>>
    BY <1>8, Holds DEF Collects, Ready, Holding
  <2>3. ~call[t].planned
    BY <2>1, <2>2, Unplanned DEF Now
  <2>. QED BY <1>2, <2>1, <2>3 DEF Due
<1>9. CASE Unwinds(t)
  <2>1. call'[t].planned /\ Len(call'[t].todo) = 1 /\ call'[t].todo[1] = "rollback"
    BY <1>9 DEF Unwinds, Only
  <2>2. \A i \in 1 .. Len(call'[t].todo) : call'[t].todo[i] \notin Storing
    BY <2>1 DEF Storing
  <2>. QED BY <1>3, <2>1, <2>2
<1>10. CASE NextStatement(t)
  <2>1. /\ Len(call[t].todo) \in Nat \ {0, 1} /\ Len(call'[t].todo) = Len(call[t].todo) - 1
        /\ \A i \in 1 .. Len(call[t].todo) - 1 : call'[t].todo[i] = call[t].todo[i + 1]
        /\ call'[t].planned = call[t].planned
    BY <1>10, NextIsSecond DEF NextStatement
  <2>2. CASE call'[t].kind = "load" /\ ~call'[t].planned
    BY <1>2, <2>1, <2>2 DEF Due
  <2>3. ASSUME NEW i \in 1 .. Len(call'[t].todo), Stored1(i) PROVE Due(t)
    <3>1. i + 1 \in 1 .. Len(call[t].todo) /\ i + 1 # 1 /\ call[t].todo[i + 1] \in Storing
      BY <2>1, <2>3
    <3>. QED BY <3>1 DEF Due
  <2>. QED BY <1>2, <1>3, <2>2, <2>3
<1>. QED BY <1>4, <1>5, <1>6, <1>7, <1>8, <1>9, <1>10, Kinds, PassingOnly

Once1 == work.rows \subseteq {Complete(k) : k \in 1 .. calls}
Once2 == srv.what \in Storing => Complete(srv.of) \notin work.rows
Once3 == \A t \in Tasks : Active(t) /\ Due(t) =>
           Complete(call[t].id) \notin work.rows /\ (srv.what \in Storing => srv.of # call[t].id)

LEMMA OnceActs ==
  ASSUME Basic, NEW t \in Tasks, Acts(t), Once1, Once2, Once3 PROVE Once1' /\ Once2' /\ Once3'
<1>0. work' = work /\ calls' = calls /\ Others1(t) /\ Active(t)
  BY ActsOthers DEF Acts
<1>1. Once1'
  BY <1>0 DEF Once1
<1>2. ASSUME NEW u \in Tasks, Active(u)', Due(u)'
      PROVE  Active(u) /\ Due(u) /\ call'[u].id = call[u].id
  <2>1. CASE u # t
    <3>1. (Answers(u)' <=> Answers(u)) /\ Active(u) /\ call'[u] = call[u]
      BY <1>0, <1>2, <2>1, OthersKeep
    <3>. QED BY <1>2, <3>1 DEF Due
  <2>2. CASE u = t
    <3>1. Going(t)
      BY <1>2, <2>2, EndKinds DEF Acts, Over, Active
    <3>. QED BY <1>0, <1>2, <2>2, <3>1, DueBefore
  <2>. QED BY <2>1, <2>2
<1>3. CASE ~(Transmits(t) /\ srv.up)
  <2>1. srv'.what = srv.what /\ srv'.of = srv.of
    BY <1>3, ServerStays DEF Transmits
  <2>. QED BY <1>0, <1>1, <1>2, <2>1 DEF Once2, Once3
<1>4. CASE Transmits(t) /\ srv.up
  <2>1. /\ srv'.what = Now(t) /\ srv'.of = call[t].id /\ ~Answers(t) /\ call' = call
        /\ CallOK(call[t]) /\ call[t].todo # <<>>
    BY <1>4, Holds DEF Transmits, Answers, Reads, Readers, Holding
  <2>2. Now(t) = call[t].todo[1] /\ 1 \in 1 .. Len(call[t].todo)
    BY <2>1, HeadOf DEF Now
  <2>3. Now(t) \in Storing => Due(t)
    BY <2>1, <2>2 DEF Due
  <2>4. Once2'
    BY <1>0, <2>1, <2>3 DEF Once2, Once3
  <2>5. ASSUME NEW u \in Tasks, Active(u)', Due(u)', Now(t) \in Storing PROVE call[t].id # call[u].id
    <3>1. CASE u # t
      BY <1>0, <1>2, <2>5, <3>1 DEF Basic, Shape, CallsOK
    <3>2. CASE u = t
      <4>1. ~(call[t].kind = "load" /\ ~call[t].planned)
        BY <2>1, <2>5, NowKnown DEF Now, Storing
      <4>2. PICK i \in 1 .. Len(call[t].todo) : call[t].todo[i] \in Storing /\ (i = 1 => ~Answers(t)')
        BY <2>1, <2>5, <3>2, <4>1 DEF Due
      <4>3. i = 1
        BY <2>1, <2>2, <2>5, <4>2, StoresLast
      <4>4. Answers(t)'
        <5>1. pc'[t] = "read" /\ ~call[t].draining
          BY <1>4, Holds, State DEF Transmits, Holding, Reads, Readers
        <5>. QED BY <2>1, <5>1 DEF Answers, Reads, Readers
      <4>. QED BY <4>2, <4>3, <4>4
    <3>. QED BY <3>1, <3>2
  <2>6. Once3'
    BY <1>0, <1>2, <2>1, <2>5 DEF Once3
  <2>. QED BY <1>1, <2>4, <2>6
<1>. QED BY <1>3, <1>4

LEMMA OnceKept ==
  ASSUME Basic, [Next]_vars, OwnRows, Once PROVE Once'
<1>. SUFFICES Once1' /\ Once2' /\ Once3'
  BY DEF Once, Once1, Once2, Once3
<1>0. Once1 /\ Once2 /\ Once3
  BY DEF Once, Once1, Once2, Once3
<1>1. ASSUME NEW t \in Tasks, Acts(t) PROVE Once1' /\ Once2' /\ Once3'
  BY <1>0, <1>1, OnceActs
<1>2. ASSUME NEW t \in Tasks, NEW kind \in Others \cup {"load"}, Comes(t, kind) PROVE Once1' /\ Once2' /\ Once3'
  <2>1. /\ calls' = calls + 1 /\ UNCHANGED <<srv, work>> /\ Others1(t) /\ calls \in Nat
        /\ pc'[t] # "idle" => call'[t].id = calls + 1
    BY <1>2, ComesHow, State DEF Comes, Refused, Starts
  <2>2. Once1' /\ Once2'
    BY <1>0, <2>1 DEF Once1, Once2
  <2>3. ASSUME NEW u \in Tasks, Active(u)', Due(u)'
        PROVE  Complete(call'[u].id) \notin work.rows /\ (srv.what \in Storing => srv.of # call'[u].id)
    <3>1. CASE u # t
      <4>1. (Answers(u)' <=> Answers(u)) /\ Active(u) /\ call'[u] = call[u]
        BY <2>1, <2>3, <3>1, OthersKeep
      <4>. QED BY <1>0, <2>3, <4>1 DEF Due, Once3
    <3>2. CASE u = t
      <4>1. call'[u].id = calls + 1
        BY <2>1, <2>3, <3>2 DEF Active
      <4>2. Complete(calls + 1) \notin work.rows
        <5>1. ASSUME NEW k \in 1 .. calls, Complete(k) = Complete(calls + 1) PROVE FALSE
          <6>1. k = calls + 1
            BY <5>1, OneComplete
          <6>. QED BY <2>1, <6>1
        <5>. QED BY <1>0, <5>1 DEF Once1
      <4>3. srv.what \in Storing => srv.of \in 1 .. calls
        BY DEF Storing, Basic, Serves
      <4>. QED BY <2>1, <4>1, <4>2, <4>3
    <3>. QED BY <3>1, <3>2
  <2>. QED BY <2>1, <2>2, <2>3 DEF Once3
<1>3. CASE UNCHANGED vars
  BY <1>0, <1>3 DEF vars, Once1, Once2, Once3, Active, Due, Answers, Reads
<1>4. CASE Works1
  <2>0. /\ UNCHANGED <<calls, call, pc>> /\ table.rows \subseteq work.rows
        /\ \A u \in Tasks : (Due(u)' <=> Due(u)) /\ (Active(u)' <=> Active(u))
    BY <1>4 DEF Works1, Due, Answers, Reads, Active, Basic, Tables
  <2>1. CASE work'.rows \subseteq work.rows /\ srv'.what \in {"none", srv.what} /\ srv'.of \in {0, srv.of}
             /\ (srv'.what # "none" => srv'.of = srv.of)
    BY <1>0, <2>0, <2>1 DEF Once1, Once2, Once3, Storing
  <2>2. CASE srv.what \in Storing /\ Brings(Complete(srv.of)) /\ srv'.what = "none"
    <3>1. srv.of \in 1 .. calls /\ work'.rows = work.rows \cup {Complete(srv.of)}
      BY <2>2 DEF Basic, Serves, Storing, Brings
    <3>2. Once1' /\ Once2'
      BY <1>0, <2>0, <2>2, <3>1 DEF Once1, Once2, Storing
    <3>3. ASSUME NEW u \in Tasks, Active(u), Due(u) PROVE Complete(call[u].id) \notin work'.rows
      <4>1. Complete(call[u].id) \notin work.rows /\ srv.of # call[u].id
        BY <1>0, <2>2, <3>3 DEF Once3
      <4>. QED BY <3>1, <4>1, OneComplete
    <3>. QED BY <2>0, <2>2, <3>2, <3>3 DEF Once3, Storing
  <2>3. CASE Done1
    <3>1. srv'.what = "none"
      BY <2>3 DEF Done1, Settled
    <3>2. CASE work'.rows = work.rows
      <4>1. Once1' /\ Once2' /\ Once3'
        BY <1>0, <2>0, <3>1, <3>2 DEF Once1, Once2, Once3, Storing
      <4>. QED BY <4>1
    <3>3. CASE srv.what = "stmt" /\ Brings(Complete(srv.of))
      BY <2>2, <3>1, <3>3 DEF Storing
    <3>4. CASE srv.st = "end" /\ Brings(Stored)
      BY <2>2, <3>1, <3>4, StoredIs DEF Storing
    <3>. QED BY <2>3, <3>2, <3>3, <3>4 DEF Done1, Leaves1
  <2>4. CASE Failed1 \/ Turned \/ Dies
    <3>1. work'.rows \subseteq work.rows /\ srv'.what = "none"
      BY <2>0, <2>4 DEF Failed1, Turned, Dies, Settled
    <3>. QED BY <1>0, <2>0, <3>1 DEF Once1, Once2, Once3, Storing
  <2>5. CASE Waiting
    BY <2>1, <2>5 DEF Waiting
  <2>. QED BY <1>4, <2>3, <2>4, <2>5, ServerKinds DEF Works1
<1>. QED BY <1>1, <1>2, <1>3, <1>4, Steps

-----------------------------------------------------------------------------
(* An INSERT that was answered without an error has stored its rows. *)

LEMMA ReadsPartPart ==
  ASSUME Basic, FramedOwn, NEW t \in Tasks, Answers(t), ReadsPart(t) PROVE wire[1] \in Parts
<1>1. pc[t] \in {"unload", "logfile"} /\ wire # <<>> /\ pc[t] \in Holding
  BY DEF ReadsPart, Holding
<1>2. conn.owner = t
  BY <1>1, Holds
<1>3. Mode = pc[t]
  BY <1>1, <1>2, ModeOf DEF Frames
<1>4. wire[1] \in Allowed(Mode)
  BY <1>1 DEF FramedOwn, Chained
<1>. QED BY <1>1, <1>3, <1>4 DEF Allowed, Parts

\* An error is not overlooked.
LEMMA ErrorSeen ==
  ASSUME Basic, FramedOwn, NEW t \in Tasks, Going(t), Answers(t), Answers(t)', OnWire("error") \/ call[t].err
  PROVE  OnWire("error")' \/ call'[t].err
<1>1. Reading(t)
  <2>1. ~Passing(t) /\ ~Waits(t) /\ ~Transmits(t) /\ ~CollectPlans(t)
    BY DEF Passing, Waits, Transmits, CollectPlans, Answers, Reads, Readers
  <2>. QED BY <2>1, Kinds
<1>2. WireMoves
  BY <1>1 DEF Reading
<1>3. ASSUME wire' = wire \/ wire[1] # "error", call'[t].err = call[t].err PROVE OnWire("error")' \/ call'[t].err
  BY <1>2, <1>3, TailKeeps
<1>4. "error" \notin Parts /\ "error" \notin {"l", "lf", "U", "e", "fmt"}
  BY DEF Parts
<1>5. CASE ReadsOn(t)
  <2>1. wire' = wire \/ wire[1] # "error" => (OnWire("error") => OnWire("error")')
    BY <1>2, TailKeeps
  <2>2. ~call'[t].err => ~call[t].err /\ wire[1] # "error"
    BY <1>5 DEF ReadsOn, Answers
  <2>. QED BY <2>1, <2>2
<1>6. CASE EntersFrame(t)
  BY <1>3, <1>4, <1>6 DEF EntersFrame
<1>7. CASE Greets(t)
  BY <1>3, <1>4, <1>7 DEF Greets
<1>8. CASE SendsBatch(t) \/ EndsStream(t, "end") \/ EndsStream(t, "abort")
  BY <1>3, <1>8 DEF SendsBatch, EndsStream
<1>9. CASE ReadsPart(t)
  BY <1>3, <1>4, <1>9, ReadsPartPart DEF ReadsPart
<1>10. ~Drained(t) /\ ~Discards(t) /\ ~Transmits(t)
  BY DEF Drained, Discards, Transmits, Answers, Reads, Readers
<1>11. ~CollectPlans(t) /\ ~NextStatement(t) /\ ~Unwinds(t) /\ ~ReadyPlans(t) /\ ~Collects(t)
  <2>1. pc'[t] \notin {"send", "collect"}
    BY DEF Answers, Reads, Readers
  <2>2. NextStatement(t) \/ Unwinds(t) \/ ReadyPlans(t) \/ Collects(t) => Passing(t)
    BY PassingIs
  <2>3. CollectPlans(t) => pc'[t] = "send"
    BY MovesOthers DEF CollectPlans, Plans, Sends
  <2>. QED BY <2>1, <2>2, <2>3 DEF Passing
<1>. QED BY <1>5, <1>6, <1>7, <1>8, <1>9, <1>10, <1>11 DEF Going

LEMMA InsertedKept ==
  ASSUME Basic, Basic', [Next]_vars, FramedOwn, OwnRows, Inserted PROVE Inserted'
<1>. SUFFICES ASSUME NEW u \in Tasks, Answers(u)', Now(u)' = "insert", OnWire("ready")', ~OnWire("error")',
                     ~call'[u].err, srv'.up
              PROVE  Complete(call'[u].id) \in work'.rows /\ srv'.txn # "failed"
  BY DEF Inserted
<1>0. pc'[u] \in Holding
  BY DEF Answers, Reads, Readers, Holding
<1>1. CASE Acts(u) /\ Going(u)
  <2>1. Answers(u)
    <3>1. CASE Transmits(u)
      <4>1. wire' = <<>>
        BY <3>1, Holds DEF Transmits, Holding
      <4>2. ~OnWire("ready")'
        BY <4>1 DEF OnWire
      <4>. QED BY <4>2
    <3>. QED BY <1>1, <3>1, AnswersAnew
  <2>2. Reading(u)
    <3>1. ~Passing(u) /\ ~Waits(u) /\ ~Transmits(u) /\ ~CollectPlans(u)
      BY <2>1 DEF Passing, Waits, Transmits, CollectPlans, Answers, Reads, Readers
    <3>. QED BY <1>1, <3>1, Kinds
  <2>3. ~OnWire("error") /\ ~call[u].err
    BY <1>1, <2>1, ErrorSeen
  <2>4. OnWire("ready") /\ Now(u) = "insert" /\ call'[u].id = call[u].id /\ srv.up /\ srv'.txn = srv.txn
    BY <2>2, WireMovesOn DEF Reading, SameWork, SameStatement, Now
  <2>. QED BY <1>1, <2>1, <2>3, <2>4 DEF Inserted, Acts
<1>2. ASSUME NEW kind, Starts(u, kind) PROVE FALSE
  BY <1>2, State DEF Starts, Answers, Reads, Readers
<1>3. CASE Aloof(u)
  <2>0. Answers(u) /\ Now(u) = "insert" /\ call'[u] = call[u]
    BY <1>3 DEF Aloof
  <2>1. CASE UNCHANGED <<srv, wire, work, table>>
    BY <2>0, <2>1 DEF Inserted, OnWire
  <2>2. CASE Works1
    <3>1. CASE Done1
      <4>1. srv.what = "insert" /\ srv.of = call[u].id
        BY <2>0, <3>1 DEF Done1, Settled, Basic, Matches
      <4>2. srv.st = "end" /\ Brings(Stored) /\ srv'.txn = srv.txn
        BY <3>1, <4>1 DEF Done1, Leaves1
      <4>3. srv.txn # "failed" /\ Stored = Complete(srv.of)
        BY <4>2, StoredIs DEF Basic, Serves
      <4>. QED BY <2>0, <4>1, <4>2, <4>3 DEF Brings
    <3>2. ~Failed1 /\ ~Dies
      BY DEF Failed1, Dies
    <3>3. ~Turned
      BY <2>0 DEF Turned, Settled, Basic, Matches, Turns
    <3>4. ~Waiting
      <4>1. srv'.what = "none"
        BY DEF Basic, Serves, OnWire
      <4>. QED BY <4>1 DEF Waiting
    <3>. QED BY <2>2, <3>1, <3>2, <3>3, <3>4, ServerKinds DEF Works1
  <2>. QED BY <1>3, <2>1, <2>2 DEF Aloof
<1>. QED BY <1>0, <1>1, <1>2, <1>3, Fates

-----------------------------------------------------------------------------
(* What a load commits *)

LEMMA DiesQuiet ==
  ASSUME Basic, Dies PROVE srv.st = "abort" \/ \A m : OnWire(m)' => OnWire(m)
<1>1. CASE srv.st # "abort"
  <2>1. /\ wire' \in Seq(Byte) /\ Len(wire') <= Len(wire)
        /\ \A i \in 1 .. Len(wire') : wire'[i] = wire[i]
    BY <1>1 DEF Dies
  <2>2. Len(wire') \in Nat /\ Len(wire) \in Nat
    BY <2>1, State
  <2>. QED BY <2>1, <2>2 DEF OnWire
<1>. QED BY <1>1

LEMMA CommitFollows ==
  ASSUME Basic, NEW t \in Tasks, NextStatement(t), Now(t)' = "commit", call[t].planned,
         Within, Belief, Inserted
  PROVE  srv.up => Complete(call[t].id) \in work.rows /\ srv.txn = "open"
<1>1. /\ call[t].todo # <<>> /\ Now(t) = call[t].todo[1] /\ Now(t)' = call[t].todo[2]
      /\ Len(call[t].todo) \in Nat \ {0, 1} /\ CallOK(call[t])
  BY NextIsSecond
<1>2. /\ Answers(t) /\ wire # <<>> /\ wire[1] = "ready" /\ ~call[t].err /\ Active(t)
  BY DEF NextStatement, Ready, Answers, Reads, Readers, Active
<1>3. Now(t) = "insert" /\ call[t].transactional
  BY <1>1, PlanGoes
<1>4. conn.in_transaction
  BY <1>2, <1>3 DEF Within
<1>5. OnWire("ready") /\ ~OnWire("error") /\ ~OnWire("COMMIT") /\ ~OnWire("ROLLBACK")
  BY <1>2, FirstOf, LastReady DEF OnWire
<1>6. srv.up => Complete(call[t].id) \in work.rows /\ srv.txn # "failed"
  BY <1>2, <1>3, <1>5 DEF Inserted
<1>7. srv.up => srv.txn # "none"
  BY <1>4, <1>5 DEF Belief
<1>. QED BY <1>6, <1>7, State DEF ServerRecord

LEMMA CommitsKept ==
  ASSUME Basic, Basic', [Next]_vars, Within, Belief, Inserted, Commits PROVE Commits'
<1>. DEFINE Good(u) ==
       /\ ~Answers(u) => ~conn.dirty /\ (srv.up => Complete(call[u].id) \in work.rows /\ srv.txn = "open")
       /\ Answers(u) /\ srv.what = "commit" => Complete(call[u].id) \in work.rows /\ srv.txn = "open"
       /\ Answers(u) /\ OnWire("ready") => Complete(call[u].id) \in table.rows
<1>. SUFFICES ASSUME NEW u \in Tasks, pc'[u] \in Holding, call'[u].planned, Now(u)' = "commit"
              PROVE  Good(u)'
  <2>1. ASSUME NEW u \in Tasks, Active(u)', call'[u].planned PROVE pc'[u] \in Holding
    BY <2>1, PlannedHoldsNext DEF Active
  <2>. QED BY <2>1 DEF Commits, Active
<1>1. ASSUME call[u].planned, Active(u), Now(u) = "commit" PROVE Good(u)
  BY <1>1 DEF Commits
<1>2. Active(u) /\ ~Answers(u) /\ Reads(u) => conn.dirty
  BY Holds DEF Basic, Shape, Held
<1>3. CASE Acts(u) /\ Going(u)
  <2>1. CASE Reading(u)
    <3>1. /\ call[u].planned /\ Active(u) /\ Now(u) = "commit" /\ call'[u].id = call[u].id /\ WireMoves
          /\ srv'.what = srv.what /\ srv'.txn = srv.txn /\ Reads(u)
      BY <2>1 DEF Reading, SameWork, SameStatement, SameEnds, Now
    <3>2. Answers(u)
      BY <1>1, <1>2, <3>1
    <3>3. Answers(u)'
      BY <2>1, <3>2 DEF Reading, Answers, Reads
    <3>4. OnWire("ready")' => OnWire("ready")
      BY <3>1, WireMovesOn
    <3>5. UNCHANGED <<work, table>>
      BY <1>3 DEF Acts
    <3>6. Good(u)
      BY <1>1, <3>1
    <3>. QED BY <3>1, <3>2, <3>3, <3>4, <3>5, <3>6
  <2>2. CASE Passing(u)
    <3>0. NextStatement(u) \/ Unwinds(u) \/ ReadyPlans(u) \/ Collects(u)
      BY <1>3, <2>2, PassingOnly
    <3>1. CASE NextStatement(u)
      <4>1. /\ call[u].planned /\ call'[u].id = call[u].id /\ UNCHANGED <<srv, work>> /\ ~conn'.dirty
            /\ pc'[u] \in {"send", "collect"}
        BY <1>3, <2>2, <3>1 DEF NextStatement, Ready, Passing, Acts
      <4>2. ~Answers(u)'
        BY <4>1 DEF Answers, Reads, Readers
      <4>. QED BY <3>1, <4>1, <4>2, CommitFollows
    <3>2. CASE Unwinds(u)
      <4>1. call'[u].todo \in Seq(Statements) /\ Only(call'[u].todo, "rollback")
        BY <3>2, PlannedHolds DEF Unwinds, CallOK, TodoOK, Orderly, Sends, Moves
      <4>. QED BY <4>1, OneStatement DEF Now
    <3>3. CASE ReadyPlans(u)
      BY <3>3, PlansWithin DEF ReadyPlans
    <3>4. CASE Collects(u)
      BY <3>4, State DEF Collects, Moves, Holding
    <3>. QED BY <3>0, <3>1, <3>2, <3>3, <3>4
  <2>3. CASE Waits(u)
    <3>1. call[u].planned /\ Active(u) /\ Now(u) = "commit" /\ ~Answers(u) /\ conn.dirty
      BY <2>3 DEF Waits, SameWork, SameStatement, SameEnds, Now
    <3>. QED BY <1>1, <3>1
  <2>4. CASE Transmits(u)
    <3>1. /\ call[u].planned /\ Active(u) /\ Now(u) = "commit" /\ call'[u] = call[u] /\ ~Answers(u)
          /\ UNCHANGED <<work, table, wire>> /\ srv'.txn = srv.txn /\ srv'.up = srv.up
      BY <1>3, <2>4 DEF Transmits, Now, Active, Acts, Answers, Reads, Readers
    <3>2. wire = <<>>
      BY <2>4 DEF Transmits, Basic, Shape, Held
    <3>3. ~OnWire("ready")'
      BY <3>1, <3>2 DEF OnWire
    <3>4. srv'.what = "commit" => srv.up
      BY <2>4 DEF Transmits, Basic, Serves
    <3>5. Answers(u)'
      <4>1. ~call[u].draining /\ pc'[u] = "read"
        BY <2>4, <3>1, State DEF Transmits, Basic, Shape, CallsOK, Reads, Readers
      <4>. QED BY <3>1, <4>1 DEF Answers, Reads, Readers
    <3>6. Good(u)
      BY <1>1, <3>1
    <3>. QED BY <3>1, <3>3, <3>4, <3>5, <3>6
  <2>5. CASE CollectPlans(u)
    BY <2>5, PlansWithin DEF CollectPlans
  <2>. QED BY <1>3, <2>1, <2>2, <2>3, <2>4, <2>5, Kinds
<1>4. ASSUME NEW kind, Starts(u, kind) PROVE FALSE
  BY <1>4 DEF Starts
<1>5. CASE Aloof(u)
  <2>0. /\ call'[u] = call[u] /\ Active(u) /\ Now(u) = "commit" /\ call[u].planned
        /\ (Answers(u)' <=> Answers(u)) /\ conn'.dirty = conn.dirty
    BY <1>5 DEF Aloof
  <2>1. Good(u)
    BY <1>1, <2>0
  <2>2. CASE UNCHANGED <<srv, wire, work, table>>
    <3>1. OnWire("ready")' <=> OnWire("ready")
      BY <2>2 DEF OnWire
    <3>. QED BY <2>0, <2>1, <2>2, <3>1
  <2>3. CASE Works1 /\ ~Answers(u)
    <3>1. ~conn.dirty /\ srv.what = "none"
      BY <2>1, <2>3 DEF Basic, Shape, Held
    <3>2. Dies
      BY <2>3, <3>1, ServerKinds DEF Works1, Done1, Failed1, Turned, Waiting, Settled
    <3>. QED BY <2>0, <2>3, <3>1, <3>2 DEF Dies
  <2>4. CASE Works1 /\ Answers(u)
    <3>1. srv.what \in {"none", "commit"}
      BY <2>0, <2>4 DEF Basic, Matches
    <3>2. CASE Turned
      <4>1. srv.what = "commit"
        BY <3>1, <3>2 DEF Turned, Settled
      <4>2. table' = work /\ srv'.what = "none"
        BY <2>1, <2>4, <3>2, <4>1 DEF Turned, Settled
      <4>. QED BY <2>0, <2>1, <2>4, <4>1, <4>2
    <3>3. ~Done1 /\ ~Failed1 /\ ~Waiting
      BY <3>1 DEF Done1, Failed1, Waiting, Settled, Turns
    <3>4. CASE Dies
      <4>1. srv.st # "abort"
        BY <3>1 DEF Basic, Serves
      <4>2. OnWire("ready")' => OnWire("ready")
        BY <3>4, <4>1, DiesQuiet
      <4>3. srv'.what = "none" /\ table' = table
        BY <3>4 DEF Dies
      <4>. QED BY <2>0, <2>1, <2>4, <4>2, <4>3
    <3>. QED BY <2>4, <3>2, <3>3, <3>4, ServerKinds DEF Works1
  <2>. QED BY <1>5, <2>2, <2>3, <2>4 DEF Aloof
<1>. QED BY <1>3, <1>4, <1>5, Fates

-----------------------------------------------------------------------------
(* A table that was created and has no rows yet *)

LEMMA InsertStores ==
  ASSUME Basic, Inserted, NEW t \in Tasks, Ready(t), Answers(t), ~call[t].err, Now(t) = "insert"
  PROVE  ~Bare
<1>1. wire # <<>> /\ wire[1] = "ready"
  BY DEF Ready
<1>2. OnWire("ready") /\ ~OnWire("error")
  BY <1>1, FirstOf, LastReady DEF OnWire
<1>3. srv.up => work.rows # {}
  BY <1>2 DEF Inserted
<1>4. ~srv.up => work = table
  BY DEF Basic, Serves, Tables
<1>. QED BY <1>3, <1>4 DEF Bare

LEMMA BareGrows ==
  ASSUME Basic, Works1, Bare' PROVE Bare \/ srv.what = "create"
<1>1. CASE Done1
  <2>1. table' = table
    BY <1>1 DEF Done1, Bare
  <2>2. CASE srv.what \in {"catalog", "unload"} /\ work' = work
    BY <2>1, <2>2 DEF Bare
  <2>3. CASE Brings(Complete(srv.of)) \/ Brings(Stored)
    BY <2>3 DEF Bare, Brings
  <2>. QED BY <1>1, <2>2, <2>3 DEF Done1, Leaves1
<1>2. CASE Failed1 \/ Waiting
  BY <1>2 DEF Failed1, Waiting, Bare
<1>3. CASE Turned
  BY <1>3 DEF Turned, Bare
<1>4. CASE Dies
  BY <1>4 DEF Dies, Bare
<1>. QED BY <1>1, <1>2, <1>3, <1>4, ServerKinds DEF Works1

Failing == \E k \in 1 .. calls : outcome[k] \in {"failed", "cancelled", "refused"}
Filling(t) == Active(t) /\ call[t].planned /\ (call[t].unwinding \/ Now(t) \in {"create", "insert"})

LEMMA FillsOn ==
  ASSUME Basic, Inserted, Bare, NEW t \in Tasks, Filling(t), Acts(t) PROVE Filling(t)' \/ Failing'
<1>0. call[t].id \in 1 .. calls /\ CallOK(call[t]) /\ call[t].todo # <<>> /\ pc[t] \in Holding
  BY PlannedHolds, IdsOK DEF Filling
<1>1. ASSUME NEW res \in {"failed", "cancelled"}, Over(t, res) PROVE Failing'
  <2>1. outcome'[call[t].id] = res /\ calls' = calls
    BY <1>0, <1>1, State DEF Over, Acts
  <2>. QED BY <1>0, <2>1 DEF Failing
<1>2. CASE Ending(t)
  <2>1. CASE Shut(t) \/ Cancelled(t) \/ Dropped(t) \/ Broken(t)
    BY <1>1, <2>1 DEF Shut, Cancelled, Dropped, Broken
  <2>2. CASE Ended1(t)
    <3>1. PICK res \in {"failed", "ok", "stored"} :
            /\ Ready(t) /\ Leaves(t, res) /\ (call[t].err => res = "failed")
            /\ res # "failed" => Len(call[t].todo) = 1 /\ Now(t) # "catalog" /\ ~call[t].unwinding
      BY <2>2 DEF Ended1, Finishes
    <3>2. CASE res = "failed"
      <4>1. outcome'[call[t].id] = "failed" /\ calls' = calls
        BY <1>0, <3>1, <3>2, State DEF Leaves, Acts
      <4>. QED BY <1>0, <4>1 DEF Failing
    <3>3. CASE res # "failed"
      <4>1. Now(t) \in {"create", "insert"} /\ Len(call[t].todo) = 1 /\ Now(t) = call[t].todo[1]
        BY <1>0, <3>1, <3>3, HeadOf DEF Filling, Now
      <4>2. Now(t) # "create"
        BY <1>0, <4>1 DEF CallOK, TodoOK, Orderly
      <4>. QED BY <2>2, <3>1, <3>3, <4>1, <4>2, InsertStores DEF Ended1
    <3>. QED BY <3>2, <3>3
  <2>. QED BY <1>2, <2>1, <2>2, EndKinds
<1>3. ASSUME SameStatement(t), pc'[t] # "idle" PROVE Filling(t)'
  BY <1>3 DEF Filling, SameStatement, Active, Now
<1>4. CASE Reading(t)
  BY <1>3, <1>4 DEF Reading, SameWork, Readers
<1>5. CASE Waits(t)
  BY <1>3, <1>5 DEF Waits, SameWork
<1>6. CASE Transmits(t)
  BY <1>0, <1>6, State DEF Transmits, Filling, Active, Now
<1>7. CASE Going(t) /\ Passing(t)
  <2>0. Answers(t) /\ Ready(t) /\ Active(t)
    BY <1>7 DEF Passing, SameEnds
  <2>1. CASE NextStatement(t)
    <3>1. /\ call[t].todo # <<>> /\ Now(t) = call[t].todo[1] /\ Now(t)' = call[t].todo[2]
          /\ call[t].planned /\ Len(call[t].todo) \in Nat \ {0, 1}
          /\ call'[t].planned = call[t].planned /\ call'[t].unwinding = call[t].unwinding
          /\ ~call[t].err /\ pc'[t] # "idle"
      BY <1>7, <2>1, NextIsSecond DEF NextStatement, Passing, Filling
    <3>2. ~call[t].unwinding /\ (Now(t) = "create" => Now(t)' = "insert")
      BY <1>0, <3>1, PlanGoes
    <3>3. Now(t) # "insert"
      BY <2>0, <3>1, InsertStores
    <3>. QED BY <3>1, <3>2, <3>3 DEF Filling, Active
  <2>2. CASE Unwinds(t)
    BY <1>7, <2>2 DEF Unwinds, Passing, Filling, Active
  <2>3. ~ReadyPlans(t)
    BY DEF ReadyPlans, Plans, Filling
  <2>4. ~Collects(t)
    <3>1. call[t].planned => Now(t) # "catalog"
      BY <1>0, NowKnown DEF Now, CallOK, Flags
    <3>. QED BY <3>1 DEF Collects, Filling
  <2>. QED BY <1>7, <2>1, <2>2, <2>3, <2>4, PassingOnly
<1>8. ~CollectPlans(t)
  BY DEF CollectPlans, Plans, Filling
<1>. QED BY <1>2, <1>4, <1>5, <1>6, <1>7, <1>8, Kinds DEF Acts

LEMMA BareKnownKept ==
  ASSUME Basic, [Next]_vars, Inserted, LeftFailed, BareKnown PROVE BareKnown'
<1>. SUFFICES ASSUME Bare' PROVE Failing' \/ \E t \in Tasks : Filling(t)'
  BY DEF BareKnown, Failing, Filling
<1>0. Bare => Failing \/ \E t \in Tasks : Filling(t)
  BY DEF BareKnown, Failing, Filling
<1>1. CASE Failing
  BY <1>1, Histories, State DEF Failing
<1>2. ASSUME NEW u \in Tasks, Filling(u), Bare PROVE Failing' \/ \E t \in Tasks : Filling(t)'
  <2>1. ASSUME pc'[u] = pc[u], call'[u] = call[u] PROVE Filling(u)'
    BY <1>2, <2>1 DEF Filling, Active, Now
  <2>2. ASSUME NEW t \in Tasks, Acts(t) PROVE Failing' \/ Filling(u)'
    <3>1. CASE t = u
      BY <1>2, <2>2, <3>1, FillsOn
    <3>2. CASE t # u
      BY <2>1, <2>2, <3>2, ActsOthers DEF Acts, Others1
    <3>. QED BY <3>1, <3>2
  <2>3. ASSUME NEW t \in Tasks, NEW kind, Comes(t, kind) PROVE Filling(u)'
    <3>1. t # u
      BY <1>2, <2>3, ComesHow DEF Filling, Active
    <3>. QED BY <2>1, <2>3, <3>1, ComesHow DEF Others1
  <2>4. CASE Works1 \/ UNCHANGED vars
    BY <2>1, <2>4 DEF Works1, vars
  <2>. QED BY <2>2, <2>3, <2>4, Steps
<1>3. CASE Bare
  BY <1>0, <1>1, <1>2, <1>3
<1>4. CASE ~Bare
  <2>1. Works1
    BY <1>4, Steps, ComesHow DEF Acts, vars, Bare
  <2>2. srv.what = "create"
    BY <1>4, <2>1, BareGrows
  <2>3. conn.dirty
    BY <2>2 DEF Basic, Shape, Held
  <2>4. CASE Abandoned
    BY <1>1, <2>3, <2>4 DEF LeftFailed, Failing
  <2>5. CASE ~Abandoned
    <3>1. PICK t \in Tasks : Answers(t)
      BY <2>5 DEF Abandoned
    <3>2. Now(t) = "create" /\ pc[t] \in Holding /\ Active(t)
      BY <2>2, <3>1 DEF Basic, Matches, Answers, Reads, Readers, Holding, Active
    <3>3. call[t].planned
      BY <3>2, Holds, NowKnown DEF Now
    <3>4. Filling(t)'
      BY <2>1, <3>2, <3>3 DEF Works1, Filling, Active, Now
    <3>. QED BY <3>4
  <2>. QED BY <2>4, <2>5
<1>. QED BY <1>3, <1>4

LEMMA WhatFrom ==
  ASSUME Basic, Works1 PROVE srv'.what \in {"none", srv.what}
BY ServerKinds DEF Works1, Done1, Failed1, Turned, Waiting, Dies, Settled

BareCommit == \A t \in Tasks : Active(t) /\ call[t].kind = "commit" => ~Bare /\ srv.what # "create"

LEMMA BareCommitKept ==
  ASSUME Basic, Basic', [Next]_vars, BareCommit, BareKnown, LeftFailed PROVE BareCommit'
<1>. SUFFICES ASSUME NEW u \in Tasks, pc'[u] \in Holding, call'[u].kind = "commit"
              PROVE  ~Bare' /\ srv'.what # "create"
  <2>1. ASSUME NEW u \in Tasks, pc'[u] # "idle", call'[u].kind = "commit" PROVE pc'[u] \in Holding
    <3>1. CallOK(call'[u]) /\ (pc'[u] = "collect" <=> call'[u].todo = <<>>)
      BY <2>1 DEF Basic, Shape, CallsOK, Active
    <3>2. pc' \in [Tasks -> Holding \cup {"idle", "collect"}]
      BY DEF Basic, Shape, Types
    <3>3. call'[u].todo # <<>>
      BY <2>1, <3>1 DEF CallOK, TodoOK, OtherTodo
    <3>. QED BY <2>1, <3>1, <3>2, <3>3
  <2>. QED BY <2>1 DEF BareCommit, Active
<1>1. ASSUME Active(u), call[u].kind = "commit" PROVE ~Bare /\ srv.what # "create"
  BY <1>1 DEF BareCommit
<1>2. CASE Acts(u) /\ Going(u)
  <2>0. UNCHANGED <<work, table>> /\ (Bare' <=> Bare)
    BY <1>2 DEF Acts, Bare
  <2>1. CASE Reading(u) \/ Passing(u) \/ Waits(u)
    <3>1. Active(u) /\ call[u].kind = "commit"
      BY <2>1 DEF Reading, Passing, Waits, SameWork, SameEnds
    <3>2. srv'.what = srv.what
      BY <2>1 DEF Reading, Passing, Waits, Ready
    <3>. QED BY <1>1, <2>0, <3>1, <3>2
  <2>2. CASE Transmits(u)
    <3>1. Active(u) /\ call[u].kind = "commit" /\ pc[u] \in Holding
      BY <2>2 DEF Transmits, Active, Holding
    <3>2. Now(u) = "commit"
      BY <3>1, Holds, NowKnown DEF Now, Turns
    <3>. QED BY <1>1, <2>0, <2>2, <3>1, <3>2 DEF Transmits
  <2>3. ~CollectPlans(u)
    BY DEF CollectPlans, Plans, Sends, Moves
  <2>. QED BY <1>2, <2>1, <2>2, <2>3, Kinds
<1>3. ASSUME NEW kind \in Others \cup {"load"}, Comes(u, kind), Starts(u, kind) PROVE ~Bare' /\ srv'.what # "create"
  <2>1. kind = "commit" /\ UNCHANGED <<srv, wire, work, table>>
    BY <1>3, ComesHow DEF Starts
  <2>2. (\A t \in Tasks : ~Active(t)) /\ \A k \in 1 .. calls : outcome[k] \in {"ok", "stored"}
    BY <1>3, <2>1 DEF Starts, Begins, Turns
  <2>3. ~Bare
    BY <2>2 DEF BareKnown
  <2>4. srv.what # "create"
    <3>1. Abandoned
      BY <2>2 DEF Abandoned, Answers, Reads, Readers, Active
    <3>2. ~conn.dirty
      BY <2>2, <3>1 DEF LeftFailed
    <3>. QED BY <3>2 DEF Basic, Shape, Held
  <2>. QED BY <2>1, <2>3, <2>4 DEF Bare
<1>4. CASE Aloof(u)
  <2>1. ~Bare /\ srv.what # "create"
    BY <1>1, <1>4 DEF Aloof
  <2>2. CASE UNCHANGED <<srv, wire, work, table>>
    BY <2>1, <2>2 DEF Bare
  <2>3. CASE Works1
    BY <2>1, <2>3, BareGrows, WhatFrom
  <2>. QED BY <1>4, <2>2, <2>3 DEF Aloof
<1>. QED BY <1>2, <1>3, <1>4, Fates

LEMMA BareKeptKept ==
  ASSUME Basic, Basic', [Next]_vars, BareKept, BareKnown, LeftFailed, Commits PROVE BareKept'
<1>1. BareCommit'
  BY BareCommitKept DEF BareKept, BareCommit
<1>2. ASSUME srv'.what = "commit", srv'.txn = "open" PROVE ~Bare'
  <2>0. srv.what = "commit" /\ srv.txn = "open" => ~Bare
    BY DEF BareKept
  <2>1. CASE UNCHANGED vars
    BY <1>2, <2>0, <2>1 DEF vars, Bare
  <2>2. ASSUME NEW t \in Tasks, Acts(t) PROVE ~Bare'
    <3>0. Bare' <=> Bare
      BY <2>2 DEF Acts, Bare
    <3>1. CASE ~Transmits(t)
      BY <1>2, <2>0, <2>2, <3>0, <3>1, ServerStays
    <3>2. CASE Transmits(t)
      <4>1. pc[t] \in Holding /\ srv'.txn = srv.txn /\ ~Answers(t) /\ Active(t)
        BY <3>2 DEF Transmits, Holding, Answers, Reads, Readers, Active
      <4>2. srv.up /\ Now(t) = "commit"
        BY <1>2, <3>2 DEF Transmits, Basic, Serves
      <4>3. CASE call[t].planned
        <5>1. Complete(call[t].id) \in work.rows
          BY <4>1, <4>2, <4>3 DEF Commits
        <5>. QED BY <3>0, <5>1 DEF Bare
      <4>4. CASE call[t].kind = "commit"
        BY <3>0, <4>1, <4>4 DEF BareKept
      <4>. QED BY <4>1, <4>2, <4>3, <4>4, Holds, NowKnown DEF Now
    <3>. QED BY <3>1, <3>2
  <2>3. ASSUME NEW t \in Tasks, NEW kind, Comes(t, kind) PROVE ~Bare'
    BY <1>2, <2>0, <2>3, ComesHow DEF Bare
  <2>4. CASE Works1
    <3>1. srv.what = "commit" /\ srv'.what = "commit"
      BY <1>2, <2>4, WhatFrom
    <3>. QED
      BY <2>4, <3>1, ServerKinds DEF Works1, Done1, Failed1, Turned, Waiting, Dies, Settled, Turns
  <2>. QED BY <2>1, <2>2, <2>3, <2>4, Steps
<1>. QED BY <1>1, <1>2 DEF BareKept, BareCommit

-----------------------------------------------------------------------------
(* All of it *)

LEMMA PlainKept ==
  ASSUME Basic, Basic', [Next]_vars, Plain PROVE Plain'
BY FormatOnceKept, WithinKept, LeftFailedKept, EndedKept DEF Plain

LEMMA CarefulKept ==
  ASSUME Basic, Basic', [Next]_vars, FramedOwn, Plain, Careful, Trusted' PROVE Careful'
<1>1. Trusted
  BY TrustLasts
<1>2. FormatOnce /\ Within /\ LeftFailed
  BY DEF Plain
<1>3. /\ LeftEnds /\ LeftInsert /\ LeftAlone /\ Belief /\ CreatesInside
      /\ Once /\ OwnRows /\ Inserted /\ Commits /\ BareKnown /\ BareKept
  BY DEF Careful
<1>4. LeftEnds' /\ LeftInsert' /\ LeftAlone'
  BY <1>3, LeftEndsKept, LeftInsertKept, LeftAloneKept
<1>5. Belief' /\ CreatesInside'
  BY <1>2, <1>3, BeliefKept, CreatesInsideKept
<1>6. Once' /\ OwnRows' /\ Inserted'
  BY <1>1, <1>2, <1>3, OnceKept, OwnRowsKept, InsertedKept
<1>7. Commits' /\ BareKnown' /\ BareKept'
  BY <1>2, <1>3, CommitsKept, BareKnownKept, BareKeptKept
<1>. QED BY <1>4, <1>5, <1>6, <1>7 DEF Careful

LEMMA StoresStarts ==
  ASSUME Init PROVE FramedOwn /\ Stores
<1>1. /\ \A t \in Tasks : pc[t] = "idle" /\ ~Active(t) /\ ~Answers(t) /\ ~Reads(t)
      /\ wire = <<>> /\ \A m : ~OnWire(m)
  BY DEF Init, Active, Answers, Reads, Readers, OnWire
<1>2. FramedOwn
  BY <1>1 DEF FramedOwn
<1>3. /\ ~conn.dirty /\ ~conn.in_transaction
      /\ srv.what = "none" /\ srv.st = "none" /\ srv.txn = "none"
  BY DEF Init, Idle
<1>4. work = table /\ work.rows = {}
  BY DEF Init
<1>5. Len(wire) = 0
  BY <1>1
<1>6. Plain
  BY <1>1, <1>3, <1>5 DEF Plain, FormatOnce, Within, LeftFailed, Ended
<1>7. LeftEnds /\ LeftInsert /\ LeftAlone /\ Belief /\ CreatesInside
  BY <1>1, <1>3 DEF LeftEnds, LeftInsert, LeftAlone, Belief, CreatesInside, Ends
<1>8. Once /\ OwnRows /\ Inserted /\ Commits
  BY <1>1, <1>3, <1>4 DEF Once, OwnRows, Inserted, Commits, Storing
<1>9. BareKnown /\ BareKept
  BY <1>1, <1>3, <1>4 DEF BareKnown, BareKept, Bare
<1>. QED BY <1>2, <1>6, <1>7, <1>8, <1>9 DEF Stores, Careful

LEMMA StoresKept ==
  ASSUME Basic, Basic', [Next]_vars, FramedOwn, Stores PROVE FramedOwn' /\ Stores'
BY FramedOwnKept, PlainKept, CarefulKept, TrustLasts DEF Stores

-----------------------------------------------------------------------------
(* The table that other sessions see *)

LEMMA OneStored ==
  ASSUME Basic, Once, Works1, NEW k, k = srv.of, srv.what \in Storing, Brings(Complete(k)),
         work' \in Table, table' = work', work = table
  PROVE  LoadAbstract!Store({k})
<1>1. k \in 1 .. MaxCalls /\ Complete(k) \notin table.rows
  BY State DEF Basic, Serves, Once, Storing
<1>2. table' = [exists |-> TRUE, rows |-> table.rows \cup {Complete(k)}]
  BY DEF Brings, Table
<1>3. {LoadAbstract!Complete(j) : j \in {k}} = {Complete(k)}
  BY DEF LoadAbstract!Complete, Complete
<1>4. \A j \in {k} : LoadAbstract!Complete(j) \notin table.rows
  BY <1>1 DEF LoadAbstract!Complete, Complete
<1>. QED BY <1>2, <1>3, <1>4 DEF LoadAbstract!Store

LEMMA Committed ==
  ASSUME Basic, Once, ~Bare, table' = work
  PROVE  table' = table \/ \E ks \in SUBSET (1 .. MaxCalls) : LoadAbstract!Store(ks)
<1>. DEFINE ks == {k \in 1 .. calls : Complete(k) \in work.rows /\ Complete(k) \notin table.rows}
<1>1. ks \in SUBSET (1 .. MaxCalls)
  BY State
<1>2. work.rows \subseteq {Complete(k) : k \in 1 .. calls} /\ table.rows \subseteq work.rows
  BY DEF Once, Basic, Tables
<1>3. work.rows = table.rows \cup {Complete(k) : k \in ks}
  BY <1>2
<1>4. /\ work = [exists |-> work.exists, rows |-> work.rows] /\ work.exists \in BOOLEAN
      /\ table = [exists |-> table.exists, rows |-> table.rows] /\ table.exists \in BOOLEAN
  BY State DEF Table
<1>5. CASE ks = {}
  <2>1. work.rows = table.rows
    BY <1>3, <1>5
  <2>2. work.exists = table.exists
    BY <1>4, <2>1 DEF Bare, Basic, Tables
  <2>. QED BY <1>4, <2>1, <2>2
<1>6. CASE ks # {}
  <2>1. work.exists = TRUE
    BY <1>3, <1>4, <1>6 DEF Basic, Tables
  <2>2. {LoadAbstract!Complete(k) : k \in ks} = {Complete(k) : k \in ks}
    BY DEF LoadAbstract!Complete, Complete
  <2>3. \A k \in ks : LoadAbstract!Complete(k) \notin table.rows
    BY DEF LoadAbstract!Complete, Complete
  <2>4. table' = [exists |-> TRUE, rows |-> table.rows \cup {LoadAbstract!Complete(k) : k \in ks}]
    BY <1>3, <1>4, <2>1, <2>2
  <2>5. LoadAbstract!Store(ks)
    BY <1>6, <2>3, <2>4 DEF LoadAbstract!Store
  <2>. QED BY <1>1, <2>5
<1>. QED BY <1>5, <1>6

LEMMA WholeLoads ==
  ASSUME Basic, Careful, [Next]_vars PROVE [LoadAbstract!Next]_table
<1>. SUFFICES ASSUME table' # table PROVE \E ks \in SUBSET (1 .. MaxCalls) : LoadAbstract!Store(ks)
  BY DEF LoadAbstract!Next
<1>0. Once /\ OwnRows /\ CreatesInside /\ BareKept
  BY DEF Careful
<1>1. Works1
  BY Steps, ComesHow DEF Acts, vars
<1>2. CASE Done1
  <2>1. srv.txn = "none" /\ table' = work' /\ work = table /\ work' \in Table
    BY <1>2 DEF Done1, Basic, Tables
  <2>2. ~(srv.what \in {"catalog", "unload"} /\ work' = work) /\ srv.what # "create"
    BY <1>0, <2>1 DEF CreatesInside
  <2>3. srv.what \in Storing /\ Brings(Complete(srv.of))
    BY <1>0, <1>2, <2>2, StoredIs DEF Done1, Leaves1, Storing
  <2>4. LoadAbstract!Store({srv.of})
    BY <1>0, <1>1, <2>1, <2>3, OneStored
  <2>5. srv.of \in 1 .. MaxCalls
    BY <2>3, State DEF Basic, Serves, Storing
  <2>. QED BY <2>4, <2>5
<1>3. CASE Turned
  <2>1. srv.what = "commit" /\ srv.txn = "open" /\ table' = work
    BY <1>3 DEF Turned
  <2>. QED BY <1>0, <2>1, Committed DEF BareKept
<1>4. ~Failed1 /\ ~Waiting /\ ~Dies
  BY DEF Failed1, Waiting, Dies
<1>. QED BY <1>1, <1>2, <1>3, <1>4, ServerKinds DEF Works1

\* Where no COMMIT or ROLLBACK is cancelled, and no INSERT while tasks share the
\* connection, what other sessions see of the table changes by whole loads only, each
\* stored once and made of its own rows, whatever fails or is cancelled besides
\* (core.py, load_data; docs/load_data.md, "Transactions").
THEOREM LoadsAreWhole ==
  ASSUME \A s \in Scenes : Tame(s) PROVE Spec => ImplementsLoadSpec
<1>. DEFINE Inv == Basic /\ FramedOwn /\ Stores
<1>1. Init => Inv
  BY BasicStarts, StoresStarts
<1>2. Inv /\ [Next]_vars => Inv'
  BY BasicKept, StoresKept
<1>3. Inv /\ [Next]_vars => [LoadAbstract!Next]_table
  <2>1. SUFFICES ASSUME Inv, [Next]_vars PROVE [LoadAbstract!Next]_table
    OBVIOUS
  <2>2. Trusted
    BY <2>1, State DEF Trusted
  <2>. QED BY <2>1, <2>2, WholeLoads DEF Stores
<1>4. Init => LoadAbstract!Init
  BY DEF Init, LoadAbstract!Init
<1>. QED
  <2>. HIDE DEF Inv
  <2>. QED BY <1>1, <1>2, <1>3, <1>4, PTL DEF Spec, ImplementsLoadSpec, LoadAbstract!Spec

-----------------------------------------------------------------------------
(* Before a call is cancelled: whose transaction it is *)

LEMMA GoingSame ==
  ASSUME Basic, NEW t \in Tasks, Going(t)
  PROVE  /\ Active(t) /\ pc'[t] # "idle" /\ appTxn' = appTxn /\ Others1(t)
         /\ call'[t].id = call[t].id /\ call'[t].kind = call[t].kind /\ call'[t].alone = call[t].alone
<1>1. CASE Reading(t) \/ Waits(t)
  BY <1>1 DEF Reading, Waits, SameWork, SameEnds, Readers
<1>2. CASE Passing(t)
  BY <1>2 DEF Passing, SameEnds
<1>3. CASE Transmits(t)
  BY <1>3, State DEF Transmits, Active, Others1
<1>4. CASE CollectPlans(t)
  BY <1>4, MovesOthers, State DEF CollectPlans, Plans, Sends, Moves
<1>. QED BY <1>1, <1>2, <1>3, <1>4, Kinds

\* Only the plan of a load turns autocommit off.
LEMMA AutocommitGoes ==
  ASSUME Basic, NEW t \in Tasks, Going(t)
  PROVE  \/ conn'.autocommit = conn.autocommit /\ conn'.owner \in {conn.owner, NoTask}
            /\ (pc'[t] \in Holding => conn'.owner = conn.owner)
            /\ ~ReadyPlans(t) /\ ~CollectPlans(t)
            /\ (Active(t) /\ call[t].planned => call'[t].planned /\ (call[t].transactional => call'[t].transactional))
            /\ (call'[t].planned => call[t].planned) /\ (call'[t].transactional => call[t].transactional)
         \/ /\ ReadyPlans(t) \/ CollectPlans(t)
            /\ ~call[t].planned /\ call'[t].planned /\ conn'.owner = t
            /\ conn'.autocommit = (conn.autocommit /\ ~call'[t].transactional)
<1>1. CASE Reading(t) \/ Waits(t)
  <2>1. ~ReadyPlans(t) /\ ~CollectPlans(t)
    BY <1>1 DEF Reading, Waits, SameWork, SameStatement, ReadyPlans, CollectPlans, Plans
  <2>. QED BY <1>1, <2>1 DEF Reading, Waits, SameWork, SameStatement
<1>2. CASE Passing(t)
  <2>1. CASE NextStatement(t) \/ Unwinds(t)
    <3>1. ~ReadyPlans(t) /\ ~CollectPlans(t)
      BY <2>1 DEF NextStatement, Unwinds, ReadyPlans, CollectPlans, Plans, Ready
    <3>. QED BY <2>1, <3>1 DEF NextStatement, Unwinds, Stays
  <2>2. CASE ReadyPlans(t)
    BY <2>2 DEF ReadyPlans, Plans
  <2>3. CASE Collects(t)
    <3>1. ~ReadyPlans(t) /\ ~CollectPlans(t)
      BY <2>3 DEF Collects, ReadyPlans, CollectPlans, Plans, Ready
    <3>2. pc'[t] \notin Holding
      BY <2>3, State DEF Collects, Moves, Holding
    <3>. QED BY <2>3, <3>1, <3>2 DEF Collects
  <2>. QED BY <1>2, <2>1, <2>2, <2>3, PassingOnly
<1>3. CASE Transmits(t)
  <2>1. ~ReadyPlans(t) /\ ~CollectPlans(t)
    BY <1>3 DEF Transmits, ReadyPlans, CollectPlans, Ready
  <2>. QED BY <1>3, <2>1 DEF Transmits
<1>4. CASE CollectPlans(t)
  BY <1>4 DEF CollectPlans, Plans
<1>. QED BY <1>1, <1>2, <1>3, <1>4, Kinds

LEMMA EndsClean ==
  ASSUME Basic, NEW t \in Tasks, Acts(t), Ending(t), Clean', ~conn'.closed
  PROVE  Ended1(t) \/ Dropped(t) \/ Broken(t)
<1>1. ~Shut(t)
  BY DEF Shut
<1>2. ~Cancelled(t)
  <2>1. SUFFICES ASSUME Over(t, "cancelled") PROVE ~Clean'
    BY DEF Cancelled
  <2>2. call[t].id \in 1 .. calls' /\ outcome'[call[t].id] = "cancelled"
    BY <2>1, IdsOK, State DEF Over, Acts
  <2>. QED BY <2>2 DEF Clean
<1>. QED BY <1>1, <1>2, EndKinds

\* What ReadyForQuery says to who began or ended a transaction
LEMMA ReadyTells ==
  ASSUME Basic, NEW t \in Tasks, Answers(t), Ready(t)
  PROVE  /\ Now(t) \in Ends => srv.txn = "none" /\ ~call[t].err /\ ~conn'.in_transaction
         /\ Now(t) = "begin" => conn.in_transaction /\ conn'.in_transaction /\ ~call[t].err
         /\ Now(t) \notin Ends => conn'.in_transaction = conn.in_transaction
         /\ conn'.in_transaction => conn.in_transaction
<1>1. wire # <<>> /\ wire[1] = "ready" /\ Matching(t)
  BY MatchesIs DEF Ready, Basic
<1>2. OnWire("ready") /\ ~OnWire("BEGIN")
  BY <1>1, FirstOf, LastReady DEF OnWire
<1>3. conn.in_transaction \in BOOLEAN /\ conn'.in_transaction = (conn.in_transaction /\ ~(Now(t) \in Ends /\ ~call[t].err))
  BY State DEF Ready, ConnRecord
<1>4. Now(t) \in Ends => srv.txn = "none" /\ ~call[t].err
  BY <1>1, <1>2 DEF Matching, Ends, Turns
<1>5. Now(t) = "begin" => conn.in_transaction /\ ~call[t].err
  BY <1>1, <1>2 DEF Matching, Turns
<1>. QED BY <1>3, <1>4, <1>5 DEF Ends

LEMMA DiesWhole ==
  ASSUME Basic, Dies, OnWire("ready")' PROVE OnWire("error")' \/ \A m : OnWire(m) <=> OnWire(m)'
<1>1. ASSUME NEW x, Adds(x), Only(x, "error") PROVE OnWire("error")'
  <2>1. 1 \in 1 .. Len(x) /\ x[1] = "error"
    BY <1>1 DEF Only
  <2>. QED BY <1>1, <2>1, WireGrows
<1>2. ASSUME wire' \in Seq(Byte), Len(wire') <= Len(wire), \A i \in 1 .. Len(wire') : wire'[i] = wire[i]
      PROVE  \A m : OnWire(m) <=> OnWire(m)'
  <2>1. Len(wire') \in Nat /\ Len(wire) \in Nat
    BY <1>2, State
  <2>2. PICK i \in 1 .. Len(wire') : wire'[i] = "ready"
    BY DEF OnWire
  <2>3. i \in 1 .. Len(wire) /\ wire[i] = "ready"
    BY <1>2, <2>1, <2>2
  <2>4. i = Len(wire)
    BY <2>3 DEF Basic, Serves
  <2>5. Len(wire') = Len(wire)
    BY <1>2, <2>1, <2>2, <2>4
  <2>. QED BY <1>2, <2>5 DEF OnWire
<1>. QED BY <1>1, <1>2 DEF Dies

LEMMA BegunUnreadKept ==
  ASSUME Basic, [Next]_vars, Ended, LeftBegin, BegunUnread, Clean', ~conn'.closed PROVE BegunUnread'
<1>. DEFINE Begun(t) == Answers(t) /\ Now(t) = "begin"
<1>. SUFFICES ASSUME srv'.txn # "none", ~conn'.in_transaction PROVE \E t \in Tasks : Begun(t)'
  BY DEF BegunUnread
<1>1. srv.txn # "none" /\ ~conn.in_transaction => \E t \in Tasks : Begun(t)
  BY DEF BegunUnread
<1>2. ASSUME NEW t \in Tasks, Acts(t) PROVE \E u \in Tasks : Begun(u)'
  <2>1. srv.txn # "none"
    BY <1>2, EndKinds, ServerStays DEF Acts, Over, Transmits
  <2>2. CASE conn.in_transaction
    <3>1. ~(Ready(t) /\ Answers(t))
      BY <2>1, <2>2, ReadyTells
    <3>2. ~Ended1(t)
      BY <3>1 DEF Ended1, Finishes
    <3>3. ~Passing(t)
      BY <3>1 DEF Passing
    <3>4. ~Reading(t)
      <4>1. Reading(t) => Answers(t) /\ (OnWire("COMMIT") \/ OnWire("ROLLBACK"))
        BY <2>2, FirstOf DEF Reading, OnWire
      <4>. QED BY <2>1, <4>1 DEF Ended
    <3>. QED
      BY <1>2, <2>2, <3>2, <3>3, <3>4, Kinds, EndKinds DEF Acts, Waits, Transmits, CollectPlans
  <2>3. CASE ~conn.in_transaction
    <3>1. PICK u \in Tasks : Begun(u)
      BY <1>1, <2>1, <2>3
    <3>2. pc[u] \in Holding
      BY <3>1 DEF Answers, Reads, Readers, Holding
    <3>3. CASE u # t
      BY <1>2, <3>1, <3>3, ActsOthers, OthersKeep DEF Acts
    <3>4. CASE u = t
      <4>1. ~Ready(t)
        BY <2>3, <3>1, <3>4, ReadyTells
      <4>2. ~Ending(t)
        <5>1. ~Ended1(t)
          BY <4>1 DEF Ended1, Finishes
        <5>2. ~Dropped(t) /\ ~Broken(t)
          BY <3>1, <3>4 DEF Dropped, Broken, Answers, Reads, Readers
        <5>. QED BY <1>2, <5>1, <5>2, EndsClean
      <4>3. Reading(t)
        <5>1. ~Passing(t) /\ ~Waits(t) /\ ~Transmits(t) /\ ~CollectPlans(t)
          BY <3>1, <3>4, <4>1 DEF Passing, Waits, Transmits, CollectPlans, Answers, Reads, Readers
        <5>. QED BY <1>2, <4>2, <5>1, Kinds DEF Acts
      <4>. QED BY <3>1, <3>4, <4>3 DEF Reading, Answers, Reads, SameWork, SameStatement, Now
    <3>. QED BY <3>3, <3>4
  <2>. QED BY <2>2, <2>3
<1>3. ASSUME NEW t \in Tasks, NEW kind, Comes(t, kind) PROVE \E u \in Tasks : Begun(u)'
  <2>1. PICK u \in Tasks : Begun(u)
    BY <1>1, <1>3, ComesHow
  <2>2. u # t
    BY <1>3, <2>1, ComesHow
  <2>. QED BY <1>3, <2>1, <2>2, ComesHow, OthersKeep
<1>4. CASE UNCHANGED vars
  BY <1>1, <1>4 DEF vars, Answers, Reads, Now
<1>5. CASE Works1
  <2>1. ~conn.in_transaction /\ UNCHANGED <<pc, call, conn>>
    BY <1>5 DEF Works1
  <2>2. ASSUME NEW u \in Tasks, Begun(u) PROVE Begun(u)'
    BY <2>1, <2>2 DEF Answers, Reads, Now
  <2>3. CASE srv.txn # "none"
    BY <1>1, <2>1, <2>2, <2>3
  <2>4. CASE srv.txn = "none"
    <3>1. srv.what = "begin"
      BY <1>5, <2>4, ServerKinds DEF Works1, Done1, Failed1, Turned, Waiting, Dies
    <3>2. PICK u \in Tasks : Answers(u)
      BY <2>1, <3>1 DEF LeftBegin, Abandoned
    <3>3. Begun(u)
      BY <3>1, <3>2 DEF Basic, Matches
    <3>. QED BY <2>2, <3>3
  <2>. QED BY <2>3, <2>4
<1>. QED BY <1>2, <1>3, <1>4, <1>5, Steps

\* With autocommit on there is a transaction only if the application has begun it.
LEMMA TurnsNow ==
  ASSUME NEW c, CallOK(c), c.kind \in Turns
  PROVE  c.todo # <<>> /\ Head(c.todo) = c.kind /\ ~c.planned /\ ~c.unwinding /\ ~c.transactional
<1>1. c.kind # "load"
  BY DEF Turns
<1>2. OtherTodo(c)
  BY <1>1 DEF CallOK, TodoOK
<1>. QED BY <1>2, NowKnown DEF OtherTodo

LEMMA TransactionalPlanned ==
  ASSUME NEW c, CallOK(c), c.transactional PROVE c.planned /\ c.kind = "load"
<1>1. c.kind # "load" => ~c.transactional
  BY DEF CallOK, TodoOK, OtherTodo
<1>2. c.kind = "load" /\ ~c.planned => ~c.transactional
  BY DEF CallOK, TodoOK, LoadTodo
<1>. QED BY <1>1, <1>2

LEMMA EndsNoBegin ==
  ASSUME Basic, NEW t \in Tasks, Acts(t), Ending(t), Clean', ~conn'.closed, call[t].kind \notin Ends, NoBegin'
  PROVE  NoBegin
<1>0. Active(t) /\ CallOK(call[t]) /\ Others1(t)
  BY IdsOK, ActsOthers
<1>1. ~appTxn
  <2>1. \E res : Over(t, res)
    BY EndKinds
  <2>. QED BY <2>1 DEF Over, NoBegin
<1>2. call[t].kind # "begin"
  <2>1. SUFFICES ASSUME call[t].kind = "begin" PROVE FALSE
    OBVIOUS
  <2>2. Now(t) = "begin" /\ call[t].todo # <<>> /\ ~call[t].unwinding
    BY <1>0, <2>1, TurnsNow DEF Now, Turns
  <2>3. ~Dropped(t)
    BY <1>0, <2>2 DEF Dropped, Basic, Shape, CallsOK
  <2>4. ~Broken(t)
    BY <2>2 DEF Broken
  <2>5. Ended1(t)
    BY <2>3, <2>4, EndsClean
  <2>6. PICK res \in {"failed", "ok", "stored"} :
          /\ Ready(t) /\ Leaves(t, res)
          /\ ~call[t].err /\ res = "failed" => Now(t) = "catalog" \/ call[t].unwinding
          /\ res = "stored" => call[t].kind = "load"
    BY <2>5 DEF Ended1, Finishes
  <2>7. ~call[t].err
    BY <2>2, <2>5, <2>6, ReadyTells DEF Ended1
  <2>8. res = "ok"
    BY <2>1, <2>2, <2>6, <2>7
  <2>. QED BY <2>1, <2>6, <2>8 DEF Leaves, NoBegin
<1>3. ASSUME NEW u \in Tasks, Active(u) PROVE call[u].kind # "begin"
  <2>1. CASE u = t
    BY <1>2, <2>1
  <2>2. CASE u # t
    BY <1>0, <1>3, <2>2, OthersKeep DEF NoBegin
  <2>. QED BY <2>1, <2>2
<1>. QED BY <1>1, <1>3 DEF NoBegin

LEMMA NoTransactionEnds ==
  ASSUME Basic, BegunUnread, NoTransaction, NEW t \in Tasks, Acts(t), Ending(t), Clean', ~conn'.closed,
         conn'.autocommit, NoBegin'
  PROVE  ~conn'.in_transaction /\ srv'.txn = "none"
<1>0. Active(t) /\ CallOK(call[t]) /\ UNCHANGED srv
  BY IdsOK, ActsOthers, EndKinds DEF Over
<1>1. CASE call[t].kind \in Ends
  <2>1. Now(t) \in Ends /\ call[t].todo # <<>>
    BY <1>0, <1>1, TurnsNow DEF Now, Ends, Turns
  <2>2. ~Dropped(t) /\ ~Broken(t)
    BY <1>0, <2>1 DEF Dropped, Broken, Basic, Shape, CallsOK, Ends
  <2>3. Ended1(t)
    BY <2>2, EndsClean
  <2>. QED BY <1>0, <2>1, <2>3, ReadyTells DEF Ended1, Finishes
<1>2. CASE call[t].kind \notin Ends /\ conn.autocommit
  <2>1. NoBegin
    BY <1>2, EndsNoBegin
  <2>2. ~conn.in_transaction /\ srv.txn = "none"
    BY <1>2, <2>1 DEF NoTransaction
  <2>3. conn'.in_transaction => conn.in_transaction
    BY EndKinds, ReadyTells DEF Ended1, Finishes
  <2>. QED BY <1>0, <2>2, <2>3
<1>3. CASE call[t].kind \notin Ends /\ ~conn.autocommit
  <2>1. call[t].transactional
    <3>1. \E res : Over(t, res)
      BY EndKinds
    <3>. QED BY <1>3, <3>1 DEF Over
  <2>2. call[t].planned /\ pc[t] \in Holding /\ call[t].todo # <<>> /\ LoadTodo(call[t])
    BY <1>0, <2>1, TransactionalPlanned, PlannedHolds, PlannedTodo
  <2>3. /\ ~call[t].unwinding => Now(t) \in {"begin", "create", "insert", "commit"}
        /\ call[t].unwinding => Now(t) = "rollback"
    BY <1>0, <2>2, NowKnown DEF Now
  <2>4. ~Dropped(t) /\ ~Broken(t)
    BY <2>2, <2>3 DEF Dropped, Broken, Holding, CallOK, Flags
  <2>5. Ended1(t)
    BY <2>4, EndsClean
  <2>6. Answers(t) /\ Ready(t)
    BY <2>5 DEF Ended1, Finishes
  <2>7. CASE Now(t) \in Ends
    BY <1>0, <2>6, <2>7, ReadyTells
  <2>8. CASE Now(t) \notin Ends
    <3>1. ~call[t].unwinding
      BY <2>3, <2>8 DEF Ends
    <3>2. PICK res \in {"failed", "ok", "stored"} :
            /\ call[t].err => res = "failed" /\ (call[t].transactional /\ ~call[t].unwinding
                                                   => conn'.closed \/ ~conn.in_transaction)
            /\ ~call[t].err /\ res = "failed" => Now(t) = "catalog" \/ call[t].unwinding
            /\ res # "failed" => Len(call[t].todo) = 1
      BY <2>5 DEF Ended1, Finishes
    <3>3. Len(call[t].todo) # 1
      <4>1. call[t].todo[Len(call[t].todo)] = "commit"
        BY <2>1, <2>2, <3>1 DEF LoadTodo
      <4>2. Now(t) = call[t].todo[1]
        BY <1>0, <2>2, HeadOf DEF Now
      <4>. QED BY <2>8, <4>1, <4>2 DEF Ends
    <3>4. call[t].err
      BY <2>3, <3>1, <3>2, <3>3
    <3>5. ~conn.in_transaction
      BY <2>1, <3>1, <3>2, <3>4
    <3>6. srv.txn = "none"
      <4>1. SUFFICES ASSUME srv.txn # "none" PROVE FALSE
        OBVIOUS
      <4>2. PICK u \in Tasks : Answers(u) /\ Now(u) = "begin"
        BY <3>5, <4>1 DEF BegunUnread
      <4>3. u = t
        BY <2>2, <4>2, OneReader DEF Answers
      <4>. QED BY <2>6, <3>4, <4>2, <4>3, ReadyTells
    <3>. QED BY <1>0, <2>6, <3>5, <3>6, ReadyTells
  <2>. QED BY <2>7, <2>8
<1>. QED BY <1>1, <1>2, <1>3

LEMMA NoTransactionKept ==
  ASSUME Basic, [Next]_vars, BegunUnread, ManualBegin, LeftBegin, NoTransaction, Clean', ~conn'.closed
  PROVE  NoTransaction'
<1>. SUFFICES ASSUME conn'.autocommit, NoBegin' PROVE ~conn'.in_transaction /\ srv'.txn = "none"
  BY DEF NoTransaction
<1>1. ASSUME NEW t \in Tasks, Acts(t), Going(t) PROVE ~conn'.in_transaction /\ srv'.txn = "none"
  <2>1. NoBegin
    <3>1. ~appTxn
      BY <1>1, GoingSame DEF NoBegin
    <3>2. ASSUME NEW u \in Tasks, Active(u) PROVE call[u].kind # "begin"
      <4>1. CASE u = t
        BY <1>1, <4>1, GoingSame DEF NoBegin, Active
      <4>2. CASE u # t
        BY <1>1, <3>2, <4>2, GoingSame, OthersKeep DEF NoBegin
      <4>. QED BY <4>1, <4>2
    <3>. QED BY <3>1, <3>2 DEF NoBegin
  <2>2. conn.autocommit
    BY <1>1, AutocommitGoes
  <2>3. ~conn.in_transaction /\ srv.txn = "none"
    BY <2>1, <2>2 DEF NoTransaction
  <2>4. srv'.txn = srv.txn
    BY <1>1, ServerStays DEF Transmits
  <2>5. ~conn'.in_transaction
    <3>1. CASE Reading(t)
      <4>1. ASSUME wire # <<>>, wire[1] = "BEGIN", Answers(t) PROVE FALSE
        <5>1. Now(t) = "begin"
          <6>1. OnWire("BEGIN")
            BY <4>1, FirstOf DEF OnWire
          <6>. QED BY <4>1, <6>1 DEF Basic, Matches, Answering, Headers
        <5>2. call[t].kind # "begin" /\ pc[t] # "collect"
          BY <1>1, <2>1, <4>1, GoingSame DEF NoBegin, Answers, Reads, Readers
        <5>. QED BY <1>1, <2>2, <5>1, <5>2, GoingSame DEF ManualBegin
      <4>. QED BY <2>3, <3>1, <4>1 DEF Reading
    <3>2. CASE Passing(t)
      BY <2>3, <3>2, ReadyTells DEF Passing
    <3>3. CASE Waits(t) \/ Transmits(t) \/ CollectPlans(t)
      BY <2>3, <3>3 DEF Waits, Transmits, CollectPlans
    <3>. QED BY <1>1, <3>1, <3>2, <3>3, Kinds
  <2>. QED BY <2>3, <2>4, <2>5
<1>2. ASSUME NEW t \in Tasks, NEW kind, Comes(t, kind) PROVE ~conn'.in_transaction /\ srv'.txn = "none"
  <2>0. UNCHANGED srv /\ conn'.in_transaction = conn.in_transaction /\ conn.autocommit
    BY <1>2, ComesHow
  <2>1. ASSUME NEW u \in Tasks, Active(u) PROVE call[u].kind # "begin"
    <3>1. u # t /\ Others1(t)
      BY <1>2, <2>1, ComesHow DEF Active
    <3>. QED BY <2>1, <3>1, OthersKeep DEF NoBegin
  <2>2. CASE ~appTxn
    BY <2>0, <2>1, <2>2 DEF NoTransaction, NoBegin
  <2>3. CASE appTxn
    <3>1. Refused(t, kind) /\ kind \in Ends
      BY <1>2, <2>3 DEF Comes, Starts, Refused, NoBegin
    <3>2. \A u \in Tasks : ~Active(u)
      BY <3>1 DEF Refused, Begins, Turns, Ends
    <3>3. conn.owner = NoTask
      BY <3>2, State DEF Basic, Shape, Held, Active, Holding, ConnRecord
    <3>4. ~conn.in_transaction
      BY <2>3, <3>1, <3>3 DEF Refused, NoBegin
    <3>5. srv.txn = "none"
      BY <3>2, <3>4 DEF BegunUnread, Answers, Reads, Readers, Active
    <3>. QED BY <2>0, <3>4, <3>5
  <2>. QED BY <2>2, <2>3, State
<1>3. ASSUME UNCHANGED <<conn, pc, call, appTxn>> PROVE ~conn.in_transaction /\ srv.txn = "none"
  BY <1>3 DEF NoTransaction, NoBegin, Active
<1>4. CASE UNCHANGED vars
  BY <1>3, <1>4 DEF vars
<1>5. CASE Works1
  <2>1. ~conn.in_transaction /\ srv.txn = "none" /\ UNCHANGED <<conn, pc, call, appTxn>>
    BY <1>3, <1>5 DEF Works1
  <2>2. srv.what # "begin"
    <3>1. SUFFICES ASSUME srv.what = "begin" PROVE FALSE
      OBVIOUS
    <3>2. PICK u \in Tasks : Answers(u)
      BY <2>1, <3>1 DEF LeftBegin, Abandoned
    <3>3. Now(u) = "begin" /\ Active(u) /\ pc[u] # "collect"
      BY <3>1, <3>2 DEF Basic, Matches, Answers, Reads, Readers, Active
    <3>4. call[u].kind # "begin"
      BY <2>1, <3>3 DEF NoBegin, Active
    <3>. QED BY <2>1, <3>3, <3>4 DEF ManualBegin
  <2>. QED BY <1>5, <2>1, <2>2, ServerKinds DEF Works1, Done1, Failed1, Turned, Waiting, Dies
<1>. QED BY <1>1, <1>2, <1>4, <1>5, NoTransactionEnds, Steps DEF Acts

LEMMA AutocommitStays ==
  ASSUME Basic, NEW u \in Tasks, Aloof(u), ~conn'.closed PROVE conn'.autocommit = conn.autocommit /\ ~conn.closed
BY DEF Aloof

LEMMA BeginsManual ==
  ASSUME Basic, Basic', [Next]_vars, ManualBegin, ~conn'.closed, NEW u \in Tasks, pc'[u] \in Holding,
         call'[u].kind # "begin", Now(u)' = "begin"
  PROVE  ~conn'.autocommit
<1>1. ASSUME Active(u), pc[u] # "collect", call[u].kind # "begin", Now(u) = "begin" PROVE ~conn.autocommit
  BY <1>1 DEF ManualBegin
<1>2. CASE Acts(u) /\ Going(u)
  <2>0. call'[u].kind = call[u].kind /\ Active(u)
    BY <1>2, GoingSame
  <2>1. CASE Reading(u) \/ Waits(u)
    <3>1. Now(u) = "begin" /\ pc[u] # "collect" /\ conn'.autocommit = conn.autocommit
      BY <2>1 DEF Reading, Waits, SameWork, SameStatement, Now, Reads, Readers, Holding
    <3>. QED BY <1>1, <2>0, <3>1
  <2>2. CASE Transmits(u)
    <3>1. Now(u) = "begin" /\ pc[u] # "collect" /\ conn'.autocommit = conn.autocommit
      BY <2>2 DEF Transmits, Now
    <3>. QED BY <1>1, <2>0, <3>1
  <2>3. CASE NextStatement(u)
    <3>1. /\ Now(u)' = call[u].todo[2] /\ Len(call[u].todo) \in Nat \ {0, 1} /\ CallOK(call[u])
      BY <2>3, NextIsSecond
    <3>2. \A n \in Nat \ {0, 1} : 2 \in 1 .. n
      OBVIOUS
    <3>3. 2 \in 1 .. Len(call[u].todo)
      BY <3>1, <3>2, Zenon
    <3>4. call[u].todo[2] # "begin"
      BY <3>1, <3>3 DEF CallOK, TodoOK, Orderly
    <3>. QED BY <3>1, <3>4
  <2>4. CASE Unwinds(u)
    <3>1. call'[u].todo \in Seq(Statements) /\ Only(call'[u].todo, "rollback")
      BY <2>4, PlannedHolds DEF Unwinds, CallOK, TodoOK, Orderly, Sends, Moves
    <3>. QED BY <3>1, OneStatement DEF Now
  <2>5. CASE ReadyPlans(u) \/ CollectPlans(u)
    <3>1. Plans(u) /\ Now(u)' = call'[u].todo[1]
      BY <2>5, PlansWithin DEF ReadyPlans, CollectPlans
    <3>. QED BY <3>1 DEF Plans
  <2>6. ~Collects(u)
    BY State DEF Collects, Moves, Holding
  <2>. QED BY <1>2, <2>1, <2>2, <2>3, <2>4, <2>5, <2>6, Kinds, PassingOnly
<1>3. ASSUME NEW kind, Starts(u, kind) PROVE ~conn'.autocommit
  <2>1. CallOK(call'[u]) /\ call'[u].todo # <<>>
    BY <1>3 DEF Starts
  <2>2. Now(u)' = call'[u].todo[1]
    BY <2>1, HeadOf DEF Now
  <2>. QED BY <1>3, <2>2 DEF Starts, Begins
<1>4. CASE Aloof(u)
  <2>1. Active(u) /\ pc[u] # "collect" /\ call[u].kind # "begin" /\ Now(u) = "begin"
    BY <1>4 DEF Aloof, Holding
  <2>. QED BY <1>1, <1>4, <2>1, AutocommitStays
<1>. QED BY <1>2, <1>3, <1>4, Fates

LEMMA TransactsManual ==
  ASSUME Basic, Basic', [Next]_vars, ManualBegin, ~conn'.closed, NEW u \in Tasks, pc'[u] \in Holding,
         call'[u].transactional
  PROVE  ~conn'.autocommit
<1>1. ASSUME Active(u), call[u].transactional PROVE ~conn.autocommit
  BY <1>1 DEF ManualBegin
<1>2. CASE Acts(u) /\ Going(u)
  BY <1>1, <1>2, GoingSame, AutocommitGoes
<1>3. ASSUME NEW kind, Starts(u, kind) PROVE ~conn'.autocommit
  BY <1>3 DEF Starts
<1>4. CASE Aloof(u)
  BY <1>1, <1>4, AutocommitStays DEF Aloof
<1>. QED BY <1>2, <1>3, <1>4, Fates

LEMMA ManualBeginKept ==
  ASSUME Basic, Basic', [Next]_vars, ManualBegin, ~conn'.closed PROVE ManualBegin'
<1>1. ASSUME NEW u \in Tasks, Active(u)', call'[u].kind # "begin", pc'[u] # "collect", Now(u)' = "begin"
      PROVE  ~conn'.autocommit
  <2>1. pc'[u] \in Holding
    BY <1>1 DEF Basic, Shape, Types, Active
  <2>. QED BY <1>1, <2>1, BeginsManual
<1>2. ASSUME NEW u \in Tasks, Active(u)', call'[u].transactional PROVE ~conn'.autocommit
  <2>1. CallOK(call'[u])
    BY <1>2 DEF Basic, Shape, CallsOK
  <2>2. pc'[u] \in Holding
    BY <1>2, <2>1, TransactionalPlanned, PlannedHoldsNext DEF Active
  <2>. QED BY <1>2, <2>2, TransactsManual
<1>. QED BY <1>1, <1>2 DEF ManualBegin

\* The loads that nobody put into a transaction
Alone(t) == Active(t) /\ call[t].kind = "load" /\ call[t].alone
Covered == conn.autocommit \/ \E u \in Tasks : conn.owner = u /\ call[u].planned /\ call[u].transactional

LEMMA AloneBefore ==
  ASSUME Basic, [Next]_vars, NEW u \in Tasks, Alone(u)'
  PROVE  Alone(u) \/ (Comes(u, "load") /\ Starts(u, "load") /\ conn.autocommit /\ ~appTxn)
<1>1. ASSUME pc'[u] = pc[u], call'[u] = call[u] PROVE Alone(u)
  BY <1>1 DEF Alone, Active
<1>2. ASSUME NEW t \in Tasks, Acts(t) PROVE Alone(u)
  <2>1. CASE t # u
    BY <1>1, <1>2, <2>1, ActsOthers DEF Acts, Others1
  <2>2. CASE t = u
    <3>1. ~Ending(u)
      BY EndKinds DEF Over, Alone, Active
    <3>. QED BY <1>2, <2>2, <3>1, GoingSame DEF Acts, Alone
  <2>. QED BY <2>1, <2>2
<1>3. ASSUME NEW t \in Tasks, NEW kind, Comes(t, kind)
      PROVE  Alone(u) \/ (Comes(u, "load") /\ Starts(u, "load") /\ conn.autocommit /\ ~appTxn)
  <2>1. CASE t # u
    BY <1>1, <1>3, <2>1, ComesHow DEF Others1
  <2>2. CASE t = u
    <3>1. Starts(u, kind)
      BY <1>3, <2>2, State DEF Comes, Refused, Alone, Active
    <3>2. kind = "load" /\ conn.autocommit /\ ~appTxn
      BY <3>1 DEF Starts, Alone
    <3>. QED BY <1>3, <2>2, <3>1, <3>2
  <2>. QED BY <2>1, <2>2
<1>. QED BY <1>1, <1>2, <1>3, Steps DEF vars, Works1

LEMMA NoBeginLasts ==
  ASSUME Basic, [Next]_vars, NoBegin, NEW u \in Tasks, Active(u) PROVE NoBegin'
<1>1. ASSUME NEW v \in Tasks, pc'[v] = pc[v], call'[v] = call[v], Active(v)' PROVE call'[v].kind # "begin"
  BY <1>1 DEF NoBegin, Active
<1>2. ASSUME NEW t \in Tasks, Acts(t) PROVE NoBegin'
  <2>1. ASSUME NEW v \in Tasks, v # t, Active(v)' PROVE call'[v].kind # "begin"
    BY <1>1, <1>2, <2>1, ActsOthers DEF Acts, Others1
  <2>2. CASE Ending(t)
    <3>1. PICK res : Over(t, res)
      BY <2>2, EndKinds
    <3>2. ~appTxn'
      BY <3>1 DEF Over, NoBegin
    <3>. QED BY <2>1, <3>1, <3>2 DEF Over, NoBegin, Active
  <2>3. CASE Going(t)
    BY <2>1, <2>3, GoingSame DEF NoBegin
  <2>. QED BY <1>2, <2>2, <2>3 DEF Acts
<1>3. ASSUME NEW t \in Tasks, NEW kind, Comes(t, kind) PROVE NoBegin'
  <2>1. ASSUME NEW v \in Tasks, v # t, Active(v)' PROVE call'[v].kind # "begin"
    BY <1>1, <1>3, <2>1, ComesHow DEF Others1
  <2>2. CASE Refused(t, kind)
    BY <2>1, <2>2, State DEF Refused, NoBegin, Active
  <2>3. CASE Starts(t, kind)
    <3>1. kind # "begin"
      BY <2>3 DEF Starts, Begins, Turns
    <3>. QED BY <2>1, <2>3, <3>1 DEF Starts, NoBegin
  <2>. QED BY <1>3, <2>2, <2>3 DEF Comes
<1>. QED BY <1>1, <1>2, <1>3, Steps DEF vars, Works1, NoBegin

LEMMA NoBeginStarts ==
  ASSUME Basic, NEW u \in Tasks, Starts(u, "load"), ~appTxn PROVE NoBegin'
<1>1. ASSUME NEW v \in Tasks, Active(v) PROVE call[v].kind # "begin"
  <2>1. SUFFICES ASSUME call[v].kind = "begin" PROVE FALSE
    OBVIOUS
  <2>2. CallOK(call[v]) /\ (pc[v] = "collect" <=> call[v].todo = <<>>)
    BY <1>1 DEF Basic, Shape, CallsOK
  <2>3. pc[v] # "collect"
    BY <2>1, <2>2, TurnsNow DEF Turns
  <2>4. pc[v] \in Holding
    BY <1>1, <2>3, State DEF Active
  <2>. QED BY <2>4, Holds, State DEF Starts
<1>2. ~appTxn' /\ call'[u].kind = "load"
  BY DEF Starts
<1>3. ASSUME NEW v \in Tasks, v # u, Active(v)' PROVE call'[v].kind # "begin"
  BY <1>1, <1>3, State DEF Starts, Begins, Active
<1>. QED BY <1>2, <1>3 DEF NoBegin

LEMMA CoveredKept ==
  ASSUME Basic, [Next]_vars, Covered, ~conn'.closed PROVE Covered'
<1>. DEFINE Cover(v) == conn.owner = v /\ call[v].planned /\ call[v].transactional
<1>0. ASSUME NEW v \in Tasks, Cover(v) PROVE Active(v) /\ pc[v] \in Holding
  BY <1>0, Holds DEF Basic, Shape, Held
<1>1. ASSUME NEW t \in Tasks, Acts(t), Ending(t) PROVE Covered'
  <2>1. PICK res : Over(t, res)
    BY <1>1, EndKinds
  <2>2. CASE conn.autocommit
    BY <2>1, <2>2 DEF Over, Covered
  <2>3. ASSUME NEW v \in Tasks, Cover(v) PROVE Covered'
    <3>1. CASE v = t
      BY <2>1, <2>3, <3>1 DEF Over, Covered
    <3>2. CASE v # t
      <4>1. conn'.owner = v /\ call'[v] = call[v]
        BY <2>1, <2>3, <3>2 DEF Over, Others1
      <4>. QED BY <2>3, <4>1 DEF Covered
    <3>. QED BY <3>1, <3>2
  <2>. QED BY <2>2, <2>3 DEF Covered
<1>2. ASSUME NEW t \in Tasks, Acts(t), Going(t) PROVE Covered'
  <2>1. CASE conn.autocommit
    BY <1>2, <2>1, AutocommitGoes DEF Covered
  <2>2. ASSUME NEW v \in Tasks, Cover(v) PROVE Covered'
    <3>1. CASE v = t
      <4>1. Active(t) /\ call[t].planned
        BY <1>0, <2>2, <3>1
      <4>2. conn'.owner = conn.owner /\ call'[t].planned /\ call'[t].transactional
        <5>1. call'[t].planned /\ call'[t].transactional /\ (pc'[t] \in Holding => conn'.owner = conn.owner)
          BY <1>2, <2>2, <3>1, <4>1, AutocommitGoes
        <5>2. pc'[t] \in Holding
          BY <1>2, <5>1, BasicKept, GoingSame, PlannedHoldsNext
        <5>. QED BY <5>1, <5>2
      <4>. QED BY <2>2, <3>1, <4>2 DEF Covered
    <3>2. CASE v # t
      <4>1. conn'.owner = conn.owner /\ call'[v] = call[v]
        BY <1>0, <1>2, <2>2, <3>2, Aside, GoingSame DEF Others1
      <4>. QED BY <2>2, <4>1 DEF Covered
    <3>. QED BY <3>1, <3>2
  <2>. QED BY <2>1, <2>2 DEF Covered
<1>3. ASSUME NEW t \in Tasks, NEW kind, Comes(t, kind) PROVE Covered'
  <2>1. CASE conn.autocommit
    BY <1>3, <2>1, ComesHow DEF Covered
  <2>2. ASSUME NEW v \in Tasks, Cover(v) PROVE Covered'
    <3>1. v # t /\ call'[v] = call[v]
      BY <1>0, <1>3, <2>2, ComesHow DEF Active, Others1
    <3>2. conn'.owner = conn.owner
      BY <1>3, <2>2, State DEF Comes, Refused, Starts
    <3>. QED BY <2>2, <3>1, <3>2 DEF Covered
  <2>. QED BY <2>1, <2>2 DEF Covered
<1>4. ASSUME UNCHANGED <<conn, call>> PROVE Covered'
  BY <1>4 DEF Covered
<1>. QED BY <1>1, <1>2, <1>3, <1>4, Steps DEF Acts, vars, Works1

-----------------------------------------------------------------------------
(* A load that nobody put into a transaction is stored when it is answered. *)

LEMMA AloneIs ==
  ASSUME LoadsAlone, NEW u \in Tasks, Alone(u)
  PROVE  /\ NoBegin /\ Covered
         /\ call[u].planned /\ ~call[u].transactional => Only(call[u].todo, "insert")
         /\ Answers(u) /\ Now(u) = "insert" /\ ~call[u].transactional
            /\ OnWire("ready") /\ ~OnWire("error") /\ ~call[u].err => Complete(call[u].id) \in table.rows
BY DEF LoadsAlone, Alone, Covered

\* Whoever sees that autocommit is off has turned it off.
LEMMA CoveredOff ==
  ASSUME Basic, Covered, NoBegin, NoTransaction, NEW u \in Tasks, conn.owner \in {u, NoTask},
         ~(call[u].planned /\ call[u].transactional)
  PROVE  conn.autocommit /\ ~conn.in_transaction /\ srv.txn = "none"
<1>1. conn.autocommit
  BY State DEF Covered
<1>. QED BY <1>1 DEF NoTransaction

LEMMA PlansAlone ==
  ASSUME Basic, Basic', [Next]_vars, NoTransaction, LoadsAlone, NEW u \in Tasks, Alone(u), Alone(u)',
         call'[u].planned, ~call'[u].transactional
  PROVE  Only(call'[u].todo, "insert")
<1>0. pc'[u] \in Holding
  BY PlannedHoldsNext DEF Alone, Active
<1>1. NoBegin /\ Covered /\ (call[u].planned /\ ~call[u].transactional => Only(call[u].todo, "insert"))
  BY AloneIs
<1>2. ASSUME call'[u].planned = call[u].planned, call'[u].transactional = call[u].transactional,
             call'[u].todo = call[u].todo
      PROVE  Only(call'[u].todo, "insert")
  BY <1>1, <1>2
<1>3. ASSUME Plans(u), conn.owner \in {u, NoTask} PROVE Only(call'[u].todo, "insert")
  <2>1. ~call[u].planned
    BY <1>3 DEF Plans
  <2>2. conn.autocommit /\ ~conn.in_transaction
    BY <1>1, <1>3, <2>1, CoveredOff
  <2>. QED BY <1>3, <2>2 DEF Plans
<1>4. CASE Acts(u) /\ Going(u)
  <2>1. CASE Reading(u) \/ Waits(u)
    BY <1>2, <2>1 DEF Reading, Waits, SameWork, SameStatement
  <2>2. CASE Transmits(u)
    BY <1>2, <2>2 DEF Transmits
  <2>3. CASE CollectPlans(u)
    BY <1>3, <2>3 DEF CollectPlans
  <2>4. CASE NextStatement(u)
    <3>1. call[u].planned /\ ~call[u].transactional
      BY <2>4 DEF NextStatement
    <3>2. Len(call[u].todo) = 1
      BY <1>1, <3>1 DEF Only
    <3>. QED BY <2>4, <3>2, NextIsSecond
  <2>5. ~Unwinds(u)
    BY DEF Unwinds
  <2>6. CASE ReadyPlans(u)
    <3>1. conn.owner = u
      BY <2>6, Holds DEF ReadyPlans, Ready, Holding
    <3>. QED BY <1>3, <2>6, <3>1 DEF ReadyPlans
  <2>7. ~Collects(u)
    <3>1. SUFFICES ASSUME Collects(u) PROVE FALSE
      OBVIOUS
    <3>2. Active(u) /\ call[u].planned /\ Now(u) = "catalog"
      BY <3>1 DEF Collects, Ready, Active
    <3>3. CallOK(call[u]) /\ call[u].todo # <<>>
      BY <3>2, PlannedHolds
    <3>. QED BY <3>2, <3>3, NowKnown DEF Now
  <2>. QED BY <1>4, <2>1, <2>2, <2>3, <2>4, <2>5, <2>6, <2>7, Kinds, PassingOnly
<1>5. ASSUME NEW kind, Starts(u, kind) PROVE FALSE
  BY <1>5 DEF Starts
<1>6. CASE Aloof(u)
  BY <1>2, <1>6 DEF Aloof
<1>. QED BY <1>0, <1>4, <1>5, <1>6, Fates

LEMMA InsertsAlone ==
  ASSUME Basic, Basic', [Next]_vars, FramedOwn, OwnRows, NoTransaction, LoadsAlone,
         NEW u \in Tasks, Alone(u), Answers(u)', Now(u)' = "insert", ~call'[u].transactional,
         OnWire("ready")', ~OnWire("error")', ~call'[u].err
  PROVE  Complete(call'[u].id) \in table'.rows
<1>0. pc'[u] \in Holding
  BY DEF Answers, Reads, Readers, Holding
<1>1. CASE Acts(u) /\ Going(u)
  <2>1. Answers(u)
    <3>1. CASE Transmits(u)
      <4>1. wire' = <<>>
        BY <3>1, Holds DEF Transmits, Holding
      <4>2. ~OnWire("ready")'
        BY <4>1 DEF OnWire
      <4>. QED BY <4>2
    <3>. QED BY <1>1, <3>1, AnswersAnew
  <2>2. Reading(u)
    <3>1. ~Passing(u) /\ ~Waits(u) /\ ~Transmits(u) /\ ~CollectPlans(u)
      BY <2>1 DEF Passing, Waits, Transmits, CollectPlans, Answers, Reads, Readers
    <3>. QED BY <1>1, <3>1, Kinds
  <2>3. ~OnWire("error") /\ ~call[u].err
    BY <1>1, <2>1, ErrorSeen
  <2>4. /\ OnWire("ready") /\ Now(u) = "insert" /\ call'[u].id = call[u].id
        /\ call'[u].transactional = call[u].transactional
    BY <2>2, WireMovesOn DEF Reading, SameWork, SameStatement, Now
  <2>. QED BY <1>1, <2>1, <2>3, <2>4, AloneIs DEF Acts
<1>2. ASSUME NEW kind, Starts(u, kind) PROVE FALSE
  BY <1>2, State DEF Starts, Answers, Reads, Readers
<1>3. CASE Aloof(u)
  <2>0. Answers(u) /\ Now(u) = "insert" /\ call'[u] = call[u] /\ pc[u] \in Holding /\ Active(u)
    BY <1>3 DEF Aloof
  <2>1. ASSUME table' = table, \A m : OnWire(m) <=> OnWire(m)' PROVE Complete(call'[u].id) \in table'.rows
    <3>1. OnWire("ready") /\ ~OnWire("error")
      BY <2>1
    <3>. QED BY <2>0, <2>1, <3>1, AloneIs
  <2>2. CASE UNCHANGED <<srv, wire, work, table>>
    BY <2>1, <2>2 DEF OnWire
  <2>3. CASE Works1
    <3>1. CASE Done1
      <4>1. srv.what = "insert" /\ srv.of = call[u].id
        BY <2>0, <3>1 DEF Done1, Settled, Basic, Matches
      <4>2. srv.st = "end" /\ Brings(Stored)
        BY <3>1, <4>1 DEF Done1, Leaves1
      <4>3. Stored = Complete(srv.of)
        BY <4>2, StoredIs
      <4>4. srv.txn = "none"
        <5>1. conn.owner = u /\ ~call[u].transactional
          BY <2>0, Holds
        <5>. QED BY <5>1, AloneIs, CoveredOff
      <4>. QED BY <2>0, <3>1, <4>1, <4>2, <4>3, <4>4 DEF Brings, Done1
    <3>2. ~Failed1
      BY DEF Failed1
    <3>3. ~Turned
      BY <2>0 DEF Turned, Settled, Basic, Matches, Turns
    <3>4. ~Waiting
      <4>1. srv'.what = "none"
        BY DEF Basic, Serves, OnWire
      <4>. QED BY <4>1 DEF Waiting
    <3>5. CASE Dies
      <4>1. table' = table
        BY <3>5 DEF Dies
      <4>2. \A m : OnWire(m) <=> OnWire(m)'
        BY <3>5, DiesWhole
      <4>. QED BY <2>1, <4>1, <4>2
    <3>. QED BY <2>3, <3>1, <3>2, <3>3, <3>4, <3>5, ServerKinds DEF Works1
  <2>. QED BY <1>3, <2>2, <2>3 DEF Aloof
<1>. QED BY <1>0, <1>1, <1>2, <1>3, Fates

LEMMA LoadsAloneKept ==
  ASSUME Basic, Basic', [Next]_vars, FramedOwn, OwnRows, NoTransaction, LoadsAlone, ~conn'.closed
  PROVE  LoadsAlone'
<1>1. SUFFICES ASSUME NEW u \in Tasks, Alone(u)'
               PROVE  /\ NoBegin' /\ Covered'
                      /\ call'[u].planned /\ ~call'[u].transactional => Only(call'[u].todo, "insert")
                      /\ Answers(u)' /\ Now(u)' = "insert" /\ ~call'[u].transactional
                         /\ OnWire("ready")' /\ ~OnWire("error")' /\ ~call'[u].err
                           => Complete(call'[u].id) \in table'.rows
  BY DEF LoadsAlone, Alone, Covered
<1>2. CASE Alone(u)
  <2>1. NoBegin'
    BY <1>2, AloneIs, NoBeginLasts DEF Alone
  <2>2. Covered'
    BY <1>2, AloneIs, CoveredKept
  <2>3. call'[u].planned /\ ~call'[u].transactional => Only(call'[u].todo, "insert")
    BY <1>1, <1>2, PlansAlone
  <2>4. Answers(u)' /\ Now(u)' = "insert" /\ ~call'[u].transactional
        /\ OnWire("ready")' /\ ~OnWire("error")' /\ ~call'[u].err
          => Complete(call'[u].id) \in table'.rows
    BY <1>2, InsertsAlone
  <2>. QED BY <2>1, <2>2, <2>3, <2>4
<1>3. CASE Comes(u, "load") /\ Starts(u, "load") /\ conn.autocommit /\ ~appTxn
  <2>1. NoBegin'
    BY <1>3, NoBeginStarts
  <2>2. Covered'
    BY <1>3, CoveredKept DEF Covered
  <2>3. ~call'[u].planned /\ ~Answers(u)'
    BY <1>3, State DEF Starts, Answers, Reads, Readers
  <2>. QED BY <2>1, <2>2, <2>3
<1>. QED BY <1>1, <1>2, <1>3, AloneBefore

LEMMA OwnIfCleanKept ==
  ASSUME Basic, Basic', [Next]_vars, FramedOwn, Stores, OwnIfClean PROVE OwnIfClean'
<1>1. SUFFICES ASSUME Clean', ~conn'.closed PROVE Own'
  BY DEF OwnIfClean
<1>2. Clean /\ ~conn.closed
  BY <1>1, TrustLasts, ClosedStays
<1>3. Own /\ Plain /\ Careful
  BY <1>2 DEF OwnIfClean, Stores, Trusted
<1>4. LeftBegin'
  BY <1>1, <1>3, LeftBeginKept DEF Own
<1>5. NoTransaction'
  BY <1>1, <1>3, NoTransactionKept DEF Own
<1>6. BegunUnread'
  BY <1>1, <1>3, BegunUnreadKept DEF Own, Plain
<1>7. ManualBegin'
  BY <1>1, <1>3, ManualBeginKept DEF Own
<1>8. LoadsAlone'
  BY <1>1, <1>3, LoadsAloneKept DEF Own, Careful
<1>. QED BY <1>4, <1>5, <1>6, <1>7, <1>8 DEF Own

LEMMA OwnStarts ==
  ASSUME Init PROVE OwnIfClean
<1>1. (\A t \in Tasks : pc[t] = "idle") /\ ~conn.in_transaction /\ srv.txn = "none" /\ srv.what = "none"
  BY DEF Init, Idle
<1>. QED
  BY <1>1 DEF OwnIfClean, Own, LeftBegin, NoTransaction, BegunUnread, ManualBegin, LoadsAlone, Active

\* What was stored stays.
LEMMA TableGrows ==
  ASSUME Basic, [Next]_vars PROVE table.rows \subseteq table'.rows
<1>1. table.rows \subseteq work.rows /\ (srv.txn = "none" => work = table)
  BY DEF Basic, Tables
<1>2. CASE Works1
  <2>1. CASE Done1
    <3>1. work.rows \subseteq work'.rows
      BY <2>1 DEF Done1, Leaves1, Brings
    <3>. QED BY <1>1, <2>1, <3>1 DEF Done1
  <2>2. CASE Turned
    BY <1>1, <2>2 DEF Turned
  <2>3. CASE Failed1 \/ Waiting \/ Dies
    BY <2>3 DEF Failed1, Waiting, Dies
  <2>. QED BY <1>2, <2>1, <2>2, <2>3, ServerKinds DEF Works1
<1>3. CASE table' = table
  BY <1>3
<1>. QED BY <1>2, <1>3, Steps DEF vars, Acts, Comes

\* Who reports a load as stored
LEMMA StoredBy ==
  ASSUME Basic, [Next]_vars, NEW k \in 1 .. calls', outcome'[k] = "stored"
  PROVE  \/ k \in 1 .. calls /\ outcome[k] = "stored"
         \/ \E t \in Tasks : /\ Ready(t) /\ k = call[t].id /\ call[t].kind = "load" /\ call[t].alone
                             /\ Len(call[t].todo) = 1 /\ Now(t) # "catalog" /\ ~call[t].unwinding /\ ~call[t].err
                             /\ Clean
<1>0. k \in Nat /\ calls \in Nat /\ calls' \in Nat
  BY Histories, State
<1>5. k \in 1 .. MaxCalls
  <2>1. calls' \in 0 .. MaxCalls
    BY BasicKept DEF Basic, Shape, Types
  <2>. QED BY <1>0, <2>1, LoadDataAssumption
<1>1. ASSUME outcome'[k] = outcome[k] PROVE k \in 1 .. calls /\ outcome[k] = "stored"
  <2>1. ~(k > calls)
    BY <1>1, <1>5 DEF Basic, Shape, CallsOK
  <2>. QED BY <1>0, <1>1, <2>1
<1>2. ASSUME NEW t \in Tasks, Acts(t), Ending(t), outcome'[k] # outcome[k]
      PROVE /\ Ready(t) /\ k = call[t].id /\ call[t].kind = "load" /\ call[t].alone
            /\ Len(call[t].todo) = 1 /\ Now(t) # "catalog" /\ ~call[t].unwinding /\ ~call[t].err
            /\ Clean
  <2>1. ASSUME NEW res, outcome' = [outcome EXCEPT ![call[t].id] = res]
        PROVE k = call[t].id /\ res = "stored"
    BY <1>2, <2>1, State
  <2>2. ~Quits(t) /\ ~BreaksOff(t) /\ ~Stumbles(t)
    BY <2>1 DEF Quits, BreaksOff, Stumbles, Leaves
  <2>3. PICK res \in {"failed", "ok", "stored"} :
          /\ Ready(t) /\ Leaves(t, res)
          /\ call[t].err => res = "failed"
          /\ res # "failed" => Len(call[t].todo) = 1 /\ Now(t) # "catalog" /\ ~call[t].unwinding
          /\ res = "stored" => /\ call[t].kind = "load" /\ call[t].alone
                               /\ \A j \in 1 .. calls : outcome[j] # "cancelled"
    BY <1>2, <2>2 DEF Ending, Finishes
  <2>4. k = call[t].id /\ res = "stored"
    BY <2>1, <2>3 DEF Leaves
  <2>. QED BY <2>3, <2>4 DEF Clean
<1>3. ASSUME NEW t \in Tasks, Acts(t), Going(t) PROVE outcome' = outcome
  BY <1>3, Kinds DEF Reading, Passing, Waits, Transmits, CollectPlans, Plans, Sends, SameEnds, Moves
<1>4. ASSUME NEW t \in Tasks, NEW kind, Comes(t, kind) PROVE outcome'[k] = outcome[k]
  <2>1. CASE Starts(t, kind)
    BY <2>1 DEF Starts
  <2>2. CASE Refused(t, kind)
    <3>1. PICK res \in {"ok", "refused"} : outcome' = [outcome EXCEPT ![calls + 1] = res]
      BY <2>2 DEF Refused
    <3>2. k # calls + 1
      BY <1>5, <3>1, State
    <3>. QED BY <1>5, <3>1, <3>2, State
  <2>. QED BY <1>4, <2>1, <2>2 DEF Comes
<1>. QED BY <1>1, <1>2, <1>3, <1>4, Steps DEF vars, Works1, Acts

LEMMA StoredTruly ==
  ASSUME Basic, FramedOwn, Stores, OwnIfClean, Clean, NEW t \in Tasks, Ready(t),
         call[t].kind = "load", call[t].alone, Len(call[t].todo) = 1, Now(t) # "catalog",
         ~call[t].unwinding, ~call[t].err
  PROVE  Complete(call[t].id) \in table.rows
<1>1. Active(t) /\ Answers(t) /\ ~conn.closed /\ wire # <<>> /\ wire[1] = "ready"
  BY DEF Ready, Active, Answers, Reads, Readers
<1>2. LoadsAlone /\ Commits
  BY <1>1 DEF OwnIfClean, Own, Stores, Trusted, Careful
<1>3. OnWire("ready") /\ ~OnWire("error")
  <2>1. 1 \in 1 .. Len(wire)
    BY <1>1, FirstOf
  <2>. QED BY <1>1, <2>1, LastReady DEF OnWire
<1>4. CallOK(call[t]) /\ call[t].todo # <<>>
  BY <1>1, Holds, IdsOK DEF Ready, Holding
<1>5. Now(t) = call[t].todo[1]
  BY <1>4, HeadOf DEF Now
<1>6. call[t].planned
  <2>1. LoadTodo(call[t])
    BY <1>4 DEF CallOK, TodoOK
  <2>. QED BY <1>4, <1>5, <2>1 DEF LoadTodo
<1>7. Now(t) = IF call[t].transactional THEN "commit" ELSE "insert"
  BY <1>4, <1>5, <1>6 DEF CallOK, TodoOK, LoadTodo
<1>8. CASE call[t].transactional
  BY <1>1, <1>2, <1>3, <1>6, <1>7, <1>8 DEF Commits
<1>9. CASE ~call[t].transactional
  BY <1>1, <1>2, <1>3, <1>7, <1>9 DEF LoadsAlone
<1>. QED BY <1>8, <1>9

\* A load that began with autocommit on and outside a transaction, and was reported as
\* done before any call was cancelled, is stored with all its rows and stays stored,
\* whatever fails or is cancelled besides (core.py, load_data; docs/load_data.md,
\* "Transactions").
THEOREM ReportsAreTrue == Spec => []ReportedLoadIsStored
<1>. DEFINE Inv == Basic /\ FramedOwn /\ Stores /\ OwnIfClean /\ ReportedLoadIsStored
<1>1. Init => Inv
  <2>1. Init => ReportedLoadIsStored
    BY DEF Init, ReportedLoadIsStored
  <2>. QED BY <2>1, BasicStarts, StoresStarts, OwnStarts
<1>2. Inv /\ [Next]_vars => Inv'
  <2>1. SUFFICES ASSUME Inv, [Next]_vars PROVE Inv'
    OBVIOUS
  <2>2. Basic' /\ FramedOwn' /\ Stores' /\ OwnIfClean'
    BY <2>1, BasicKept, StoresKept, OwnIfCleanKept
  <2>3. ASSUME NEW k \in 1 .. calls', outcome'[k] = "stored" PROVE Complete(k) \in table'.rows
    <3>1. Complete(k) \in table.rows
      BY <2>1, <2>3, StoredBy, StoredTruly DEF ReportedLoadIsStored
    <3>. QED BY <2>1, <3>1, TableGrows
  <2>. QED BY <2>2, <2>3 DEF ReportedLoadIsStored
<1>. QED
  <2>. HIDE DEF Inv
  <2>1. Inv => ReportedLoadIsStored
    BY DEF Inv
  <2>. QED BY <1>1, <1>2, <2>1, PTL DEF Spec

=============================================================================
