# nzpy_extended: formal models

TLA+ models of `nzpy_extended`, a Python driver for Netezza: an asyncio
connection, cursors over it, two connection pools and a synchronous facade. TLC
checks the models on small instances; TLAPS proves the main facts about both pools,
the connection, the cursors, the handshake, the receive buffers and the runner for
every size.

Paths without a directory are in `src/nzpy_extended/`.

## 1. The system

| Component | State | Operations | Hard because of | Module |
|---|---|---|---|---|
| `NzPool` (pool.py) | idle queue, reserved and lent connections, `_created`, `_closed`, a condition | `acquire`, `release`, `connection`, `open`, `close_all`, `_background_maintain` | tasks suspended in connects, pings and rollbacks while others change the books; cancellation at each | `NzPool` |
| `SyncPool` (pool.py) | the same, with a lock and a semaphore beside `_created` | the same, `_maintain_loop` thread | threads between any two lock blocks; two counters for one resource | `SyncPool` |
| `NullPool`, `AsyncNullPool` (pool.py) | loans only | `acquire`, `release`, `close_all` | little | none |
| `Connection` (core.py), reader (_protocol.py) | transaction flags, `_dirty_socket`, `_frame_in_progress`, `command_generation`, active generator | `_execute`, `commit`, `rollback`, `cancel`, `close`, the drain | responses abandoned in the middle, late cancel requests, a backend that dies | `Session` |
| `Cursor` (cursor.py) | cached rows, generator, `_discarded`, the deferred error on the connection | `execute`, `fetchone/many/all`, `nextset`, `close` | each method stops at another message; cursors take the connection from one another | `ResultSets` |
| Stream (buffered_stream.py, buffer_pool.py), its reader in _protocol.py | receive buffer with head and tail, `partial_read`, the free list of buffers | `read`, `read_view`, `read_view_sync`, native batches, `close` | bytes received and not yet counted, views into a buffer that may change hands, descriptors that are used again | `BufferedStream` |
| External tables, bulk load (_extab.py, core.py `load_data`) | row source, failure, `autocommit` for the duration | import, export, log transfer, `load_data` | failures in the middle of a stream, a transaction around several statements | `LoadData` |
| Bulk text (_bulk.py) | none | escaping, NULL marker, column sizes | characters and digits at the boundary | `BulkRows` |
| Handshake (handshake.py, _handshake_plan.py, core.py `connect`) | version, TLS, step; the socket a worker thread uses | `startup`, setup statements, `on_connect` | downgrades, refusals, a thread that cannot be cancelled | `Handshake` |
| Runner and sync facade (_runner.py, sync.py) | background loop and its thread, lock | `run`, restart, `close`, `transaction()` | threads that stop and restart each other's loop, interrupts while the coroutine goes on | `Runner` |
| SQL text, literals, row decoding (utils.py, _serializers.py, _dbos.py) | none | pure functions | boundaries | none |
| Catalogue, DDL, CSV header, FastAPI helper, Rust twin, docs and tests | none | text and wrappers | none | none |

How they interact: a pool opens connections and lends them; borrowers run
cursors on them; a cursor calls `Connection._execute`, which owns the socket
through a single active generator; a timeout in the cursor cancels the read,
asks the backend to cancel over a second socket and retires the connection when
a message was cut. `release()` looks at the connection's `in_transaction`,
`_closed` and active cursor, so the pools rely on what `Session` says of these:
`TransactionTracked` is what makes `IdleIsClean` of the pools mean something.
`connect()` runs the handshake in a worker thread and its setup statements in the
task. `load_data()` gives the connection a row source; the backend asks for it by
name in the middle of an INSERT, and the reader answers with `_extab.py`. All
readers sit on `NzBufferedStream`, whose buffer comes from a pool that all
connections share. The facade hands the coroutines of all threads to one loop in a
thread of its own and waits.

What makes each component correct:

* pools: slots are counted exactly, a connection has one owner, what is idle is
  clean, whoever frees a slot wakes a waiter, `close_all()` ends everything;
* connection: a statement reads its own messages only, a cancel strikes its own
  statement, the client knows the transaction's state, every call ends;
* cursors: every row once and in order, a loss is never mistaken for the end;
* stream: bytes are handed out in order, whoever owned the buffer before; a read
  that is cut inside a message is noticed, and its connection is not used again;
* loads: a load is all or nothing for other sessions, and "done" means stored; the
  backend reads back the rows it was sent;
* handshake: no secret in the clear where TLS is required, both sides agree when
  the connection is handed over, nothing stays open when it is not;
* facade: a coroutine runs once, a call comes back, an interrupted one lets go of
  its connection, `transaction()` leaves nothing open.

## 2. Modules

`PoolSpec` is the abstract loan book both pools promise: who holds what, and
whether the pool is open. Nothing in it says how connections are kept.

`NzPool` models class `NzPool`. A step is the code between two points at which a
task really suspends (connect, ping, rollback, `Condition.wait`, sleep);
`_notify`, `_drop_owned` and `close_all` never suspend and belong to the step
that calls them. `pc[t]` is where a task is suspended, `conn[t]` what it has in
hand. The loops of `acquire()`, `_fill_idle()` and `_sweep_idle()` are the
operators `AcquireLoop`, `FillLoop` and `SweepLoop`, which take the books as they
stand and continue up to the next suspension. `sock`, `tx` and `rows` are the
three things about a connection that `release()` asks. A borrower (`Use`) may
leave any combination of them. `_is_reusable()` knows of a read that was cut only
by `partial_read`: a connection whose reader stopped within a header or a payload is
"cut", one whose reader stopped between the two is "midframe", and passes (`Usable`).
`ConnectLost` is a connect that fails or is cancelled: before the handshake is through
nothing is left of it, later an open socket may be ("left") until the garbage
collector finds it (`Collected`). A closed connection that nobody refers to may be
born again under the same identity, as `id()` may be reused.

`SyncPool` models class `SyncPool` in smaller steps: one block under `_lock`, one
operation on `_sem`, or one I/O call. Connections doomed by `close_all()` are
closed one at a time outside the lock.

`Session` is one connection with its backend and the network between them.
`Execute`, `Commit`, `Rollback`, `Fetch` begin calls; `Prepare`, `Drain`,
`Start`, `Submit`, `Written`, `ReadMessage`, `Return` and `Raise` follow
`Cursor.execute` and `Connection._execute`; `Timeout`, `TaskCancel`,
`SendCancel`, `Retire`, `Eof`, `FindClosed` are the interruptions;
`ManualCancel` and `Close` come from other tasks, which need no permission. A
message is a tag and the generation of the statement it answers, which the
driver cannot see and the properties can. A read that is cut within a message
leaves "debris" in its place. The backend is external: it takes one request at a
time, and a cancel request strikes whatever it is working on.

`ResultSets` has the cursors of a connection and responses of several result
sets, message by message, after they have arrived. `WellFormed` says what a backend
forms: columns behind a description, rows behind some description, ReadyForQuery
last and only there. The history variables `told`,
`over`, `manner` and `out` are what the application knows; `lost` and `asked`
what really happened.

`LoadSpec` is what a table shows to other sessions: whole loads, each once, or none
of it. `LoadData` is one connection with tasks that call `load_data()`, statements,
COPY, unloads and transaction statements, `_operation()` that lets only one of them
in, the reader's external-table frames, `_drain_socket()` and the backend with its
transaction. Frames are in full: a message the reader takes for a header while it
is inside a frame sets `misread`. `Plan` is the order of statements of a load
(catalogue, CREATE, INSERT, COMMIT); `Hello`, `SendBatch`, `SendDone`,
`StreamFails` are `xferTable()`, `Unload` is `receiveAndWriteDatatoExternal()`,
`LogFile` `getFileFromBE()`. A batch of rows stands for what one step of the source
yields.

`BulkRows` has the text of a load and the sizes of NUMERIC columns as operators:
`Render` with `Escaped` and the NULL marker, against `Parsed`, the backend's reading
of it; `InferredFromDecimals` and `InferredFromTexts` against `Fits`, the
conversion that refuses a value. `given` is what a load is given; it never changes.

`Handshake` is `connect()`: the worker thread with `SyncHandshake` (one action per
blocking call; `Reply` dispatches to an operator named after the method), the task
that waits for it, sends three setup statements and calls `on_connect`, and a
server that follows the protocol but may refuse, offer TLS or not, downgrade, fall
silent or go at any point. `wrap_socket()` takes the descriptor away from the
socket object that `connect()` knows: `sock.held`.

`BufferedStream` has the readers of two connections on one loop, byte by byte. A
read is `Serve` (what the buffer holds), `FillNow` (bytes are there), or `Park`,
`Arrive`, `Resume`: the loop receives the bytes in one iteration and the task
counts them in a later one, and in between it may be cancelled or its connection
closed. `ReadAhead` is the header that is read after a row, before the reader
yields; `Decode` is the native decoder, which takes one row after the other that is
complete in the buffer. What a backend sends is given by `Place`, where each message
begins. `Open` takes the buffer that was pooled last and the lowest descriptor;
`dead` is the loop's entry of a descriptor that was closed under a waiting reader.
`Timeout` is the cursor's own: the read is cancelled, the task sends its cancel request
("late"), and `Retire` closes the connection by either flag (`Noticed`), or keeps it
("kept"). `Cancel` comes from without, also while that request is under way, and nobody
looks at the connection then ("cut").
`overtaken` is history: an interruption took along bytes that had been received.

`Runner` has the threads that call through the facade, one connection each, and all
event loops there have been; the last is `runner._loop`. `Check`, `Restart`, `Join`,
`Submit`, `Again`, `Return` and `Refused` are `run()` and the `close()` within it,
between two points where another thread may come in; `CloserStops` and
`CloserCloses` are `close()` from outside, which takes no lock. A loop executes one
ready callback per `Turn`, in order: `Starts` makes the task, `Steps` is a step of
it, `Cancels` its cancellation, which takes `Hops` callbacks through
`asyncio.wait_for`. Of the connection there is the guard of `_operation()`, the
transaction and whether a read was cut. `Interrupt` is a KeyboardInterrupt in the
main thread while it waits. `spoilt` is history: the rollback of `transaction()` had
no chance, as the loop was stopped, or as the statement before it needs more than
one callback to end.

`MC*` modules hold the instances. `MCLoadData` adds to the scenes of `LoadData` one
in which no task does anything and `given` is any input of `BulkRows`. Definitions
marked "mutant" are plausible bugs of the definition below them; nothing refers to
them. They are there to show that the property in question would notice: with the
mutant in place of the definition, the run fails. `*Proofs` modules hold the theorems
of section 4.

## 3. Runs

| Run | Instance | Shows |
|---|---|---|
| `nzpool` | 3 tasks, 2 connections, min 1, max 2, 1 use | exact slots, one owner, clean idle connections, notifications lost only with the waiter that got them, refinement of `PoolSpec`; `close_all()` ends every operation and closes every connection the pool had |
| `syncpool` | 2 threads and the sweep, 2 connections, min 1, max 2, 1 use | slots and semaphore in step, one owner, clean, no orphaned socket, refinement of `PoolSpec`; a poller is served without its deadline |
| `session` | 3 statements, 1 manual cancel, autocommit off, everything may fail | own messages, cancel on target, transaction tracked, every call ends |
| `session_lost_commit` | 5 statements, autocommit on | fails: see section 5 |
| `results` | 2 cursors, 2 statements, 4 shapes of response, all methods in any order | no row twice, losses are loud, `fetchall()` complete |
| `results_update` | 2 cursors, 3 statements | fails: see section 5 |
| `load_data` | 1 task and 3 calls, cancelled anywhere but at the end of a transaction; 2 tasks and 2 calls; sources of 2 batches, 5 kinds of load; and 17,000 inputs of rows and numbers | frames and headers stay apart, what was reported as loaded is stored, refinement of `LoadSpec`, every call ends; rows survive the text, sized columns take their values |
| `handshake` | 6 ways to call `connect()`, 2 messages before ReadyForQuery | no secret in the clear, agreement, failures have a cause, no socket left |
| `buffered_stream` | 2 connections, 2 buffers of 3 bytes, 1 pooled, rows of 0, 1 and 4 bytes, timeouts and cancellations | rows in order, one owner per buffer, timed-out connections end or stand at a message, every result ends |
| `stream_lost_bytes` | the same | fails: see section 5 |
| `runner` | a `transaction()` block of one thread, interrupted or over a `close()`; two threads with a call each, with a `close()` or an interrupt | no coroutine runs twice, calls come back, interrupted ones let go, blocks leave nothing open |
| `runner_rollback` | one block, one interrupt | fails: see section 5 |

Bounds. Three tasks on two slots are the least at which one task sleeps, one
holds a connection and one passes between them, with the sweep as a fourth. A
connection that is closed is replaced and born again under its identity, so two
identities are enough. With `MaxUses` 1 every connection is lent once, goes back to
the queue, and is retired when it is looked at again; what is proved of the pools
(section 4) is so for every number of uses. Two threads are
inside `SyncPool` at once, and the sweep makes one of them poll. Three statements
are a begin, the query that is interrupted and the commit, rollback or query
that meets what was left. Two statements of two result sets each make a cursor
take the connection from another in every state the latter can be in; the
responses have a bad row in the first and in the last set, an empty set, an
update in between, and an error after rows.

In `load_data` two batches make a source that fails before, between and after them;
three calls are a load that goes wrong, what its caller does then, and a load that
meets what was left. Two tasks are enough for one to be refused by `_operation()`.
Rows have up to two fields of two characters out of six, which has every pair of
special characters side by side; numbers have two digits on either side of the
point. In `handshake` every combination of `securityLevel` and fallback that
differs is there, and the version falls step by step or at once. A buffer of three
bytes holds a header of two and a row of one, so that messages straddle it, an empty
row may lie in it whole, behind the end of the other, and a payload of four does not fit;
bytes come one at a time or as many as there is room for. With one place in the
buffer pool and two connections a buffer is handed over, and another thrown away.
In `runner` a block is begin, a statement, and commit or rollback. One `close()` is
enough for a thread to find the loop gone before it submits, and, with a second
thread that restarts the new loop before it runs, for a call to be refused twice.

What the constants fix. `NotifyOnCancel` is FALSE: `asyncio.Condition` does not pass a
notification on if the notified waiter is cancelled, as in CPython 3.11 and 3.12, the
oldest the package supports. `WakeupsReachWaiters` names that step as the only one which
may lose a notification (section 5); with TRUE (CPython 3.13) it says that none does.
`ForgetsReference` is TRUE: a
borrower does not release twice; with FALSE `ExclusiveOwnership` fails (section
5). `ManualCommit` is FALSE in `SyncPool`: with autocommit off the validation ping
begins a transaction and `IdleIsClean` fails. `Autocommit` of `Session` is off in
the run that must pass, which is the harder mode: an `execute()` then is two
statements. `FrameFaults` of `LoadData` is FALSE: with TRUE a task is also cancelled
inside a frame and a disk fills up while an unload is written, and
`HeadersAreHeaders` fails (section 5). `Hops` of `Runner` is 3, as in CPython 3.11.

Fairness. The event loop and the threads run what is ready; I/O ends in an
answer or an error, the cancel request of a timed-out statement included; borrowers release what they hold; the backend answers while
it is up and the drain's clock ticks. No timeout and no cancellation is ever
assumed to happen, so a property cannot rest on a deadline. Strong fairness is
used where a step can be taken away and offered again: the semaphore and the
5 ms poll of `SyncPool` (against the 30 s sweep), and the rollback of a borrower
that cancels `release()` and retries it, who is assumed to stop cancelling.

A reader on a socket that another task closes is the exception: neither the loop
nor the selector wakes it (section 5). `Stranded` in `NzPool`, `Session` and
`BufferedStream` is exactly this; the liveness properties excuse it and nothing
else, and a call with a timeout is not stranded. A thread inside a statement when
`SyncPool.close_all()` closes its connection waits in the same way, but holds
nothing of the pool.

In `Runner` the backend answers statements somebody waits for, and only those: that an
interrupted call lets go rests on its cancellation alone. `CallsReturn` excuses a call
whose loop was stopped or closed under it (section 5). `run()` may wait for ever
then, so the runs of `Runner` do not take an end of all steps for an error.

Conditions within properties. `Session` has a history variable `lost`, which
records three things no later step can repair: a drain dropped a message that
tells of the transaction ("outcome"); a task cancelled from outside left a
half-read message ("frame") or a cancel request under way ("cancel"). The
properties say what holds while nothing of the kind they depend on was lost.
`RowsInOrder` of the stream speaks of readers that no interruption overtook; of the
others it still says that they never hand out another connection's bytes.
`ReportedLoadIsStored` speaks of loads that were reported before any call was cancelled,
and `ImplementsLoadSpec` is checked without cancellation during COMMIT and ROLLBACK
(`Beginning` in `MCLoadData`). `InferredTypeFits` and `RowsSurvive` name
what they leave out. `FetchAllIsComplete` asks for an application that fetches each set to its end and
then calls `nextset()`.

## 4. Proofs

Each theorem is `Spec => []P`, or `Spec => P` for an action property and the
refinements, for all values of the constants the module's assumptions allow. The last
column has what a theorem assumes beyond these.

| Module | Theorem | States | Assumes |
|---|---|---|---|
| `NzPoolProofs` | `TypeCorrect` | `TypeOK` | `ForgetsReference` |
| | `OneOwner` | `ExclusiveOwnership` | `ForgetsReference` |
| | `QueueIsClean` | `IdleIsClean` | `ForgetsReference` |
| | `SlotsExact` | `SlotAccounting` | `ForgetsReference` |
| | `WakeupsKept` | `WakeupsReachWaiters` | `ForgetsReference` |
| | `Implementation` | refinement of `PoolSpec` | `ForgetsReference` |
| `SyncPoolProofs` | `OneOwner` | `ExclusiveOwnership` | |
| | `NoSocketForgotten` | `NoOrphans` | |
| | `QueueIsClean` | `IdleIsClean` | `~ManualCommit` |
| | `QueueHasNoRows` | no idle connection has rows left | |
| | `CountersExact` | `SlotAccounting` | |
| | `Implementation` | refinement of `PoolSpec` | |
| `SessionProofs` | `ReadsItsOwn` | `OwnMessagesOnly` | |
| | `ViewIsTheBackends` | `TransactionTracked` | |
| | `CancelsItsOwn` | `CancelStrikesItsStatement` | |
| `ResultSetsProofs` | `TypeCorrect` | `TypeOK` | |
| | `RowsComeInOrder` | `RowsInOrder` | |
| | `LossIsLoud` | `DiscardIsLoud` | every response shows itself, see below |
| | `ValueErrorsReported` | `ValueErrorsAreExact` | |
| | `FetchAllGivesTheSet` | `FetchAllIsComplete` | |
| `HandshakeProofs` | `SecretsStayInTls` | `NoSecretInClear` | |
| | `ConnectionAgrees` | `Agreement` | |
| | `FailuresHaveCauses` | `FailureHasCause` | |
| `BufferedStreamProofs` | `NoSharedBuffer` | `BuffersExclusive` | |
| | `RowsAreTheBackends` | `RowsInOrder` | |
| | `KeptWhereAMessageBegins` | `CutIsNoticed` | |
| `RunnerProofs` | `RunsOnce` | `RunsAtMostOnce` | |
| | `BlocksLeaveNothing` | `BlocksAreClosed` | |
| `LoadDataProofs` | `FramesAreRead` | `HeadersAreHeaders` | `~FrameFaults` |
| | `ReportsAreTrue` | `ReportedLoadIsStored` | |
| | `LoadsAreWhole` | refinement of `LoadSpec` | every scene is tame, see below |

None of these properties is inductive. What had to be added, and why:

*The asyncio pool.* `ExclusiveOwnership` does not say where a connection is that a
task has in hand. `Ownership` ties the place to the program counter: a task has a
connection exactly when it validates, holds or rolls back, and what is reserved is
what some task validates. `LoansBooked` adds that while the pool is open a
borrower's connection is on the books; without it, `release()` could put back a
connection another task holds. `IInv` is `TypeOK`, `Ownership` and `LoansBooked`.
Each loop operator has one lemma that any continuation it chooses keeps the books in
order, and each action one lemma that cites it. Slots have their own invariant on
top (`SlotInv`): `_created` is the size of the three books and the tasks that are
connecting, for which the lemmas count how many such tasks a step adds or removes.
So have wakeups (`WakeInv`): the waiters in the queue are distinct and asleep
(`Orderly`), and while one of them sleeps every idle connection and every free slot
has a notified task on its way (`Served`); within a step the count may be one short,
which `Served` takes as an argument. `WakeInv` has a parameter for what the waiters
were left short of: `WakeInvNext` says that every step but the one which loses a
notification keeps it at whatever it was, and `NothingLost` that at zero it is
`NoLostWakeup`. The refinement maps a task to its connection while it holds it or rolls
it back; `OnLoanBounded` gets the limit of `Lend` from the slot count.
`ForgetsReference` is necessary: connections are looked up by `id()`, so a second
`release()` by a task that kept its reference takes another task's loan away.

*The threaded pool.* Here a thread has a connection in hand at seven places, and
`close_all()` may come between any two of them. `Ownership` says that it is on the
books exactly while it is on loan from an open pool, and that a closed pool has
nothing queued. `OrphanInv` is about the time after `close_all()`: a borrower it has
overtaken may let go of its connection because that is closed or about to be. For
the counters, `Books` counts the threads at the places that own a slot, `Units` those
that have passed the semaphore; the two sets differ, which is why there are two
counters to keep in step. `QueueIsClean` needs `~ManualCommit`, since with autocommit
off the ping begins a transaction (section 5); that no rows are left needs nothing.

*The connection.* The three theorems share one invariant. At most one statement is on
its way, the last one that was sent, and ReadyForQuery is the end of what is on the
wire (`OneStatement`); unless `_dirty_socket` is set nothing is on its way (`Owed`);
a message that was cut ends the connection (`CutsEnd`); the one outcome that is on the
wire, if any, is what the connection has yet to learn of the transaction (`Tracked`);
the answer to an implicit BEGIN returns only when there is a transaction (`Begun`).
`Awaited` says that a cancel request under way is waited for by the call that sent
it. Of a history in which such a thing was lost (`lost`, section 3) the invariant
does not speak, just as the properties do not.

*The cursors.* `Base` says that the wire holds the rest of a well-formed response and
which cursor a call reads for. Onto it come four invariants. `Losses`: only the active
cursor has a generator, so whoever takes the wire from another cursor marks it.
`Ordered`: of each cursor, what was handed out, what is cached, and what is on the wire
come in this order. `Erred`: a row that could not be decoded is on the wire or is
remembered as the connection's deferred error. `Complete`: every row of the statement
is handed out, kept or on the wire (`NothingDropped`), and the cursor is in the set it
says it is in (`Place`). `ResponsesAssumption` says that the responses are well
formed. `LossIsLoud` supposes that `execute()` of every response meets a row, a
description or an error; `results_update` shows what happens with one that does not
(section 5).

*The handshake.* `exposed` remembers that a secret went in the clear; by itself that
says nothing of the next one. `SecretsInTls` adds that a worker that has come past the
negotiation of TLS (`PastTls`) with a security level that requires it is on TLS. The
only way there in plaintext is `AcceptsPlaintext`, which such a level refuses.
`Agreement` and `FailureHasCause` take both ends: client and server are in one of a
few joint states, each with at most one frame or reply under way until the server
announces itself (`InStep`), or one of them has given up (`Trouble`), which lasts and
has a cause.

*The receive buffers.* `Shape` is added: what fields a stream has, that one which
waits is reading, and that an open one has a buffer. What a reader does leaves its
stream and its buffer as they were (`Keeps`, one lemma for each operator of the
reader); only `Closes` and `Open` move a buffer, and each has a lemma of its own.

For the rows, the bytes in a buffer have to be compared with what was sent. Of every
stream `Fits` says: while its reader is at work it is `At` some message, has the rows
before it and the beginning of the part it reads, and has been handed as many bytes as
lie before that (`Stand`); what the buffer still holds, and what the loop has put there
and the task has not counted, are the bytes that come next on the wire (`Window`); a
reader that is not at work has all rows, or none, or was overtaken; and one that was cut
stands where a message begins unless one of the two flags is set, and with
`_frame_in_progress` alone at most behind a header (`StandsNear`), which is all that
`Retire` has to go by. That no other stream writes into the buffer
is `NoSharedBuffer`, so a step disturbs one stream (`StreamStep`), and each operator of
the reader has a lemma about that one. After an interruption which overtook the reader
only `OwnRows` is left: every byte it has is of its own backend, or one of the zeros of
section 5. The messages are as long as the constants say: that each lies behind the one
before (`PlacesGrow`), and that there are such places at all (`PlacesExist`), is an
induction over their number. The prover cannot instantiate the library's theorem for that,
but `NatSet` gives it for a set of naturals, from the well-foundedness of finite subsets.

*The runner.* That a coroutine runs once depends on the queues of all loops: a loop
that was stopped keeps what it was given, and a refused thread submits again. `Lone`
says that of the callbacks that run a coroutine there is one at most in all queues;
`Items`, that it fits the state of the task; `Callers`, that a call which is still to
be submitted has a coroutine nobody runs.

That a block leaves nothing open depends on the order of the queue. An interrupted call
leaves a coroutine behind (`Left`), perhaps the statement of the block, which may still
have the connection when `rollback()` is called. `Ordered` says that it goes first: its
cancellation is in the queue before the start of any later coroutine, and once it is
cancelled its last step is. So the first step of a coroutine the main thread waits for
finds the connection free (`NobodyHolds`), and the rollback is not refused. `Outcome` says
what the session has open in each state of the block. All of this (`Calm`) is about one
loop that runs and about statements that end in one callback, and holds while `spoilt` is
FALSE; that autocommit is off only within the block (`Restored`) holds in any case. A
coroutine of the main thread moves in one of seven ways (`Advance`), and what it does to
the queue is a `Shift`; `CalmKept` is the lemma for all of them, `AsideKept` for whatever
other threads do.

*The loads.* `Basic` is what the other invariants stand on: the statements a call has
still to make come in an order that `load_data()` can ask for (`Orderly`), who reads holds
the wire, the backend ends an answer with ReadyForQuery, the table of its transaction has
what others see of it, and a task that awaits an answer finds messages of the statement it
asked for (`Matches`). For the frames, the bytes on the wire are `Chained`, each one where
the one before leaves a reader, and where they begin and end is where the task and the
backend are; a task that leaves in the middle of a frame breaks that, hence `~FrameFaults`.

What is stored has to be followed through abandoned statements. A cancelled task leaves
its statement to be answered later, and the theorems say exactly what that spoils: an
abandoned COMMIT or ROLLBACK ends a transaction that the connection believes open, and an
abandoned INSERT takes the source of the next load when tasks share the connection. A scene
is `Tame` when it has neither; until a call is cancelled every scene behaves like a tame
one, and so `ReportsAreTrue`, whose property ends there, assumes nothing. `FramedOwn` is
the part of the framing that survives everything, since an answer that somebody awaits
begins on an empty wire: an error is not overlooked (`ErrorSeen`). Then `OwnRows` says that
the rows which come in are those of the statement, `Once` that nothing is stored twice,
`Inserted` that an INSERT answered without an error has stored them, `Commits` what a load
puts into its COMMIT, and `BareKnown` that a table created and still empty belongs to a load
that is under way or failed, which nobody commits. For loads outside a transaction `Own`
adds that before a cancellation a transaction with autocommit on is the application's, so
the INSERT of such a load shows at once. `Kinds`, `EndKinds` and `ServerKinds` reduce the
steps of a task, of its end and of the backend to a few kinds, and `Fates` is how a task
sees a step of anybody; each part of the invariant is kept by a lemma of its own.

Only model-checked: the liveness properties and those with fairness (the prover does
neither fairness nor ENABLED); and of `BulkRows`, `RowsSurvive` and `InferredTypeFits`,
which say what folds over texts and digits compute for every input and need an induction
over each of these definitions.

## 5. Where code and documents disagree

Four runs state what CHANGELOG.md and docs/sync_api.md say and fail on what the code
does.

* `session_lost_commit`: `_drain_socket()` drops the ErrorResponse of a statement
  that timed out inside a transaction and does not set `_transaction_failed`. The
  backend turns the COMMIT that follows into a rollback, and the driver reports
  success, although "COMMIT of such a transaction [...] now raises
  `InternalError`" (CHANGELOG.md:89).
* `results_update`: `Cursor.clear()` drains a generator that has already ended and
  thereby unsets `_active_generator` of another cursor. `_execute` then drops that
  cursor's rows without marking it; its next `fetchone()` returns None, although
  "Fetching from a cursor whose rows were discarded raises `InterfaceError`"
  (CHANGELOG.md:61).
* `stream_lost_bytes`: the loop receives the bytes of a read in one iteration and
  resumes the task in the next. A cancellation in between (`task.cancel()`,
  `asyncio.timeout()`, `wait_for()` on CPython 3.12 and later) drops up to a buffer
  of bytes that no one counted: `partial_read` and, at a header,
  `_frame_in_progress` stay False, and the connection is kept in the middle of a
  message, although "A read cancelled or timed out mid-frame now retires the
  connection" (CHANGELOG.md:281). The same is lost when the cancellation comes at the
  `sleep(0)` of _protocol.py:646, with the header that was read ahead.
* `runner_rollback`: Ctrl+C in a statement of a `transaction()` block. `run()` raises at
  once, while the task of the statement is only asked to be cancelled, which under
  `asyncio.wait_for` (a statement with a timeout) takes several turns of the loop. The
  rollback of `__exit__` comes earlier, `_operation()` refuses it, and the error is
  swallowed (sync.py:170). Autocommit is restored, the transaction stays open, and
  what follows is not committed, although `transaction()` "commits on success and
  rolls back on an exception" (docs/sync_api.md:107). Seen with CPython 3.11; without a
  timeout the rollback arrives in time unless the statement had not been started.

Met while modelling, allowed by the models and not asserted by a run:

* On CPython 3.11 and 3.12 a waiter of `NzPool.acquire()` that is cancelled or times
  out after it was notified (pool.py:317) takes the notification along, and another
  sleeps on beside an idle connection or a free slot, until its own timeout or the
  next release. pyproject.toml supports both; CPython 3.13 passes it on. The pool
  could call `_notify()` when its wait fails.
* A borrower cancelled from outside between a header and its payload leaves
  `_frame_in_progress` alone set. `_is_reusable()` looks at `partial_read`
  (core.py:811-814), so `release()` puts the connection back (pool.py:364), although
  "Pools [...] never return a closed or desynced connection to the pool on release"
  (CHANGELOG.md:286); the ping of a later checkout may or may not notice. In `NzPool`
  it is a connection that is "midframe".
* `NzPool.release()` called twice takes another task's loan off the books
  (docs/pool.md:120 promises RuntimeError).
* With autocommit off, the validation ping of `SyncPool` begins a transaction in
  the connection it is about to hand out (pool.py:335 says this must never be).
* A rollback in `SyncPool.release()` that ends the transaction and then breaks the
  connection puts a dead connection back (CHANGELOG.md:286); the next checkout
  finds out.
* `SyncPool` frees a slot before it closes the socket: `max_size + 1` sockets may
  be open for a moment.
* A `KeyboardInterrupt` in the rollback of `SyncPool.release()` loses a slot and a
  unit of the semaphore; interrupts are not modelled.
* A BEGIN or COMMIT that timed out is drained unread, so `in_transaction` is
  wrong afterwards, and a pool may return the connection without a rollback.
* The same without a pool: `_retire_if_desynced()` is called after the driver's own
  timeouts only (cursor.py:184). After a cancellation from outside between header and
  payload `_execute` looks at `partial_read` (core.py:892), keeps the connection and
  resynchronises inside the payload (CHANGELOG.md:281 says it is retired).
* A timeout within a message closes the connection
  (docs/timeout_and_cancel.md:130 says the session survives).
* `Connection.close()` by another task (core.py:525, and `close_all()` of a pool with
  loans) does not wake a reader that waits in `sock_recv_into`: it waits for ever
  unless it has a timeout. The loop keeps its entry for the descriptor, so the next
  connection that is given the same number is never woken either.
* `read()` whose stream was closed after its bytes arrived returns the whole length,
  filled with zeros, as if it were data (buffered_stream.py:187, 209, 223).
* `load_data()` that is cancelled during COMMIT or ROLLBACK restores `autocommit`
  while the transaction is open: later loads are reported as done and are not stored
  (docs/load_data.md:149-157).
* A cancelled INSERT leaves its request for data unread; the drain hands it the
  source of the next load. A load that `_operation()` refuses has by then replaced
  the source of the one that runs (core.py:484-490).
* A full disk in `receiveAndWriteDatatoExternal()` (_extab.py:118) leaves blocks
  unread, which the next drain takes for headers.
* A column of texts with `0.5` and `0.0` is sized NUMERIC(1,1), which then refuses
  the zero; with an exponent (`1.5e3`) the size is wrong as well; `25:00:00` makes a
  TIME column that refuses it (_bulk.py:297-311). docs/load_data.md:184 has only rows
  outside the sample fail.
* `build_options()` lets pass the delimiters `\` and `N` and the escape character
  `N`, with which the NULL marker `\N` is read as something else: with delimiter `N`
  and escape `\` the text `N` is loaded as NULL.
* `connect()` bounds single socket operations of the handshake by its timeout, and the
  setup statements by nothing (docs/timeout_and_cancel.md:17-19).
* `NzPool._create_new_connection()` and `AsyncNullPool.acquire()` leave the socket
  open when a setup statement fails or is cancelled after the handshake (pool.py:100,
  core.py:444-453), and when `on_connect` is cancelled (pool.py:108 has `except
  Exception`). Nobody refers to it, so `close_all()` does not close it either;
  `Connection.__del__` does, when the object is collected.
* `sync.connect(on_connect=...)` wraps the connection in a temporary
  `SyncConnection`, whose finaliser closes the socket (sync.py:297-311, 371).
* The callback of `sync.connect(on_connect=...)` runs in the loop's thread: a call of
  the facade from there waits for the loop that waits for it.
* `transaction()` of the facade begins without `_operation()` (sync.py:157); a
  KeyboardInterrupt there leaves a transaction behind.
* `_runner.py`: a loop that was stopped and is not yet closed accepts a coroutine it
  never runs, and the call waits for ever. A thread that finds a new loop not yet
  running restarts it; the call of the thread that had made it is then refused, started
  once more, or lost with the loop.
* `nextset()` with rows left answers True and stays in the result set;
  `fetchone()` after None goes on into the next set; `fetchone()` to the end,
  `nextset()`, `fetchall()` on two tables gives an empty list; `fetchone()`
  answers None before the error of a row that could not be decoded.

## 6. Not modelled, and why

Real time: a deadline, an age limit or a ping may fail whenever the code would
look. Durations are therefore not checked, nor that `acquire_timeout` leaves out
the connects. Statistics and logging. The contents of messages, values and SQL
text. COPY and the extended query handlers of the reader. `executemany` and
`callproc`, which are loops over `execute`. TLS after the handshake: reads there
wait for readiness and receive in the task itself, so nothing can come between.
Writes of the stream. Files of unloads and logs, and how a batch is cut into
blocks. Digests and certificates. `NullPool` and `AsyncNullPool` keep nothing. Of
the facade, `connect()` with its callback and the finalisers; its other methods pass
a coroutine to `run()` and nothing else. That `join()` in `close()` may give up after two
seconds: no callback takes that long.
The catalogue and DDL modules build text and keep no state; the FastAPI helper is
a wrapper; the Rust decoder is a twin of `_dbos.py`. The placeholder scanner and
the decoders of values are pure, have no state and are covered by tables of
examples in the tests.

Most of the repository's lines are of these kinds: examples, catalogue queries,
formatting of values. The modules cover the state machines of the driver.

## 7. Plan

Done: the models and runs of sections 2 and 3, and the proofs of section 4: all safety
properties of both pools with the refinement of `PoolSpec`, of `Session`, of
`ResultSets`, of `Handshake`, of `BufferedStream`, of `Runner`, and of `LoadData` with
the refinement of `LoadSpec`.

Left, in this order:

1. Proofs: `BulkRows`, with its folds as functions on prefixes and induction by `NatSet`.
2. Operators for the placeholder scanner, checked against a reference definition
   over bounded texts.
