------------------------------- MODULE NzPool -------------------------------
(***************************************************************************)
(* The asyncio connection pool, nzpy_extended/pool.py class NzPool.        *)
(*                                                                         *)
(* One step is the code between two points where a task really suspends.   *)
(* Those are: opening a connection, the validation ping, the rollback in   *)
(* release(), Condition.wait() and the maintenance sleep.  _notify(),      *)
(* _drop_owned() and close_all() await only coroutines that never suspend  *)
(* (Connection.close() has no await of its own, and the condition's lock   *)
(* is never held across a suspension), so each is part of the step that    *)
(* reaches it.                                                             *)
(*                                                                         *)
(* Time is abstracted: a deadline, an age limit or a failed ping may       *)
(* strike whenever the code would test for it.                             *)
(***************************************************************************)
EXTENDS Naturals, Sequences, FiniteSets

CONSTANTS
  Tasks,           \* tasks that acquire and release
  Maint,           \* the _background_maintain task
  Conns,           \* identities of Connection objects; a closed and forgotten
                   \* one may be born again, as id() may be reused
  MinSize, MaxSize, MaxUses,
  NotifyOnCancel,  \* asyncio passes a notification on when the notified
                   \* waiter is cancelled (CPython 3.13 and later)
  Managed,         \* tasks that borrow through "async with pool.connection()"
  ForgetsReference,\* a borrower drops its reference when release() returns
  NoConn

ASSUME PoolAssumption ==
  /\ Maint \notin Tasks
  /\ NoConn \notin Conns
  /\ IsFiniteSet(Tasks) /\ IsFiniteSet(Conns)
  /\ MinSize \in Nat /\ MaxSize \in Nat /\ MinSize <= MaxSize
  /\ MaxUses \in Nat \ {0}
  /\ NotifyOnCancel \in BOOLEAN /\ ForgetsReference \in BOOLEAN
  /\ Managed \subseteq Tasks

VARIABLES
  pool,          \* _pool: idle connections, oldest first
  reserving,     \* _reserving: idle connections some task is validating
  checked_out,   \* _checked_out: connections on loan
  created,       \* _created: slots in use
  closed,        \* _closed
  waiters,       \* tasks in _cond.wait() that were not notified yet
  pc,            \* where each task is suspended
  conn,          \* the connection each task has in hand
  budget,        \* connections the running sweep has still to look at
  sock,          \* "open"; "midframe" (a read stopped between a header and its
                 \* payload, marked by _frame_in_progress alone); "cut" (stopped
                 \* within one of them: partial_read); "closed"; or "left" open by
                 \* a connect that failed or was cancelled: nobody refers to it
  tx,            \* Connection.in_transaction
  rows,          \* an _active_cursor with unread rows is left behind
  uses           \* _nzpy_pool_uses and _PooledConnection.use_count

poolVars == <<pool, reserving, checked_out, created, closed, waiters>>
connVars == <<sock, tx, rows, uses>>
vars == <<poolVars, pc, conn, budget, connVars>>

Actors == Tasks \cup {Maint}

Init ==
  /\ pool = <<>> /\ reserving = {} /\ checked_out = {}
  /\ created = 0 /\ closed = FALSE /\ waiters = <<>>
  /\ pc = [a \in Actors |-> IF a = Maint THEN "off" ELSE "idle"]
  /\ conn = [a \in Actors |-> NoConn]
  /\ budget = 0
  /\ sock = [c \in Conns |-> "closed"]
  /\ tx = [c \in Conns |-> FALSE]
  /\ rows = [c \in Conns |-> FALSE]
  /\ uses = [c \in Conns |-> 0]

-----------------------------------------------------------------------------
(* Pieces of bookkeeping *)

Idle == {pool[i] : i \in DOMAIN pool}

\* max(0, n - 1): close_all() may have zeroed the counter under this task.
DecUnclamped(n) == n - 1                                             \* mutant
Dec(n) == IF n > 0 THEN n - 1 ELSE 0

\* _cond.notify(1): the longest waiting task that was not notified yet.
NotifiedNobody(w) == w                                               \* mutant
Notified(w) == IF w = <<>> THEN w ELSE Tail(w)

\* Room for one more connection.
OneSlotTooMany(n) == n <= MaxSize                                    \* mutant
SlotFree(n) == n < MaxSize

WithoutAt(w, k) == [i \in 1 .. Len(w) - 1 |-> IF i < k THEN w[i] ELSE w[i + 1]]

At(a, where) == pc' = [pc EXCEPT ![a] = where]
InHand(a, c) == conn' = [conn EXCEPT ![a] = c]

Settle(q, r, n, w) ==
  pool' = q /\ reserving' = r /\ created' = n /\ waiters' = w

\* Nothing refers to c any more, so a new connection may take its identity.
Forgotten(c) ==
  /\ sock[c] = "closed"
  /\ c \notin Idle \cup reserving \cup checked_out
  /\ \A a \in Actors : conn[a] # c

\* _is_reusable() looks at partial_read and not at _frame_in_progress.
NotClosed(s) == s # "closed"                                         \* mutant
Usable(s) == s \in {"open", "midframe"}
Reusable(c) == Usable(sock[c])

\* Connection.close() on each of cs
Closing(cs) == sock' = [c \in Conns |-> IF c \in cs THEN "closed" ELSE sock[c]]

\* _create_new_connection() returned c, which now counts u uses.
Born(c, u) ==
  /\ Forgotten(c)
  /\ sock' = [sock EXCEPT ![c] = "open"]
  /\ tx' = [tx EXCEPT ![c] = FALSE]
  /\ rows' = [rows EXCEPT ![c] = FALSE]
  /\ uses' = [uses EXCEPT ![c] = u]

\* _create_new_connection() did not return.  What it opened was closed; or a setup
\* statement after the handshake failed or was cancelled, or on_connect was
\* cancelled, and the socket is left open.
ConnectLost ==
  \/ UNCHANGED connVars
  \/ \E c \in Conns :
       /\ Forgotten(c)
       /\ sock' = [sock EXCEPT ![c] = "left"]
       /\ UNCHANGED <<tx, rows, uses>>

\* A statement on c was answered.  If the reader had stopped between a header and
\* its payload it may have found the next message again, or not.
Answered(c) == {sock[c], "open"}

\* What _validate_connection() demands before any I/O; the age limits and the
\* ping may fail besides.
Presentable(c) == Reusable(c) /\ uses[c] < MaxUses

-----------------------------------------------------------------------------
(* acquire().  Every operator continues task t with an idle queue q,       *)
(* reserved set r, slot count n and waiter queue w that the current step   *)
(* has reached so far.                                                     *)

\* The body under "async with self._cond".  A connector does not look at
\* _closed here: it finds out after connecting.
Proceed(t, q, r, n, w) ==
  /\ \/ /\ q # <<>>
        /\ Settle(Tail(q), r \cup {Head(q)}, n, w)
        /\ InHand(t, Head(q)) /\ At(t, "validating")
     \/ /\ q = <<>> /\ SlotFree(n)
        /\ Settle(q, r, n + 1, w)
        /\ InHand(t, NoConn) /\ At(t, "connecting")
     \/ /\ q = <<>> /\ ~SlotFree(n)
        /\ InHand(t, NoConn)
        /\ \/ Settle(q, r, n, Append(w, t)) /\ At(t, "waiting")
           \/ Settle(q, r, n, w) /\ At(t, "idle")    \* deadline passed: TimeoutError
  /\ UNCHANGED checked_out

\* What follows _fill_idle() in its three callers: acquire(), open() and
\* _background_maintain().
AfterFill(a, how, q, r, n, w) ==
  \/ /\ a \in Tasks /\ how = "filling"
     /\ Proceed(a, q, r, n, w)
  \/ /\ a \in Tasks /\ how = "opening"
     /\ Settle(q, r, n, w) /\ InHand(a, NoConn)
     /\ pc' = [pc EXCEPT ![a] = "idle",
                         ![Maint] = IF @ = "off" /\ ~closed THEN "sleeping" ELSE @]
     /\ UNCHANGED checked_out
  \/ /\ a = Maint
     /\ Settle(q, r, n, w) /\ InHand(a, NoConn)
     /\ At(a, "sleeping")
     /\ UNCHANGED checked_out

\* The head of the loop in _fill_idle(): claim the slot, then connect.
FillLoop(a, how, q, r, n, w) ==
  \/ /\ ~closed /\ n < MinSize
     /\ Settle(q, r, n + 1, w)
     /\ InHand(a, NoConn) /\ At(a, how)
     /\ UNCHANGED checked_out
  \/ /\ closed \/ n >= MinSize
     /\ AfterFill(a, how, q, r, n, w)

\* The head of the loop in acquire().
AcquireLoop(t, q, r, n, w) ==
  \/ /\ closed                                       \* RuntimeError
     /\ Settle(q, r, n, w)
     /\ InHand(t, NoConn) /\ At(t, "idle")
     /\ UNCHANGED checked_out
  \/ /\ ~closed
     /\ FillLoop(t, "filling", q, r, n, w)

\* A call on a closed pool raises at once and changes nothing.
Acquire(t) ==
  /\ pc[t] = "idle" /\ ~closed
  /\ AcquireLoop(t, pool, reserving, created, waiters)
  /\ UNCHANGED <<closed, budget, connVars>>

Open(t) ==
  /\ pc[t] = "idle" /\ ~closed
  /\ FillLoop(t, "opening", pool, reserving, created, waiters)
  /\ UNCHANGED <<closed, budget, connVars>>

-----------------------------------------------------------------------------
(* Resuming from _create_new_connection() inside _fill_idle() *)

FillOk(a) ==
  /\ pc[a] \in {"filling", "opening"} /\ ~closed
  /\ \E c \in Conns :
       /\ Born(c, 0)
       /\ FillLoop(a, pc[a], Append(pool, c), reserving, created, Notified(waiters))
  /\ UNCHANGED <<closed, budget>>

\* The pool was closed meanwhile: the new connection is closed on the spot, and
\* an acquirer still goes on to claim a slot without looking at _closed.
FillTooLate(t) ==
  /\ pc[t] \in {"filling", "opening"} /\ closed
  /\ AfterFill(t, pc[t], pool, reserving, Dec(created), waiters)
  /\ UNCHANGED <<closed, budget, connVars>>

FillFail(a) ==
  /\ pc[a] \in {"filling", "opening"}
  /\ AfterFill(a, pc[a], pool, reserving, Dec(created), Notified(waiters))
  /\ ConnectLost
  /\ UNCHANGED <<closed, budget>>

\* _abandon_slot() and re-raise: a failed or cancelled connect of an acquirer,
\* or a cancelled one in open().
AbandonSlot(t) ==
  /\ pc[t] \in {"filling", "opening", "connecting"}
  /\ Settle(pool, reserving, Dec(created), Notified(waiters))
  /\ At(t, "idle") /\ InHand(t, NoConn)
  /\ ConnectLost
  /\ UNCHANGED <<checked_out, closed, budget>>

-----------------------------------------------------------------------------
(* _connect_reserved() *)

\* Mutant: _closed is not looked at after the connect.
ConnectUnchecked(t) ==
  /\ pc[t] = "connecting"
  /\ \E c \in Conns :
       /\ Born(c, 1)
       /\ checked_out' = checked_out \cup {c}
       /\ InHand(t, c)
  /\ At(t, "holding")
  /\ UNCHANGED <<pool, reserving, created, closed, waiters, budget>>

ConnectOk(t) ==
  /\ pc[t] = "connecting" /\ ~closed
  /\ \E c \in Conns :
       /\ Born(c, 1)
       /\ checked_out' = checked_out \cup {c}
       /\ InHand(t, c)
  /\ At(t, "holding")
  /\ UNCHANGED <<pool, reserving, created, closed, waiters, budget>>

\* Closed while connecting: give the slot back, close, RuntimeError.
ConnectTooLate(t) ==
  /\ pc[t] = "connecting" /\ closed
  /\ Settle(pool, reserving, Dec(created), Notified(waiters))
  /\ At(t, "idle")
  /\ UNCHANGED <<checked_out, conn, closed, budget, connVars>>

-----------------------------------------------------------------------------
(* _checkout_idle() *)

ValidateOk(t) ==
  /\ pc[t] = "validating" /\ ~closed
  /\ Presentable(conn[t])
  /\ reserving' = reserving \ {conn[t]}
  /\ checked_out' = checked_out \cup {conn[t]}
  /\ uses' = [uses EXCEPT ![conn[t]] = @ + 1]
  /\ \E s \in Answered(conn[t]) : sock' = [sock EXCEPT ![conn[t]] = s]
  /\ At(t, "holding")
  /\ UNCHANGED <<pool, created, closed, waiters, conn, budget, tx, rows>>

\* _drop_owned() and the next round of acquire(); when the pool was closed
\* meanwhile the round, or the check after the validation, raises.
ValidateStale(t) ==
  /\ pc[t] = "validating"
  /\ AcquireLoop(t, pool, reserving \ {conn[t]}, Dec(created), Notified(waiters))
  /\ Closing({conn[t]})
  /\ UNCHANGED <<closed, budget, tx, rows, uses>>

ValidateCancelled(t) ==
  /\ pc[t] = "validating"
  /\ Settle(pool, reserving \ {conn[t]}, Dec(created), Notified(waiters))
  /\ Closing({conn[t]})
  /\ At(t, "idle") /\ InHand(t, NoConn)
  /\ UNCHANGED <<checked_out, closed, budget, tx, rows, uses>>

-----------------------------------------------------------------------------
(* Condition.wait() under wait_for() *)

Asleep == {waiters[k] : k \in DOMAIN waiters}

Wake(t) ==
  /\ pc[t] = "waiting" /\ t \notin Asleep
  /\ AcquireLoop(t, pool, reserving, created, waiters)
  /\ UNCHANGED <<closed, budget, connVars>>

\* The wait times out or is cancelled, before or after a notification.
WaitEnds(t) ==
  /\ pc[t] = "waiting"
  /\ LET passOn(w) == IF NotifyOnCancel THEN Notified(w) ELSE w
     IN  \/ /\ t \notin Asleep
            /\ waiters' = passOn(waiters)
         \/ \E k \in DOMAIN waiters :
              /\ waiters[k] = t
              /\ waiters' = passOn(WithoutAt(waiters, k))
  /\ At(t, "idle")
  /\ UNCHANGED <<pool, reserving, checked_out, created, closed, conn, budget, connVars>>

-----------------------------------------------------------------------------
(* The borrower's own work, and release() *)

\* Whatever the borrower does, it leaves a transaction open or not, unread rows
\* behind or not, and the connection usable, stopped mid-frame or closed.
Use(t) ==
  /\ pc[t] = "holding" /\ Reusable(conn[t])
  /\ \E intx, unread \in BOOLEAN, s \in {"open", "midframe", "cut", "closed"} :
       /\ tx' = [tx EXCEPT ![conn[t]] = intx]
       /\ rows' = [rows EXCEPT ![conn[t]] = unread]
       /\ sock' = [sock EXCEPT ![conn[t]] = s]
  /\ UNCHANGED <<poolVars, pc, conn, budget, uses>>

\* release(conn) is called by the borrower, or once more by a task that kept a
\* reference to a connection it released before.
MayRelease(t) ==
  \/ pc[t] = "holding"
  \/ ~ForgetsReference /\ pc[t] = "idle" /\ conn[t] # NoConn

NeedsRollback(c) == Reusable(c) /\ tx[c]

ReleaseRollsBack(t) ==
  /\ MayRelease(t)
  /\ NeedsRollback(conn[t])
  /\ At(t, "rolling")
  /\ UNCHANGED <<poolVars, conn, budget, connVars>>

\* release() from the test of in_transaction after the rollback to its end, with the
\* socket in state s and the transaction open or not (intx).
GiveBack(t, s, intx) ==
  LET c == conn[t] IN
  /\ \/ /\ closed
        /\ Closing({c})
        /\ UNCHANGED <<pool, checked_out, created, waiters>>
     \/ /\ ~closed /\ c \notin checked_out           \* RuntimeError
        /\ sock' = [sock EXCEPT ![c] = IF intx THEN "closed" ELSE s]
        /\ UNCHANGED <<pool, checked_out, created, waiters>>
     \/ /\ ~closed /\ c \in checked_out /\ (intx \/ ~Usable(s))
        /\ Closing({c})
        /\ checked_out' = checked_out \ {c}
        /\ created' = Dec(created)
        /\ waiters' = Notified(waiters)
        /\ UNCHANGED pool
     \/ /\ ~closed /\ c \in checked_out /\ ~intx /\ Usable(s)
        /\ sock' = [sock EXCEPT ![c] = s]
        /\ checked_out' = checked_out \ {c}
        /\ pool' = Append(pool, c)
        /\ waiters' = Notified(waiters)
        /\ UNCHANGED created
  /\ tx' = [tx EXCEPT ![c] = intx]
  /\ rows' = [rows EXCEPT ![c] = FALSE]
  /\ At(t, "idle")
  /\ InHand(t, IF ForgetsReference THEN NoConn ELSE c)
  /\ UNCHANGED <<reserving, closed, budget, uses>>

ReleaseDirectly(t) ==
  /\ MayRelease(t)
  /\ ~NeedsRollback(conn[t])
  /\ GiveBack(t, sock[conn[t]], tx[conn[t]])

\* The transaction is over and the connection usable.
RollbackOk(t) ==
  /\ pc[t] = "rolling" /\ Reusable(conn[t])
  /\ \E s \in Answered(conn[t]) : GiveBack(t, s, FALSE)

\* The rollback raised.  The transaction may be still open, and then the
\* connection is closed; or it ended but the connection did not survive.
RollbackFail(t) ==
  /\ pc[t] = "rolling"
  /\ \E intx \in BOOLEAN : GiveBack(t, "cut", intx)

\* CancelledError escapes release() before the bookkeeping: the loan stays on
\* the books.  The caller may try again, but "async with pool.connection()" is
\* over at this point.
ReleaseCancelled(t) ==
  /\ pc[t] = "rolling"
  /\ IF t \in Managed THEN At(t, "idle") /\ InHand(t, NoConn)
                      ELSE At(t, "holding") /\ UNCHANGED conn
  /\ \E s \in {sock[conn[t]], "midframe", "cut"} :
       /\ ~Reusable(conn[t]) => s = sock[conn[t]]
       /\ sock' = [sock EXCEPT ![conn[t]] = s]
  /\ UNCHANGED <<poolVars, budget, tx, rows, uses>>

-----------------------------------------------------------------------------
(* close_all() and the maintenance task *)

\* Mutant: the waiters are not notified.
CloseSilently ==
  /\ ~closed
  /\ closed' = TRUE
  /\ Closing(Idle \cup checked_out)
  /\ Settle(<<>>, reserving, 0, waiters)
  /\ checked_out' = {}
  /\ UNCHANGED <<pc, conn, budget, tx, rows, uses>>

CloseAll ==
  /\ ~closed
  /\ closed' = TRUE
  /\ Closing(Idle \cup checked_out)
  /\ Settle(<<>>, reserving, 0, <<>>)
  /\ checked_out' = {}
  /\ UNCHANGED <<pc, conn, budget, tx, rows, uses>>

\* Mutant: the connection stays in the queue while it is validated.
SweepInPlace(b, q, r, n, w) ==
  \/ /\ b > 0 /\ q # <<>>
     /\ budget' = b - 1
     /\ Settle(q, r \cup {Head(q)}, n, w)
     /\ InHand(Maint, Head(q)) /\ At(Maint, "validating")
     /\ UNCHANGED checked_out
  \/ /\ b = 0 \/ q = <<>>
     /\ budget' = 0
     /\ FillLoop(Maint, "filling", q, r, n, w)

\* The loop of _sweep_idle() with b connections still to look at, followed by
\* _fill_idle().
SweepLoop(b, q, r, n, w) ==
  \/ /\ b > 0 /\ q # <<>>
     /\ budget' = b - 1
     /\ Settle(Tail(q), r \cup {Head(q)}, n, w)
     /\ InHand(Maint, Head(q)) /\ At(Maint, "validating")
     /\ UNCHANGED checked_out
  \/ /\ b = 0 \/ q = <<>>
     /\ budget' = 0
     /\ FillLoop(Maint, "filling", q, r, n, w)

MaintTick ==
  /\ pc[Maint] = "sleeping" /\ ~closed
  /\ SweepLoop(Len(pool), pool, reserving, created, waiters)
  /\ UNCHANGED <<closed, connVars>>

SweepOk ==
  /\ pc[Maint] = "validating" /\ ~closed
  /\ Presentable(conn[Maint])
  /\ SweepLoop(budget, Append(pool, conn[Maint]), reserving \ {conn[Maint]},
               created, Notified(waiters))
  /\ \E s \in Answered(conn[Maint]) : sock' = [sock EXCEPT ![conn[Maint]] = s]
  /\ UNCHANGED <<closed, tx, rows, uses>>

SweepStale ==
  /\ pc[Maint] = "validating" /\ ~closed
  /\ SweepLoop(budget, pool, reserving \ {conn[Maint]}, Dec(created), Notified(waiters))
  /\ Closing({conn[Maint]})
  /\ UNCHANGED <<closed, tx, rows, uses>>

\* close_all() cancelled the task: wherever it was suspended it unwinds, giving
\* up the connection or the slot it owned.
MaintCancelled ==
  /\ closed /\ pc[Maint] \in {"sleeping", "filling", "validating"}
  /\ At(Maint, "done") /\ InHand(Maint, NoConn)
  /\ reserving' = reserving \ {conn[Maint]}
  /\ created' = IF pc[Maint] = "sleeping" THEN created ELSE Dec(created)
  /\ waiters' = IF pc[Maint] = "sleeping" THEN waiters ELSE Notified(waiters)
  /\ \/ pc[Maint] = "sleeping" /\ UNCHANGED connVars
     \/ pc[Maint] = "filling" /\ ConnectLost
     \/ pc[Maint] = "validating" /\ Closing({conn[Maint]}) /\ UNCHANGED <<tx, rows, uses>>
  /\ budget' = 0
  /\ UNCHANGED <<pool, checked_out, closed>>

-----------------------------------------------------------------------------
(* The garbage collector *)

\* Connection.__del__() closes the socket of a connection nobody refers to, some time.
Collected(c) ==
  /\ sock[c] = "left"
  /\ Closing({c})
  /\ UNCHANGED <<poolVars, pc, conn, budget, tx, rows, uses>>

-----------------------------------------------------------------------------

\* What a task does on its own once scheduled or answered
Resume(t) ==
  \/ FillOk(t) \/ FillTooLate(t) \/ FillFail(t)
  \/ ConnectOk(t) \/ ConnectTooLate(t)
  \/ ValidateOk(t) \/ ValidateStale(t)
  \/ Wake(t)
  \/ RollbackOk(t) \/ RollbackFail(t)

\* A cancellation, a timeout, or a connect that fails
Interrupt(t) ==
  \/ AbandonSlot(t) \/ ValidateCancelled(t) \/ WaitEnds(t) \/ ReleaseCancelled(t)

Release(t) == ReleaseRollsBack(t) \/ ReleaseDirectly(t)

Maintain ==
  \/ MaintTick \/ SweepOk \/ SweepStale \/ MaintCancelled
  \/ pc[Maint] = "filling" /\ ~closed /\ (FillOk(Maint) \/ FillFail(Maint))

\* Closed and quiet: calls on the pool only raise from here on.
Ended ==
  /\ closed /\ \A a \in Actors : pc[a] \in {"idle", "off", "done"}
  /\ UNCHANGED vars

Next ==
  \/ \E t \in Tasks :
       Acquire(t) \/ Open(t) \/ Resume(t) \/ Interrupt(t) \/ Use(t) \/ Release(t)
  \/ Maintain
  \/ CloseAll
  \/ \E c \in Conns : Collected(c)
  \/ Ended

Spec == Init /\ [][Next]_vars

-----------------------------------------------------------------------------
(* Safety *)

\* The shape of the pool's state (NzPool.__init__).
TypeOK ==
  /\ pool \in Seq(Conns) /\ reserving \subseteq Conns /\ checked_out \subseteq Conns
  /\ created \in Nat /\ closed \in BOOLEAN /\ waiters \in Seq(Tasks)
  /\ pc \in [Actors -> {"idle", "filling", "opening", "connecting", "validating",
                        "waiting", "holding", "rolling", "off", "sleeping", "done"}]
  /\ conn \in [Actors -> Conns \cup {NoConn}]
  /\ budget \in Nat
  /\ sock \in [Conns -> {"open", "midframe", "cut", "closed", "left"}]
  /\ tx \in [Conns -> BOOLEAN] /\ rows \in [Conns -> BOOLEAN]
  /\ uses \in [Conns -> Nat]

\* Tasks whose connection is still being opened occupy a slot, too.
Connecting == {a \in Actors : pc[a] \in {"filling", "opening", "connecting"}}

\* While the pool is open _created counts every connection that exists or is
\* being opened, once, and never exceeds max_size: no path of failure,
\* cancellation or retirement loses a slot or frees one twice.
SlotAccounting ==
  ~closed =>
    /\ created = Len(pool) + Cardinality(reserving) + Cardinality(checked_out)
                   + Cardinality(Connecting)
    /\ created <= MaxSize

\* A connection has one owner: it is in the idle queue once, or one task
\* validates it, or one task has it on loan ("acquire() cannot receive a
\* connection that is being tested").
ExclusiveOwnership ==
  /\ \A i, j \in DOMAIN pool : i # j => pool[i] # pool[j]
  /\ Idle \cap reserving = {} /\ Idle \cap checked_out = {}
  /\ reserving \cap checked_out = {}
  /\ \A a, b \in Actors : a # b /\ conn[a] # NoConn => conn[a] # conn[b]
  /\ \A a \in Actors : conn[a] \notin Idle

\* What waits for the next borrower has no open transaction, no half-read result,
\* and was not closed or cut within a header or a payload by the previous one.  Of
\* a read stopped between the two this says nothing: _is_reusable() does not see
\* it, and such a connection does go idle.
IdleIsClean == \A c \in Idle \cup reserving :
  sock[c] \in {"open", "midframe"} /\ ~tx[c] /\ ~rows[c]

\* Waiters that were notified and have not looked at the pool since
Claimants == {t \in Tasks : pc[t] = "waiting" /\ t \notin Asleep}

\* While a task sleeps in Condition.wait(), there is a task on its way for every
\* idle connection and every free slot.
NoLostWakeup ==
  ~closed /\ Asleep # {} =>
    Len(pool) + (MaxSize - created) <= Cardinality(Claimants)

\* A waiter that was notified is cancelled or times out before it ran.
NotifiedWaiterGivesUp == \E t \in Tasks : t \notin Asleep /\ WaitEnds(t)

\* A notification is lost in one way only: on an interpreter that does not pass it
\* on (CPython 3.11 and 3.12), by the waiter that got it giving up before it ran.
\* No release, failed or cancelled connect, retired connection or maintenance round
\* leaves a waiter asleep beside an idle connection or a free slot.
WakeupsReachWaiters ==
  [][NoLostWakeup => NoLostWakeup' \/ (~NotifyOnCancel /\ NotifiedWaiterGivesUp)]_vars

-----------------------------------------------------------------------------
(* The pool implements the loan book *)

Loan == [t \in Tasks |-> IF pc[t] \in {"holding", "rolling"} THEN conn[t] ELSE NoConn]

Book == INSTANCE PoolSpec WITH Borrowers <- Tasks, loan <- Loan, open <- ~closed

\* acquire() hands a connection only to one task at a time, only while the pool
\* is open and never more than max_size of them.
ImplementsPoolSpec == Book!Spec

-----------------------------------------------------------------------------
(* Liveness.  The event loop runs every ready task; connects, pings and        *)
(* rollbacks are answered or fail; borrowers release what they hold and do not *)
(* cancel the rollback of one loan for ever.  Nothing makes a timeout or a     *)
(* cancellation happen.  Closing a socket does not wake the task that waits    *)
(* on it, so nothing is promised of a borrower once close_all() has closed its *)
(* connection.                                                                 *)

Stranded(t) == closed /\ pc[t] \in {"holding", "rolling"} /\ sock[conn[t]] = "closed"

Fairness ==
  /\ \A t \in Tasks : /\ WF_vars(pc[t] # "rolling" /\ Resume(t))
                        /\ WF_vars(~Stranded(t) /\ Release(t))
                        /\ SF_vars(~Stranded(t) /\ (RollbackOk(t) \/ RollbackFail(t)))
  /\ WF_vars(Maintain)

FairSpec == Spec /\ Fairness

\* close_all() ends every acquire(), the maintenance task, and every release() but
\* one whose rollback waits on the connection that close_all() closed; and once the
\* tasks caught in the middle have finished, every connection the pool ever had is
\* closed ("closes ALL connections, including currently checked-out ones").  One
\* that failed or was cancelled before _create_new_connection() returned it never
\* was the pool's, and may stay open ("left").
CloseEndsEverything ==
  closed ~> [](/\ \A a \in Actors : pc[a] \in {"idle", "off", "done"} \/ Stranded(a)
               /\ \A c \in Conns : sock[c] \in {"closed", "left"})

=============================================================================
