------------------------------ MODULE SyncPool ------------------------------
(***************************************************************************)
(* The threaded connection pool, nzpy_extended/pool.py class SyncPool.     *)
(*                                                                         *)
(* One step is a block under _lock, an operation on the semaphore, or the  *)
(* end of an I/O call (connect, ping, rollback, close); any other thread   *)
(* may run between two of them.  The maintenance thread is the actor Maint.*)
(*                                                                         *)
(* Time is abstracted: a deadline, an age limit or a failed ping may       *)
(* strike whenever the code would test for it.                             *)
(***************************************************************************)
EXTENDS Naturals, Sequences, FiniteSets

CONSTANTS
  Threads,        \* threads that acquire and release
  Maint,          \* the _maintain_loop thread
  Conns,          \* identities of SyncConnection objects, used again when free
  MinSize, MaxSize, MaxUses,
  ManualCommit,   \* connections have autocommit off (set by on_connect)
  NoConn

ASSUME SyncPoolAssumption ==
  /\ Maint \notin Threads
  /\ NoConn \notin Conns
  /\ IsFiniteSet(Threads) /\ IsFiniteSet(Conns)
  /\ MinSize \in Nat /\ MaxSize \in Nat /\ MinSize <= MaxSize
  /\ MaxUses \in Nat \ {0}
  /\ ManualCommit \in BOOLEAN

VARIABLES
  pool,          \* _pool: idle connections, oldest first
  checked_out,   \* _checked_out: connections on loan
  created,       \* _created: slots in use
  sem,           \* value of _sem
  closed,        \* _closed, and _stop_event set just before it
  doomed,        \* what close_all() took off the books and has yet to close
  pc,            \* where each thread is
  conn,          \* the connection each thread has in hand
  budget,        \* connections the running sweep has still to look at
  sock,          \* "open", "cut" (a read stopped mid-frame) or "closed"
  tx,            \* Connection.in_transaction
  rows,          \* an _active_cursor with unread rows is left behind
  uses           \* _SyncPooledConnection.use_count

bookVars == <<pool, checked_out, created>>
poolVars == <<bookVars, sem, closed, doomed>>
connVars == <<sock, tx, rows, uses>>
vars == <<poolVars, pc, conn, budget, connVars>>

Actors == Threads \cup {Maint}
Idle == {pool[i] : i \in DOMAIN pool}

\* The constructor has tried to open min_size connections, and stops at the
\* first that fails, before it starts the maintenance thread.
Init ==
  /\ \E n \in 0 .. MinSize : pool \in [1 .. n -> Conns]
  /\ \A i, j \in DOMAIN pool : i # j => pool[i] # pool[j]
  /\ checked_out = {} /\ created = Len(pool) /\ sem = MaxSize
  /\ closed = FALSE /\ doomed = {}
  /\ pc = [a \in Actors |-> IF a = Maint THEN "sleeping" ELSE "idle"]
  /\ conn = [a \in Actors |-> NoConn]
  /\ budget = 0
  /\ sock = [c \in Conns |-> IF c \in Idle THEN "open" ELSE "closed"]
  /\ tx = [c \in Conns |-> FALSE]
  /\ rows = [c \in Conns |-> FALSE]
  /\ uses = [c \in Conns |-> 0]

-----------------------------------------------------------------------------
(* Pieces of bookkeeping *)

Dec(n) == IF n > 0 THEN n - 1 ELSE 0

SlotFree(n) == n < MaxSize

At(a, where) == pc' = [pc EXCEPT ![a] = where]
InHand(a, c) == conn' = [conn EXCEPT ![a] = c]
Closing(cs) == sock' = [c \in Conns |-> IF c \in cs THEN "closed" ELSE sock[c]]

\* Nothing refers to c any more, so a new connection may take its identity.
Forgotten(c) ==
  /\ sock[c] = "closed"
  /\ c \notin Idle \cup checked_out \cup doomed
  /\ \A a \in Actors : conn[a] # c

\* connect() returned c, which now counts u uses.
Born(c, u) ==
  /\ Forgotten(c)
  /\ sock' = [sock EXCEPT ![c] = "open"]
  /\ tx' = [tx EXCEPT ![c] = FALSE]
  /\ rows' = [rows EXCEPT ![c] = FALSE]
  /\ uses' = [uses EXCEPT ![c] = u]

\* What _validate_connection() demands before the ping, which may fail besides
Presentable(c) == sock[c] = "open" /\ uses[c] < MaxUses

\* The ping goes through Cursor.execute(), which begins a transaction first
\* when autocommit is off.
Pinged(c) == tx' = [tx EXCEPT ![c] = @ \/ ManualCommit]

-----------------------------------------------------------------------------
(* acquire(): the semaphore bounds the borrowers, _created the connections *)

\* The unlocked look at _closed
Acquire(t) ==
  /\ pc[t] = "idle" /\ ~closed
  /\ At(t, "waiting")
  /\ UNCHANGED <<poolVars, conn, budget, connVars>>

SemTake(t) ==
  /\ pc[t] = "waiting" /\ sem > 0
  /\ sem' = sem - 1
  /\ At(t, "looking")
  /\ UNCHANGED <<bookVars, closed, doomed, conn, budget, connVars>>

SemTimeout(t) ==
  /\ pc[t] = "waiting"
  /\ At(t, "idle")
  /\ UNCHANGED <<poolVars, conn, budget, connVars>>

\* The block under _lock in _checkout()
Look(t) ==
  /\ pc[t] \in {"looking", "polling"}
  /\ \/ /\ closed                                    \* RuntimeError
        /\ At(t, "unwinding")
        /\ UNCHANGED <<bookVars, conn>>
     \/ /\ ~closed /\ pool # <<>>
        /\ pool' = Tail(pool)
        /\ InHand(t, Head(pool)) /\ At(t, "validating")
        /\ UNCHANGED <<checked_out, created>>
     \/ /\ ~closed /\ pool = <<>> /\ SlotFree(created)
        /\ created' = created + 1
        /\ At(t, "connecting")
        /\ UNCHANGED <<pool, checked_out, conn>>
     \/ /\ ~closed /\ pool = <<>> /\ ~SlotFree(created)
        /\ At(t, "polling")
        /\ UNCHANGED <<bookVars, conn>>
  /\ UNCHANGED <<sem, closed, doomed, budget, connVars>>

PollTimeout(t) ==
  /\ pc[t] = "polling"
  /\ At(t, "unwinding")
  /\ UNCHANGED <<poolVars, conn, budget, connVars>>

\* _connect_reserved()
\* Mutant: _closed is not looked at after the connect.
ConnectUnchecked(t) ==
  /\ pc[t] = "connecting"
  /\ \E c \in Conns : Born(c, 1) /\ checked_out' = checked_out \cup {c} /\ InHand(t, c)
  /\ At(t, "holding")
  /\ UNCHANGED <<pool, created, sem, closed, doomed, budget>>

ConnectOk(t) ==
  /\ pc[t] = "connecting" /\ ~closed
  /\ \E c \in Conns : Born(c, 1) /\ checked_out' = checked_out \cup {c} /\ InHand(t, c)
  /\ At(t, "holding")
  /\ UNCHANGED <<pool, created, sem, closed, doomed, budget>>

\* The connect failed, or the pool was closed meanwhile and the new connection
\* is closed on the spot.  Mutant: the slot is not given back.
ConnectLeaks(t) ==
  /\ pc[t] = "connecting"
  /\ At(t, "unwinding")
  /\ UNCHANGED <<poolVars, conn, budget, connVars>>

ConnectFail(t) ==
  /\ pc[t] = "connecting"
  /\ created' = Dec(created)
  /\ At(t, "unwinding")
  /\ UNCHANGED <<pool, checked_out, sem, closed, doomed, conn, budget, connVars>>

\* _checkout_idle()
ValidateOk(t) ==
  /\ pc[t] = "validating" /\ ~closed
  /\ Presentable(conn[t])
  /\ checked_out' = checked_out \cup {conn[t]}
  /\ uses' = [uses EXCEPT ![conn[t]] = @ + 1]
  /\ Pinged(conn[t])
  /\ At(t, "holding")
  /\ UNCHANGED <<pool, created, sem, closed, doomed, conn, budget, sock, rows>>

\* The slot is given back under _lock; the connection is closed afterwards.
ValidateStale(t) ==
  /\ pc[t] = "validating"
  /\ created' = Dec(created)
  /\ At(t, "discarding")
  /\ UNCHANGED <<pool, checked_out, sem, closed, doomed, conn, budget, connVars>>

\* On with the next round, or, after a RuntimeError or an interrupt, out
Discard(t) ==
  /\ pc[t] = "discarding"
  /\ Closing({conn[t]})
  /\ InHand(t, NoConn)
  /\ At(t, "looking") \/ At(t, "unwinding")
  /\ UNCHANGED <<poolVars, budget, tx, rows, uses>>

\* The handler around _checkout()
Unwind(t) ==
  /\ pc[t] = "unwinding"
  /\ sem' = sem + 1
  /\ At(t, "idle")
  /\ UNCHANGED <<bookVars, closed, doomed, conn, budget, connVars>>

-----------------------------------------------------------------------------
(* The borrower's own work, and release() *)

Use(t) ==
  /\ pc[t] = "holding" /\ sock[conn[t]] = "open"
  /\ \E intx, unread \in BOOLEAN, s \in {"open", "cut", "closed"} :
       /\ tx' = [tx EXCEPT ![conn[t]] = intx]
       /\ rows' = [rows EXCEPT ![conn[t]] = unread]
       /\ sock' = [sock EXCEPT ![conn[t]] = s]
  /\ UNCHANGED <<poolVars, pc, conn, budget, uses>>

Reusable(c) == sock[c] = "open"

\* The first block under _lock, and the decision what to do before the second.
\* "returning" remembers reusable = True, "dropping" reusable = False.
Release(t) ==
  /\ pc[t] = "holding"
  /\ \/ /\ conn[t] \notin checked_out                \* RuntimeError: close_all()
        /\ At(t, "idle") /\ InHand(t, NoConn)
        /\ UNCHANGED <<checked_out, rows>>
     \/ /\ conn[t] \in checked_out
        /\ checked_out' = checked_out \ {conn[t]}
        /\ rows' = [rows EXCEPT ![conn[t]] = FALSE]
        /\ \/ ~Reusable(conn[t]) /\ At(t, "dropping")
           \/ Reusable(conn[t]) /\ tx[conn[t]] /\ At(t, "rolling")
           \/ Reusable(conn[t]) /\ ~tx[conn[t]] /\ At(t, "returning")
        /\ UNCHANGED conn
  /\ UNCHANGED <<pool, created, sem, closed, doomed, budget, sock, tx, uses>>

RollbackOk(t) ==
  /\ pc[t] = "rolling" /\ sock[conn[t]] = "open"
  /\ tx' = [tx EXCEPT ![conn[t]] = FALSE]
  /\ At(t, "returning")
  /\ UNCHANGED <<poolVars, conn, budget, sock, rows, uses>>

\* Mutant: the failure is logged and the connection kept.
RollbackFailureIgnored(t) ==
  /\ pc[t] = "rolling"
  /\ At(t, "returning")
  /\ UNCHANGED <<poolVars, conn, budget, connVars>>

\* The rollback raised.  Only in_transaction is looked at again: it is false
\* when the connection broke after the rollback had completed.
RollbackFail(t) ==
  /\ pc[t] = "rolling"
  /\ \E intx \in BOOLEAN, s \in {"open", "cut", "closed"} :
       /\ tx' = [tx EXCEPT ![conn[t]] = intx]
       /\ sock' = [sock EXCEPT ![conn[t]] = s]
       /\ At(t, IF intx THEN "dropping" ELSE "returning")
  /\ UNCHANGED <<poolVars, conn, budget, rows, uses>>

\* The second block under _lock: keep it ...
GiveBack(t) ==
  /\ pc[t] = "returning" /\ ~closed
  /\ pool' = Append(pool, conn[t])
  /\ InHand(t, NoConn) /\ At(t, "handing")
  /\ UNCHANGED <<checked_out, created, sem, closed, doomed, budget, connVars>>

\* ... or give up its slot, and close it outside the lock.
Drop(t) ==
  /\ pc[t] = "dropping" \/ (pc[t] = "returning" /\ closed)
  /\ created' = Dec(created)
  /\ At(t, "retiring")
  /\ UNCHANGED <<pool, checked_out, sem, closed, doomed, conn, budget, connVars>>

Retire(t) ==
  /\ pc[t] = "retiring"
  /\ Closing({conn[t]})
  /\ InHand(t, NoConn) /\ At(t, "handing")
  /\ UNCHANGED <<poolVars, budget, tx, rows, uses>>

\* The _sem.release() at the end of release()
HandBack(t) ==
  /\ pc[t] = "handing"
  /\ sem' = sem + 1
  /\ At(t, "idle")
  /\ UNCHANGED <<bookVars, closed, doomed, conn, budget, connVars>>

-----------------------------------------------------------------------------
(* open(), and the maintenance thread *)

\* A call on a closed pool changes nothing.
Open(t) ==
  /\ pc[t] = "idle" /\ ~closed
  /\ At(t, "topping")
  /\ UNCHANGED <<poolVars, conn, budget, connVars>>

\* Where an actor is when its _fill_idle() is over
AfterFill(a) == IF a = Maint THEN "sleeping" ELSE "idle"

\* The block under _lock at the head of the loop in _fill_idle()
FillClaim(a) ==
  /\ pc[a] = "topping"
  /\ \/ /\ closed \/ created >= MinSize
        /\ At(a, AfterFill(a))
        /\ UNCHANGED created
     \/ /\ ~closed /\ created < MinSize
        /\ created' = created + 1
        /\ At(a, "filling")
  /\ UNCHANGED <<pool, checked_out, sem, closed, doomed, conn, budget, connVars>>

\* Mutant: _closed is not looked at after the connect.
FillUnchecked(a) ==
  /\ pc[a] = "filling"
  /\ \E c \in Conns : Born(c, 0) /\ pool' = Append(pool, c)
  /\ At(a, "topping")
  /\ UNCHANGED <<checked_out, created, sem, closed, doomed, conn, budget>>

FillOk(a) ==
  /\ pc[a] = "filling" /\ ~closed
  /\ \E c \in Conns : Born(c, 0) /\ pool' = Append(pool, c)
  /\ At(a, "topping")
  /\ UNCHANGED <<checked_out, created, sem, closed, doomed, conn, budget>>

\* The connect failed, or the pool was closed meanwhile and the new connection
\* is closed on the spot.
FillFail(a) ==
  /\ pc[a] = "filling"
  /\ created' = Dec(created)
  /\ At(a, AfterFill(a))
  /\ UNCHANGED <<pool, checked_out, sem, closed, doomed, conn, budget, connVars>>

MaintTick ==
  /\ pc[Maint] = "sleeping"
  /\ \/ closed /\ At(Maint, "done") /\ UNCHANGED budget
     \/ ~closed /\ At(Maint, "sweeping") /\ budget' = Len(pool)
  /\ UNCHANGED <<poolVars, conn, connVars>>

\* Mutant: the connection stays in the queue while it is validated.
SweepInPlace ==
  /\ pc[Maint] = "sweeping"
  /\ \/ /\ budget > 0 /\ ~closed /\ pool # <<>>
        /\ budget' = budget - 1
        /\ InHand(Maint, Head(pool)) /\ At(Maint, "validating")
     \/ /\ budget = 0 \/ closed \/ pool = <<>>
        /\ budget' = 0
        /\ At(Maint, "topping")
        /\ UNCHANGED conn
  /\ UNCHANGED <<poolVars, connVars>>

SweepTake ==
  /\ pc[Maint] = "sweeping"
  /\ \/ /\ budget > 0 /\ ~closed /\ pool # <<>>
        /\ budget' = budget - 1
        /\ pool' = Tail(pool)
        /\ InHand(Maint, Head(pool)) /\ At(Maint, "validating")
     \/ /\ budget = 0 \/ closed \/ pool = <<>>
        /\ budget' = 0
        /\ At(Maint, "topping")
        /\ UNCHANGED <<pool, conn>>
  /\ UNCHANGED <<checked_out, created, sem, closed, doomed, connVars>>

SweepOk ==
  /\ pc[Maint] = "validating" /\ ~closed
  /\ Presentable(conn[Maint])
  /\ pool' = Append(pool, conn[Maint])
  /\ Pinged(conn[Maint])
  /\ InHand(Maint, NoConn) /\ At(Maint, "sweeping")
  /\ UNCHANGED <<checked_out, created, sem, closed, doomed, budget, sock, rows, uses>>

\* Mutant: the discarded connection keeps its slot.
SweepLeaks ==
  /\ pc[Maint] = "validating"
  /\ At(Maint, "discarding")
  /\ UNCHANGED <<poolVars, conn, budget, connVars>>

\* Not healthy, or the pool was closed meanwhile
SweepStale ==
  /\ pc[Maint] = "validating"
  /\ created' = Dec(created)
  /\ At(Maint, "discarding")
  /\ UNCHANGED <<pool, checked_out, sem, closed, doomed, conn, budget, connVars>>

SweepDiscard ==
  /\ pc[Maint] = "discarding"
  /\ Closing({conn[Maint]})
  /\ InHand(Maint, NoConn) /\ At(Maint, "sweeping")
  /\ UNCHANGED <<poolVars, budget, tx, rows, uses>>

-----------------------------------------------------------------------------
(* close_all(): the books are cleared under _lock, the connections closed one *)
(* by one after it.                                                           *)

CloseAll ==
  /\ ~closed
  /\ closed' = TRUE
  /\ doomed' = Idle \cup checked_out
  /\ pool' = <<>> /\ checked_out' = {} /\ created' = 0
  /\ sem' = sem + MaxSize
  /\ UNCHANGED <<pc, conn, budget, connVars>>

CloseOne(c) ==
  /\ c \in doomed
  /\ doomed' = doomed \ {c}
  /\ Closing({c})
  /\ UNCHANGED <<bookVars, sem, closed, pc, conn, budget, tx, rows, uses>>

-----------------------------------------------------------------------------

\* What a thread does by itself, without timeouts
Advance(t) ==
  \/ Look(t) \/ ConnectOk(t) \/ ConnectFail(t)
  \/ ValidateOk(t) \/ ValidateStale(t) \/ Discard(t) \/ Unwind(t)
  \/ Release(t) \/ RollbackOk(t) \/ RollbackFail(t)
  \/ GiveBack(t) \/ Drop(t) \/ Retire(t) \/ HandBack(t)
  \/ FillClaim(t) \/ FillOk(t) \/ FillFail(t)

Maintain ==
  \/ MaintTick \/ SweepTake \/ SweepOk \/ SweepStale \/ SweepDiscard
  \/ FillClaim(Maint) \/ FillOk(Maint) \/ FillFail(Maint)

\* Closed and quiet: calls on the pool only raise from here on.
Quiet == \A a \in Actors : pc[a] \in {"idle", "done"}
Ended == closed /\ doomed = {} /\ Quiet /\ UNCHANGED vars

Next ==
  \/ \E t \in Threads :
       \/ Acquire(t) \/ SemTake(t) \/ SemTimeout(t) \/ PollTimeout(t) \/ Use(t)
       \/ Open(t) \/ Advance(t)
  \/ Maintain
  \/ CloseAll
  \/ \E c \in Conns : CloseOne(c)
  \/ Ended

Spec == Init /\ [][Next]_vars

-----------------------------------------------------------------------------
(* Safety *)

In(places) == {a \in Actors : pc[a] \in places}

\* Threads that hold a unit of _sem
Admitted ==
  In({"looking", "polling", "connecting", "validating", "discarding", "unwinding",
      "holding", "rolling", "returning", "dropping", "retiring", "handing"}) \ {Maint}

\* Actors that own a slot besides the idle queue and the loans
SlotOwners == In({"connecting", "validating", "rolling", "returning", "dropping", "filling"})

\* While the pool is open, _created counts every slot once and stays within
\* max_size, and every unit of _sem is either free or held by one thread:
\* neither counter drifts from the other through failures and retirements.
SlotAccounting ==
  ~closed =>
    /\ created = Len(pool) + Cardinality(checked_out) + Cardinality(SlotOwners)
    /\ created <= MaxSize
    /\ sem + Cardinality(Admitted) = MaxSize

\* A connection has one owner: the idle queue, close_all(), or one thread
\* ("acquire never gets a connection the sweep is still testing").
ExclusiveOwnership ==
  /\ \A i, j \in DOMAIN pool : i # j => pool[i] # pool[j]
  /\ Idle \cap (checked_out \cup doomed) = {}
  /\ \A a, b \in Actors : a # b /\ conn[a] # NoConn => conn[a] # conn[b]
  /\ \A a \in Actors : conn[a] \notin Idle
  /\ \A a \in Actors : conn[a] \in checked_out <=> (pc[a] = "holding" /\ ~closed)

\* What waits for the next borrower has no open transaction and no half-read
\* result.
IdleIsClean == \A c \in Idle : ~tx[c] /\ ~rows[c]

\* No socket is left open behind the pool's back: an open one is in the idle queue, in
\* somebody's hands or still to be closed by close_all(), which leaves the queue empty
\* for good.
NoOrphans ==
  /\ \A c \in Conns : sock[c] # "closed" => c \in Idle \cup doomed \/ \E a \in Actors : conn[a] = c
  /\ closed => pool = <<>>

-----------------------------------------------------------------------------
(* The pool implements the loan book *)

Loan == [t \in Threads |-> IF pc[t] = "holding" THEN conn[t] ELSE NoConn]

Book == INSTANCE PoolSpec WITH Borrowers <- Threads, loan <- Loan, open <- ~closed

\* acquire() hands a connection only to one thread at a time, only while the
\* pool is open and never more than max_size of them.
ImplementsPoolSpec == Book!Spec

-----------------------------------------------------------------------------
(* Liveness.  Threads run; I/O calls end; borrowers release what they hold;   *)
(* close_all() runs to its end.  Look() is strongly fair: a poller looks       *)
(* every 5 ms, a sweep takes a connection away every 30 s.  No timeout is      *)
(* assumed to strike.                                                          *)

Fairness ==
  /\ \A t \in Threads : WF_vars(Advance(t)) /\ SF_vars(SemTake(t))
                        /\ SF_vars(Look(t) /\ (pool # <<>> \/ SlotFree(created)))
  /\ WF_vars(Maintain)
  /\ \A c \in Conns : WF_vars(CloseOne(c))

FairSpec == Spec /\ Fairness

\* "[The maintenance thread] returns the connection shortly": whoever finds all
\* slots taken and none idle is served without the help of its deadline.
PollersAreServed == \A t \in Threads : pc[t] = "polling" ~> pc[t] # "polling"

=============================================================================
