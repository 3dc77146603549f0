-------------------------------- MODULE Runner --------------------------------
(***************************************************************************)
(* The synchronous facade (sync.py) over the runner that executes its      *)
(* coroutines on a background event loop (_runner.py): threads that call,  *)
(* the loop with its queue of ready callbacks, interrupts of the main      *)
(* thread, transaction(), and close() and the restart of the loop.         *)
(*                                                                         *)
(* Every thread has a connection of its own (threadsafety = 1); of it the  *)
(* guard of _operation(), the state of the transaction and a read that was *)
(* cut are kept, Session has the rest.  A loop executes one ready callback *)
(* per step, in order.                                                     *)
(***************************************************************************)
EXTENDS Naturals, Sequences, FiniteSetsExt

CONSTANTS
  Threads, Main,   \* only the main thread is interrupted and uses transaction()
  Hops,            \* callbacks a cancellation takes through asyncio.wait_for: 3 in 3.11
  Budgets          \* bounds: the calls of each thread, interrupts, closes from outside

ASSUME RunnerAssumption ==
  /\ Main \in Threads /\ Hops \in Nat \ {0}
  /\ \A b \in Budgets : b \in [calls : [Threads -> Nat], interrupts : Nat, closes : Nat]

VARIABLES
  loops,   \* the event loops there have been; the last one is runner._loop
  lock,    \* who has runner._lock, or Nobody
  thr,     \* [Threads -> where a thread is in its call and in transaction()]
  task,    \* the coroutines, with their tasks and futures, in the order of the calls
  conn,    \* [Threads -> its connection]
  closer,  \* the loop that runner.close() from outside (atexit, a test) waits for, or 0
  budget,  \* calls, interrupts and closes that may still come
  spoilt   \* history: a rollback of transaction() had no chance, see Interrupt

vars == <<loops, lock, thr, task, conn, closer, budget, spoilt>>

Nobody == "nobody"
NoTask == 0

NewLoop == [st |-> "starting", closed |-> FALSE, ready |-> <<>>]
cur == Len(loops)
LoopIds == DOMAIN loops
is_running(l) == loops[l].st \in {"running", "stopping"}

Init ==
  /\ loops = <<[NewLoop EXCEPT !.st = "running"]>> /\ lock = Nobody
  /\ thr = [t \in Threads |-> [pc |-> "idle", k |-> NoTask, block |-> "out", raised |-> FALSE,
                               tries |-> 0]]
  /\ task = <<>>
  /\ conn = [t \in Threads |-> [open |-> TRUE, owner |-> NoTask, cut |-> FALSE,
                                in_transaction |-> FALSE, autocommit |-> TRUE, server |-> "none"]]
  /\ closer = 0
  /\ budget \in Budgets
  /\ spoilt = FALSE

-----------------------------------------------------------------------------
(* run(): the thread of the caller *)

At(t, pc) == thr' = [thr EXCEPT ![t].pc = pc]
TakeLoop(t, l) == At(t, "submit") /\ task' = [task EXCEPT ![thr[t].k].loop = l]

\* A call makes a coroutine; nothing of it runs yet.
Call(t, kind, timed) ==
  /\ thr[t].pc = "idle" /\ budget.calls[t] > 0
  /\ budget' = [budget EXCEPT !.calls[t] = @ - 1]
  /\ task' = Append(task, [by |-> t, kind |-> kind, timed |-> timed, st |-> "new", fut |-> "pending",
                           out |-> "none", hops |-> 0, loop |-> 0, starts |-> 0])
  /\ thr' = [thr EXCEPT ![t].pc = "check", ![t].k = Len(task) + 1]
  /\ UNCHANGED <<loops, lock, conn, closer, spoilt>>

\* A timeout matters only to a statement that may be interrupted.
Execute(t) == /\ ~thr[t].raised
              /\ \E timed \in BOOLEAN : (timed => t = Main) /\ Call(t, "exec", timed)
\* transaction(): __enter__, and __exit__ after success or an exception
Enter(t) == t = Main /\ thr[t].block # "in" /\ ~conn[t].in_transaction /\ Call(t, "begin", FALSE)
Leave(t) == thr[t].block = "in" /\ Call(t, IF thr[t].raised THEN "rollback" ELSE "commit", FALSE)

\* With the lock: the loop is taken if it runs.
Check(t) ==
  /\ thr[t].pc = "check" /\ lock = Nobody
  /\ IF is_running(cur)
     THEN TakeLoop(t, cur) /\ UNCHANGED lock
     ELSE At(t, "restart") /\ lock' = t /\ UNCHANGED task
  /\ UNCHANGED <<loops, conn, closer, budget, spoilt>>

\* After a RuntimeError: with the lock, restart in any case
Again(t) ==
  /\ thr[t].pc = "again" /\ lock = Nobody
  /\ lock' = t /\ At(t, "restart")
  /\ UNCHANGED <<loops, task, conn, closer, budget, spoilt>>

Item(what, k) == <<[do |-> what, k |-> k]>>
\* What a loop that has ended is given is never executed.
Ready(l, items) == IF loops[l].st = "ended" THEN loops ELSE [loops EXCEPT ![l].ready = @ \o items]

\* close(): a loop that runs is told to stop and waited for - no callback takes the two
\* seconds of the join - and what is then runner._loop is closed unless it runs.
StopLoop == loops' = Ready(cur, Item("stop", NoTask)) /\ spoilt' = TRUE
ClosedLoops ==
  IF is_running(cur) THEN loops ELSE [loops EXCEPT ![cur].closed = TRUE]

\* _restart() with a fresh loop, and the lock is free
Fresh(t, ls) ==
  /\ loops' = Append(ls, NewLoop) /\ lock' = Nobody
  /\ TakeLoop(t, Len(ls) + 1)

\* Mutant: close() takes the lock that is not reentrant.
RestartLocking(t) ==
  /\ thr[t].pc = "restart" /\ lock = Nobody
  /\ IF is_running(cur) THEN StopLoop /\ At(t, "join") /\ UNCHANGED <<lock, task>>
     ELSE Fresh(t, loops) /\ UNCHANGED spoilt
  /\ UNCHANGED <<conn, closer, budget>>

Restart(t) ==
  /\ thr[t].pc = "restart"
  /\ IF is_running(cur) THEN StopLoop /\ At(t, "join") /\ UNCHANGED <<lock, task>>
     ELSE Fresh(t, loops) /\ UNCHANGED spoilt
  /\ UNCHANGED <<conn, closer, budget>>

Join(t) ==
  /\ thr[t].pc = "join" /\ loops[cur].st = "ended"
  /\ Fresh(t, ClosedLoops)
  /\ UNCHANGED <<conn, closer, budget, spoilt>>

\* run_coroutine_threadsafe(): a closed loop refuses, once or twice; a loop that was
\* stopped and is not closed does not.
Submit(t) ==
  /\ thr[t].pc = "submit"
  /\ LET k == thr[t].k
         l == task[k].loop IN
     IF loops[l].closed
     THEN /\ IF thr[t].tries = 0
             THEN thr' = [thr EXCEPT ![t].pc = "again", ![t].tries = 1] /\ UNCHANGED task
             ELSE At(t, "raise") /\ task' = [task EXCEPT ![k].fut = "refused"]
          /\ UNCHANGED loops
     ELSE /\ loops' = Ready(l, <<[do |-> "start", k |-> k]>>)
          /\ At(t, "wait") /\ UNCHANGED task
  /\ UNCHANGED <<lock, conn, closer, budget, spoilt>>

\* Mutant: transaction() restores autocommit only after a commit or rollback that went well.
EndsKeeping(t, ok) ==
  LET kind == task[thr[t].k].kind
      s == [thr[t] EXCEPT !.pc = "idle", !.k = NoTask, !.tries = 0] IN
  CASE kind = "exec" ->
         /\ conn' = conn
         /\ thr' = [thr EXCEPT ![t] = [s EXCEPT !.raised = ~ok /\ s.block = "in"]]
    [] kind = "begin" /\ ok ->
         /\ conn' = [conn EXCEPT ![t].in_transaction = TRUE, ![t].autocommit = FALSE]
         /\ thr' = [thr EXCEPT ![t] = [s EXCEPT !.block = "in"]]
    [] kind = "begin" /\ ~ok ->
         thr' = [thr EXCEPT ![t] = [s EXCEPT !.block = "out"]] /\ conn' = conn
    [] OTHER ->
         /\ conn' = [conn EXCEPT ![t].autocommit = ok]
         /\ thr' = [thr EXCEPT ![t] =
              [s EXCEPT !.block = IF kind = "commit" THEN "committed" ELSE "rolled",
                        !.raised = FALSE]]

\* What the caller does with the end of a call; transaction() leaves its block after
\* commit() and rollback(), whatever became of them, and restores autocommit.
Ends(t, ok) ==
  LET kind == task[thr[t].k].kind
      s == [thr[t] EXCEPT !.pc = "idle", !.k = NoTask, !.tries = 0] IN
  CASE kind = "exec" ->
         /\ conn' = conn
         /\ thr' = [thr EXCEPT ![t] = [s EXCEPT !.raised = ~ok /\ s.block = "in"]]
    [] kind = "begin" /\ ok ->
         /\ conn' = [conn EXCEPT ![t].in_transaction = TRUE, ![t].autocommit = FALSE]
         /\ thr' = [thr EXCEPT ![t] = [s EXCEPT !.block = "in"]]
    [] kind = "begin" /\ ~ok ->
         thr' = [thr EXCEPT ![t] = [s EXCEPT !.block = "out"]] /\ conn' = conn
    [] OTHER ->
         /\ conn' = [conn EXCEPT ![t].autocommit = TRUE]
         /\ thr' = [thr EXCEPT ![t] =
              [s EXCEPT !.block = IF kind = "commit" THEN "committed" ELSE "rolled",
                        !.raised = FALSE]]

\* Mutant: a coroutine that raised is submitted once more.
ReturnRetrying(t) ==
  /\ thr[t].pc = "wait" /\ task[thr[t].k].fut = "done"
  /\ IF task[thr[t].k].out = "error" /\ thr[t].tries = 0
     THEN /\ thr' = [thr EXCEPT ![t].pc = "submit", ![t].tries = 1]
          /\ task' = [task EXCEPT ![thr[t].k].fut = "pending", ![thr[t].k].st = "new"]
          /\ UNCHANGED conn
     ELSE Ends(t, task[thr[t].k].out = "ok") /\ UNCHANGED task
  /\ UNCHANGED <<loops, lock, closer, budget, spoilt>>

Return(t) ==
  /\ thr[t].pc = "wait" /\ task[thr[t].k].fut = "done"
  /\ Ends(t, task[thr[t].k].out = "ok")
  /\ UNCHANGED <<loops, lock, task, closer, budget, spoilt>>
Refused(t) ==
  /\ thr[t].pc = "raise"
  /\ Ends(t, FALSE)
  /\ UNCHANGED <<loops, lock, task, closer, budget, spoilt>>

\* Mutant: the interrupted caller leaves its coroutine alone.
InterruptOnly(t) ==
  LET k == thr[t].k IN
  /\ t = Main /\ thr[t].pc = "wait" /\ budget.interrupts > 0
  /\ budget' = [budget EXCEPT !.interrupts = @ - 1]
  /\ task' = [task EXCEPT ![k].fut = IF @ = "pending" THEN "cancelled" ELSE @]
  /\ Ends(t, FALSE)
  /\ spoilt' = (spoilt \/ task[k].timed \/ task[k].st = "new")
  /\ UNCHANGED <<lock, loops, closer>>

\* KeyboardInterrupt while the thread waits: the future is cancelled, and so is the task
\* once there is one.  The rollback of transaction() that follows finds the connection
\* taken where the cancellation needs more than one callback - under wait_for, and where
\* the coroutine had not been started - and it may be interrupted itself.
Interrupt(t) ==
  LET k == thr[t].k
      l == task[k].loop IN
  /\ t = Main /\ thr[t].pc = "wait" /\ budget.interrupts > 0
  /\ budget' = [budget EXCEPT !.interrupts = @ - 1]
  /\ task' = [task EXCEPT ![k].fut = IF @ = "pending" THEN "cancelled" ELSE @]
  /\ loops' = IF task[k].fut = "pending" /\ task[k].st # "new" /\ ~loops[l].closed
              THEN Ready(l, <<[do |-> "cancel", k |-> k]>>) ELSE loops
  /\ Ends(t, FALSE)
  /\ spoilt' = (spoilt \/ task[k].timed \/ task[k].st = "new")
  /\ UNCHANGED <<lock, closer>>

Thread(t) ==
  Check(t) \/ Again(t) \/ Restart(t) \/ Join(t) \/ Submit(t) \/ Return(t) \/ Refused(t)

-----------------------------------------------------------------------------
(* The event loop in its thread *)

\* run_forever() refuses a loop that was closed before it began.
LoopBegins(l) ==
  /\ loops[l].st = "starting"
  /\ loops' = IF loops[l].closed THEN [loops EXCEPT ![l].st = "ended", ![l].ready = <<>>]
              ELSE [loops EXCEPT ![l].st = "running"]
  /\ UNCHANGED <<lock, thr, task, conn, closer, budget, spoilt>>

\* Told to stop, it executes what was ready and ends.
LoopEnds(l) ==
  /\ loops[l].st = "stopping"
  /\ loops' = [loops EXCEPT ![l].st = "ended", ![l].ready = <<>>]
  /\ UNCHANGED <<lock, thr, task, conn, closer, budget, spoilt>>

Then(l, items) == [loops EXCEPT ![l].ready = Tail(@) \o items]

\* The callback of run_coroutine_threadsafe makes the task and chains the futures: one
\* that is cancelled already cancels the task after its first step.
Starts(l, k) ==
  /\ task' = [task EXCEPT ![k].st = "ready"]
  /\ loops' = Then(l, Item("step", k) \o IF task[k].fut = "cancelled" THEN Item("cancel", k) ELSE <<>>)
  /\ UNCHANGED conn

\* The task is over and lets go of the wire; its caller is told.
Over(l, k, out, c) ==
  /\ task' = [task EXCEPT ![k].st = "over", ![k].out = out, ![k].hops = 0,
                          ![k].fut = IF @ = "pending" THEN "done" ELSE @]
  /\ conn' = [conn EXCEPT ![task[k].by] = [c EXCEPT !.owner = IF @ = k THEN NoTask ELSE @]]
  /\ loops' = Then(l, <<>>)

\* _execute() of begin runs without the guard, and trips over the generator of a reader
\* that has not ended.
Taken(k, c) ==
  /\ c.owner # NoTask
  /\ task[k].kind = "begin" => task[c.owner].st # "unwinding" \/ task[c.owner].hops > 1

\* What the statement does to the transaction of the session
After(kind, out, server) ==
  CASE kind = "begin" -> IF out = "ok" THEN "open" ELSE server
    [] kind \in {"commit", "rollback"} -> "none"
    [] OTHER -> server

\* The first step: the guards, and the statement goes out.
FirstStep(l, k) ==
  LET t == task[k].by
      c == conn[t]
      kind == task[k].kind IN
  CASE kind = "rollback" /\ c.open /\ ~c.in_transaction -> Over(l, k, "ok", c)
    [] ~c.open \/ ((kind # "rollback" \/ c.in_transaction) /\ Taken(k, c)) -> Over(l, k, "error", c)
    [] c.open /\ c.cut /\ ~Taken(k, c) -> Over(l, k, "error", [c EXCEPT !.open = FALSE])
    [] OTHER ->
         \E out \in IF kind = "rollback" THEN {"ok"} ELSE {"ok", "error"} :
           /\ task' = [task EXCEPT ![k].st = "asking", ![k].out = out, ![k].starts = @ + 1]
           /\ conn' = [conn EXCEPT ![t].owner = IF kind = "begin" THEN @ ELSE k,
                                   ![t].server = After(kind, out, @)]
           /\ loops' = Then(l, <<>>)

\* The answer is read; its tag, commit() and rollback() say what the transaction is.
Read(l, k) ==
  LET c == conn[task[k].by] IN
  Over(l, k, task[k].out,
       [c EXCEPT !.in_transaction = IF task[k].out = "ok" /\ task[k].kind # "exec"
                                    THEN task[k].kind = "begin" ELSE @])

Unwinds(l, k) ==
  IF task[k].hops > 1
  THEN /\ task' = [task EXCEPT ![k].hops = @ - 1]
       /\ loops' = Then(l, Item("step", k)) /\ UNCHANGED conn
  ELSE Over(l, k, "cancelled", conn[task[k].by])

Steps(l, k) ==
  CASE task[k].st = "ready" -> FirstStep(l, k)
    [] task[k].st = "doomed" -> Over(l, k, "cancelled", conn[task[k].by])
    [] task[k].st = "answered" -> Read(l, k)
    [] task[k].st = "unwinding" -> Unwinds(l, k)

\* task.cancel(): before the first step, while it waits for the backend (the read may be
\* cut in the middle of a message), and when the answer is there: wait_for hands that out.
Cancels(l, k) ==
  CASE task[k].st = "ready" ->
         task' = [task EXCEPT ![k].st = "doomed"] /\ loops' = Then(l, <<>>) /\ UNCHANGED conn
    [] task[k].st \in {"asking", "answered"} /\ ~(task[k].st = "answered" /\ task[k].timed) ->
         /\ task' = [task EXCEPT ![k].st = "unwinding",
                                 ![k].hops = IF task[k].timed THEN Hops ELSE 1]
         /\ loops' = Then(l, IF task[k].st = "asking" THEN Item("step", k) ELSE <<>>)
         /\ \E cut \in BOOLEAN : conn' = [conn EXCEPT ![task[k].by].cut = @ \/ cut]
    [] OTHER -> loops' = Then(l, <<>>) /\ UNCHANGED <<task, conn>>

Turn(l) ==
  /\ is_running(l) /\ loops[l].ready # <<>>
  /\ LET k == Head(loops[l].ready).k
         do == Head(loops[l].ready).do IN
     CASE do = "start" -> Starts(l, k)
       [] do = "step" -> Steps(l, k)
       [] do = "cancel" -> Cancels(l, k)
       [] do = "stop" ->
            /\ loops' = [loops EXCEPT ![l].st = "stopping", ![l].ready = Tail(@)]
            /\ UNCHANGED <<task, conn>>
  /\ UNCHANGED <<lock, thr, closer, budget, spoilt>>

\* The backend answers; the loop sees it in its selector.
Answer(k) ==
  /\ task[k].st = "asking" /\ is_running(task[k].loop)
  /\ task' = [task EXCEPT ![k].st = "answered"]
  /\ loops' = Ready(task[k].loop, Item("step", k))
  /\ UNCHANGED <<lock, thr, conn, closer, budget, spoilt>>

Loop(l) == l \in LoopIds /\ (LoopBegins(l) \/ LoopEnds(l) \/ Turn(l))

-----------------------------------------------------------------------------
(* close() from outside takes no lock and looks runner._loop up each time. *)

CloserStops ==
  /\ closer = 0 /\ budget.closes > 0 /\ is_running(cur)
  /\ budget' = [budget EXCEPT !.closes = @ - 1]
  /\ StopLoop /\ closer' = cur
  /\ UNCHANGED <<lock, thr, task, conn>>
CloserCloses ==
  /\ closer # 0 /\ loops[closer].st = "ended"
  /\ loops' = ClosedLoops /\ closer' = 0
  /\ UNCHANGED <<lock, thr, task, conn, budget, spoilt>>

-----------------------------------------------------------------------------

App(t) == Execute(t) \/ Enter(t) \/ Leave(t)

Next ==
  \/ \E t \in Threads : App(t) \/ Thread(t) \/ Interrupt(t)
  \/ \E l \in LoopIds : Loop(l)
  \/ \E k \in DOMAIN task : Answer(k)
  \/ CloserStops \/ CloserCloses

Spec == Init /\ [][Next]_vars

\* Threads and loops run, and the backend answers a statement somebody waits for.
AwaitedAnswer == \E k \in DOMAIN task : task[k].fut = "pending" /\ Answer(k)

MaxTasks == Max({MapThenSumSet(LAMBDA t : b.calls[t], Threads) : b \in Budgets})
MaxLoops == 2 * MaxTasks + 1   \* a call restarts the runner twice at most

FairSpec ==
  /\ Spec
  /\ \A t \in Threads : WF_vars(Thread(t))
  /\ \A l \in 1 .. MaxLoops : WF_vars(Loop(l))
  /\ WF_vars(AwaitedAnswer) /\ WF_vars(CloserCloses)

-----------------------------------------------------------------------------
(* Properties *)

Dead(l) == l \in LoopIds /\ (loops[l].st = "ended" \/ loops[l].closed)

\* "Retrying here would re-submit a coroutine that already ran" (_runner.py): no coroutine
\* is run twice, by one loop or two, and one whose call was refused is never run at all.
RunsAtMostOnce ==
  \A k \in DOMAIN task :
    task[k].starts <= 1 /\ (task[k].fut = "refused" => task[k].starts = 0)

\* A call comes back, unless its loop was stopped under it: by close() from outside, or by
\* another thread that found the loop not yet running and restarted it.
CallsReturn ==
  \A t \in Threads :
    thr[t].pc # "idle" ~> thr[t].pc = "idle" \/ (thr[t].pc = "wait" /\ Dead(task[thr[t].k].loop))

\* "An interrupted sync call cancels its coroutine, which used to keep running and owning
\* the connection" (CHANGELOG.md:107): it lets go of it, even if the backend never answers.
InterruptedLetsGo ==
  \A k \in 1 .. MaxTasks :
    (k \in DOMAIN task /\ task[k].fut = "cancelled") ~>
      /\ k \in DOMAIN task
      /\ Dead(task[k].loop) \/ (task[k].st = "over" /\ conn[task[k].by].owner # k)

\* docs/sync_api.md:108: transaction() "rolls back on an exception" and "restores the
\* previous autocommit setting": of a block that was left by an exception nothing is open
\* once its rollback, which nobody interrupted, has returned.
RollsBack ==
  LET c == conn[Main] IN
  /\ thr[Main].block = "rolled" /\ thr[Main].pc = "idle" /\ c.open
  /\ (\A k \in DOMAIN task : task[k].st = "over" /\ (task[k].kind = "rollback" => task[k].fut = "done"))
  => c.server = "none" /\ c.autocommit

\* It does where the rollback had a chance; and autocommit is restored however the block ends.
BlocksAreClosed ==
  /\ ~spoilt => RollsBack
  /\ thr[Main].block = "in" \/ conn[Main].autocommit

=============================================================================
