----------------------------- MODULE RunnerProofs -----------------------------
(***************************************************************************)
(* Proofs about Runner for any threads, any budget of calls, interrupts    *)
(* and closes, and any number of callbacks a cancellation takes.           *)
(*                                                                         *)
(* That no coroutine is run twice depends on the queues of all loops at    *)
(* once: a loop that was stopped keeps what it was given, a thread that    *)
(* was refused by a closed loop submits again, and interrupts add their    *)
(* cancellations behind it all.                                            *)
(***************************************************************************)
EXTENDS Runner, TLAPS

-----------------------------------------------------------------------------
(* The invariant.                                                              *)
(*                                                                             *)
(* "start" and "step" run the coroutine: of each task there is one of them at  *)
(* most in all the queues, and it fits the state of the task.  "cancel" and    *)
(* "stop" may be there any number of times.                                    *)

States == {"new", "ready", "doomed", "asking", "answered", "unwinding", "over"}
Stepping == {"ready", "doomed", "answered", "unwinding"}
Trying == {"check", "again", "restart", "join", "submit"}

Callback == [do : {"start", "step", "cancel", "stop"}, k : Nat]
LoopRecord == [st : {"starting", "running", "stopping", "ended"}, closed : BOOLEAN,
               ready : Seq(Callback)]
TaskRecord ==
  [by : Threads, kind : {"exec", "begin", "commit", "rollback"}, timed : BOOLEAN, st : States,
   fut : {"pending", "done", "cancelled", "refused"}, out : {"none", "ok", "error", "cancelled"},
   hops : Nat, loop : Nat, starts : Nat]

Typed ==
  /\ loops \in Seq(LoopRecord) /\ task \in Seq(TaskRecord)
  /\ thr = [t \in Threads |-> thr[t]]
  /\ \A t \in Threads : {"pc", "k"} \subseteq DOMAIN thr[t]

Runs(x) == x.do \in {"start", "step"}

\* x is in a queue
In(ls, x) == \E l \in DOMAIN ls : \E i \in DOMAIN ls[l].ready : ls[l].ready[i] = x

Rivals(x, y) == Runs(x) /\ Runs(y) /\ x.k = y.k

\* The callbacks that run coroutines are there for different ones.
Lone(ls) ==
  \A l \in DOMAIN ls : \A m \in DOMAIN ls :
    \A i \in DOMAIN ls[l].ready : \A j \in DOMAIN ls[m].ready :
      Rivals(ls[l].ready[i], ls[m].ready[j]) => l = m /\ i = j

Fits(x) ==
  /\ x.do # "stop" => x.k \in DOMAIN task
  /\ x.do = "start" => task[x.k].st = "new" /\ task[x.k].fut # "refused"
  /\ x.do = "step" => task[x.k].st \in Stepping

Items == \A l \in LoopIds : \A i \in DOMAIN loops[l].ready : Fits(loops[l].ready[i])

Counts ==
  \A k \in DOMAIN task :
    /\ task[k].starts <= 1
    /\ task[k].st \in {"new", "ready"} => task[k].starts = 0
    /\ task[k].fut = "refused" => task[k].st = "new"

\* A call that has not been submitted has a coroutine of its own that nobody runs.
Callers ==
  \A t \in Threads :
    /\ thr[t].pc \in Trying \cup {"wait"} => thr[t].k \in DOMAIN task /\ task[thr[t].k].by = t
    /\ thr[t].pc \in Trying =>
         /\ task[thr[t].k].st = "new" /\ task[thr[t].k].fut = "pending"
         /\ ~In(loops, [do |-> "start", k |-> thr[t].k])

IInv == Typed /\ Lone(loops) /\ Items /\ Counts /\ Callers

-----------------------------------------------------------------------------
(* Queues *)

Pop(ls, l) == [ls EXCEPT ![l].ready = Tail(@)]
Push(ls, l, x) == [ls EXCEPT ![l].ready = @ \o <<x>>]

LEMMA Fields ==
  ASSUME NEW ls \in Seq(LoopRecord), NEW l \in DOMAIN ls
  PROVE  ls[l] \in LoopRecord /\ ls[l].ready \in Seq(Callback)
<1>1. ls[l] \in LoopRecord
  OBVIOUS
<1>. QED
  BY <1>1 DEF LoopRecord

LEMMA QueueChanged ==
  ASSUME NEW ls \in Seq(LoopRecord), NEW l \in DOMAIN ls, NEW q \in Seq(Callback)
  PROVE  LET ms == [ls EXCEPT ![l].ready = q] IN
         /\ ms \in Seq(LoopRecord) /\ DOMAIN ms = DOMAIN ls /\ ms[l].ready = q
         /\ \A m \in DOMAIN ls : m # l => ms[m].ready = ls[m].ready
<1>. DEFINE s == [ls[l] EXCEPT !.ready = q]
<1>1. s \in LoopRecord /\ s.ready = q
  <2>1. ls[l] \in LoopRecord
    BY Fields
  <2>. QED
    BY <2>1 DEF LoopRecord
<1>2. [ls EXCEPT ![l].ready = q] = [ls EXCEPT ![l] = s]
  OBVIOUS
<1>. HIDE DEF s
<1>3. DOMAIN [ls EXCEPT ![l] = s] = DOMAIN ls /\ [ls EXCEPT ![l] = s] \in Seq(LoopRecord)
  BY <1>1
<1>. QED
  BY SMTT(60), <1>1, <1>2, <1>3

\* A loop is added, or queues are emptied.
LEMMA Emptied ==
  ASSUME NEW ls, NEW ms,
         \A l \in DOMAIN ms :
           ms[l].ready = <<>> \/ (l \in DOMAIN ls /\ ms[l].ready = ls[l].ready)
  PROVE  (Lone(ls) => Lone(ms)) /\ \A x : In(ms, x) => In(ls, x)
<1>1. \A l \in DOMAIN ms : \A i \in DOMAIN ms[l].ready :
        l \in DOMAIN ls /\ ms[l].ready = ls[l].ready
  OBVIOUS
<1>2. Lone(ls) => Lone(ms)
  BY <1>1 DEF Lone
<1>3. \A x : In(ms, x) => In(ls, x)
  BY <1>1 DEF In
<1>. QED
  BY <1>2, <1>3

\* The first callback is taken.
LEMMA Popped ==
  ASSUME NEW ls \in Seq(LoopRecord), NEW l \in DOMAIN ls, ls[l].ready # <<>>, Lone(ls)
  PROVE  LET ms == Pop(ls, l) IN
         /\ ms \in Seq(LoopRecord) /\ DOMAIN ms = DOMAIN ls
         /\ Head(ls[l].ready) \in Callback /\ In(ls, Head(ls[l].ready))
         /\ Lone(ms) /\ \A x : In(ms, x) => In(ls, x)
         /\ \A x : In(ms, x) => ~Rivals(x, Head(ls[l].ready))
<1>. DEFINE q == ls[l].ready
            ms == Pop(ls, l)
<1>0. \A m \in DOMAIN ls : ls[m] \in LoopRecord /\ ls[m].ready \in Seq(Callback)
  BY Fields
<1>1. q \in Seq(Callback) /\ q # <<>>
  BY <1>0
<1>2. /\ Tail(q) \in Seq(Callback) /\ Head(q) \in Callback /\ Head(q) = q[1] /\ 1 \in DOMAIN q
      /\ \A i \in DOMAIN Tail(q) : i + 1 \in DOMAIN q /\ Tail(q)[i] = q[i + 1] /\ i \in Nat /\ i # 0
  BY <1>1
<1>3. /\ ms \in Seq(LoopRecord) /\ DOMAIN ms = DOMAIN ls /\ ms[l].ready = Tail(q)
      /\ \A m \in DOMAIN ls : m # l => ms[m].ready = ls[m].ready
  BY <1>2, QueueChanged DEF Pop
<1>. HIDE DEF ms
<1>. DEFINE shift(m, i) == IF m = l THEN i + 1 ELSE i
<1>4. \A m \in DOMAIN ms : \A i \in DOMAIN ms[m].ready :
        shift(m, i) \in DOMAIN ls[m].ready /\ ms[m].ready[i] = ls[m].ready[shift(m, i)]
  BY <1>2, <1>3
<1>5. \A m \in DOMAIN ms : \A i, j \in DOMAIN ms[m].ready : shift(m, i) = shift(m, j) => i = j
  <2>1. \A m \in DOMAIN ms : \A i \in DOMAIN ms[m].ready : i \in Nat
    BY <1>3, Fields
  <2>. QED
    BY <2>1
<1>6. Lone(ms)
  <2>1. SUFFICES ASSUME NEW m \in DOMAIN ms, NEW n \in DOMAIN ms,
                        NEW i \in DOMAIN ms[m].ready, NEW j \in DOMAIN ms[n].ready,
                        Rivals(ms[m].ready[i], ms[n].ready[j])
                 PROVE  m = n /\ i = j
    BY Zenon DEF Lone
  <2>2. /\ shift(m, i) \in DOMAIN ls[m].ready /\ ms[m].ready[i] = ls[m].ready[shift(m, i)]
        /\ shift(n, j) \in DOMAIN ls[n].ready /\ ms[n].ready[j] = ls[n].ready[shift(n, j)]
    BY <1>4
  <2>. HIDE DEF shift
  <2>3. m = n /\ shift(m, i) = shift(n, j)
    BY <1>3, <2>1, <2>2 DEF Lone
  <2>. QED
    BY <1>5, <2>3
<1>7. \A x : In(ms, x) => In(ls, x)
  BY <1>3, <1>4 DEF In
<1>8. In(ls, Head(q))
  BY <1>2 DEF In
<1>9. ASSUME NEW x, In(ms, x) PROVE ~Rivals(x, Head(q))
  <2>1. PICK m \in DOMAIN ms : \E i \in DOMAIN ms[m].ready : ms[m].ready[i] = x
    BY <1>9 DEF In
  <2>2. PICK i \in DOMAIN ms[m].ready : ms[m].ready[i] = x
    BY <2>1
  <2>3. x = ls[m].ready[shift(m, i)] /\ shift(m, i) \in DOMAIN ls[m].ready
    BY <2>2, <1>4
  <2>4. m = l => shift(m, i) # 1
    <3>1. m = l => i \in DOMAIN Tail(q)
      BY <1>3, <2>2
    <3>. QED
      BY <3>1, <1>2
  <2>5. m \in DOMAIN ls /\ ls[l].ready[1] = Head(q)
    BY <1>2, <1>3
  <2>. HIDE DEF shift
  <2>. QED
    BY <1>2, <1>9, <2>3, <2>4, <2>5 DEF Lone
<1>. QED
  BY <1>2, <1>3, <1>6, <1>7, <1>8, <1>9 DEF ms

LEMMA Appended ==
  ASSUME NEW q \in Seq(Callback), NEW x \in Callback
  PROVE  /\ q \o <<x>> \in Seq(Callback)
         /\ \A i \in DOMAIN (q \o <<x>>) :
              \/ i \in DOMAIN q /\ (q \o <<x>>)[i] = q[i]
              \/ i = Len(q) + 1 /\ (q \o <<x>>)[i] = x
<1>1. q \o <<x>> \in Seq(Callback) /\ Len(q \o <<x>>) = Len(q) + 1 /\ Len(q) \in Nat
  OBVIOUS
<1>2. ASSUME NEW i \in 1 .. Len(q) + 1
      PROVE  \/ i \in 1 .. Len(q) /\ (q \o <<x>>)[i] = q[i]
             \/ i = Len(q) + 1 /\ (q \o <<x>>)[i] = x
  <2>1. i \in 1 .. Len(q) \/ i = Len(q) + 1
    BY <1>1
  <2>. QED
    BY <2>1
<1>. QED
  BY <1>1, <1>2

\* A callback is appended; one that runs a coroutine must be the only one for it.
LEMMA Pushed ==
  ASSUME NEW ls \in Seq(LoopRecord), NEW l \in DOMAIN ls, Lone(ls), NEW x \in Callback,
         \A y : In(ls, y) => ~Rivals(y, x)
  PROVE  LET ms == Push(ls, l, x) IN
         /\ ms \in Seq(LoopRecord) /\ DOMAIN ms = DOMAIN ls
         /\ Lone(ms) /\ \A y : In(ms, y) => In(ls, y) \/ y = x
<1>. DEFINE q == ls[l].ready
            r == q \o <<x>>
            ms == Push(ls, l, x)
<1>1. q \in Seq(Callback)
  BY Fields
<1>2. /\ r \in Seq(Callback)
      /\ \A i \in DOMAIN r : (i \in DOMAIN q /\ r[i] = q[i]) \/ (i = Len(q) + 1 /\ r[i] = x)
  BY <1>1, Appended
<1>3. /\ ms \in Seq(LoopRecord) /\ DOMAIN ms = DOMAIN ls /\ ms[l].ready = r
      /\ \A m \in DOMAIN ls : m # l => ms[m].ready = ls[m].ready
  BY <1>2, QueueChanged DEF Push
<1>. HIDE DEF ms
<1>4. \A m \in DOMAIN ms : \A i \in DOMAIN ms[m].ready :
        \/ i \in DOMAIN ls[m].ready /\ ms[m].ready[i] = ls[m].ready[i]
        \/ m = l /\ i = Len(q) + 1 /\ ms[m].ready[i] = x
  BY <1>2, <1>3
<1>. HIDE DEF q, r
<1>5. \A y : In(ms, y) => In(ls, y) \/ y = x
  BY <1>3, <1>4 DEF In
<1>6. Lone(ms)
  <2>1. SUFFICES ASSUME NEW m \in DOMAIN ms, NEW n \in DOMAIN ms,
                        NEW i \in DOMAIN ms[m].ready, NEW j \in DOMAIN ms[n].ready,
                        Rivals(ms[m].ready[i], ms[n].ready[j])
                 PROVE  m = n /\ i = j
    BY Zenon DEF Lone
  <2>2. \A o \in DOMAIN ls : \A h \in DOMAIN ls[o].ready : In(ls, ls[o].ready[h])
    BY DEF In
  <2>3. CASE /\ i \in DOMAIN ls[m].ready /\ ms[m].ready[i] = ls[m].ready[i]
             /\ j \in DOMAIN ls[n].ready /\ ms[n].ready[j] = ls[n].ready[j]
    BY <1>3, <2>1, <2>3 DEF Lone
  <2>4. CASE /\ i \in DOMAIN ls[m].ready /\ ms[m].ready[i] = ls[m].ready[i]
             /\ ms[n].ready[j] = x
    BY <1>3, <2>1, <2>2, <2>4
  <2>5. CASE /\ j \in DOMAIN ls[n].ready /\ ms[n].ready[j] = ls[n].ready[j]
             /\ ms[m].ready[i] = x
    BY <1>3, <2>1, <2>2, <2>5 DEF Rivals
  <2>. QED
    BY <1>4, <2>3, <2>4, <2>5
<1>. QED
  BY <1>3, <1>5, <1>6 DEF ms

\* The first callback of a loop is replaced by at most two.
LEMMA Replaced ==
  ASSUME Typed, Lone(loops), NEW l \in LoopIds, loops[l].ready # <<>>
  PROVE  LET h == Head(loops[l].ready) IN
         /\ h \in Callback /\ In(loops, h)
         /\ LET ms == Then(l, <<>>) IN
            /\ ms \in Seq(LoopRecord) /\ Lone(ms)
            /\ \A y : In(ms, y) => In(loops, y) /\ ~Rivals(y, h)
         /\ \A x \in Callback :
              LET ms == Then(l, <<x>>) IN
              (\A y : In(loops, y) /\ ~Rivals(y, h) => ~Rivals(y, x)) =>
                /\ ms \in Seq(LoopRecord) /\ Lone(ms)
                /\ \A y : In(ms, y) => (In(loops, y) /\ ~Rivals(y, h)) \/ y = x
         /\ \A x \in Callback, c \in Callback :
              LET ms == Then(l, <<x>> \o <<c>>) IN
              (\A y : In(loops, y) /\ ~Rivals(y, h) => ~Rivals(y, x)) /\ ~Runs(c) =>
                /\ ms \in Seq(LoopRecord) /\ Lone(ms)
                /\ \A y : In(ms, y) => (In(loops, y) /\ ~Rivals(y, h)) \/ y \in {x, c}
<1>. DEFINE q == loops[l].ready
            h == Head(q)
            mid == Pop(loops, l)
<1>1. loops \in Seq(LoopRecord) /\ l \in DOMAIN loops /\ q \in Seq(Callback)
  BY Fields DEF Typed, LoopIds
<1>2. /\ mid \in Seq(LoopRecord) /\ DOMAIN mid = DOMAIN loops /\ Lone(mid)
      /\ h \in Callback /\ In(loops, h)
      /\ \A x : In(mid, x) => In(loops, x) /\ ~Rivals(x, h)
  BY <1>1, Popped
<1>3. Then(l, <<>>) = mid
  <2>1. Tail(q) \o <<>> = Tail(q)
    BY <1>1
  <2>. QED
    BY <2>1 DEF Then, Pop, Push
<1>4. ASSUME NEW x \in Callback, \A y : In(loops, y) /\ ~Rivals(y, h) => ~Rivals(y, x)
      PROVE  /\ Then(l, <<x>>) = Push(mid, l, x)
             /\ Then(l, <<x>>) \in Seq(LoopRecord) /\ DOMAIN Then(l, <<x>>) = DOMAIN loops
             /\ Lone(Then(l, <<x>>))
             /\ \A y : In(Then(l, <<x>>), y) => (In(loops, y) /\ ~Rivals(y, h)) \/ y = x
  <2>1. Then(l, <<x>>) = Push(mid, l, x)
    BY <1>1 DEF Then, Pop, Push
  <2>. HIDE DEF mid, h
  <2>. QED
    BY <1>1, <1>2, <1>4, <2>1, Pushed
<1>5. ASSUME NEW x \in Callback, NEW c \in Callback, ~Runs(c),
             \A y : In(loops, y) /\ ~Rivals(y, h) => ~Rivals(y, x)
      PROVE  LET ms == Then(l, <<x>> \o <<c>>) IN
             /\ ms \in Seq(LoopRecord) /\ Lone(ms)
             /\ \A y : In(ms, y) => (In(loops, y) /\ ~Rivals(y, h)) \/ y \in {x, c}
  <2>. DEFINE ms == Then(l, <<x>> \o <<c>>)
              one == Then(l, <<x>>)
  <2>1. Tail(q) \o (<<x>> \o <<c>>) = (Tail(q) \o <<x>>) \o <<c>>
    <3>1. \A p \in Seq(Callback) : p \o (<<x>> \o <<c>>) = (p \o <<x>>) \o <<c>>
      OBVIOUS
    <3>2. q # <<>> /\ Tail(q) \in Seq(Callback)
      BY <1>1
    <3>. QED
      BY <3>1, <3>2
  <2>2. ms = Push(one, l, c)
    BY <1>1, <2>1 DEF Then, Pop, Push
  <2>3. \A y : ~Rivals(y, c)
    BY <1>5 DEF Rivals
  <2>4. /\ one \in Seq(LoopRecord) /\ DOMAIN one = DOMAIN loops /\ Lone(one)
        /\ \A y : In(one, y) => (In(loops, y) /\ ~Rivals(y, h)) \/ y = x
    BY <1>4, <1>5
  <2>. HIDE DEF ms, one, h
  <2>5. /\ ms \in Seq(LoopRecord) /\ Lone(ms)
        /\ \A y : In(ms, y) => In(one, y) \/ y = c
    BY <1>1, <2>2, <2>3, <2>4, Pushed
  <2>6. \A y : In(ms, y) => (In(loops, y) /\ ~Rivals(y, h)) \/ y \in {x, c}
    BY <2>4, <2>5
  <2>. QED
    BY <2>5, <2>6 DEF ms
<1>. QED
  BY <1>2, <1>3, <1>4, <1>5

\* A callback from another thread or from the selector
LEMMA Posted ==
  ASSUME Typed, Lone(loops), NEW l, NEW x \in Callback, \A y : In(loops, y) => ~Rivals(y, x)
  PROVE  LET ms == Ready(l, <<x>>) IN
         /\ ms \in Seq(LoopRecord) /\ Lone(ms)
         /\ \A y : In(ms, y) => In(loops, y) \/ y = x
<1>. DEFINE ms == Push(loops, l, x)
<1>1. loops \in Seq(LoopRecord)
  BY DEF Typed
<1>2. CASE l \notin DOMAIN loops
  <2>1. ms = loops
    BY <1>1, <1>2 DEF Push
  <2>. QED
    BY <1>1, <2>1 DEF Ready, Push
<1>3. CASE l \in DOMAIN loops
  <2>1. ms \in Seq(LoopRecord) /\ Lone(ms) /\ \A y : In(ms, y) => In(loops, y) \/ y = x
    BY <1>1, <1>3, Pushed
  <2>. QED
    BY <1>1, <2>1 DEF Ready, Push
<1>. QED
  BY <1>2, <1>3

LEMMA Fitting ==
  ASSUME Items, NEW x, In(loops, x) PROVE Fits(x)
BY DEF Items, In, LoopIds

LEMMA AllFit ==
  ASSUME \A x : In(loops', x) => Fits(x)' PROVE Items'
BY DEF Items, In, LoopIds

-----------------------------------------------------------------------------
(* What a step may do to the invariant *)

\* No coroutine is touched, and the threads go on or come back.
LEMMA Steady ==
  ASSUME IInv, Typed', Lone(loops'), DOMAIN task' = DOMAIN task,
         \A x : In(loops', x) =>
           In(loops, x) \/ x.do = "stop" \/ (x.do = "cancel" /\ x.k \in DOMAIN task),
         \A k \in DOMAIN task :
           /\ task'[k].st = task[k].st /\ task'[k].fut = task[k].fut
           /\ task'[k].by = task[k].by /\ task'[k].starts = task[k].starts,
         \A t \in Threads :
           thr'[t].pc \in Trying \cup {"wait"} =>
             /\ thr'[t].k = thr[t].k
             /\ thr'[t].pc = thr[t].pc \/ (thr[t].pc \in Trying /\ thr'[t].pc \in Trying)
  PROVE  IInv'
<1>1. Items'
  <2>1. ASSUME NEW x, In(loops', x) PROVE Fits(x)'
    <3>1. CASE In(loops, x)
      BY <3>1, Fitting DEF IInv, Fits
    <3>2. CASE x.do = "stop" \/ (x.do = "cancel" /\ x.k \in DOMAIN task)
      BY <3>2 DEF Fits
    <3>. QED
      BY <2>1, <3>1, <3>2
  <2>. QED
    BY <2>1, AllFit
<1>2. Counts'
  BY DEF IInv, Counts
<1>3. Callers'
  <2>1. \A k : [do |-> "start", k |-> k].do = "start"
    OBVIOUS
  <2>. QED
    BY <2>1 DEF IInv, Callers, Trying
<1>. QED
  BY <1>1, <1>2, <1>3 DEF IInv

\* A loop works on coroutine k, which no thread is about to submit.
LEMMA Worked ==
  ASSUME IInv, Typed', Lone(loops'), thr' = thr, DOMAIN task' = DOMAIN task,
         NEW k \in DOMAIN task, \A j \in DOMAIN task : j # k => task'[j] = task[j],
         task'[k].by = task[k].by,
         task[k].st # "new" \/ In(loops, [do |-> "start", k |-> k]),
         task'[k].starts <= 1, task'[k].st \in {"new", "ready"} => task'[k].starts = 0,
         task'[k].fut = "refused" => task'[k].st = "new",
         \A x : In(loops', x) =>
           \/ In(loops, x) /\ ~(Runs(x) /\ x.k = k)
           \/ x.k = k /\ Fits(x)'
  PROVE  IInv'
<1>1. Items'
  <2>1. ASSUME NEW x, In(loops, x), ~(Runs(x) /\ x.k = k) PROVE Fits(x)'
    BY <2>1, Fitting DEF IInv, Fits, Runs
  <2>. QED
    BY <2>1, AllFit
<1>2. Counts'
  BY DEF IInv, Counts
<1>3. Callers'
  <2>1. \A j : [do |-> "start", k |-> j].do = "start" /\ [do |-> "start", k |-> j].k = j
    OBVIOUS
  <2>2. \A t \in Threads : thr[t].pc \in Trying => thr[t].k # k
    BY DEF IInv, Callers
  <2>. QED
    BY <2>1, <2>2 DEF IInv, Callers
<1>. QED
  BY <1>1, <1>2, <1>3 DEF IInv

-----------------------------------------------------------------------------
(* The threads *)

Shape == thr = [t \in Threads |-> thr[t]] /\ \A t \in Threads : {"pc", "k"} \subseteq DOMAIN thr[t]

LEMMA Moved ==
  ASSUME Shape, NEW t \in Threads, NEW pc, At(t, pc)
  PROVE  /\ Shape' /\ thr'[t].pc = pc /\ thr'[t].k = thr[t].k
         /\ \A u \in Threads : u # t => thr'[u] = thr[u]
<1>. DEFINE r == [thr[t] EXCEPT !.pc = pc]
<1>1. thr' = [thr EXCEPT ![t] = r]
  BY DEF At
<1>2. r.pc = pc /\ r.k = thr[t].k /\ {"pc", "k"} \subseteq DOMAIN r
  BY DEF Shape
<1>. HIDE DEF r
<1>3. thr'[t] = r /\ \A u \in Threads : u # t => thr'[u] = thr[u]
  BY <1>1 DEF Shape
<1>4. thr' = [u \in Threads |-> thr'[u]]
  BY <1>1 DEF Shape
<1>. QED
  BY <1>2, <1>3, <1>4 DEF Shape

LEMMA Back ==
  ASSUME Shape, NEW t \in Threads, NEW ok, Ends(t, ok)
  PROVE  /\ Shape' /\ thr'[t].pc = "idle"
         /\ \A u \in Threads : u # t => thr'[u] = thr[u]
<1>. DEFINE s == [thr[t] EXCEPT !.pc = "idle", !.k = NoTask, !.tries = 0]
<1>1. s.pc = "idle" /\ {"pc", "k"} \subseteq DOMAIN s
  BY DEF Shape
<1>. HIDE DEF s
<1>2. \A b, c : /\ {"pc", "k"} \subseteq DOMAIN [s EXCEPT !.block = b]
                /\ [s EXCEPT !.block = b].pc = "idle"
                /\ {"pc", "k"} \subseteq DOMAIN [s EXCEPT !.raised = b]
                /\ [s EXCEPT !.raised = b].pc = "idle"
                /\ {"pc", "k"} \subseteq DOMAIN [s EXCEPT !.block = b, !.raised = c]
                /\ [s EXCEPT !.block = b, !.raised = c].pc = "idle"
  BY <1>1
<1>3. \/ thr' = [thr EXCEPT ![t] = s]
      \/ \E b : thr' = [thr EXCEPT ![t] = [s EXCEPT !.block = b]]
      \/ \E b : thr' = [thr EXCEPT ![t] = [s EXCEPT !.raised = b]]
      \/ \E b, c : thr' = [thr EXCEPT ![t] = [s EXCEPT !.block = b, !.raised = c]]
  BY Zenon DEF Ends, s
<1>4. PICK r : thr' = [thr EXCEPT ![t] = r] /\ r.pc = "idle" /\ {"pc", "k"} \subseteq DOMAIN r
  <2>1. CASE thr' = [thr EXCEPT ![t] = s]
    BY <1>1, <2>1
  <2>2. CASE \E b : thr' = [thr EXCEPT ![t] = [s EXCEPT !.block = b]]
    BY <1>2, <2>2, Zenon
  <2>3. CASE \E b : thr' = [thr EXCEPT ![t] = [s EXCEPT !.raised = b]]
    BY <1>2, <2>3, Zenon
  <2>4. CASE \E b, c : thr' = [thr EXCEPT ![t] = [s EXCEPT !.block = b, !.raised = c]]
    <3>1. PICK b, c : thr' = [thr EXCEPT ![t] = [s EXCEPT !.block = b, !.raised = c]]
      BY <2>4, Zenon
    <3>2. /\ {"pc", "k"} \subseteq DOMAIN [s EXCEPT !.block = b, !.raised = c]
          /\ [s EXCEPT !.block = b, !.raised = c].pc = "idle"
      BY <1>2
    <3>. QED
      BY <3>1, <3>2, Zenon
  <2>. QED
    BY <1>3, <2>1, <2>2, <2>3, <2>4
<1>5. thr'[t] = r /\ \A u \in Threads : u # t => thr'[u] = thr[u]
  BY <1>4 DEF Shape
<1>6. thr' = [u \in Threads |-> thr'[u]]
  BY <1>4 DEF Shape
<1>. QED
  BY <1>4, <1>5, <1>6 DEF Shape

LEMMA TypedIs ==
  Typed <=> loops \in Seq(LoopRecord) /\ task \in Seq(TaskRecord) /\ Shape
BY DEF Typed, Shape

LEMMA CallStep ==
  ASSUME IInv, NEW t \in Threads, NEW kind \in {"exec", "begin", "commit", "rollback"},
         NEW timed \in BOOLEAN, Call(t, kind, timed)
  PROVE  IInv'
<1>. DEFINE k == Len(task) + 1
            r == [by |-> t, kind |-> kind, timed |-> timed, st |-> "new", fut |-> "pending",
                  out |-> "none", hops |-> 0, loop |-> 0, starts |-> 0]
            s == [thr[t] EXCEPT !.pc = "check", !.k = k]
<1>1. task' = Append(task, r) /\ loops' = loops /\ task \in Seq(TaskRecord) /\ Shape
  BY TypedIs DEF Call, IInv
<1>2. r \in TaskRecord /\ r.by = t /\ r.st = "new" /\ r.fut = "pending" /\ r.starts = 0
  BY DEF TaskRecord, States
<1>. HIDE DEF r
<1>3. /\ task' \in Seq(TaskRecord) /\ k \notin DOMAIN task /\ DOMAIN task' = DOMAIN task \cup {k}
      /\ task'[k] = r /\ \A j \in DOMAIN task : task'[j] = task[j]
  BY <1>1, <1>2
<1>4. s.pc = "check" /\ s.k = k /\ {"pc", "k"} \subseteq DOMAIN s
  BY <1>1 DEF Shape
<1>5. thr' = [thr EXCEPT ![t] = s]
  BY DEF Call
<1>. HIDE DEF s, k
<1>6. /\ Shape' /\ thr'[t] = s /\ \A u \in Threads : u # t => thr'[u] = thr[u]
  BY <1>1, <1>4, <1>5 DEF Shape
<1>7. Typed'
  BY <1>1, <1>3, <1>6, TypedIs DEF IInv, Typed, Shape
<1>8. Items'
  BY <1>1, <1>3 DEF IInv, Items, Fits, LoopIds
<1>9. Counts'
  BY <1>2, <1>3 DEF IInv, Counts
<1>10. ~In(loops, [do |-> "start", k |-> k])
  <2>1. Fits([do |-> "start", k |-> k]) => k \in DOMAIN task
    BY DEF Fits
  <2>. QED
    BY <1>3, <2>1, Fitting DEF IInv
<1>11. Callers'
  <2>1. ASSUME NEW u \in Threads, u # t, thr[u].pc \in Trying \cup {"wait"}
        PROVE  thr[u].k \in DOMAIN task /\ task'[thr[u].k] = task[thr[u].k]
    BY <1>3, <2>1 DEF IInv, Callers
  <2>2. /\ thr'[t].k = k /\ k \in DOMAIN task' /\ task'[k].by = t /\ task'[k].st = "new"
        /\ task'[k].fut = "pending" /\ ~In(loops', [do |-> "start", k |-> k])
    BY <1>1, <1>2, <1>3, <1>4, <1>6, <1>10
  <2>3. \A u \in Threads : u # t => thr'[u] = thr[u]
    BY <1>6
  <2>4. ASSUME NEW u \in Threads, u # t
        PROVE  /\ thr'[u].pc \in Trying \cup {"wait"} =>
                    thr'[u].k \in DOMAIN task' /\ task'[thr'[u].k].by = u
               /\ thr'[u].pc \in Trying =>
                    /\ task'[thr'[u].k].st = "new" /\ task'[thr'[u].k].fut = "pending"
                    /\ ~In(loops', [do |-> "start", k |-> thr'[u].k])
    <3>1. thr'[u] = thr[u]
      BY <2>3, <2>4
    <3>2. thr[u].pc \in Trying \cup {"wait"} =>
            thr[u].k \in DOMAIN task' /\ task'[thr[u].k] = task[thr[u].k]
      BY <1>3, <2>1, <2>4
    <3>. QED
      BY <1>1, <3>1, <3>2 DEF IInv, Callers
  <2>. QED
    BY <2>2, <2>4 DEF Callers
<1>. QED
  BY <1>1, <1>7, <1>8, <1>9, <1>11 DEF IInv

\* A thread that waits for the lock, for a loop, or raises
LEMMA Waits ==
  ASSUME IInv, NEW t \in Threads, NEW pc, At(t, pc), task' = task,
         loops' \in Seq(LoopRecord), Lone(loops'), \A x : In(loops', x) => In(loops, x) \/ x.do = "stop",
         (pc \in Trying /\ thr[t].pc \in Trying) \/ pc \notin Trying \cup {"wait"}
  PROVE  IInv'
<1>1. /\ Shape' /\ thr'[t].pc = pc /\ thr'[t].k = thr[t].k
      /\ \A u \in Threads : u # t => thr'[u] = thr[u]
  BY Moved, TypedIs DEF IInv
<1>2. Typed'
  BY <1>1, TypedIs DEF IInv, Typed, Shape
<1>3. \A u \in Threads :
        thr'[u].pc \in Trying \cup {"wait"} =>
          /\ thr'[u].k = thr[u].k
          /\ thr'[u].pc = thr[u].pc \/ (thr[u].pc \in Trying /\ thr'[u].pc \in Trying)
  BY <1>1
<1>. QED
  BY <1>2, <1>3, Steady

\* A thread that has found a loop
LEMMA LoopTaken ==
  ASSUME IInv, NEW t \in Threads, thr[t].pc \in Trying, NEW l \in Nat, TakeLoop(t, l),
         loops' \in Seq(LoopRecord), Lone(loops'), \A x : In(loops', x) => In(loops, x)
  PROVE  IInv'
<1>. DEFINE k == thr[t].k
            r == [task[k] EXCEPT !.loop = l]
<1>1. task \in Seq(TaskRecord) /\ k \in DOMAIN task /\ Shape
  BY TypedIs DEF IInv, Callers
<1>2. task[k] \in TaskRecord
  BY <1>1
<1>3. /\ r \in TaskRecord /\ r.st = task[k].st /\ r.fut = task[k].fut /\ r.by = task[k].by
      /\ r.starts = task[k].starts
  BY <1>2 DEF TaskRecord
<1>4. task' = [task EXCEPT ![k] = r] /\ At(t, "submit")
  BY DEF TakeLoop
<1>. HIDE DEF r, k
<1>5. /\ task' \in Seq(TaskRecord) /\ DOMAIN task' = DOMAIN task /\ task'[k] = r
      /\ \A j \in DOMAIN task : j # k => task'[j] = task[j]
  BY <1>1, <1>3, <1>4
<1>6. /\ Shape' /\ thr'[t].pc = "submit" /\ thr'[t].k = thr[t].k
      /\ \A u \in Threads : u # t => thr'[u] = thr[u]
  BY <1>1, <1>4, Moved
<1>7. Typed'
  BY <1>5, <1>6, TypedIs DEF IInv, Typed, Shape
<1>8. \A j \in DOMAIN task :
        /\ task'[j].st = task[j].st /\ task'[j].fut = task[j].fut
        /\ task'[j].by = task[j].by /\ task'[j].starts = task[j].starts
  BY <1>3, <1>5
<1>9. \A u \in Threads :
        thr'[u].pc \in Trying \cup {"wait"} =>
          /\ thr'[u].k = thr[u].k
          /\ thr'[u].pc = thr[u].pc \/ (thr[u].pc \in Trying /\ thr'[u].pc \in Trying)
  BY <1>6 DEF Trying
<1>. QED
  BY <1>5, <1>7, <1>8, <1>9, Steady

LEMMA Flagged ==
  ASSUME NEW ls \in Seq(LoopRecord), NEW l
  PROVE  LET ms == [ls EXCEPT ![l].closed = TRUE] IN
         /\ ms \in Seq(LoopRecord) /\ DOMAIN ms = DOMAIN ls
         /\ \A m \in DOMAIN ls : ms[m].ready = ls[m].ready
<1>. DEFINE r == [ls[l] EXCEPT !.closed = TRUE]
<1>1. l \in DOMAIN ls => r \in LoopRecord /\ r.ready = ls[l].ready
  <2>1. l \in DOMAIN ls => ls[l] \in LoopRecord
    OBVIOUS
  <2>. QED
    BY <2>1 DEF LoopRecord
<1>2. [ls EXCEPT ![l].closed = TRUE] = [ls EXCEPT ![l] = r]
  OBVIOUS
<1>. HIDE DEF r
<1>3. CASE l \in DOMAIN ls
  <2>1. [ls EXCEPT ![l] = r] \in Seq(LoopRecord)
    BY <1>1, <1>3
  <2>2. \A m \in DOMAIN ls : [ls EXCEPT ![l] = r][m].ready = ls[m].ready
    BY <1>1, <1>3
  <2>. QED
    BY <1>2, <2>1, <2>2
<1>4. CASE l \notin DOMAIN ls
  <2>1. [ls EXCEPT ![l].closed = TRUE] = ls
    BY <1>4
  <2>. QED
    BY <2>1
<1>. QED
  BY <1>3, <1>4

LEMMA FutureSet ==
  ASSUME task \in Seq(TaskRecord), NEW k \in DOMAIN task,
         NEW f \in {"pending", "done", "cancelled", "refused"}, task' = [task EXCEPT ![k].fut = f]
  PROVE  /\ task' \in Seq(TaskRecord) /\ DOMAIN task' = DOMAIN task
         /\ task'[k].fut = f /\ task'[k].st = task[k].st /\ task'[k].by = task[k].by
         /\ task'[k].starts = task[k].starts
         /\ \A j \in DOMAIN task : j # k => task'[j] = task[j]
<1>. DEFINE r == [task[k] EXCEPT !.fut = f]
<1>1. task[k] \in TaskRecord
  OBVIOUS
<1>2. /\ r \in TaskRecord /\ r.fut = f /\ r.st = task[k].st /\ r.by = task[k].by
      /\ r.starts = task[k].starts
  BY <1>1 DEF TaskRecord
<1>3. task' = [task EXCEPT ![k] = r]
  OBVIOUS
<1>. HIDE DEF r
<1>. QED
  BY <1>2, <1>3

LEMMA InIsCallback ==
  ASSUME Typed, NEW x, In(loops, x) PROVE x \in Callback
<1>1. PICK l \in DOMAIN loops : \E i \in DOMAIN loops[l].ready : loops[l].ready[i] = x
  BY DEF In
<1>2. loops[l].ready \in Seq(Callback)
  BY <1>1, Fields DEF Typed
<1>. QED
  BY <1>1, <1>2

LEMMA CheckStep ==
  ASSUME IInv, NEW t \in Threads, Check(t) PROVE IInv'
<1>1. /\ thr[t].pc = "check" /\ loops' = loops /\ Shape /\ task \in Seq(TaskRecord)
      /\ loops \in Seq(LoopRecord)
  BY TypedIs DEF Check, IInv
<1>2. CASE TakeLoop(t, cur)
  BY <1>1, <1>2, LoopTaken DEF IInv, cur, Trying
<1>3. CASE At(t, "restart") /\ task' = task
  BY <1>1, <1>3, Waits DEF IInv, Trying
<1>. QED
  BY <1>2, <1>3 DEF Check

LEMMA AgainStep ==
  ASSUME IInv, NEW t \in Threads, Again(t) PROVE IInv'
<1>1. thr[t].pc = "again" /\ At(t, "restart") /\ loops' = loops /\ task' = task
  BY DEF Again
<1>2. loops \in Seq(LoopRecord) /\ Lone(loops)
  BY DEF IInv, Typed
<1>. QED
  BY <1>1, <1>2, Waits DEF Trying

\* What becomes of the loops in _restart() and close()
LEMMA CloserLoops ==
  ASSUME IInv
  PROVE  /\ LET ms == Ready(cur, Item("stop", NoTask)) IN
            /\ ms \in Seq(LoopRecord) /\ Lone(ms) /\ \A x : In(ms, x) => In(loops, x) \/ x.do = "stop"
         /\ ClosedLoops \in Seq(LoopRecord) /\ Lone(ClosedLoops)
         /\ \A x : In(ClosedLoops, x) => In(loops, x)
<1>1. loops \in Seq(LoopRecord) /\ Typed /\ Lone(loops)
  BY DEF Typed, IInv
<1>2. [do |-> "stop", k |-> NoTask] \in Callback /\ \A y : ~Rivals(y, [do |-> "stop", k |-> NoTask])
  BY DEF Callback, Rivals, Runs, NoTask
<1>3. /\ LET ms == Ready(cur, Item("stop", NoTask)) IN
         /\ ms \in Seq(LoopRecord) /\ Lone(ms) /\ \A x : In(ms, x) => In(loops, x) \/ x.do = "stop"
  BY <1>1, <1>2, Posted DEF Item
<1>4. /\ ClosedLoops \in Seq(LoopRecord) /\ DOMAIN ClosedLoops = DOMAIN loops
      /\ \A l \in DOMAIN loops : ClosedLoops[l].ready = loops[l].ready
  BY <1>1, Flagged DEF ClosedLoops
<1>. QED
  BY <1>1, <1>3, <1>4, Emptied

\* The fresh loop has nothing to do.
LEMMA FreshLoop ==
  ASSUME NEW ls \in Seq(LoopRecord), Lone(ls)
  PROVE  LET ms == Append(ls, NewLoop) IN
         ms \in Seq(LoopRecord) /\ Lone(ms) /\ \A x : In(ms, x) => In(ls, x)
<1>. DEFINE ms == Append(ls, NewLoop)
<1>1. NewLoop \in LoopRecord /\ NewLoop.ready = <<>>
  BY DEF NewLoop, LoopRecord
<1>2. /\ ms \in Seq(LoopRecord)
      /\ \A l \in DOMAIN ms : (l \in DOMAIN ls /\ ms[l] = ls[l]) \/ ms[l] = NewLoop
  BY <1>1
<1>. HIDE DEF ms
<1>3. Lone(ms) /\ \A x : In(ms, x) => In(ls, x)
  BY <1>1, <1>2, Emptied
<1>. QED
  BY <1>2, <1>3 DEF ms

LEMMA FreshStep ==
  ASSUME IInv, NEW t \in Threads, thr[t].pc \in Trying, NEW ls \in Seq(LoopRecord), Lone(ls),
         \A x : In(ls, x) => In(loops, x), Fresh(t, ls)
  PROVE  IInv'
<1>1. loops' = Append(ls, NewLoop) /\ TakeLoop(t, Len(ls) + 1) /\ Len(ls) + 1 \in Nat
  BY DEF Fresh
<1>2. loops' \in Seq(LoopRecord) /\ Lone(loops') /\ \A x : In(loops', x) => In(loops, x)
  BY <1>1, FreshLoop
<1>. QED
  BY <1>1, <1>2, LoopTaken

LEMMA RestartStep ==
  ASSUME IInv, NEW t \in Threads, Restart(t) \/ Join(t) PROVE IInv'
<1>1. CASE Restart(t) /\ is_running(cur)
  <2>1. /\ thr[t].pc = "restart" /\ At(t, "join") /\ task' = task
        /\ loops' = Ready(cur, Item("stop", NoTask))
    BY <1>1 DEF Restart, StopLoop
  <2>2. loops' \in Seq(LoopRecord) /\ Lone(loops') /\ \A x : In(loops', x) => In(loops, x) \/ x.do = "stop"
    BY <2>1, CloserLoops
  <2>. QED
    BY <2>1, <2>2, Waits DEF Trying
<1>2. CASE Restart(t) /\ ~is_running(cur)
  BY <1>2, FreshStep, TypedIs DEF Restart, Trying, IInv
<1>3. CASE Join(t)
  BY <1>3, FreshStep, CloserLoops DEF Join, Trying
<1>. QED
  BY <1>1, <1>2, <1>3

LEMMA ReturnStep ==
  ASSUME IInv, NEW t \in Threads, Return(t) \/ Refused(t) PROVE IInv'
<1>1. \E ok : Ends(t, ok) /\ loops' = loops /\ task' = task
  BY DEF Return, Refused
<1>2. /\ Shape' /\ thr'[t].pc = "idle" /\ loops' = loops /\ task' = task
      /\ \A u \in Threads : u # t => thr'[u] = thr[u]
  BY <1>1, Back, TypedIs DEF IInv
<1>. QED
  BY <1>2, Steady, TypedIs DEF IInv, Typed, Shape, Trying

LEMMA SubmitStep ==
  ASSUME IInv, NEW t \in Threads, Submit(t) PROVE IInv'
<1>. PICK k : k = thr[t].k
  OBVIOUS
<1>. PICK x : x = [do |-> "start", k |-> k]
  OBVIOUS
<1>. DEFINE l == task[k].loop
<1>1. /\ thr[t].pc = "submit" /\ Shape /\ task \in Seq(TaskRecord) /\ loops \in Seq(LoopRecord)
      /\ Typed /\ Lone(loops)
  BY TypedIs DEF Submit, IInv
<1>2. /\ k \in DOMAIN task /\ task[k].by = t /\ task[k].st = "new" /\ task[k].fut = "pending"
      /\ ~In(loops, x) /\ k \in Nat
  BY <1>1 DEF IInv, Callers, Trying
<1>3. CASE loops' = loops /\ task' = task /\ thr' = [thr EXCEPT ![t].pc = "again", ![t].tries = 1]
  <2>. DEFINE r == [thr[t] EXCEPT !.pc = "again", !.tries = 1]
  <2>1. thr' = [thr EXCEPT ![t] = r]
    BY <1>3
  <2>2. r.pc = "again" /\ r.k = thr[t].k /\ {"pc", "k"} \subseteq DOMAIN r
    BY <1>1 DEF Shape
  <2>. HIDE DEF r
  <2>3. Shape' /\ thr'[t] = r /\ \A u \in Threads : u # t => thr'[u] = thr[u]
    BY <1>1, <2>1, <2>2 DEF Shape
  <2>4. Typed'
    BY <1>1, <1>3, <2>3, TypedIs DEF Typed, Shape
  <2>5. \A u \in Threads :
          thr'[u].pc \in Trying \cup {"wait"} =>
            /\ thr'[u].k = thr[u].k
            /\ thr'[u].pc = thr[u].pc \/ (thr[u].pc \in Trying /\ thr'[u].pc \in Trying)
    BY <1>1, <2>2, <2>3 DEF Trying
  <2>. QED
    BY <1>1, <1>3, <2>4, <2>5, Steady
<1>4. CASE loops' = loops /\ At(t, "raise") /\ task' = [task EXCEPT ![k].fut = "refused"]
  <2>1. /\ task' \in Seq(TaskRecord) /\ DOMAIN task' = DOMAIN task
        /\ task'[k].fut = "refused" /\ task'[k].st = task[k].st /\ task'[k].by = task[k].by
        /\ task'[k].starts = task[k].starts
        /\ \A j \in DOMAIN task : j # k => task'[j] = task[j]
    BY <1>1, <1>2, <1>4, FutureSet
  <2>2. /\ Shape' /\ thr'[t].pc = "raise"
        /\ \A u \in Threads : u # t => thr'[u] = thr[u]
    BY <1>1, <1>4, Moved
  <2>3. Typed'
    BY <1>1, <1>4, <2>1, <2>2, TypedIs DEF Typed, Shape
  <2>4. Items'
    <3>1. ASSUME NEW y, In(loops, y) PROVE Fits(y)'
      <4>1. Fits(y)
        BY <3>1, Fitting DEF IInv
      <4>2. y.do = "start" => y.k # k
        <5>1. y.do = "start" /\ y.k = k => y = x
          BY <3>1, InIsCallback DEF Callback, IInv
        <5>. QED
          BY <1>2, <3>1, <5>1
      <4>. QED
        BY <2>1, <4>1, <4>2 DEF Fits
    <3>. QED
      BY <1>4, <3>1, AllFit
  <2>5. Counts'
    BY <1>2, <2>1 DEF IInv, Counts
  <2>6. Callers'
    <3>1. \A u \in Threads : u # t /\ thr[u].pc \in Trying \cup {"wait"} => thr[u].k # k
      BY <1>2 DEF IInv, Callers
    <3>2. "raise" \notin Trying \cup {"wait"}
      BY DEF Trying
    <3>. QED
      BY <1>4, <2>1, <2>2, <3>1, <3>2 DEF IInv, Callers
  <2>. QED
    BY <1>1, <1>4, <2>3, <2>4, <2>5, <2>6 DEF IInv
<1>5. CASE loops' = Ready(l, <<x>>) /\ At(t, "wait") /\ task' = task
  <2>1. x \in Callback /\ x.do = "start" /\ x.k = k
    BY <1>2 DEF Callback
  <2>2. \A y : In(loops, y) => ~Rivals(y, x)
    <3>1. ASSUME NEW y, In(loops, y), Rivals(y, x) PROVE FALSE
      <4>1. Fits(y) /\ y \in Callback
        BY <3>1, Fitting, InIsCallback DEF IInv
      <4>2. y.k = k /\ y.do \in {"start", "step"}
        BY <2>1, <3>1 DEF Rivals, Runs
      <4>3. y.do # "step"
        BY <1>2, <4>1, <4>2 DEF Fits, Stepping
      <4>4. y = x
        BY <2>1, <4>1, <4>2, <4>3 DEF Callback
      <4>. QED
        BY <1>2, <3>1, <4>4
    <3>. QED
      BY <3>1
  <2>. HIDE DEF l
  <2>3. loops' \in Seq(LoopRecord) /\ Lone(loops') /\ \A y : In(loops', y) => In(loops, y) \/ y = x
    BY <1>1, <1>5, <2>1, <2>2, Posted
  <2>4. /\ Shape' /\ thr'[t].pc = "wait" /\ thr'[t].k = k
        /\ \A u \in Threads : u # t => thr'[u] = thr[u]
    BY <1>1, <1>5, Moved
  <2>5. Typed'
    BY <1>1, <1>5, <2>3, <2>4, TypedIs DEF Typed, Shape
  <2>6. Items'
    <3>1. Fits(x)'
      BY <1>2, <1>5, <2>1 DEF Fits
    <3>2. \A y : In(loops, y) => Fits(y)'
      BY <1>5, Fitting DEF IInv, Fits
    <3>. QED
      BY <2>3, <3>1, <3>2, AllFit
  <2>7. Counts'
    BY <1>5 DEF IInv, Counts
  <2>8. Callers'
    <3>1. \A u \in Threads : u # t /\ thr[u].pc \in Trying \cup {"wait"} => thr[u].k # k
      BY <1>2 DEF IInv, Callers
    <3>2. "wait" \notin Trying
      BY DEF Trying
    <3>3. \A j : [do |-> "start", k |-> j].k = j
      OBVIOUS
    <3>4. \A u \in Threads : u # t /\ thr[u].pc \in Trying =>
            ~In(loops', [do |-> "start", k |-> thr[u].k])
      BY <2>1, <2>3, <3>1, <3>3 DEF IInv, Callers
    <3>. QED
      BY <1>2, <1>5, <2>4, <3>1, <3>2, <3>4 DEF IInv, Callers
  <2>. QED
    BY <2>3, <2>5, <2>6, <2>7, <2>8 DEF IInv
<1>. QED
  BY <1>3, <1>4, <1>5 DEF Submit

LEMMA InterruptStep ==
  ASSUME IInv, NEW t \in Threads, Interrupt(t) PROVE IInv'
<1>. PICK k : k = thr[t].k
  OBVIOUS
<1>. PICK c : c = [do |-> "cancel", k |-> k]
  OBVIOUS
<1>. DEFINE l == task[k].loop
            f == IF task[k].fut = "pending" THEN "cancelled" ELSE task[k].fut
<1>1. /\ thr[t].pc = "wait" /\ Ends(t, FALSE) /\ task' = [task EXCEPT ![k].fut = f]
      /\ loops' = loops \/ loops' = Ready(l, <<c>>)
      /\ Shape /\ task \in Seq(TaskRecord) /\ loops \in Seq(LoopRecord) /\ Typed /\ Lone(loops)
  BY TypedIs DEF Interrupt, IInv
<1>2. k \in DOMAIN task /\ task[k].by = t /\ k \in Nat /\ task[k] \in TaskRecord
  <2>1. k \in DOMAIN task /\ task[k].by = t
    BY <1>1 DEF IInv, Callers
  <2>. QED
    BY <1>1, <2>1
<1>3. f \in {"pending", "done", "cancelled", "refused"} /\ (f = "refused" <=> task[k].fut = "refused")
  BY <1>2 DEF TaskRecord
<1>4. c \in Callback /\ c.do = "cancel" /\ c.k = k /\ \A y : ~Rivals(y, c)
  BY <1>2 DEF Callback, Rivals, Runs
<1>. HIDE DEF f, l
<1>5. loops' \in Seq(LoopRecord) /\ Lone(loops') /\ \A y : In(loops', y) => In(loops, y) \/ y = c
  BY <1>1, <1>4, Posted
<1>6. /\ task' \in Seq(TaskRecord) /\ DOMAIN task' = DOMAIN task
      /\ task'[k].fut = f /\ task'[k].st = task[k].st /\ task'[k].by = task[k].by
      /\ task'[k].starts = task[k].starts
      /\ \A j \in DOMAIN task : j # k => task'[j] = task[j]
  BY <1>1, <1>2, <1>3, FutureSet
<1>7. Shape' /\ thr'[t].pc = "idle" /\ \A u \in Threads : u # t => thr'[u] = thr[u]
  BY <1>1, Back
<1>8. Typed'
  BY <1>5, <1>6, <1>7, TypedIs DEF Typed, Shape
<1>9. Items'
  <2>1. Fits(c)'
    BY <1>2, <1>4, <1>6 DEF Fits
  <2>2. \A y : In(loops, y) => Fits(y)'
    BY <1>3, <1>6, Fitting DEF IInv, Fits
  <2>. QED
    BY <1>5, <2>1, <2>2, AllFit
<1>10. Counts'
  BY <1>3, <1>6 DEF IInv, Counts
<1>11. Callers'
  <2>1. \A u \in Threads : u # t /\ thr[u].pc \in Trying \cup {"wait"} => thr[u].k # k
    BY <1>2 DEF IInv, Callers
  <2>2. "idle" \notin Trying \cup {"wait"}
    BY DEF Trying
  <2>3. \A j : [do |-> "start", k |-> j].do = "start"
    OBVIOUS
  <2>. QED
    BY <1>4, <1>5, <1>6, <1>7, <2>1, <2>2, <2>3 DEF IInv, Callers
<1>. QED
  BY <1>5, <1>8, <1>9, <1>10, <1>11 DEF IInv

-----------------------------------------------------------------------------
(* The loops *)

\* Loops change; threads and coroutines do not.
LEMMA LoopsOnly ==
  ASSUME IInv, thr' = thr, task' = task, loops' \in Seq(LoopRecord), Lone(loops'),
         \A x : In(loops', x) => In(loops, x) \/ x.do = "stop"
  PROVE  IInv'
<1>1. Typed'
  BY DEF IInv, Typed
<1>. QED
  BY <1>1, Steady

LEMMA EmptiedLoop ==
  ASSUME NEW ls \in Seq(LoopRecord), Lone(ls), NEW l \in DOMAIN ls,
         NEW r \in LoopRecord, r.ready = <<>> \/ r.ready = ls[l].ready
  PROVE  LET ms == [ls EXCEPT ![l] = r] IN
         ms \in Seq(LoopRecord) /\ Lone(ms) /\ \A x : In(ms, x) => In(ls, x)
<1>. DEFINE ms == [ls EXCEPT ![l] = r]
<1>1. /\ ms \in Seq(LoopRecord) /\ DOMAIN ms = DOMAIN ls /\ ms[l] = r
      /\ \A m \in DOMAIN ls : m # l => ms[m] = ls[m]
  OBVIOUS
<1>. HIDE DEF ms
<1>2. Lone(ms) /\ \A x : In(ms, x) => In(ls, x)
  BY <1>1, Emptied
<1>. QED
  BY <1>1, <1>2 DEF ms

LEMMA EdgeStep ==
  ASSUME IInv, NEW l \in LoopIds, LoopBegins(l) \/ LoopEnds(l) PROVE IInv'
<1>1. /\ l \in DOMAIN loops /\ loops \in Seq(LoopRecord) /\ Lone(loops) /\ loops[l] \in LoopRecord
      /\ thr' = thr /\ task' = task
  BY DEF IInv, Typed, LoopIds, LoopBegins, LoopEnds
<1>2. PICK r : /\ loops' = [loops EXCEPT ![l] = r]
               /\ r = [loops[l] EXCEPT !.st = "ended", !.ready = <<>>]
                  \/ r = [loops[l] EXCEPT !.st = "running"]
  BY DEF LoopBegins, LoopEnds
<1>3. r \in LoopRecord /\ (r.ready = <<>> \/ r.ready = loops[l].ready)
  <2>1. CASE r = [loops[l] EXCEPT !.st = "ended", !.ready = <<>>]
    <3>1. [loops[l] EXCEPT !.st = "ended"] \in LoopRecord
      BY <1>1 DEF LoopRecord
    <3>2. \A e \in LoopRecord, q \in Seq(Callback) : [e EXCEPT !.ready = q] \in LoopRecord
      BY DEF LoopRecord
    <3>3. r = [[loops[l] EXCEPT !.st = "ended"] EXCEPT !.ready = <<>>]
      BY <2>1
    <3>4. r.ready = <<>>
      BY <1>1, <2>1 DEF LoopRecord
    <3>5. <<>> \in Seq(Callback)
      OBVIOUS
    <3>. QED
      BY <3>1, <3>2, <3>3, <3>4, <3>5
  <2>2. CASE r = [loops[l] EXCEPT !.st = "running"]
    BY <1>1, <2>2 DEF LoopRecord
  <2>. QED
    BY <1>2, <2>1, <2>2
<1>. QED
  BY <1>1, <1>2, <1>3, EmptiedLoop, LoopsOnly

\* What is changed of a coroutine, and what stays
LEMMA Changed ==
  ASSUME task \in Seq(TaskRecord), NEW k \in DOMAIN task, NEW r \in TaskRecord,
         r.by = task[k].by, task' = [task EXCEPT ![k] = r]
  PROVE  /\ task' \in Seq(TaskRecord) /\ DOMAIN task' = DOMAIN task
         /\ task'[k] = r /\ task'[k].by = task[k].by
         /\ \A j \in DOMAIN task : j # k => task'[j] = task[j]
OBVIOUS

LEMMA FieldSet ==
  ASSUME NEW r \in TaskRecord
  PROVE  /\ \A v \in States : [r EXCEPT !.st = v] \in TaskRecord
         /\ \A v \in {"none", "ok", "error", "cancelled"} : [r EXCEPT !.out = v] \in TaskRecord
         /\ \A v \in {"pending", "done", "cancelled", "refused"} : [r EXCEPT !.fut = v] \in TaskRecord
         /\ \A v \in Nat : [r EXCEPT !.hops = v] \in TaskRecord /\ [r EXCEPT !.starts = v] \in TaskRecord
<1>1. \A v \in States : [r EXCEPT !.st = v] \in TaskRecord
  BY DEF TaskRecord
<1>2. \A v \in {"none", "ok", "error", "cancelled"} : [r EXCEPT !.out = v] \in TaskRecord
  BY DEF TaskRecord
<1>3. \A v \in {"pending", "done", "cancelled", "refused"} : [r EXCEPT !.fut = v] \in TaskRecord
  BY DEF TaskRecord
<1>4. \A v \in Nat : [r EXCEPT !.hops = v] \in TaskRecord /\ [r EXCEPT !.starts = v] \in TaskRecord
  BY DEF TaskRecord
<1>. QED
  BY <1>1, <1>2, <1>3, <1>4

\* The loop took a callback of coroutine k, and there is none any more.
LEMMA Finished ==
  ASSUME IInv, NEW l \in LoopIds, loops[l].ready # <<>>, thr' = thr, NEW k \in DOMAIN task,
         task[k].st # "new", NEW r \in TaskRecord, r.by = task[k].by, r.starts <= 1,
         r.st \notin {"new", "ready"}, r.fut # "refused",
         task' = [task EXCEPT ![k] = r], loops' = Then(l, <<>>),
         \A y : ~Rivals(y, Head(loops[l].ready)) => ~(Runs(y) /\ y.k = k)
  PROVE  IInv'
<1>1. task \in Seq(TaskRecord) /\ Typed /\ Lone(loops)
  BY DEF IInv, Typed
<1>2. /\ task' \in Seq(TaskRecord) /\ DOMAIN task' = DOMAIN task
      /\ task'[k] = r /\ \A j \in DOMAIN task : j # k => task'[j] = task[j]
  BY <1>1, Changed
<1>3. /\ loops' \in Seq(LoopRecord) /\ Lone(loops')
      /\ \A y : In(loops', y) => In(loops, y) /\ ~Rivals(y, Head(loops[l].ready))
  BY <1>1, Replaced
<1>4. Typed'
  BY <1>1, <1>2, <1>3 DEF Typed
<1>5. \A y : In(loops', y) => In(loops, y) /\ ~(Runs(y) /\ y.k = k)
  BY <1>3
<1>. QED
  BY <1>2, <1>3, <1>4, <1>5, Worked

LEMMA StartsStep ==
  ASSUME IInv, NEW l \in LoopIds, loops[l].ready # <<>>, thr' = thr,
         NEW k, NEW h, h = Head(loops[l].ready), h.do = "start", h.k = k, Starts(l, k)
  PROVE  IInv'
<1>1. /\ Typed /\ Lone(loops) /\ task \in Seq(TaskRecord) /\ loops \in Seq(LoopRecord)
      /\ h \in Callback /\ In(loops, h)
  BY Replaced DEF IInv, Typed
<1>2. k \in DOMAIN task /\ task[k].st = "new" /\ task[k].fut # "refused" /\ task[k].starts = 0
  BY <1>1, Fitting DEF IInv, Fits, Counts
<1>3. task[k] \in TaskRecord /\ k \in Nat /\ h = [do |-> "start", k |-> k]
  BY <1>1, <1>2 DEF Callback
<1>4. PICK r : r = [task[k] EXCEPT !.st = "ready"]
  OBVIOUS
<1>5. /\ r \in TaskRecord /\ r.by = task[k].by /\ r.st = "ready" /\ r.starts = 0
      /\ r.fut # "refused"
  BY <1>2, <1>3, <1>4 DEF TaskRecord, States
<1>6. task' = [task EXCEPT ![k] = r]
  BY <1>4 DEF Starts
<1>7. /\ task' \in Seq(TaskRecord) /\ DOMAIN task' = DOMAIN task
      /\ task'[k] = r /\ \A j \in DOMAIN task : j # k => task'[j] = task[j]
  BY <1>1, <1>2, <1>5, <1>6, Changed
<1>8. PICK s, c : s = [do |-> "step", k |-> k] /\ c = [do |-> "cancel", k |-> k]
  OBVIOUS
<1>9. /\ s \in Callback /\ c \in Callback /\ ~Runs(c) /\ s.do = "step" /\ c.do = "cancel"
      /\ s.k = k /\ c.k = k
      /\ \A y : ~Rivals(y, h) => ~Rivals(y, s)
      /\ \A y : ~Rivals(y, h) => ~(Runs(y) /\ y.k = k)
  BY <1>3, <1>8 DEF Callback, Rivals, Runs
<1>10. loops' = Then(l, <<s>>) \/ loops' = Then(l, <<s>> \o <<c>>)
  <2>1. <<s>> \o <<>> = <<s>>
    OBVIOUS
  <2>. QED
    BY <1>8, <2>1 DEF Starts, Item
<1>11. /\ loops' \in Seq(LoopRecord) /\ Lone(loops')
       /\ \A y : In(loops', y) => (In(loops, y) /\ ~Rivals(y, h)) \/ y \in {s, c}
  <2>1. CASE loops' = Then(l, <<s>>)
    BY <1>1, <1>9, <2>1, Replaced
  <2>2. CASE loops' = Then(l, <<s>> \o <<c>>)
    BY <1>1, <1>9, <2>2, Replaced
  <2>. QED
    BY <1>10, <2>1, <2>2
<1>12. Fits(s)' /\ Fits(c)'
  BY <1>2, <1>5, <1>7, <1>9 DEF Fits, Stepping
<1>13. Typed'
  BY <1>1, <1>7, <1>11 DEF Typed
<1>14. \A y : In(loops', y) => (In(loops, y) /\ ~(Runs(y) /\ y.k = k)) \/ (y.k = k /\ Fits(y)')
  BY <1>9, <1>11, <1>12
<1>15. In(loops, [do |-> "start", k |-> k])
  BY <1>1, <1>3
<1>. QED
  BY <1>2, <1>5, <1>7, <1>11, <1>13, <1>14, <1>15, Worked

\* The last step, the first one, and a hop of a cancellation
Ending(l, k) ==
  /\ loops' = Then(l, <<>>)
  /\ \E o \in {"ok", "error", "cancelled", task[k].out} :
       task' = [task EXCEPT ![k].st = "over", ![k].out = o, ![k].hops = 0,
                            ![k].fut = IF @ = "pending" THEN "done" ELSE @]
Asking(l, k) ==
  /\ task[k].st = "ready" /\ loops' = Then(l, <<>>)
  /\ \E o \in {"ok", "error"} :
       task' = [task EXCEPT ![k].st = "asking", ![k].out = o, ![k].starts = @ + 1]
Hopping(l, k) ==
  /\ task[k].st = "unwinding" /\ task[k].hops > 1
  /\ task' = [task EXCEPT ![k].hops = @ - 1]
  /\ loops' = Then(l, Item("step", k))

LEMMA StepsArms ==
  ASSUME NEW l, NEW k, task[k].st \in Stepping, Steps(l, k)
  PROVE  Ending(l, k) \/ Asking(l, k) \/ Hopping(l, k)
<1>1. \A o \in {"ok", "error", "cancelled", task[k].out} : \A c : Over(l, k, o, c) => Ending(l, k)
  BY DEF Over, Ending
<1>2. CASE task[k].st = "ready"
  <2>1. FirstStep(l, k)
    BY <1>2, Zenon DEF Steps
  <2>2. \/ \E c : Over(l, k, "ok", c)
        \/ \E c : Over(l, k, "error", c)
        \/ Asking(l, k)
    BY <1>2, <2>1, Zenon DEF FirstStep, Asking
  <2>. QED
    BY <1>1, <1>2, <2>2
<1>3. CASE task[k].st = "doomed"
  <2>1. \E c : Over(l, k, "cancelled", c)
    BY <1>3, Zenon DEF Steps
  <2>. QED
    BY <1>1, <2>1
<1>4. CASE task[k].st = "answered"
  <2>1. \E c : Over(l, k, task[k].out, c)
    BY <1>4, Zenon DEF Steps, Read
  <2>. QED
    BY <1>1, <2>1
<1>5. CASE task[k].st = "unwinding"
  <2>1. Unwinds(l, k)
    BY <1>5, Zenon DEF Steps
  <2>. QED
    BY <1>1, <1>5, <2>1 DEF Unwinds, Hopping
<1>. QED
  BY <1>2, <1>3, <1>4, <1>5 DEF Stepping

\* A coroutine whose callback is gone, and is not new any more
LEMMA StepsStep ==
  ASSUME IInv, NEW l \in LoopIds, loops[l].ready # <<>>, thr' = thr,
         NEW k, NEW h, h = Head(loops[l].ready), h.do = "step", h.k = k, Steps(l, k)
  PROVE  IInv'
<1>1. /\ Typed /\ Lone(loops) /\ task \in Seq(TaskRecord) /\ loops \in Seq(LoopRecord)
      /\ h \in Callback /\ In(loops, h)
  BY Replaced DEF IInv, Typed
<1>2. k \in DOMAIN task /\ task[k].st \in Stepping
  BY <1>1, Fitting DEF IInv, Fits
<1>3. /\ task[k] \in TaskRecord /\ k \in Nat /\ task[k].starts <= 1
      /\ task[k].st = "ready" => task[k].starts = 0
      /\ task[k].fut # "refused"
  BY <1>1, <1>2 DEF Callback, IInv, Counts, Stepping
<1>4. \A y : ~Rivals(y, Head(loops[l].ready)) => ~(Runs(y) /\ y.k = k)
  BY DEF Rivals, Runs
<1>5. CASE Ending(l, k)
  <2>1. PICK o \in {"ok", "error", "cancelled", task[k].out} :
          task' = [task EXCEPT ![k].st = "over", ![k].out = o, ![k].hops = 0,
                               ![k].fut = IF @ = "pending" THEN "done" ELSE @]
    BY <1>5 DEF Ending
  <2>2. PICK r : r = [task[k] EXCEPT !.st = "over", !.out = o, !.hops = 0,
                                     !.fut = IF @ = "pending" THEN "done" ELSE @]
    OBVIOUS
  <2>3. /\ r \in TaskRecord /\ r.by = task[k].by /\ r.st = "over" /\ r.starts = task[k].starts
        /\ r.fut # "refused"
    <3>1. task[k].out \in {"none", "ok", "error", "cancelled"}
      BY <1>3 DEF TaskRecord
    <3>2. PICK f : f = IF task[k].fut = "pending" THEN "done" ELSE task[k].fut
      OBVIOUS
    <3>3. f \in {"pending", "done", "cancelled", "refused"} /\ f # "refused"
      BY <1>3, <3>2 DEF TaskRecord
    <3>4. r = [task[k] EXCEPT !.st = "over", !.out = o, !.hops = 0, !.fut = f]
      BY <2>2, <3>2
    <3>5. o \in {"none", "ok", "error", "cancelled"} /\ "over" \in States
      BY <3>1 DEF States
    <3>. DEFINE a == [task[k] EXCEPT !.st = "over"]
                b == [a EXCEPT !.out = o]
                c == [b EXCEPT !.hops = 0]
    <3>6. a \in TaskRecord
      BY <1>3, <3>5, FieldSet
    <3>7. b \in TaskRecord
      BY <3>5, <3>6, FieldSet
    <3>8. c \in TaskRecord
      BY <3>7, FieldSet
    <3>9. [c EXCEPT !.fut = f] \in TaskRecord
      BY <3>3, <3>8, FieldSet
    <3>10. r = [c EXCEPT !.fut = f]
      BY <3>4
    <3>11. r.by = task[k].by /\ r.st = "over" /\ r.starts = task[k].starts /\ r.fut = f
      BY <1>3, <3>4 DEF TaskRecord
    <3>. QED
      BY <3>3, <3>9, <3>10, <3>11
  <2>4. task' = [task EXCEPT ![k] = r]
    BY <2>1, <2>2
  <2>. QED
    <3>1. task[k].st # "new" /\ r.st \notin {"new", "ready"} /\ r.starts <= 1
      BY <1>2, <1>3, <2>3 DEF Stepping
    <3>2. loops' = Then(l, <<>>) /\ k \in DOMAIN task
      BY <1>2, <1>5 DEF Ending
    <3>. QED
      BY <1>4, <2>3, <2>4, <3>1, <3>2, Finished
<1>6. CASE Asking(l, k)
  <2>1. PICK o \in {"ok", "error"} :
          task' = [task EXCEPT ![k].st = "asking", ![k].out = o, ![k].starts = @ + 1]
    BY <1>6 DEF Asking
  <2>2. PICK r : r = [task[k] EXCEPT !.st = "asking", !.out = o, !.starts = @ + 1]
    OBVIOUS
  <2>3. /\ r \in TaskRecord /\ r.by = task[k].by /\ r.st = "asking" /\ r.starts = 1
        /\ r.fut # "refused"
    <3>1. o \in {"none", "ok", "error", "cancelled"} /\ "asking" \in States
      BY DEF States
    <3>2. task[k].starts = 0
      BY <1>3, <1>6 DEF Asking
    <3>. DEFINE a == [task[k] EXCEPT !.st = "asking"]
                b == [a EXCEPT !.out = o]
    <3>3. a \in TaskRecord
      BY <1>3, <3>1, FieldSet
    <3>4. b \in TaskRecord
      BY <3>1, <3>3, FieldSet
    <3>5. [b EXCEPT !.starts = 1] \in TaskRecord
      BY <3>4, FieldSet
    <3>6. r = [b EXCEPT !.starts = 1]
      BY <1>3, <2>2, <3>2 DEF TaskRecord
    <3>7. r.by = task[k].by /\ r.st = "asking" /\ r.starts = 1 /\ r.fut = task[k].fut
      BY <1>3, <2>2, <3>2 DEF TaskRecord
    <3>. QED
      BY <1>3, <3>5, <3>6, <3>7
  <2>4. task' = [task EXCEPT ![k] = r]
    BY <2>1, <2>2
  <2>. QED
    <3>1. task[k].st # "new" /\ r.st \notin {"new", "ready"} /\ r.starts <= 1
      BY <1>6, <2>3 DEF Asking
    <3>2. loops' = Then(l, <<>>) /\ k \in DOMAIN task
      BY <1>2, <1>6 DEF Asking
    <3>. QED
      BY <1>4, <2>3, <2>4, <3>1, <3>2, Finished
<1>7. CASE Hopping(l, k)
  <2>1. PICK r : r = [task[k] EXCEPT !.hops = @ - 1]
    OBVIOUS
  <2>2. /\ r \in TaskRecord /\ r.by = task[k].by /\ r.st = "unwinding" /\ r.starts = task[k].starts
        /\ r.fut # "refused"
    BY <1>3, <1>7, <2>1 DEF TaskRecord, Hopping
  <2>3. task' = [task EXCEPT ![k] = r]
    BY <1>7, <2>1 DEF Hopping
  <2>4. /\ task' \in Seq(TaskRecord) /\ DOMAIN task' = DOMAIN task
        /\ task'[k] = r /\ \A j \in DOMAIN task : j # k => task'[j] = task[j]
    BY <1>1, <1>2, <2>2, <2>3, Changed
  <2>5. PICK s : s = [do |-> "step", k |-> k]
    OBVIOUS
  <2>6. s \in Callback /\ s.do = "step" /\ s.k = k /\ \A y : ~Rivals(y, h) => ~Rivals(y, s)
    BY <1>3, <1>4, <2>5 DEF Callback, Rivals
  <2>7. /\ loops' \in Seq(LoopRecord) /\ Lone(loops')
        /\ \A y : In(loops', y) => (In(loops, y) /\ ~Rivals(y, h)) \/ y = s
    BY <1>1, <1>7, <2>5, <2>6, Replaced DEF Item, Hopping
  <2>8. Fits(s)'
    BY <1>2, <2>2, <2>4, <2>6 DEF Fits, Stepping
  <2>9. \A y : In(loops', y) => (In(loops, y) /\ ~(Runs(y) /\ y.k = k)) \/ (y.k = k /\ Fits(y)')
    BY <1>4, <2>6, <2>7, <2>8
  <2>10. Typed'
    BY <1>1, <2>4, <2>7 DEF Typed
  <2>. QED
    BY <1>2, <1>3, <1>7, <2>2, <2>4, <2>7, <2>9, <2>10, Worked DEF Hopping
<1>. QED
  BY <1>2, <1>5, <1>6, <1>7, StepsArms

\* A coroutine was cancelled while its callback stays where it is.
LEMMA Refitted ==
  ASSUME IInv, thr' = thr, NEW k \in DOMAIN task, task[k].st \in Stepping,
         NEW r \in TaskRecord, r.by = task[k].by, r.st \in Stepping \ {"ready"},
         r.starts = task[k].starts, r.fut = task[k].fut, task' = [task EXCEPT ![k] = r],
         loops' \in Seq(LoopRecord), Lone(loops'), \A y : In(loops', y) => In(loops, y)
  PROVE  IInv'
<1>1. task \in Seq(TaskRecord)
  BY DEF IInv, Typed
<1>2. /\ task' \in Seq(TaskRecord) /\ DOMAIN task' = DOMAIN task
      /\ task'[k] = r /\ \A j \in DOMAIN task : j # k => task'[j] = task[j]
  BY <1>1, Changed
<1>3. Typed'
  BY <1>2 DEF IInv, Typed
<1>4. task[k].fut # "refused" /\ task[k].starts <= 1 /\ task[k].st # "new"
      /\ r.st \notin {"new", "ready"}
  BY DEF IInv, Counts, Stepping
<1>5. \A y : In(loops', y) => (In(loops, y) /\ ~(Runs(y) /\ y.k = k)) \/ (y.k = k /\ Fits(y)')
  <2>1. ASSUME NEW y, In(loops, y), y.k = k PROVE Fits(y)'
    <3>1. y.do # "start"
      BY <1>4, <2>1, Fitting DEF IInv, Fits
    <3>. QED
      BY <1>2, <2>1, <3>1 DEF Fits
  <2>. QED
    BY <2>1
<1>. QED
  BY <1>2, <1>3, <1>4, <1>5, Worked

\* A coroutine that waited gets its next step.
LEMMA Stepped ==
  ASSUME IInv, thr' = thr, NEW k \in DOMAIN task, task[k].st = "asking",
         NEW r \in TaskRecord, r.by = task[k].by, r.st \in Stepping \ {"ready"},
         r.starts = task[k].starts, r.fut = task[k].fut, task' = [task EXCEPT ![k] = r],
         NEW s, s.do = "step", s.k = k, \A y : In(loops, y) => ~(Runs(y) /\ y.k = k),
         loops' \in Seq(LoopRecord), Lone(loops'), \A y : In(loops', y) => In(loops, y) \/ y = s
  PROVE  IInv'
<1>1. task \in Seq(TaskRecord)
  BY DEF IInv, Typed
<1>2. /\ task' \in Seq(TaskRecord) /\ DOMAIN task' = DOMAIN task
      /\ task'[k] = r /\ \A j \in DOMAIN task : j # k => task'[j] = task[j]
  BY <1>1, Changed
<1>3. Typed'
  BY <1>2 DEF IInv, Typed
<1>4. task[k].fut # "refused" /\ task[k].starts <= 1 /\ r.st \notin {"new", "ready"}
  BY DEF IInv, Counts, Stepping
<1>5. Fits(s)'
  BY <1>2 DEF Fits
<1>6. \A y : In(loops', y) => (In(loops, y) /\ ~(Runs(y) /\ y.k = k)) \/ (y.k = k /\ Fits(y)')
  BY <1>5
<1>. QED
  BY <1>2, <1>3, <1>4, <1>6, Worked

\* A cancellation does nothing, dooms what was not begun, or sends what was on its way up.
Ignored(l, k) == loops' = Then(l, <<>>) /\ task' = task
Dooming(l, k) ==
  /\ task[k].st = "ready" /\ loops' = Then(l, <<>>)
  /\ task' = [task EXCEPT ![k].st = "doomed"]
Unwinding(l, k, h) ==
  /\ h \in Nat /\ task' = [task EXCEPT ![k].st = "unwinding", ![k].hops = h]
  /\ \/ task[k].st = "asking" /\ loops' = Then(l, Item("step", k))
     \/ task[k].st = "answered" /\ loops' = Then(l, <<>>)

LEMMA CancelsArms ==
  ASSUME NEW l, NEW k, Cancels(l, k)
  PROVE  Ignored(l, k) \/ Dooming(l, k) \/ \E h : Unwinding(l, k, h)
<1>1. Hops \in Nat /\ 1 \in Nat
  BY RunnerAssumption
<1>2. CASE task[k].st = "ready"
  BY <1>2, Zenon DEF Cancels, Dooming
<1>3. CASE task[k].st = "asking" \/ (task[k].st = "answered" /\ ~task[k].timed)
  <2>1. /\ task' = [task EXCEPT ![k].st = "unwinding",
                                ![k].hops = IF task[k].timed THEN Hops ELSE 1]
        /\ loops' = Then(l, IF task[k].st = "asking" THEN Item("step", k) ELSE <<>>)
    <3>1. task[k].st # "ready" /\ task[k].st \in {"asking", "answered"}
          /\ ~(task[k].st = "answered" /\ task[k].timed)
      BY <1>3
    <3>. QED
      BY <3>1, Zenon DEF Cancels
  <2>2. PICK h \in Nat : h = IF task[k].timed THEN Hops ELSE 1
    BY <1>1
  <2>. QED
    BY <1>3, <2>1, <2>2 DEF Unwinding
<1>4. CASE task[k].st # "ready" /\ task[k].st # "asking" /\ ~(task[k].st = "answered" /\ ~task[k].timed)
  <2>1. ~(task[k].st \in {"asking", "answered"} /\ ~(task[k].st = "answered" /\ task[k].timed))
    BY <1>4
  <2>. QED
    BY <1>4, <2>1, Zenon DEF Cancels, Ignored
<1>. QED
  BY <1>2, <1>3, <1>4

LEMMA CancelsStep ==
  ASSUME IInv, NEW l \in LoopIds, loops[l].ready # <<>>, thr' = thr,
         NEW k, NEW h, h = Head(loops[l].ready), h.do = "cancel", h.k = k, Cancels(l, k)
  PROVE  IInv'
<1>1. /\ Typed /\ Lone(loops) /\ task \in Seq(TaskRecord) /\ loops \in Seq(LoopRecord)
      /\ h \in Callback /\ In(loops, h)
  BY Replaced DEF IInv, Typed
<1>2. k \in DOMAIN task /\ k \in Nat /\ task[k] \in TaskRecord
  <2>1. k \in DOMAIN task
    BY <1>1, Fitting DEF IInv, Fits
  <2>. QED
    BY <1>1, <2>1
<1>3. \A y : ~Rivals(y, h)
  BY DEF Rivals, Runs
<1>4. ASSUME loops' = Then(l, <<>>)
      PROVE  loops' \in Seq(LoopRecord) /\ Lone(loops') /\ \A y : In(loops', y) => In(loops, y)
  BY <1>1, <1>4, Replaced
<1>5. CASE Ignored(l, k)
  BY <1>4, <1>5, LoopsOnly DEF Ignored
<1>6. CASE Dooming(l, k)
  <2>1. PICK r : r = [task[k] EXCEPT !.st = "doomed"]
    OBVIOUS
  <2>2. /\ r \in TaskRecord /\ r.by = task[k].by /\ r.st = "doomed"
        /\ r.starts = task[k].starts /\ r.fut = task[k].fut
    <3>1. "doomed" \in States
      BY DEF States
    <3>. QED
      BY <1>2, <2>1, <3>1 DEF TaskRecord
  <2>3. task' = [task EXCEPT ![k] = r]
    BY <1>6, <2>1 DEF Dooming
  <2>4. task[k].st \in Stepping /\ r.st \in Stepping \ {"ready"}
    BY <1>6, <2>2 DEF Dooming, Stepping
  <2>5. loops' \in Seq(LoopRecord) /\ Lone(loops') /\ \A y : In(loops', y) => In(loops, y)
    BY <1>4, <1>6 DEF Dooming
  <2>. QED
    BY <1>2, <2>2, <2>3, <2>4, <2>5, Refitted
<1>7. ASSUME NEW hops, Unwinding(l, k, hops) PROVE IInv'
  <2>. DEFINE a == [task[k] EXCEPT !.st = "unwinding"]
  <2>1. PICK r : r = [a EXCEPT !.hops = hops]
    OBVIOUS
  <2>2. r \in TaskRecord
    <3>1. a \in TaskRecord
      BY <1>2, FieldSet DEF States
    <3>. QED
      BY <1>7, <2>1, <3>1, FieldSet DEF Unwinding
  <2>3. /\ r.by = task[k].by /\ r.st = "unwinding" /\ r.starts = task[k].starts
        /\ r.fut = task[k].fut
    BY <1>2, <2>1 DEF TaskRecord
  <2>4. task' = [task EXCEPT ![k] = r]
    BY <1>7, <2>1 DEF Unwinding
  <2>5. CASE task[k].st = "answered" /\ loops' = Then(l, <<>>)
    BY <1>2, <1>4, <2>2, <2>3, <2>4, <2>5, Refitted DEF Stepping
  <2>6. CASE task[k].st = "asking" /\ loops' = Then(l, Item("step", k))
    <3>1. PICK s : s = [do |-> "step", k |-> k]
      OBVIOUS
    <3>2. s \in Callback /\ s.do = "step" /\ s.k = k
      BY <1>2, <3>1 DEF Callback
    <3>3. \A y : In(loops, y) => ~(Runs(y) /\ y.k = k)
      BY <2>6, Fitting DEF IInv, Fits, Runs, Stepping
    <3>4. \A y : In(loops, y) => ~Rivals(y, s)
      BY <3>2, <3>3 DEF Rivals
    <3>5. /\ loops' \in Seq(LoopRecord) /\ Lone(loops')
          /\ \A y : In(loops', y) => In(loops, y) \/ y = s
      BY <1>1, <2>6, <3>1, <3>2, <3>4, Replaced DEF Item
    <3>. QED
      BY <1>2, <2>2, <2>3, <2>4, <2>6, <3>2, <3>3, <3>5, Stepped DEF Stepping
  <2>. QED
    BY <1>7, <2>5, <2>6 DEF Unwinding
<1>. QED
  BY <1>5, <1>6, <1>7, CancelsArms

LEMMA TurnStep ==
  ASSUME IInv, NEW l \in LoopIds, Turn(l) PROVE IInv'
<1>1. PICK h, k : h = Head(loops[l].ready) /\ k = h.k
  OBVIOUS
<1>2. thr' = thr /\ loops[l].ready # <<>>
  BY DEF Turn
<1>3. h \in Callback /\ Typed /\ Lone(loops) /\ loops \in Seq(LoopRecord)
  BY <1>1, <1>2, Replaced DEF IInv, Typed
<1>4. \/ h.do = "start" /\ Starts(l, k)
      \/ h.do = "step" /\ Steps(l, k)
      \/ h.do = "cancel" /\ Cancels(l, k)
      \/ /\ h.do = "stop" /\ task' = task
         /\ loops' = [loops EXCEPT ![l].st = "stopping", ![l].ready = Tail(@)]
  <2>1. h.do \in {"start", "step", "cancel", "stop"}
    BY <1>3 DEF Callback
  <2>2. h.do = "start" => Starts(l, k)
    BY <1>1, Zenon DEF Turn
  <2>3. h.do = "step" => Steps(l, k)
    BY <1>1, Zenon DEF Turn
  <2>4. h.do = "cancel" => Cancels(l, k)
    BY <1>1, Zenon DEF Turn
  <2>5. h.do = "stop" => /\ task' = task
                         /\ loops' = [loops EXCEPT ![l].st = "stopping", ![l].ready = Tail(@)]
    BY <1>1, Zenon DEF Turn
  <2>. QED
    BY <2>1, <2>2, <2>3, <2>4, <2>5
<1>5. ASSUME loops' = [loops EXCEPT ![l].st = "stopping", ![l].ready = Tail(@)], task' = task
      PROVE  IInv'
  <2>. DEFINE mid == Pop(loops, l)
              r == [mid[l] EXCEPT !.st = "stopping"]
  <2>1. /\ mid \in Seq(LoopRecord) /\ DOMAIN mid = DOMAIN loops /\ Lone(mid) /\ l \in DOMAIN loops
        /\ \A x : In(mid, x) => In(loops, x)
    BY <1>2, <1>3, Popped DEF LoopIds
  <2>2. loops' = [mid EXCEPT ![l] = r]
    BY <1>3, <1>5, <2>1 DEF Pop
  <2>. HIDE DEF mid
  <2>3. r \in LoopRecord /\ r.ready = mid[l].ready
    <3>1. mid[l] \in LoopRecord
      BY <2>1
    <3>. QED
      BY <3>1 DEF LoopRecord
  <2>. HIDE DEF r
  <2>4. loops' \in Seq(LoopRecord) /\ Lone(loops') /\ \A x : In(loops', x) => In(mid, x)
    BY <2>1, <2>2, <2>3, EmptiedLoop
  <2>. QED
    BY <1>2, <1>5, <2>1, <2>4, LoopsOnly
<1>. QED
  BY <1>1, <1>2, <1>4, <1>5, StartsStep, StepsStep, CancelsStep

LEMMA AnswerStep ==
  ASSUME IInv, NEW k \in DOMAIN task, Answer(k) PROVE IInv'
<1>1. /\ Typed /\ Lone(loops) /\ task \in Seq(TaskRecord) /\ task[k] \in TaskRecord /\ k \in Nat
      /\ task[k].st = "asking" /\ thr' = thr
  BY DEF IInv, Typed, Answer
<1>2. PICK r, s : r = [task[k] EXCEPT !.st = "answered"] /\ s = [do |-> "step", k |-> k]
  OBVIOUS
<1>3. /\ r \in TaskRecord /\ r.by = task[k].by /\ r.st = "answered"
      /\ r.starts = task[k].starts /\ r.fut = task[k].fut
  <2>1. "answered" \in States
    BY DEF States
  <2>. QED
    BY <1>1, <1>2, <2>1 DEF TaskRecord
<1>4. task' = [task EXCEPT ![k] = r]
  BY <1>2 DEF Answer
<1>5. s \in Callback /\ s.do = "step" /\ s.k = k
  BY <1>1, <1>2 DEF Callback
<1>6. \A y : In(loops, y) => ~(Runs(y) /\ y.k = k)
  BY <1>1, Fitting DEF IInv, Fits, Runs, Stepping
<1>7. \A y : In(loops, y) => ~Rivals(y, s)
  BY <1>5, <1>6 DEF Rivals
<1>8. loops' = Ready(task[k].loop, <<s>>)
  BY <1>2 DEF Answer, Item
<1>9. loops' \in Seq(LoopRecord) /\ Lone(loops') /\ \A y : In(loops', y) => In(loops, y) \/ y = s
  BY <1>1, <1>5, <1>7, <1>8, Posted
<1>. QED
  BY <1>1, <1>3, <1>4, <1>5, <1>6, <1>9, Stepped DEF Stepping

LEMMA CloserStep ==
  ASSUME IInv, CloserStops \/ CloserCloses PROVE IInv'
<1>1. thr' = thr /\ task' = task
  BY DEF CloserStops, CloserCloses
<1>2. loops' = Ready(cur, Item("stop", NoTask)) \/ loops' = ClosedLoops
  BY DEF CloserStops, CloserCloses, StopLoop
<1>3. /\ loops' \in Seq(LoopRecord) /\ Lone(loops')
      /\ \A x : In(loops', x) => In(loops, x) \/ x.do = "stop"
  BY <1>2, CloserLoops
<1>. QED
  BY <1>1, <1>3, LoopsOnly

-----------------------------------------------------------------------------

LEMMA Initially ==
  ASSUME Init PROVE IInv
<1>1. loops = <<[NewLoop EXCEPT !.st = "running"]>> /\ task = <<>>
  BY DEF Init
<1>2. PICK r : r = [NewLoop EXCEPT !.st = "running"]
  OBVIOUS
<1>3. loops \in Seq(LoopRecord) /\ \A l \in DOMAIN loops : loops[l].ready = <<>>
  <2>1. NewLoop \in LoopRecord /\ NewLoop.ready = <<>>
    BY DEF NewLoop, LoopRecord
  <2>2. r \in LoopRecord /\ r.ready = <<>>
    BY <1>2, <2>1 DEF LoopRecord
  <2>3. <<r>> \in Seq(LoopRecord) /\ \A l \in DOMAIN <<r>> : <<r>>[l] = r
    BY <2>2
  <2>. QED
    BY <1>1, <1>2, <2>2, <2>3
<1>4. Typed /\ \A t \in Threads : thr[t].pc = "idle"
  BY <1>1, <1>3 DEF Init, Typed
<1>5. Lone(loops) /\ Items /\ Counts
  BY <1>1, <1>3 DEF Lone, Items, Counts, LoopIds
<1>6. Callers
  BY <1>4 DEF Callers, Trying
<1>. QED
  BY <1>4, <1>5, <1>6 DEF IInv

LEMMA Inductive ==
  ASSUME IInv, [Next]_vars PROVE IInv'
<1>1. ASSUME NEW t \in Threads, App(t) PROVE IInv'
  BY <1>1, CallStep DEF App, Execute, Enter, Leave
<1>2. ASSUME NEW t \in Threads, Thread(t) PROVE IInv'
  BY <1>2, CheckStep, AgainStep, RestartStep, SubmitStep, ReturnStep DEF Thread
<1>3. ASSUME NEW l \in LoopIds, Loop(l) PROVE IInv'
  BY <1>3, EdgeStep, TurnStep DEF Loop
<1>4. CASE UNCHANGED vars
  BY <1>4 DEF vars, IInv, Typed, Lone, Items, Counts, Callers, LoopIds, In, Fits
<1>. QED
  BY <1>1, <1>2, <1>3, <1>4, InterruptStep, AnswerStep, CloserStep DEF Next

\* However threads, loops, interrupts, restarts and closes interleave: no coroutine is run
\* twice, by one loop or two, and one whose call was refused is never run at all.
THEOREM RunsOnce == Spec => []RunsAtMostOnce
<1>1. IInv => RunsAtMostOnce
  BY DEF IInv, Counts, RunsAtMostOnce
<1>. QED
  BY <1>1, Initially, Inductive, PTL DEF Spec


-----------------------------------------------------------------------------
(***************************************************************************)
(* transaction() leaves nothing open, for any threads and any budget of    *)
(* calls, interrupts and closes, and any number of callbacks a             *)
(* cancellation takes.                                                     *)
(*                                                                         *)
(* An interrupted call leaves a coroutine behind that goes on, and may     *)
(* still begin, commit or write.  What saves the block is the order of the *)
(* loop's queue: the cancellation of what was left comes before the start  *)
(* of whatever is called next.  While nothing is spoilt there is one loop, *)
(* which runs, and the invariant is about its queue, the connection of the *)
(* main thread and the coroutines it has called for.                       *)
(***************************************************************************)
ready == loops[1].ready
my == thr[Main].k
Mine == {k \in DOMAIN task : task[k].by = Main}

\* The coroutines that go on after their caller was interrupted
Left == {k \in Mine : k # my /\ task[k].st # "over"}

Cb(what, k) == [do |-> what, k |-> k]
Has(w, x) == \E i \in DOMAIN w : w[i] = x
\* No y comes before the first x.
Before(w, x, y) == \A j \in DOMAIN w : w[j] = y => \E i \in DOMAIN w : i < j /\ w[i] = x

ConnRecord == [open : BOOLEAN, owner : Nat, cut : BOOLEAN, in_transaction : BOOLEAN,
               autocommit : BOOLEAN, server : {"none", "open"}]
ThreadRecord == [pc : Trying \cup {"idle", "wait", "raise"}, k : Nat,
                 block : {"out", "in", "committed", "rolled"}, raised : BOOLEAN, tries : Nat]

Known ==
  /\ DOMAIN conn = Threads /\ conn[Main] \in ConnRecord /\ thr[Main] \in ThreadRecord
  /\ my = NoTask <=> thr[Main].pc = "idle"
  /\ my # NoTask => my \in DOMAIN task

Alone == Len(loops) = 1 /\ loops[1].st = "running" /\ ~loops[1].closed

\* The last coroutine is the one the main thread waits for, if it waits; the others
\* are over, or are about to be cancelled.
Parted ==
  /\ thr[Main].pc \in {"idle", "check", "submit", "wait"}
  /\ my # NoTask => my \in Mine /\ \A k \in Mine : k <= my
  /\ \A k \in Mine :
       /\ task[k].loop = 1 \/ (k = my /\ thr[Main].pc = "check")
       /\ k # my => task[k].fut \in {"done", "cancelled"}
       /\ k = my => /\ task[k].fut \in {"pending", "done"}
                    /\ task[k].st \notin {"doomed", "unwinding"} /\ ~Has(ready, Cb("cancel", k))
       /\ task[k].fut = "done" => task[k].st = "over"
       /\ task[k].st = "unwinding" => task[k].hops = 1
  /\ \A k \in Left : ~task[k].timed /\ task[k].st # "new"

Queued ==
  /\ \A i \in DOMAIN ready : ready[i].do # "stop"
  /\ \A k \in Mine : task[k].st \in Stepping => Has(ready, Cb("step", k))
  /\ \A k \in Left : task[k].st \notin {"unwinding", "doomed"} => Has(ready, Cb("cancel", k))

\* x, which was called later, is not begun before k has let go of the connection.
Led(k, x) ==
  /\ task[x].st \in {"new", "ready", "doomed"}
  /\ task[k].st \in {"unwinding", "doomed"} => Before(ready, Cb("step", k), Cb("step", x))
  /\ task[k].st \notin {"unwinding", "doomed"} =>
       ~Has(ready, Cb("step", x)) /\ Before(ready, Cb("cancel", k), Cb("start", x))
Ordered == \A k \in Left, x \in Mine : k < x => Led(k, x)

Guarded ==
  LET k == conn[Main].owner IN
  k # NoTask => k \in Mine /\ task[k].st \in {"asking", "answered", "unwinding"}

Begun(k) == task[k].st \notin {"new", "ready"}
Closing(k) == task[k].kind \in {"commit", "rollback"}

Outcome ==
  /\ thr[Main].block = "in" =>
       /\ conn[Main].in_transaction \/ (my # NoTask /\ Closing(my) /\ Begun(my))
       /\ \A k \in Left : task[k].kind = "exec"
  /\ thr[Main].block # "in" /\ my # NoTask => ~Closing(my)
  /\ thr[Main].block = "rolled" => \A k \in Left : task[k].kind # "begin"
  /\ /\ thr[Main].block = "rolled" /\ conn[Main].open
     /\ \A k \in Mine : task[k].kind = "rollback" => task[k].fut = "done"
     /\ ~(my # NoTask /\ task[my].kind = "begin" /\ Begun(my))
     => conn[Main].server = "none"
  /\ my # NoTask /\ task[my].kind = "rollback" /\ Begun(my) =>
       conn[Main].server = "none" \/ ~conn[Main].open

Calm == Alone /\ Parted /\ Queued /\ Ordered /\ Guarded /\ Outcome
\* Autocommit is off only within the block, which is not entered twice.
Restored ==
  /\ thr[Main].block = "in" \/ conn[Main].autocommit
  /\ thr[Main].block = "in" /\ my # NoTask => task[my].kind # "begin"

BlockInv == Known /\ Restored /\ (~spoilt => Calm)

-----------------------------------------------------------------------------
(* Order in a queue *)

LEMMA QueuePushed ==
  ASSUME NEW w \in Seq(Callback), NEW its \in Seq(Callback), NEW v, v = w \o its
  PROVE  /\ \A x : Has(v, x) <=> Has(w, x) \/ Has(its, x)
         /\ \A x, y : Before(w, x, y) /\ (Has(w, x) \/ ~Has(its, y)) => Before(v, x, y)
<1>1. /\ Len(w) \in Nat /\ DOMAIN w = 1 .. Len(w) /\ Len(its) \in Nat /\ DOMAIN its = 1 .. Len(its)
      /\ DOMAIN v = 1 .. Len(w) + Len(its)
      /\ \A i \in 1 .. Len(w) : v[i] = w[i]
      /\ \A i \in 1 .. Len(its) : v[Len(w) + i] = its[i]
  OBVIOUS
<1>2. \A i \in DOMAIN v : (i \in DOMAIN w /\ v[i] = w[i])
                          \/ \E j \in DOMAIN its : i = Len(w) + j /\ v[i] = its[j]
  <2>1. ASSUME NEW i \in 1 .. Len(w) + Len(its), i \notin 1 .. Len(w)
        PROVE  i - Len(w) \in 1 .. Len(its) /\ i = Len(w) + (i - Len(w))
    BY <1>1, <2>1
  <2>. QED
    BY <1>1, <2>1
<1>3. DOMAIN w \subseteq DOMAIN v /\ \A j \in DOMAIN its : Len(w) + j \in DOMAIN v
  BY <1>1
<1>4. \A x : Has(v, x) <=> Has(w, x) \/ Has(its, x)
  <2>1. \A x : Has(v, x) => Has(w, x) \/ Has(its, x)
    BY <1>2 DEF Has
  <2>2. \A x : Has(w, x) => Has(v, x)
    BY <1>1, <1>3 DEF Has
  <2>3. \A x : Has(its, x) => Has(v, x)
    BY <1>1, <1>3 DEF Has
  <2>. QED
    BY <2>1, <2>2, <2>3
<1>5. ASSUME NEW x, NEW y, Before(w, x, y), Has(w, x) \/ ~Has(its, y) PROVE Before(v, x, y)
  <2>1. SUFFICES ASSUME NEW j \in DOMAIN v, v[j] = y PROVE \E i \in DOMAIN v : i < j /\ v[i] = x
    BY DEF Before
  <2>2. CASE j \in DOMAIN w
    <3>1. PICK i \in DOMAIN w : i < j /\ w[i] = x
      BY <1>1, <1>5, <2>1, <2>2 DEF Before
    <3>. QED
      BY <1>1, <1>3, <3>1
  <2>3. CASE j \notin DOMAIN w
    <3>1. PICK h \in DOMAIN its : j = Len(w) + h /\ its[h] = y
      BY <1>2, <2>1, <2>3
    <3>2. PICK i \in DOMAIN w : w[i] = x
      BY <1>5, <3>1 DEF Has
    <3>3. i < j
      BY <1>1, <3>1, <3>2
    <3>. QED
      BY <1>1, <1>3, <3>2, <3>3
  <2>. QED
    BY <2>2, <2>3
<1>. QED
  BY <1>4, <1>5

LEMMA QueuePopped ==
  ASSUME NEW w \in Seq(Callback), w # <<>>
  PROVE  /\ Tail(w) \in Seq(Callback) /\ Head(w) \in Callback /\ Has(w, Head(w))
         /\ \A x : Has(Tail(w), x) => Has(w, x)
         /\ \A x : Has(w, x) /\ x # Head(w) => Has(Tail(w), x)
         /\ \A x, y : Before(w, x, y) /\ x # Head(w) => Before(Tail(w), x, y)
         /\ \A x : ~Before(w, x, Head(w))
<1>. DEFINE v == Tail(w)
<1>1. /\ v \in Seq(Callback) /\ Head(w) = w[1] /\ Head(w) \in Callback
      /\ 1 \in DOMAIN w /\ DOMAIN w \subseteq Nat \ {0} /\ DOMAIN v \subseteq Nat
      /\ \A i \in DOMAIN v : i + 1 \in DOMAIN w /\ v[i] = w[i + 1]
      /\ \A i \in DOMAIN w : i # 1 => i - 1 \in DOMAIN v /\ w[i] = v[i - 1]
  OBVIOUS
<1>. HIDE DEF v
<1>2. Has(w, Head(w)) /\ \A x : Has(v, x) => Has(w, x)
  BY <1>1 DEF Has
<1>3. \A x : Has(w, x) /\ x # Head(w) => Has(v, x)
  BY <1>1 DEF Has
<1>4. ASSUME NEW x, NEW y, Before(w, x, y), x # Head(w) PROVE Before(v, x, y)
  <2>1. SUFFICES ASSUME NEW j \in DOMAIN v, v[j] = y PROVE \E i \in DOMAIN v : i < j /\ v[i] = x
    BY DEF Before
  <2>2. PICK i \in DOMAIN w : i < j + 1 /\ w[i] = x
    BY <1>1, <1>4, <2>1 DEF Before
  <2>3. i # 1
    <3>1. w[1] = Head(w)
      BY <1>1
    <3>. QED
      BY <1>4, <2>2, <3>1
  <2>4. i - 1 \in DOMAIN v /\ v[i - 1] = x
    BY <1>1, <2>2, <2>3
  <2>5. i - 1 < j
    <3>1. i \in Nat /\ j \in Nat /\ i < j + 1
      BY <1>1, <2>1, <2>2
    <3>. QED
      BY <3>1
  <2>. QED
    BY <2>4, <2>5
<1>5. ASSUME NEW x, Before(w, x, Head(w)) PROVE FALSE
  <2>1. PICK i \in DOMAIN w : i < 1
    BY <1>1, <1>5 DEF Before
  <2>. QED
    BY <1>1, <2>1
<1>. QED
  BY <1>1, <1>2, <1>3, <1>4, <1>5 DEF v

\* The first callback makes room for others at the end.
LEMMA QueueTurned ==
  ASSUME NEW w \in Seq(Callback), w # <<>>, NEW its \in Seq(Callback), NEW v, v = Tail(w) \o its
  PROVE  /\ \A x : Has(v, x) => Has(w, x) \/ Has(its, x)
         /\ \A x : Has(its, x) \/ (Has(w, x) /\ x # Head(w)) => Has(v, x)
         /\ \A x, y : Before(w, x, y) /\ x # Head(w) /\ (Has(w, x) \/ ~Has(its, y)) => Before(v, x, y)
<1>1. /\ Tail(w) \in Seq(Callback) /\ \A x : Has(Tail(w), x) => Has(w, x)
      /\ \A x : Has(w, x) /\ x # Head(w) => Has(Tail(w), x)
      /\ \A x, y : Before(w, x, y) /\ x # Head(w) => Before(Tail(w), x, y)
  BY QueuePopped
<1>2. /\ \A x : Has(v, x) <=> Has(Tail(w), x) \/ Has(its, x)
      /\ \A x, y : Before(Tail(w), x, y) /\ (Has(Tail(w), x) \/ ~Has(its, y)) => Before(v, x, y)
  BY <1>1, QueuePushed
<1>. QED
  BY <1>1, <1>2, Zenon

LEMMA FewItems ==
  /\ \A x : ~Has(<<>>, x)
  /\ \A x, y : Has(<<y>>, x) <=> x = y
  /\ \A x, y : ~Has(<<>>, y) /\ (Before(<<>>, x, y))
BY DEF Has, Before

LEMMA AbsentIsLate ==
  ASSUME NEW w, NEW x, NEW y, ~Has(w, y) PROVE Before(w, x, y)
BY DEF Has, Before

\* The callbacks gone are taken from the head of the queue, and those in new are added.
Shift(gone, new) ==
  /\ \A x : Has(ready', x) => Has(ready, x) \/ x \in new
  /\ \A x : x \in new \/ (Has(ready, x) /\ x \notin gone) => Has(ready', x)
  /\ \A x, y : Before(ready, x, y) /\ x \notin gone /\ (Has(ready, x) \/ y \notin new)
               => Before(ready', x, y)
  /\ \A i \in DOMAIN ready' : ready'[i].do # "stop"

LEMMA CbIs ==
  /\ \A w, k : Cb(w, k).do = w /\ Cb(w, k).k = k
  /\ \A w, v, k, j : Cb(w, k) = Cb(v, j) => w = v /\ k = j
  /\ \A x \in Callback : x = Cb(x.do, x.k)
  /\ \A w \in {"start", "step", "cancel", "stop"}, k \in Nat : Cb(w, k) \in Callback
  /\ \A w, k : Item(w, k) = <<Cb(w, k)>>
<1>1. \A w, k : Cb(w, k).do = w /\ Cb(w, k).k = k
  BY DEF Cb
<1>2. \A w, v, k, j : Cb(w, k) = Cb(v, j) => w = v /\ k = j
  BY <1>1
<1>3. \A x \in Callback : x = Cb(x.do, x.k)
  BY DEF Callback, Cb
<1>4. \A w \in {"start", "step", "cancel", "stop"}, k \in Nat : Cb(w, k) \in Callback
  BY DEF Callback, Cb
<1>5. \A w, k : Item(w, k) = <<Cb(w, k)>>
  BY DEF Item, Cb
<1>. QED
  BY <1>1, <1>2, <1>3, <1>4, <1>5

LEMMA AloneIs ==
  ASSUME Typed, Alone
  PROVE  /\ DOMAIN loops = {1} /\ LoopIds = {1} /\ cur = 1 /\ is_running(1)
         /\ loops[1] \in LoopRecord /\ ready \in Seq(Callback)
<1>1. loops \in Seq(LoopRecord) /\ Len(loops) = 1
  BY DEF Typed, Alone
<1>2. DOMAIN loops = {1}
  BY <1>1
<1>3. loops[1] \in LoopRecord /\ loops[1].ready \in Seq(Callback)
  BY <1>1, <1>2, Fields
<1>. QED
  BY <1>1, <1>2, <1>3 DEF LoopIds, cur, is_running, Alone, ready

LEMMA QueueSet ==
  ASSUME Typed, Alone, NEW q, loops' = [loops EXCEPT ![1].ready = q]
  PROVE  Alone' /\ ready' = q
<1>. DEFINE r == [loops[1] EXCEPT !.ready = q]
<1>1. loops \in Seq(LoopRecord) /\ DOMAIN loops = {1} /\ loops[1] \in LoopRecord
  BY AloneIs DEF Typed
<1>2. r.ready = q /\ r.st = loops[1].st /\ r.closed = loops[1].closed
  BY <1>1 DEF LoopRecord
<1>3. loops' = [loops EXCEPT ![1] = r]
  OBVIOUS
<1>. HIDE DEF r
<1>4. loops' = <<r>>
  BY <1>1, <1>3
<1>5. loops'[1] = r /\ Len(loops') = 1
  BY <1>4
<1>. QED
  BY <1>2, <1>5 DEF Alone, ready

LEMMA Posts ==
  ASSUME Typed, Alone, \A i \in DOMAIN ready : ready[i].do # "stop",
         NEW its \in Seq(Callback), \A i \in DOMAIN its : its[i].do # "stop",
         ready' = ready \o its
  PROVE  \A new : (\A x : x \in new <=> Has(its, x)) => Shift({}, new)
<1>1. ready \in Seq(Callback)
  BY AloneIs
<1>2. /\ \A x : Has(ready', x) <=> Has(ready, x) \/ Has(its, x)
      /\ \A x, y : Before(ready, x, y) /\ (Has(ready, x) \/ ~Has(its, y)) => Before(ready', x, y)
  BY <1>1, QueuePushed
<1>3. \A i \in DOMAIN ready' : ready'[i].do # "stop"
  <2>1. \A x : Has(ready, x) \/ Has(its, x) => x.do # "stop"
    BY DEF Has
  <2>2. \A i \in DOMAIN ready' : Has(ready', ready'[i])
    BY DEF Has
  <2>. QED
    BY <1>2, <2>1, <2>2
<1>. QED
  BY <1>2, <1>3, Zenon DEF Shift

LEMMA Takes ==
  ASSUME Typed, Alone, ready # <<>>, \A i \in DOMAIN ready : ready[i].do # "stop",
         NEW its \in Seq(Callback), \A i \in DOMAIN its : its[i].do # "stop",
         loops' = Then(1, its)
  PROVE  /\ Alone'
         /\ \A new : (\A x : x \in new <=> Has(its, x)) => Shift({Head(ready)}, new)
         /\ Has(ready, Head(ready)) /\ \A x : ~Before(ready, x, Head(ready))
<1>1. ready \in Seq(Callback)
  BY AloneIs
<1>2. Alone' /\ ready' = Tail(ready) \o its
  <2>1. loops' = [loops EXCEPT ![1].ready = Tail(ready) \o its]
    BY DEF Then, ready
  <2>. QED
    BY <2>1, QueueSet
<1>3. /\ \A x : Has(ready', x) => Has(ready, x) \/ Has(its, x)
      /\ \A x : Has(its, x) \/ (Has(ready, x) /\ x # Head(ready)) => Has(ready', x)
      /\ \A x, y : Before(ready, x, y) /\ x # Head(ready) /\ (Has(ready, x) \/ ~Has(its, y))
                   => Before(ready', x, y)
  BY <1>1, <1>2, QueueTurned
<1>4. \A i \in DOMAIN ready' : ready'[i].do # "stop"
  <2>1. \A x : Has(ready, x) \/ Has(its, x) => x.do # "stop"
    BY DEF Has
  <2>2. \A i \in DOMAIN ready' : Has(ready', ready'[i])
    BY DEF Has
  <2>. QED
    BY <1>3, <2>1, <2>2
<1>5. \A new : (\A x : x \in new <=> Has(its, x)) => Shift({Head(ready)}, new)
  BY <1>3, <1>4 DEF Shift
<1>6. Has(ready, Head(ready)) /\ \A x : ~Before(ready, x, Head(ready))
  BY <1>1, QueuePopped
<1>. QED
  BY <1>2, <1>5, <1>6

LEMMA Stays ==
  ASSUME \A i \in DOMAIN ready : ready[i].do # "stop", ready' = ready
  PROVE  Shift({}, {})
BY DEF Shift

-----------------------------------------------------------------------------
(* The connection and the thread of the caller                                 *)

\* What every step does to the connection of the main thread, but for the end of a call
Held(c) == /\ DOMAIN conn' = Threads /\ conn'[Main] = c
           /\ c \in ConnRecord /\ c.autocommit = conn[Main].autocommit

LEMMA ConnSet ==
  ASSUME Known, NEW t \in Threads, NEW c, conn' = [conn EXCEPT ![t] = c],
         t = Main => c \in ConnRecord /\ c.autocommit = conn[Main].autocommit
  PROVE  Held(IF t = Main THEN c ELSE conn[Main])
BY RunnerAssumption DEF Known, Held

LEMMA AfterIs ==
  ASSUME NEW kind \in {"exec", "begin", "commit", "rollback"}, NEW out, NEW server \in {"none", "open"}
  PROVE  /\ After(kind, out, server) \in {"none", "open"}
         /\ kind = "exec" => After(kind, out, server) = server
         /\ kind \in {"commit", "rollback"} => After(kind, out, server) = "none"
BY DEF After

\* The statement goes out.
Goes(l, k, out) ==
  /\ task' = [task EXCEPT ![k].st = "asking", ![k].out = out, ![k].starts = @ + 1]
  /\ conn' = [conn EXCEPT ![task[k].by].owner = IF task[k].kind = "begin" THEN @ ELSE k,
                          ![task[k].by].server = After(task[k].kind, out, @)]
  /\ loops' = Then(l, <<>>)

LEMMA FirstArms ==
  ASSUME NEW l, NEW k, NEW c, c = conn[task[k].by], FirstStep(l, k)
  PROVE  \/ Over(l, k, "ok", c) /\ task[k].kind = "rollback" /\ ~c.in_transaction
         \/ Over(l, k, "error", c) /\ (c.open => Taken(k, c))
         \/ Over(l, k, "error", [c EXCEPT !.open = FALSE])
         \/ \E out \in {"ok", "error"} : Goes(l, k, out)
<1>1. \/ Over(l, k, "ok", c) /\ task[k].kind = "rollback" /\ ~c.in_transaction
      \/ Over(l, k, "error", c) /\ (c.open => Taken(k, c))
      \/ Over(l, k, "error", [c EXCEPT !.open = FALSE])
      \/ \E out \in IF task[k].kind = "rollback" THEN {"ok"} ELSE {"ok", "error"} : Goes(l, k, out)
  BY Zenon DEF FirstStep, Goes
<1>. QED
  BY <1>1

\* A step of a coroutine: it is over, goes on to the backend, or unwinds.
LEMMA StepArms ==
  ASSUME NEW l, NEW k, NEW c, c = conn[task[k].by], task[k].st \in Stepping, Steps(l, k)
  PROVE  \/ task[k].st = "ready" /\ FirstStep(l, k)
         \/ task[k].st = "doomed" /\ Over(l, k, "cancelled", c)
         \/ task[k].st = "answered" /\ \E b : /\ b = IF task[k].out = "ok" /\ task[k].kind # "exec"
                                                     THEN task[k].kind = "begin" ELSE c.in_transaction
                                              /\ Over(l, k, task[k].out, [c EXCEPT !.in_transaction = b])
         \/ task[k].st = "unwinding" /\ ~(task[k].hops > 1) /\ Over(l, k, "cancelled", c)
         \/ /\ task[k].st = "unwinding" /\ task[k].hops > 1 /\ conn' = conn
            /\ Hopping(l, k)
<1>1. CASE task[k].st = "ready"
  BY <1>1, Zenon DEF Steps
<1>2. CASE task[k].st = "doomed"
  BY <1>2, Zenon DEF Steps
<1>3. CASE task[k].st = "answered"
  <2>1. Read(l, k)
    BY <1>3, Zenon DEF Steps
  <2>2. PICK b : b = IF task[k].out = "ok" /\ task[k].kind # "exec"
                     THEN task[k].kind = "begin" ELSE c.in_transaction
    OBVIOUS
  <2>3. Over(l, k, task[k].out, [c EXCEPT !.in_transaction = b])
    BY <2>1, <2>2 DEF Read
  <2>. QED
    BY <1>3, <2>2, <2>3
<1>4. CASE task[k].st = "unwinding"
  <2>1. Unwinds(l, k)
    BY <1>4, Zenon DEF Steps
  <2>. QED
    BY <1>4, <2>1 DEF Unwinds, Hopping
<1>. QED
  BY <1>1, <1>2, <1>3, <1>4 DEF Stepping

\* A cancellation
LEMMA CancelArms ==
  ASSUME NEW l, NEW k, Cancels(l, k)
  PROVE  \/ /\ task[k].st = "ready" /\ conn' = conn /\ loops' = Then(l, <<>>)
            /\ task' = [task EXCEPT ![k].st = "doomed"]
         \/ /\ task[k].st \in {"asking", "answered"}
            /\ task' = [task EXCEPT ![k].st = "unwinding",
                                    ![k].hops = IF task[k].timed THEN Hops ELSE 1]
            /\ loops' = Then(l, IF task[k].st = "asking" THEN Item("step", k) ELSE <<>>)
            /\ \E cut \in BOOLEAN : conn' = [conn EXCEPT ![task[k].by].cut = @ \/ cut]
         \/ /\ task[k].st # "ready" /\ (task[k].st \in {"asking", "answered"} => task[k].timed)
            /\ loops' = Then(l, <<>>) /\ task' = task /\ conn' = conn
<1>1. CASE task[k].st = "ready"
  BY <1>1, Zenon DEF Cancels
<1>2. CASE task[k].st \in {"asking", "answered"} /\ ~(task[k].st = "answered" /\ task[k].timed)
  <2>1. task[k].st # "ready"
    BY <1>2
  <2>. QED
    BY <1>2, <2>1, Zenon DEF Cancels
<1>3. CASE /\ task[k].st # "ready"
           /\ ~(task[k].st \in {"asking", "answered"} /\ ~(task[k].st = "answered" /\ task[k].timed))
  <2>1. loops' = Then(l, <<>>) /\ task' = task /\ conn' = conn
    BY <1>3, Zenon DEF Cancels
  <2>. QED
    BY <1>3, <2>1
<1>. QED
  BY <1>1, <1>2, <1>3

\* The callback at the head of the queue
LEMMA TurnArms ==
  ASSUME IInv, NEW l \in LoopIds, Turn(l), NEW h, h = Head(loops[l].ready)
  PROVE  /\ loops[l].ready # <<>> /\ h \in Callback
         /\ h.do # "stop" => h.k \in DOMAIN task
         /\ h.do = "step" => task[h.k].st \in Stepping
         /\ h.do = "start" => task[h.k].st = "new" /\ task[h.k].fut # "refused"
         /\ thr' = thr /\ spoilt' = spoilt
         /\ \/ h.do = "start" /\ Starts(l, h.k)
            \/ h.do = "step" /\ Steps(l, h.k)
            \/ h.do = "cancel" /\ Cancels(l, h.k)
            \/ h.do = "stop" /\ conn' = conn
<1>1. loops[l].ready # <<>> /\ Typed /\ Lone(loops) /\ loops \in Seq(LoopRecord)
  BY DEF Turn, IInv, Typed
<1>2. h \in Callback /\ In(loops, h)
  BY <1>1, Replaced
<1>3. Fits(h)
  BY <1>2, Fitting DEF IInv
<1>4. \/ h.do = "start" /\ Starts(l, h.k)
      \/ h.do = "step" /\ Steps(l, h.k)
      \/ h.do = "cancel" /\ Cancels(l, h.k)
      \/ h.do = "stop" /\ conn' = conn
  <2>1. h.do \in {"start", "step", "cancel", "stop"}
    BY <1>2 DEF Callback
  <2>2. h.do = "start" => Starts(l, h.k)
    BY Zenon DEF Turn
  <2>3. h.do = "step" => Steps(l, h.k)
    BY Zenon DEF Turn
  <2>4. h.do = "cancel" => Cancels(l, h.k)
    BY Zenon DEF Turn
  <2>5. h.do = "stop" => conn' = conn
    BY Zenon DEF Turn
  <2>. QED
    BY <2>1, <2>2, <2>3, <2>4, <2>5
<1>. QED
  BY <1>1, <1>2, <1>3, <1>4 DEF Fits, Turn

\* A turn of a loop touches the connection of nobody else, and no autocommit.
LEMMA TurnHolds ==
  ASSUME IInv, Known, NEW l \in LoopIds, Turn(l)
  PROVE  \E c : Held(c) /\ \A k : k = Head(loops[l].ready).k /\ k \in DOMAIN task /\ task[k].by # Main
                                  => c = conn[Main]
<1>1. PICK h : h = Head(loops[l].ready)
  OBVIOUS
<1>2. PICK k : k = h.k
  OBVIOUS
<1>3. /\ loops[l].ready # <<>> /\ h \in Callback
      /\ h.do # "stop" => h.k \in DOMAIN task
      /\ h.do = "step" => task[h.k].st \in Stepping
      /\ \/ h.do = "start" /\ Starts(l, h.k)
         \/ h.do = "step" /\ Steps(l, h.k)
         \/ h.do = "cancel" /\ Cancels(l, h.k)
         \/ h.do = "stop" /\ conn' = conn
  BY <1>1, TurnArms
<1>4. conn[Main] \in ConnRecord /\ task \in Seq(TaskRecord)
  BY DEF Known, IInv, Typed
<1>5. CASE conn' = conn
  <2>1. Held(conn[Main])
    BY <1>4, <1>5 DEF Known, Held
  <2>. QED
    BY <2>1
<1>6. CASE /\ h.do # "stop"
           /\ \E c : /\ conn' = [conn EXCEPT ![task[k].by] = c]
                     /\ task[k].by = Main =>
                          c \in ConnRecord /\ c.autocommit = conn[Main].autocommit
  <2>1. k \in DOMAIN task /\ task[k].by \in Threads
    <3>1. k \in DOMAIN task
      BY <1>2, <1>3, <1>6
    <3>2. task[k] \in TaskRecord
      BY <1>4, <3>1
    <3>. QED
      BY <3>1, <3>2 DEF TaskRecord
  <2>2. PICK c : /\ conn' = [conn EXCEPT ![task[k].by] = c]
                 /\ task[k].by = Main => c \in ConnRecord /\ c.autocommit = conn[Main].autocommit
    BY <1>6
  <2>3. Held(IF task[k].by = Main THEN c ELSE conn[Main])
    BY <2>1, <2>2, ConnSet
  <2>. QED
    BY <1>1, <1>2, <2>3
<1>7. ASSUME h.do # "stop", NEW out, NEW c, Over(l, k, out, c),
             task[k].by = Main => c \in ConnRecord /\ c.autocommit = conn[Main].autocommit
      PROVE  /\ h.do # "stop"
             /\ \E d : /\ conn' = [conn EXCEPT ![task[k].by] = d]
                       /\ task[k].by = Main =>
                            d \in ConnRecord /\ d.autocommit = conn[Main].autocommit
  <2>1. PICK d : d = [c EXCEPT !.owner = IF c.owner = k THEN NoTask ELSE c.owner]
    OBVIOUS
  <2>2. conn' = [conn EXCEPT ![task[k].by] = d]
    BY <1>7, <2>1 DEF Over
  <2>3. c \in ConnRecord => d \in ConnRecord /\ d.autocommit = c.autocommit
    BY <2>1 DEF ConnRecord, NoTask
  <2>. QED
    BY <1>7, <2>2, <2>3
<1>8. CASE h.do = "step" /\ Steps(l, k)
  <2>. PICK c : c = conn[task[k].by]
    OBVIOUS
  <2>1. task[k].by = Main => c = conn[Main]
    OBVIOUS
  <2>2. /\ conn[Main] \in ConnRecord /\ h.do # "stop"
        /\ \A b : [conn[Main] EXCEPT !.open = FALSE] \in ConnRecord
                  /\ [conn[Main] EXCEPT !.open = FALSE].autocommit = conn[Main].autocommit
        /\ \A b \in BOOLEAN : [conn[Main] EXCEPT !.in_transaction = b] \in ConnRecord
                  /\ [conn[Main] EXCEPT !.in_transaction = b].autocommit = conn[Main].autocommit
    BY <1>4, <1>8 DEF ConnRecord
  <2>3. CASE \E out : Over(l, k, out, c)
    BY <1>6, <1>7, <2>1, <2>2, <2>3
  <2>4. CASE Over(l, k, "error", [c EXCEPT !.open = FALSE])
    BY <1>6, <1>7, <2>1, <2>2, <2>4
  <2>5. CASE \E b : /\ task[k].by = Main => b \in BOOLEAN
                    /\ Over(l, k, task[k].out, [c EXCEPT !.in_transaction = b])
    BY <1>6, <1>7, <2>1, <2>2, <2>5
  <2>6. CASE \E out : Goes(l, k, out)
    <3>1. PICK out : Goes(l, k, out)
      BY <2>6
    <3>2. PICK d : d = [c EXCEPT !.owner = IF task[k].kind = "begin" THEN c.owner ELSE k,
                                 !.server = After(task[k].kind, out, c.server)]
      OBVIOUS
    <3>3. conn' = [conn EXCEPT ![task[k].by] = d]
      BY <3>1, <3>2 DEF Goes
    <3>4. task[k].by = Main => d \in ConnRecord /\ d.autocommit = conn[Main].autocommit
      <4>1. k \in Nat /\ task[k].kind \in {"exec", "begin", "commit", "rollback"}
        <5>1. k \in DOMAIN task /\ k \in Nat
          BY <1>2, <1>3, <1>4, <1>8
        <5>2. task[k] \in TaskRecord
          BY <1>4, <5>1
        <5>. QED
          BY <5>1, <5>2 DEF TaskRecord
      <4>2. ASSUME task[k].by = Main PROVE After(task[k].kind, out, c.server) \in {"none", "open"}
        BY <1>4, <2>1, <4>1, <4>2, AfterIs DEF ConnRecord
      <4>3. PICK sv : sv = After(task[k].kind, out, c.server)
        OBVIOUS
      <4>. QED
        BY <1>4, <2>1, <3>2, <4>1, <4>2, <4>3 DEF ConnRecord
    <3>. QED
      BY <1>6, <2>2, <3>3, <3>4
  <2>7. CASE conn' = conn
    BY <1>5, <2>7
  <2>8. task[k].by = Main => c.in_transaction \in BOOLEAN
    BY <1>4, <2>1 DEF ConnRecord
  <2>. QED
    BY <1>2, <1>3, <1>8, <2>3, <2>4, <2>5, <2>6, <2>7, <2>8, StepArms, FirstArms
<1>9. CASE h.do = "cancel" /\ Cancels(l, k)
  <2>1. CASE \E cut \in BOOLEAN : conn' = [conn EXCEPT ![task[k].by].cut = @ \/ cut]
    <3>1. PICK cut \in BOOLEAN : conn' = [conn EXCEPT ![task[k].by].cut = @ \/ cut]
      BY <2>1
    <3>2. PICK d : d = [conn[task[k].by] EXCEPT !.cut = conn[task[k].by].cut \/ cut]
      OBVIOUS
    <3>3. conn' = [conn EXCEPT ![task[k].by] = d]
      BY <3>1, <3>2
    <3>4. task[k].by = Main => d \in ConnRecord /\ d.autocommit = conn[Main].autocommit
      BY <1>4, <3>2 DEF ConnRecord
    <3>. QED
      BY <1>6, <1>9, <3>3, <3>4
  <2>. QED
    BY <1>5, <1>9, <2>1, CancelArms
<1>. QED
  BY <1>2, <1>3, <1>5, <1>8, <1>9 DEF Starts

\* What a thread does to itself while its call goes on
Onward(t, pc, k) ==
  /\ \A u \in Threads : u # t => thr'[u] = thr[u]
  /\ conn' = conn
  /\ t = Main => /\ thr'[Main] \in ThreadRecord /\ thr'[Main].block = thr[Main].block
                 /\ thr'[Main].pc = pc /\ thr'[Main].k = k

LEMMA ThreadSet ==
  ASSUME Known, Typed, NEW t \in Threads, NEW pc \in Trying \cup {"wait", "raise"}, NEW k \in Nat,
         conn' = conn, NEW n \in Nat,
         \/ thr' = [thr EXCEPT ![t].pc = pc] /\ k = thr[t].k
         \/ thr' = [thr EXCEPT ![t].pc = pc, ![t].tries = n] /\ k = thr[t].k
         \/ thr' = [thr EXCEPT ![t].pc = pc, ![t].k = k]
  PROVE  Onward(t, pc, k)
<1>1. thr[Main] \in ThreadRecord
  BY DEF Known
<1>2. PICK r : /\ thr' = [thr EXCEPT ![t] = r]
               /\ t = Main => r \in ThreadRecord /\ r.block = thr[Main].block /\ r.pc = pc /\ r.k = k
  <2>1. CASE thr' = [thr EXCEPT ![t].pc = pc] /\ k = thr[t].k
    <3>1. PICK r : r = [thr[t] EXCEPT !.pc = pc]
      OBVIOUS
    <3>2. thr' = [thr EXCEPT ![t] = r]
      BY <2>1, <3>1
    <3>3. t = Main => r \in ThreadRecord /\ r.block = thr[Main].block /\ r.pc = pc /\ r.k = k
      BY <1>1, <2>1, <3>1 DEF ThreadRecord
    <3>. QED
      BY <3>2, <3>3
  <2>2. CASE thr' = [thr EXCEPT ![t].pc = pc, ![t].tries = n] /\ k = thr[t].k
    <3>1. PICK r : r = [thr[t] EXCEPT !.pc = pc, !.tries = n]
      OBVIOUS
    <3>2. thr' = [thr EXCEPT ![t] = r]
      BY <2>2, <3>1
    <3>3. t = Main => r \in ThreadRecord /\ r.block = thr[Main].block /\ r.pc = pc /\ r.k = k
      BY <1>1, <2>2, <3>1 DEF ThreadRecord
    <3>. QED
      BY <3>2, <3>3
  <2>3. CASE thr' = [thr EXCEPT ![t].pc = pc, ![t].k = k]
    <3>1. PICK r : r = [thr[t] EXCEPT !.pc = pc, !.k = k]
      OBVIOUS
    <3>2. thr' = [thr EXCEPT ![t] = r]
      BY <2>3, <3>1
    <3>3. t = Main => r \in ThreadRecord /\ r.block = thr[Main].block /\ r.pc = pc /\ r.k = k
      BY <1>1, <3>1 DEF ThreadRecord
    <3>. QED
      BY <3>2, <3>3
  <2>. QED
    BY <2>1, <2>2, <2>3
<1>3. t = Main => r \in ThreadRecord /\ r.block = thr[Main].block /\ r.pc = pc /\ r.k = k
  BY <1>2
<1>4. thr'[t] = r /\ \A u \in Threads : u # t => thr'[u] = thr[u]
  BY <1>2 DEF Typed
<1>. QED
  BY <1>3, <1>4, RunnerAssumption DEF Onward

\* What the end of a call does to its caller
Ended(ok) ==
  LET kind == task[my].kind IN
  /\ DOMAIN conn' = Threads /\ conn'[Main] \in ConnRecord
  /\ conn'[Main].open = conn[Main].open /\ conn'[Main].owner = conn[Main].owner
  /\ conn'[Main].server = conn[Main].server
  /\ thr'[Main] \in ThreadRecord /\ thr'[Main].pc = "idle" /\ thr'[Main].k = NoTask
  /\ kind = "exec" => conn'[Main] = conn[Main] /\ thr'[Main].block = thr[Main].block
  /\ kind = "begin" /\ ok => conn'[Main].in_transaction /\ thr'[Main].block = "in"
  /\ kind = "begin" /\ ~ok => conn'[Main] = conn[Main] /\ thr'[Main].block = "out"
  /\ kind = "commit" => conn'[Main].autocommit /\ thr'[Main].block = "committed"
  /\ kind = "rollback" => conn'[Main].autocommit /\ thr'[Main].block = "rolled"
  /\ kind \in {"exec", "begin", "commit", "rollback"}

LEMMA EndedIs ==
  ASSUME Known, Typed, NEW ok \in BOOLEAN, Ends(Main, ok), my \in DOMAIN task
  PROVE  Ended(ok)
<1>1. /\ Main \in Threads /\ DOMAIN conn = Threads /\ conn[Main] \in ConnRecord
      /\ thr[Main] \in ThreadRecord
  BY RunnerAssumption DEF Known
<1>2. PICK kind : kind = task[my].kind
  OBVIOUS
<1>3. kind \in {"exec", "begin", "commit", "rollback"}
  <2>1. task[my] \in TaskRecord
    BY DEF Typed
  <2>. QED
    BY <1>2, <2>1 DEF TaskRecord
<1>4. PICK s : s = [thr[Main] EXCEPT !.pc = "idle", !.k = NoTask, !.tries = 0]
  OBVIOUS
<1>5. /\ s \in ThreadRecord /\ s.pc = "idle" /\ s.k = NoTask /\ s.block = thr[Main].block
  BY <1>1, <1>4 DEF ThreadRecord, NoTask
<1>6. \A b \in {"out", "in", "committed", "rolled"} :
        LET r == [s EXCEPT !.block = b] IN
        r \in ThreadRecord /\ r.pc = "idle" /\ r.k = NoTask /\ r.block = b
  BY <1>5 DEF ThreadRecord
<1>7. \A b \in {"out", "in", "committed", "rolled"} :
        LET r == [s EXCEPT !.block = b, !.raised = FALSE] IN
        r \in ThreadRecord /\ r.pc = "idle" /\ r.k = NoTask /\ r.block = b
  BY <1>5 DEF ThreadRecord
<1>8. \A v : (thr' = [thr EXCEPT ![Main] = v]) => thr'[Main] = v
  BY <1>1 DEF Typed
<1>9. /\ \A c : (conn' = [conn EXCEPT ![Main] = c]) => conn'[Main] = c /\ DOMAIN conn' = Threads
      /\ (conn' = conn) => conn'[Main] = conn[Main] /\ DOMAIN conn' = Threads
  BY <1>1
<1>10. CASE kind = "exec"
  <2>1. PICK b : b = (~ok /\ s.block = "in")
    OBVIOUS
  <2>2. conn' = conn /\ thr' = [thr EXCEPT ![Main] = [s EXCEPT !.raised = b]]
    BY <1>2, <1>4, <1>10, <2>1, Zenon DEF Ends, my
  <2>3. LET r == [s EXCEPT !.raised = b] IN
        r \in ThreadRecord /\ r.pc = "idle" /\ r.k = NoTask /\ r.block = thr[Main].block
    <3>1. b \in BOOLEAN
      BY <2>1
    <3>. QED
      BY <1>5, <3>1 DEF ThreadRecord
  <2>. QED
    BY <1>1, <1>2, <1>8, <1>9, <1>10, <2>2, <2>3 DEF Ended
<1>11. CASE kind = "begin" /\ ok
  <2>1. /\ conn' = [conn EXCEPT ![Main].in_transaction = TRUE, ![Main].autocommit = FALSE]
        /\ thr' = [thr EXCEPT ![Main] = [s EXCEPT !.block = "in"]]
    BY <1>2, <1>4, <1>11, Zenon DEF Ends, my
  <2>2. PICK c : c = [conn[Main] EXCEPT !.in_transaction = TRUE, !.autocommit = FALSE]
    OBVIOUS
  <2>3. conn' = [conn EXCEPT ![Main] = c]
    BY <2>1, <2>2
  <2>4. /\ c \in ConnRecord /\ c.open = conn[Main].open /\ c.owner = conn[Main].owner
        /\ c.server = conn[Main].server /\ c.in_transaction
    BY <1>1, <2>2 DEF ConnRecord
  <2>5. PICK r : r = [s EXCEPT !.block = "in"]
    OBVIOUS
  <2>6. thr'[Main] = r /\ conn'[Main] = c /\ DOMAIN conn' = Threads
    BY <1>8, <1>9, <2>1, <2>3, <2>5
  <2>7. r \in ThreadRecord /\ r.pc = "idle" /\ r.k = NoTask /\ r.block = "in"
    BY <1>6, <2>5
  <2>. QED
    BY <1>1, <1>2, <1>11, <2>4, <2>6, <2>7 DEF Ended
<1>12. CASE kind = "begin" /\ ~ok
  <2>1. conn' = conn /\ thr' = [thr EXCEPT ![Main] = [s EXCEPT !.block = "out"]]
    BY <1>2, <1>4, <1>12, Zenon DEF Ends, my
  <2>2. PICK r : r = [s EXCEPT !.block = "out"]
    OBVIOUS
  <2>3. thr'[Main] = r /\ conn'[Main] = conn[Main] /\ DOMAIN conn' = Threads
    BY <1>8, <1>9, <2>1, <2>2
  <2>4. r \in ThreadRecord /\ r.pc = "idle" /\ r.k = NoTask /\ r.block = "out"
    BY <1>6, <2>2
  <2>. QED
    BY <1>1, <1>2, <1>12, <2>3, <2>4 DEF Ended
<1>13. CASE kind \in {"commit", "rollback"}
  <2>1. PICK b \in {"out", "in", "committed", "rolled"} :
          b = IF kind = "commit" THEN "committed" ELSE "rolled"
    BY <1>13
  <2>2. /\ conn' = [conn EXCEPT ![Main].autocommit = TRUE]
        /\ thr' = [thr EXCEPT ![Main] = [s EXCEPT !.block = b, !.raised = FALSE]]
    <3>1. kind # "exec" /\ kind # "begin"
      BY <1>13
    <3>2. /\ conn' = [conn EXCEPT ![Main].autocommit = TRUE]
          /\ thr' = [thr EXCEPT ![Main] =
               [s EXCEPT !.block = IF kind = "commit" THEN "committed" ELSE "rolled", !.raised = FALSE]]
      BY <1>2, <1>4, <3>1, Zenon DEF Ends, my
    <3>. QED
      BY <2>1, <3>2
  <2>3. PICK c : c = [conn[Main] EXCEPT !.autocommit = TRUE]
    OBVIOUS
  <2>4. conn' = [conn EXCEPT ![Main] = c]
    BY <2>2, <2>3
  <2>5. /\ c \in ConnRecord /\ c.open = conn[Main].open /\ c.owner = conn[Main].owner
        /\ c.server = conn[Main].server /\ c.autocommit
    BY <1>1, <2>3 DEF ConnRecord
  <2>. QED
    BY <1>1, <1>2, <1>7, <1>8, <1>9, <1>13, <2>1, <2>2, <2>4, <2>5 DEF Ended
<1>. QED
  BY <1>3, <1>10, <1>11, <1>12, <1>13

LEMMA EndsElsewhere ==
  ASSUME Known, Typed, NEW t \in Threads, t # Main, NEW ok, Ends(t, ok)
  PROVE  thr'[Main] = thr[Main] /\ conn'[Main] = conn[Main] /\ DOMAIN conn' = Threads
<1>1. thr'[Main] = thr[Main]
  BY Back, TypedIs, RunnerAssumption
<1>2. conn' = conn \/ \E c : conn' = [conn EXCEPT ![t] = c]
  <2>1. \/ conn' = conn
        \/ conn' = [conn EXCEPT ![t].in_transaction = TRUE, ![t].autocommit = FALSE]
        \/ conn' = [conn EXCEPT ![t].autocommit = TRUE]
    BY Zenon DEF Ends
  <2>2. CASE conn' = [conn EXCEPT ![t].in_transaction = TRUE, ![t].autocommit = FALSE]
    <3>1. conn' = [conn EXCEPT ![t] = [conn[t] EXCEPT !.in_transaction = TRUE, !.autocommit = FALSE]]
      BY <2>2
    <3>. QED
      BY <3>1
  <2>3. CASE conn' = [conn EXCEPT ![t].autocommit = TRUE]
    <3>1. conn' = [conn EXCEPT ![t] = [conn[t] EXCEPT !.autocommit = TRUE]]
      BY <2>3
    <3>. QED
      BY <3>1
  <2>. QED
    BY <2>1, <2>2, <2>3
<1>. QED
  BY <1>1, <1>2, RunnerAssumption DEF Known
-----------------------------------------------------------------------------
(* What is changed of a coroutine                                              *)

Same(q, r) == r.by = q.by /\ r.kind = q.kind /\ r.timed = q.timed /\ r.loop = q.loop

Put(k, r) ==
  /\ k \in DOMAIN task /\ DOMAIN task' = DOMAIN task
  /\ task'[k] = r /\ \A j \in DOMAIN task : j # k => task'[j] = task[j]

Kinds == \A k \in DOMAIN task : k \in DOMAIN task' /\ task'[k].kind = task[k].kind

LEMMA PutIs ==
  ASSUME task \in Seq(TaskRecord), NEW k \in DOMAIN task, NEW r, task' = [task EXCEPT ![k] = r]
  PROVE  Put(k, r)
BY DEF Put

LEMMA OverTask ==
  ASSUME task \in Seq(TaskRecord), NEW k \in DOMAIN task, NEW l, NEW out, NEW c, Over(l, k, out, c)
  PROVE  \E r : /\ Put(k, r) /\ Same(task[k], r) /\ r.st = "over"
                /\ r.fut = IF task[k].fut = "pending" THEN "done" ELSE task[k].fut
<1>1. PICK f : f = IF task[k].fut = "pending" THEN "done" ELSE task[k].fut
  OBVIOUS
<1>2. PICK r : r = [task[k] EXCEPT !.st = "over", !.out = out, !.hops = 0, !.fut = f]
  OBVIOUS
<1>3. task' = [task EXCEPT ![k] = r]
  BY <1>1, <1>2 DEF Over
<1>4. task[k] \in TaskRecord
  OBVIOUS
<1>5. Same(task[k], r) /\ r.st = "over" /\ r.fut = f
  BY <1>2, <1>4 DEF TaskRecord, Same
<1>. QED
  BY <1>1, <1>2, <1>5, PutIs, <1>3

LEMMA GoesTask ==
  ASSUME task \in Seq(TaskRecord), NEW k \in DOMAIN task, NEW l, NEW out, Goes(l, k, out)
  PROVE  \E r : Put(k, r) /\ Same(task[k], r) /\ r.st = "asking" /\ r.fut = task[k].fut
<1>1. PICK r : r = [task[k] EXCEPT !.st = "asking", !.out = out, !.starts = task[k].starts + 1]
  OBVIOUS
<1>2. task' = [task EXCEPT ![k] = r]
  BY <1>1 DEF Goes
<1>3. task[k] \in TaskRecord
  OBVIOUS
<1>4. Same(task[k], r) /\ r.st = "asking" /\ r.fut = task[k].fut
  BY <1>1, <1>3 DEF TaskRecord, Same
<1>. QED
  BY <1>1, <1>2, <1>4, PutIs, <1>3

Becomes(k, st) == task' = [task EXCEPT ![k].st = st]
Sends(k, n) == task' = [task EXCEPT ![k].st = "unwinding", ![k].hops = n]

LEMMA StTask ==
  ASSUME task \in Seq(TaskRecord), NEW k \in DOMAIN task, NEW st, Becomes(k, st)
  PROVE  \E r : /\ Put(k, r) /\ Same(task[k], r) /\ r.st = st /\ r.fut = task[k].fut
                /\ r.hops = task[k].hops
<1>1. PICK r : r = [task[k] EXCEPT !.st = st]
  OBVIOUS
<1>2. task' = [task EXCEPT ![k] = r] /\ task[k] \in TaskRecord
  BY <1>1 DEF Becomes
<1>3. Same(task[k], r) /\ r.st = st /\ r.fut = task[k].fut /\ r.hops = task[k].hops
  BY <1>1, <1>2 DEF TaskRecord, Same
<1>. QED
  BY <1>1, <1>2, <1>3, PutIs

LEMMA StartTask ==
  ASSUME task \in Seq(TaskRecord), NEW k \in DOMAIN task, NEW l, Starts(l, k)
  PROVE  \E r : Put(k, r) /\ Same(task[k], r) /\ r.st = "ready" /\ r.fut = task[k].fut
<1>1. Becomes(k, "ready")
  BY DEF Starts, Becomes
<1>. QED
  BY <1>1, StTask

LEMMA AnswerTask ==
  ASSUME task \in Seq(TaskRecord), NEW k \in DOMAIN task, Answer(k)
  PROVE  \E r : Put(k, r) /\ Same(task[k], r) /\ r.st = "answered" /\ r.fut = task[k].fut
<1>1. Becomes(k, "answered")
  BY DEF Answer, Becomes
<1>. QED
  BY <1>1, StTask

LEMMA UnwindTask ==
  ASSUME task \in Seq(TaskRecord), NEW k \in DOMAIN task, NEW n, Sends(k, n)
  PROVE  \E r : /\ Put(k, r) /\ Same(task[k], r) /\ r.st = "unwinding" /\ r.fut = task[k].fut
                /\ r.hops = n
<1>1. PICK r : r = [task[k] EXCEPT !.st = "unwinding", !.hops = n]
  OBVIOUS
<1>2. task' = [task EXCEPT ![k] = r] /\ task[k] \in TaskRecord
  <2>1. task' = [task EXCEPT ![k] = r]
    BY <1>1 DEF Sends
  <2>2. task[k] \in TaskRecord
    OBVIOUS
  <2>. QED
    BY <2>1, <2>2
<1>3. Same(task[k], r) /\ r.st = "unwinding" /\ r.fut = task[k].fut /\ r.hops = n
  BY <1>1, <1>2 DEF TaskRecord, Same
<1>. QED
  BY <1>1, <1>2, <1>3, PutIs

LEMMA HopTask ==
  ASSUME task \in Seq(TaskRecord), NEW k \in DOMAIN task, NEW l, Hopping(l, k)
  PROVE  \E r : Put(k, r) /\ Same(task[k], r)
<1>1. PICK r : r = [task[k] EXCEPT !.hops = task[k].hops - 1]
  OBVIOUS
<1>2. task' = [task EXCEPT ![k] = r] /\ task[k] \in TaskRecord
  BY <1>1 DEF Hopping
<1>3. Same(task[k], r)
  BY <1>1, <1>2 DEF TaskRecord, Same
<1>. QED
  BY <1>1, <1>2, <1>3, PutIs

LEMMA FutTask ==
  ASSUME task \in Seq(TaskRecord), NEW k \in DOMAIN task, NEW f, task' = [task EXCEPT ![k].fut = f]
  PROVE  \E r : /\ Put(k, r) /\ Same(task[k], r) /\ r.st = task[k].st /\ r.fut = f
                /\ r.hops = task[k].hops
<1>1. PICK r : r = [task[k] EXCEPT !.fut = f]
  OBVIOUS
<1>2. task' = [task EXCEPT ![k] = r] /\ task[k] \in TaskRecord
  BY <1>1
<1>3. Same(task[k], r) /\ r.st = task[k].st /\ r.fut = f /\ r.hops = task[k].hops
  BY <1>1, <1>2 DEF TaskRecord, Same
<1>. QED
  BY <1>1, <1>2, <1>3, PutIs

Looped(q, r, l) ==
  /\ r.by = q.by /\ r.kind = q.kind /\ r.timed = q.timed /\ r.loop = l
  /\ r.st = q.st /\ r.fut = q.fut /\ r.hops = q.hops

LEMMA LoopTask ==
  ASSUME task \in Seq(TaskRecord), NEW k \in DOMAIN task, NEW l, task' = [task EXCEPT ![k].loop = l]
  PROVE  \E r : Put(k, r) /\ Looped(task[k], r, l)
<1>1. PICK r : r = [task[k] EXCEPT !.loop = l]
  OBVIOUS
<1>2. task' = [task EXCEPT ![k] = r] /\ task[k] \in TaskRecord
  BY <1>1
<1>3. Looped(task[k], r, l)
  BY <1>1, <1>2 DEF TaskRecord, Looped
<1>. QED
  BY <1>1, <1>2, <1>3, PutIs

\* A turn works on one coroutine.
LEMMA TurnTask ==
  ASSUME IInv, NEW l \in LoopIds, Turn(l), NEW k, k = Head(loops[l].ready).k
  PROVE  task' = task \/ \E r : Put(k, r) /\ Same(task[k], r)
<1>1. PICK h : h = Head(loops[l].ready)
  OBVIOUS
<1>2. /\ h.do # "stop" => h.k \in DOMAIN task
      /\ h.do = "step" => task[h.k].st \in Stepping
      /\ \/ h.do = "start" /\ Starts(l, h.k)
         \/ h.do = "step" /\ Steps(l, h.k)
         \/ h.do = "cancel" /\ Cancels(l, h.k)
         \/ h.do = "stop"
  BY <1>1, TurnArms
<1>3. task \in Seq(TaskRecord) /\ h.k = k
  BY <1>1 DEF IInv, Typed
<1>4. CASE h.do = "stop"
  BY <1>1, <1>4, Zenon DEF Turn
<1>5. CASE h.do = "start" /\ Starts(l, k)
  BY <1>2, <1>3, <1>5, StartTask
<1>6. CASE h.do = "step" /\ Steps(l, k)
  <2>1. k \in DOMAIN task /\ task[k].st \in Stepping
    BY <1>2, <1>3, <1>6
  <2>2. CASE \E out, c : Over(l, k, out, c)
    BY <1>3, <2>1, <2>2, OverTask
  <2>3. CASE \E out : Goes(l, k, out)
    BY <1>3, <2>1, <2>3, GoesTask
  <2>4. CASE Hopping(l, k)
    BY <1>3, <2>1, <2>4, HopTask
  <2>5. FirstStep(l, k) \/ (\E out, c : Over(l, k, out, c)) \/ Hopping(l, k)
    BY <1>6, <2>1, StepArms
  <2>6. FirstStep(l, k) => (\E out, c : Over(l, k, out, c)) \/ (\E out : Goes(l, k, out))
    BY FirstArms
  <2>. QED
    BY <2>2, <2>3, <2>4, <2>5, <2>6
<1>7. CASE h.do = "cancel" /\ Cancels(l, k)
  <2>1. k \in DOMAIN task
    BY <1>2, <1>3, <1>7
  <2>2. \/ \E st : task' = [task EXCEPT ![k].st = st]
        \/ \E n : task' = [task EXCEPT ![k].st = "unwinding", ![k].hops = n]
        \/ task' = task
    BY <1>7, CancelArms
  <2>3. CASE \E st : task' = [task EXCEPT ![k].st = st]
    <3>1. PICK st : task' = [task EXCEPT ![k].st = st]
      BY <2>3
    <3>. QED
      BY <1>3, <2>1, <3>1, StTask DEF Becomes
  <2>4. CASE \E n : task' = [task EXCEPT ![k].st = "unwinding", ![k].hops = n]
    <3>1. PICK n : task' = [task EXCEPT ![k].st = "unwinding", ![k].hops = n]
      BY <2>4
    <3>. QED
      BY <1>3, <2>1, <3>1, UnwindTask DEF Sends
  <2>. QED
    BY <2>2, <2>3, <2>4
<1>. QED
  BY <1>2, <1>3, <1>4, <1>5, <1>6, <1>7

-----------------------------------------------------------------------------
(* Autocommit is restored, whatever happens.                                   *)

LEMMA TaskIds ==
  ASSUME Typed
  PROVE  task \in Seq(TaskRecord) /\ DOMAIN task \subseteq Nat \ {0} /\ NoTask \notin DOMAIN task
BY DEF Typed, NoTask

LEMMA KindsPut ==
  ASSUME task' = task \/ \E k, r : Put(k, r) /\ r.kind = task[k].kind
  PROVE  Kinds
BY DEF Kinds, Put

LEMMA KeptOn ==
  ASSUME Known, Restored, Kinds, \E c : Held(c),
         thr'[Main] \in ThreadRecord, thr'[Main].block = thr[Main].block, thr'[Main].k = thr[Main].k,
         thr'[Main].pc = "idle" <=> thr[Main].pc = "idle"
  PROVE  Known' /\ Restored'
BY DEF Known, Restored, Kinds, Held, my

LEMMA CallKept ==
  ASSUME IInv, Known, Restored, NEW t \in Threads, NEW kind \in {"exec", "begin", "commit", "rollback"},
         NEW timed \in BOOLEAN, Call(t, kind, timed), thr[t].block = "in" => kind # "begin"
  PROVE  Known' /\ Restored'
<1>1. /\ Typed /\ task \in Seq(TaskRecord) /\ conn' = conn /\ conn[Main] \in ConnRecord
      /\ thr[Main] \in ThreadRecord
  BY TaskIds DEF Call, IInv, Known
<1>2. PICK k : k = Len(task) + 1
  OBVIOUS
<1>3. k \in Nat /\ k # NoTask /\ k \notin DOMAIN task
  BY <1>1, <1>2 DEF NoTask
<1>4. PICK r : r = [by |-> t, kind |-> kind, timed |-> timed, st |-> "new", fut |-> "pending",
                    out |-> "none", hops |-> 0, loop |-> 0, starts |-> 0]
  OBVIOUS
<1>5. task' = Append(task, r) /\ r.kind = kind /\ r.by = t
  BY <1>4 DEF Call
<1>6. DOMAIN task' = DOMAIN task \cup {k} /\ task'[k] = r /\ \A j \in DOMAIN task : task'[j] = task[j]
  BY <1>1, <1>2, <1>5
<1>7. Onward(t, "check", k)
  <2>1. thr' = [thr EXCEPT ![t].pc = "check", ![t].k = k]
    BY <1>2 DEF Call
  <2>. QED
    BY <1>1, <1>3, <2>1, ThreadSet DEF Trying
<1>8. Kinds /\ Held(conn[Main])
  BY <1>1, <1>6 DEF Kinds, Held, Known
<1>9. CASE t = Main
  BY <1>1, <1>3, <1>5, <1>6, <1>7, <1>9 DEF Onward, Known, Restored, my
<1>10. CASE t # Main
  <2>1. thr'[Main] = thr[Main]
    BY <1>7, <1>10, RunnerAssumption DEF Onward
  <2>. QED
    BY <1>1, <1>8, <2>1, KeptOn
<1>. QED
  BY <1>9, <1>10

\* The coroutine of a thread that takes its way to a loop
LEMMA CallerTask ==
  ASSUME IInv, NEW t \in Threads, thr[t].pc \in Trying \cup {"wait"}
  PROVE  /\ thr[t].k \in DOMAIN task /\ task[thr[t].k].by = t /\ task \in Seq(TaskRecord)
         /\ thr[t].k \in Nat /\ DOMAIN task \subseteq Nat
BY TaskIds DEF IInv, Callers

LEMMA ThreadKept ==
  ASSUME IInv, Known, Restored, NEW t \in Threads,
         Check(t) \/ Again(t) \/ Restart(t) \/ Join(t) \/ Submit(t)
  PROVE  Known' /\ Restored'
<1>1. thr[t].pc \in Trying /\ Typed
  BY DEF Check, Again, Restart, Join, Submit, Trying, IInv
<1>2. /\ thr[t].k \in DOMAIN task /\ task[thr[t].k].by = t /\ task \in Seq(TaskRecord)
      /\ thr[t].k \in Nat
  BY <1>1, CallerTask
<1>3. PICK pc \in Trying \cup {"wait", "raise"} :
           \/ thr' = [thr EXCEPT ![t].pc = pc]
           \/ thr' = [thr EXCEPT ![t].pc = pc, ![t].tries = 1]
  <2>1. \/ thr' = [thr EXCEPT ![t].pc = "again", ![t].tries = 1]
        \/ At(t, "submit") \/ At(t, "restart") \/ At(t, "join") \/ At(t, "wait") \/ At(t, "raise")
    BY DEF Check, Again, Restart, Join, Submit, TakeLoop, Fresh
  <2>. QED
    BY <2>1 DEF At, Trying
<1>4. conn' = conn
  BY DEF Check, Again, Restart, Join, Submit
<1>5. Onward(t, pc, thr[t].k)
  BY <1>1, <1>2, <1>3, <1>4, ThreadSet
<1>6. Kinds
  <2>1. \/ task' = task \/ (\E l : task' = [task EXCEPT ![thr[t].k].loop = l])
        \/ task' = [task EXCEPT ![thr[t].k].fut = "refused"]
    <3>. DEFINE Taking == \E l : TakeLoop(t, l)
    <3>1. Check(t) \/ Again(t) \/ Restart(t) \/ Join(t) => task' = task \/ Taking
      BY DEF Check, Again, Restart, Join, Fresh
    <3>2. Taking => \E l : task' = [task EXCEPT ![thr[t].k].loop = l]
      BY DEF TakeLoop
    <3>3. Submit(t) => task' = task \/ task' = [task EXCEPT ![thr[t].k].fut = "refused"]
      BY DEF Submit
    <3>. HIDE DEF Taking
    <3>. QED
      BY <3>1, <3>2, <3>3
  <2>2. CASE \E l : task' = [task EXCEPT ![thr[t].k].loop = l]
    <3>1. PICK l : task' = [task EXCEPT ![thr[t].k].loop = l]
      BY <2>2
    <3>2. \E r : Put(thr[t].k, r) /\ Looped(task[thr[t].k], r, l)
      BY <1>2, <3>1, LoopTask
    <3>. QED
      BY <3>2, KindsPut DEF Looped
  <2>3. CASE task' = [task EXCEPT ![thr[t].k].fut = "refused"]
    <3>1. PICK f : task' = [task EXCEPT ![thr[t].k].fut = f]
      BY <2>3
    <3>2. \E r : Put(thr[t].k, r) /\ Same(task[thr[t].k], r)
      BY <1>2, <3>1, FutTask
    <3>. QED
      BY <3>2, KindsPut DEF Same
  <2>. QED
    BY <2>1, <2>2, <2>3, KindsPut
<1>7. Held(conn[Main])
  BY <1>4 DEF Known, Held
<1>8. pc # "idle"
  BY <1>3 DEF Trying
<1>9. CASE t = Main
  BY <1>1, <1>5, <1>6, <1>7, <1>8, <1>9, KeptOn DEF Onward, Trying
<1>10. CASE t # Main
  <2>1. thr'[Main] = thr[Main] /\ thr[Main] \in ThreadRecord
    BY <1>5, <1>10, RunnerAssumption DEF Onward, Known
  <2>. QED
    BY <1>6, <1>7, <2>1, KeptOn
<1>. QED
  BY <1>9, <1>10

LEMMA EndKept ==
  ASSUME IInv, Known, Restored, NEW t \in Threads, NEW ok \in BOOLEAN, Ends(t, ok),
         thr[t].pc # "idle", Kinds
  PROVE  Known' /\ Restored'
<1>1. Typed
  BY DEF IInv
<1>2. CASE t = Main
  <2>1. my \in DOMAIN task /\ Ended(ok)
    BY <1>1, <1>2, EndedIs DEF Known
  <2>2. thr'[Main].k = NoTask /\ thr'[Main].pc = "idle" /\ Known'
    BY <2>1 DEF Ended, Known, my
  <2>3. thr'[Main].block = "in" \/ conn'[Main].autocommit
    BY <1>1, <2>1, TaskIds DEF Ended, Restored
  <2>. QED
    BY <2>2, <2>3 DEF Restored, my
<1>3. CASE t # Main
  <2>1. thr'[Main] = thr[Main] /\ conn'[Main] = conn[Main] /\ DOMAIN conn' = Threads
    BY <1>1, <1>3, EndsElsewhere
  <2>2. Held(conn[Main]) /\ thr[Main] \in ThreadRecord
    BY <2>1 DEF Held, Known
  <2>. QED
    BY <2>1, <2>2, KeptOn
<1>. QED
  BY <1>2, <1>3

LEMMA KeptStep ==
  ASSUME IInv, Known, Restored, [Next]_vars
  PROVE  Known' /\ Restored'
<1>1. /\ Typed /\ task \in Seq(TaskRecord) /\ thr[Main] \in ThreadRecord /\ conn[Main] \in ConnRecord
      /\ DOMAIN conn = Threads
  BY TaskIds DEF IInv, Known
<1>2. ASSUME NEW t \in Threads, App(t) PROVE Known' /\ Restored'
  BY <1>2, CallKept DEF App, Execute, Enter, Leave
<1>3. ASSUME NEW t \in Threads, Return(t) \/ Refused(t) PROVE Known' /\ Restored'
  <2>1. /\ \E ok \in BOOLEAN : Ends(t, ok)
        /\ thr[t].pc # "idle" /\ task' = task
    BY <1>3 DEF Return, Refused
  <2>. QED
    BY <2>1, EndKept, KindsPut
<1>4. ASSUME NEW t \in Threads, Interrupt(t) PROVE Known' /\ Restored'
  <2>1. /\ Ends(t, FALSE) /\ thr[t].pc = "wait" /\ \E f : task' = [task EXCEPT ![thr[t].k].fut = f]
    BY <1>4 DEF Interrupt
  <2>2. thr[t].k \in DOMAIN task
    BY <2>1, CallerTask
  <2>3. PICK f : task' = [task EXCEPT ![thr[t].k].fut = f]
    BY <2>1
  <2>4. Kinds
    <3>1. \E r : Put(thr[t].k, r) /\ Same(task[thr[t].k], r)
      BY <1>1, <2>2, <2>3, FutTask
    <3>. QED
      BY <3>1, KindsPut DEF Same
  <2>. QED
    BY <2>1, <2>4, EndKept
<1>5. ASSUME NEW l \in LoopIds, Turn(l) PROVE Known' /\ Restored'
  <2>1. \E c : Held(c)
    BY <1>5, TurnHolds
  <2>2. Kinds
    BY <1>5, TurnTask, KindsPut DEF Same
  <2>3. thr' = thr
    BY <1>5 DEF Turn
  <2>. QED
    BY <1>1, <2>1, <2>2, <2>3, KeptOn
<1>6. ASSUME NEW k \in DOMAIN task, Answer(k) PROVE Known' /\ Restored'
  <2>1. conn' = conn /\ thr' = thr /\ task' = [task EXCEPT ![k].st = "answered"]
    BY <1>6 DEF Answer
  <2>2. Kinds /\ Held(conn[Main])
    <3>1. \E r : Put(k, r) /\ r.kind = task[k].kind
      BY <1>1, <1>6, AnswerTask DEF Same
    <3>2. Kinds
      BY <3>1, KindsPut
    <3>. QED
      BY <1>1, <2>1, <3>2 DEF Held
  <2>. QED
    BY <1>1, <2>1, <2>2, KeptOn
<1>7. ASSUME conn' = conn, thr' = thr, task' = task PROVE Known' /\ Restored'
  <2>1. Kinds /\ Held(conn[Main])
    BY <1>1, <1>7, KindsPut DEF Held
  <2>. QED
    BY <1>1, <1>7, <2>1, KeptOn
<1>8. ASSUME NEW t \in Threads, Thread(t) PROVE Known' /\ Restored'
  BY <1>3, <1>8, ThreadKept DEF Thread
<1>9. ASSUME NEW l \in LoopIds, Loop(l) PROVE Known' /\ Restored'
  BY <1>5, <1>7, <1>9 DEF Loop, LoopBegins, LoopEnds
<1>10. CASE CloserStops \/ CloserCloses
  BY <1>7, <1>10 DEF CloserStops, CloserCloses
<1>11. CASE UNCHANGED vars
  BY <1>7, <1>11 DEF vars
<1>. QED
  BY <1>2, <1>4, <1>6, <1>8, <1>9, <1>10, <1>11 DEF Next

-----------------------------------------------------------------------------
(* The loop works on a coroutine of the main thread.                           *)

\* What a turn, or an answer of the backend, does to coroutine k
Advance(k, r, gone, new) ==
  \/ /\ task[k].st = "new" /\ r.st = "ready" /\ r.fut = task[k].fut
     /\ gone = {Cb("start", k)} /\ new = {Cb("step", k)}
  \/ /\ task[k].st \in Stepping /\ r.st = "over" /\ gone = {Cb("step", k)} /\ new = {}
     /\ r.fut = IF task[k].fut = "pending" THEN "done" ELSE task[k].fut
  \/ /\ task[k].st = "ready" /\ r.st = "asking" /\ r.fut = task[k].fut
     /\ gone = {Cb("step", k)} /\ new = {}
  \/ /\ task[k].st = "ready" /\ r.st = "doomed" /\ r.fut = task[k].fut
     /\ gone = {Cb("cancel", k)} /\ new = {}
  \/ /\ task[k].st \in {"asking", "answered"} /\ r.st = "unwinding" /\ r.fut = task[k].fut
     /\ r.hops = IF task[k].timed THEN Hops ELSE 1
     /\ gone = {Cb("cancel", k)}
     /\ new = IF task[k].st = "asking" THEN {Cb("step", k)} ELSE {}
  \/ /\ task[k].st # "ready" /\ (task[k].st \in {"asking", "answered"} => task[k].timed)
     /\ r = task[k] /\ gone = {Cb("cancel", k)} /\ new = {}
  \/ /\ task[k].st = "asking" /\ r.st = "answered" /\ r.fut = task[k].fut
     /\ gone = {} /\ new = {Cb("step", k)}

\* One coroutine moves on, and its callback was the first one in the queue.
Moves(k, r, gone, new) ==
  /\ k \in Mine /\ Alone' /\ thr'[Main] = thr[Main] /\ Put(k, r) /\ Same(task[k], r)
  /\ Shift(gone, new) /\ Advance(k, r, gone, new)
  /\ \A h \in gone : Has(ready, h) /\ \A x : ~Before(ready, x, h)

LEMMA MineKept ==
  ASSUME NEW k, NEW r, NEW gone, NEW new, Moves(k, r, gone, new)
  PROVE  /\ Mine' = Mine /\ my' = my /\ task'[k] = r /\ \A j \in Mine : j # k => task'[j] = task[j]
         /\ r.kind = task[k].kind /\ r.timed = task[k].timed /\ r.loop = task[k].loop
         /\ Left' = {j \in Left : j # k \/ r.st # "over"} \cup
                    {j \in Mine : j = k /\ j # my /\ r.st # "over"}
<1>1. Mine' = Mine /\ my' = my
  BY DEF Moves, Put, Same, Mine, my
<1>2. /\ task'[k] = r /\ \A j \in Mine : j # k => task'[j] = task[j]
      /\ r.kind = task[k].kind /\ r.timed = task[k].timed /\ r.loop = task[k].loop
  BY DEF Moves, Put, Same, Mine
<1>3. Left' = {j \in Mine : j # my /\ task'[j].st # "over"}
  BY <1>1 DEF Left
<1>4. Left' = {j \in Left : j # k \/ r.st # "over"} \cup
              {j \in Mine : j = k /\ j # my /\ r.st # "over"}
  BY <1>2, <1>3 DEF Left
<1>. QED
  BY <1>1, <1>2, <1>4

\* Where k stands before it moves
LEMMA Standing ==
  ASSUME Calm, Typed, NEW k, NEW r, NEW gone, NEW new, Moves(k, r, gone, new)
  PROVE  /\ k # my /\ task[k].st # "over" => k \in Left
         /\ task[k].st = "new" => k = my /\ task[k].fut = "pending" /\ new = {Cb("step", k)}
         /\ gone = {Cb("cancel", k)} => k # my
         /\ gone = {Cb("step", k)} => \A j \in Left : ~(j < k)
         /\ gone = {Cb("start", k)} => \A j \in Left : j < k => task[j].st \in {"unwinding", "doomed"}
<1>1. /\ k \in Mine /\ Advance(k, r, gone, new)
      /\ \A h \in gone : Has(ready, h) /\ \A x : ~Before(ready, x, h)
  BY DEF Moves
<1>2. k # my /\ task[k].st # "over" => k \in Left
  BY <1>1 DEF Left
<1>3. gone = {Cb("cancel", k)} => k # my
  BY <1>1 DEF Calm, Parted
<1>4. task[k].st = "new" => k = my /\ task[k].fut = "pending"
  <2>1. task[k].st = "new" => k = my
    BY <1>2 DEF Calm, Parted
  <2>. QED
    BY <1>1, <2>1 DEF Calm, Parted
<1>5. gone = {Cb("step", k)} => \A j \in Left : ~(j < k)
  BY <1>1 DEF Calm, Ordered, Led
<1>6. gone = {Cb("start", k)} => \A j \in Left : j < k => task[j].st \in {"unwinding", "doomed"}
  BY <1>1 DEF Calm, Ordered, Led
<1>7. task[k].st = "new" => new = {Cb("step", k)}
  <2>1. task[k].st = "new" => gone # {Cb("cancel", k)}
    BY <1>3, <1>4
  <2>. QED
    BY <1>1, <1>4, <2>1 DEF Advance, Stepping
<1>. QED
  BY <1>2, <1>3, <1>4, <1>5, <1>6, <1>7

LEMMA PartedKept ==
  ASSUME Calm, Typed, NEW k, NEW r, NEW gone, NEW new, Moves(k, r, gone, new)
  PROVE  Parted'
<1>1. /\ Mine' = Mine /\ my' = my /\ task'[k] = r /\ \A j \in Mine : j # k => task'[j] = task[j]
      /\ r.timed = task[k].timed /\ r.loop = task[k].loop
      /\ Left' = {j \in Left : j # k \/ r.st # "over"} \cup
                 {j \in Mine : j = k /\ j # my /\ r.st # "over"}
  BY MineKept
<1>2. /\ k # my /\ task[k].st # "over" => k \in Left
      /\ task[k].st = "new" => k = my /\ task[k].fut = "pending" /\ new = {Cb("step", k)}
      /\ gone = {Cb("cancel", k)} => k # my
  BY Standing
<1>3. /\ k \in Mine /\ Advance(k, r, gone, new) /\ thr'[Main] = thr[Main]
      /\ \A x : Has(ready', x) => Has(ready, x) \/ x \in new
  BY DEF Moves, Shift
<1>4. \A j \in Mine : Has(ready', Cb("cancel", j)) => Has(ready, Cb("cancel", j))
  BY <1>2, <1>3, CbIs DEF Advance, Stepping
<1>5. /\ k # my => r.fut \in {"done", "cancelled"}
      /\ k = my => r.fut \in {"pending", "done"} /\ r.st \notin {"doomed", "unwinding"}
      /\ r.fut = "done" => r.st = "over"
      /\ r.st = "unwinding" => r.hops = 1
      /\ k # my /\ r.st # "over" => ~r.timed /\ r.st # "new"
  <2>1. /\ k # my => task[k].fut \in {"done", "cancelled"}
        /\ k = my => task[k].fut \in {"pending", "done"} /\ task[k].st \notin {"doomed", "unwinding"}
        /\ task[k].fut = "done" => task[k].st = "over"
        /\ task[k].st = "unwinding" => task[k].hops = 1
        /\ k \in Left => ~task[k].timed /\ task[k].st # "new"
    BY <1>3 DEF Calm, Parted
  <2>. QED
    BY <1>1, <1>2, <1>3, <2>1 DEF Advance, Stepping
<1>6. \A j \in Left' : ~task'[j].timed /\ task'[j].st # "new"
  BY <1>1, <1>5 DEF Calm, Parted, Left
<1>7. \A j \in Mine :
       /\ task'[j].loop = 1 \/ (j = my /\ thr[Main].pc = "check")
       /\ j # my => task'[j].fut \in {"done", "cancelled"}
       /\ j = my => /\ task'[j].fut \in {"pending", "done"}
                    /\ task'[j].st \notin {"doomed", "unwinding"} /\ ~Has(ready', Cb("cancel", j))
       /\ task'[j].fut = "done" => task'[j].st = "over"
       /\ task'[j].st = "unwinding" => task'[j].hops = 1
  <2>1. ASSUME NEW j \in Mine
        PROVE  /\ task[j].loop = 1 \/ (j = my /\ thr[Main].pc = "check")
               /\ j # my => task[j].fut \in {"done", "cancelled"}
               /\ j = my => /\ task[j].fut \in {"pending", "done"}
                            /\ task[j].st \notin {"doomed", "unwinding"} /\ ~Has(ready, Cb("cancel", j))
               /\ task[j].fut = "done" => task[j].st = "over"
               /\ task[j].st = "unwinding" => task[j].hops = 1
    BY DEF Calm, Parted
  <2>. QED
    BY <1>1, <1>4, <1>5, <2>1
<1>8. /\ thr'[Main].pc \in {"idle", "check", "submit", "wait"}
      /\ my # NoTask => my \in Mine /\ \A j \in Mine : j <= my
  BY <1>3 DEF Calm, Parted
<1>. QED
  BY <1>1, <1>3, <1>6, <1>7, <1>8 DEF Parted

LEMMA QueuedKept ==
  ASSUME Calm, Typed, NEW k, NEW r, NEW gone, NEW new, Moves(k, r, gone, new)
  PROVE  Queued'
<1>1. /\ Mine' = Mine /\ my' = my /\ task'[k] = r /\ \A j \in Mine : j # k => task'[j] = task[j]
      /\ Left' = {j \in Left : j # k \/ r.st # "over"} \cup
                 {j \in Mine : j = k /\ j # my /\ r.st # "over"}
  BY MineKept
<1>2. /\ k # my /\ task[k].st # "over" => k \in Left
      /\ task[k].st = "new" => k = my /\ task[k].fut = "pending" /\ new = {Cb("step", k)}
      /\ gone = {Cb("cancel", k)} => k # my
  BY Standing
<1>3. /\ k \in Mine /\ Advance(k, r, gone, new)
      /\ \A x : x \in new \/ (Has(ready, x) /\ x \notin gone) => Has(ready', x)
      /\ \A i \in DOMAIN ready' : ready'[i].do # "stop"
  BY DEF Moves, Shift
<1>4. /\ \A j \in Mine : task[j].st \in Stepping => Has(ready, Cb("step", j))
      /\ \A j \in Left : task[j].st \notin {"unwinding", "doomed"} => Has(ready, Cb("cancel", j))
  BY DEF Calm, Queued
<1>5. gone \subseteq {Cb("start", k), Cb("step", k), Cb("cancel", k)}
  BY <1>3 DEF Advance
<1>6. \A j \in Mine : task'[j].st \in Stepping => Has(ready', Cb("step", j))
  <2>1. ASSUME NEW j \in Mine, j # k PROVE task'[j].st \in Stepping => Has(ready', Cb("step", j))
    BY <1>1, <1>3, <1>4, <1>5, <2>1, CbIs
  <2>2. r.st \in Stepping => Has(ready', Cb("step", k))
    BY <1>2, <1>3, <1>4, CbIs DEF Advance, Stepping
  <2>. QED
    BY <1>1, <2>1, <2>2
<1>7. \A j \in Left' : task'[j].st \notin {"unwinding", "doomed"} => Has(ready', Cb("cancel", j))
  <2>1. ASSUME NEW j \in Left', j # k
        PROVE  task'[j].st \notin {"unwinding", "doomed"} => Has(ready', Cb("cancel", j))
    <3>1. j \in Left /\ task'[j] = task[j]
      BY <1>1, <2>1 DEF Left
    <3>. QED
      BY <1>3, <1>4, <1>5, <2>1, <3>1, CbIs
  <2>2. k # my /\ r.st # "over" /\ r.st \notin {"unwinding", "doomed"} => Has(ready', Cb("cancel", k))
    <3>1. k # my /\ task[k].st # "over" => ~task[k].timed
      BY <1>2 DEF Calm, Parted
    <3>2. task[k].st \in States
      <4>1. k \in DOMAIN task /\ task \in Seq(TaskRecord)
        BY <1>3 DEF Mine, Typed
      <4>2. task[k] \in TaskRecord
        BY <4>1
      <4>. QED
        BY <4>2 DEF TaskRecord
    <3>. QED
      BY <1>2, <1>3, <1>4, <3>1, <3>2, CbIs DEF Advance, Stepping, States
  <2>3. k \in Left' => k # my /\ r.st # "over"
    BY <1>1 DEF Left
  <2>. QED
    BY <1>1, <2>1, <2>2, <2>3
<1>. QED
  BY <1>1, <1>3, <1>6, <1>7 DEF Queued

LEMMA OrderedKept ==
  ASSUME Calm, Typed, NEW k, NEW r, NEW gone, NEW new, Moves(k, r, gone, new)
  PROVE  Ordered'
<1>1. /\ Mine' = Mine /\ my' = my /\ task'[k] = r /\ \A j \in Mine : j # k => task'[j] = task[j]
      /\ Left' = {j \in Left : j # k \/ r.st # "over"} \cup
                 {j \in Mine : j = k /\ j # my /\ r.st # "over"}
  BY MineKept
<1>2. /\ k # my /\ task[k].st # "over" => k \in Left
      /\ task[k].st = "new" => k = my /\ task[k].fut = "pending" /\ new = {Cb("step", k)}
      /\ gone = {Cb("cancel", k)} => k # my
      /\ gone = {Cb("step", k)} => \A j \in Left : ~(j < k)
      /\ gone = {Cb("start", k)} => \A j \in Left : j < k => task[j].st \in {"unwinding", "doomed"}
  BY Standing
<1>3. /\ k \in Mine /\ Advance(k, r, gone, new)
      /\ \A x : Has(ready', x) => Has(ready, x) \/ x \in new
      /\ \A x, y : Before(ready, x, y) /\ x \notin gone /\ (Has(ready, x) \/ y \notin new)
                   => Before(ready', x, y)
  BY DEF Moves, Shift
<1>4. /\ \A j \in Left, x \in Mine : j < x => Led(j, x)
      /\ \A j \in Mine : task[j].st \in Stepping => Has(ready, Cb("step", j))
      /\ Mine \subseteq Nat /\ my \in Nat /\ (my # NoTask => \A j \in Mine : j <= my)
      /\ my = NoTask \/ my \in Mine
  BY TaskIds DEF Calm, Queued, Ordered, Parted, Mine, NoTask
<1>5. /\ gone \subseteq {Cb("start", k), Cb("step", k), Cb("cancel", k)}
      /\ new = {} \/ new = {Cb("step", k)}
  BY <1>2, <1>3 DEF Advance, Stepping
<1>6. Left' \subseteq Left
  <2>1. k \in Left' => k \in Left
    BY <1>1, <1>2, <1>3 DEF Left, Advance
  <2>. QED
    BY <1>1, <2>1 DEF Left
\* Two others
<1>7. ASSUME NEW j \in Left', NEW x \in Mine, j < x, j # k, x # k PROVE Led(j, x)'
  <2>1. j \in Left /\ Led(j, x) /\ task'[j] = task[j] /\ task'[x] = task[x]
    BY <1>1, <1>4, <1>6, <1>7 DEF Left
  <2>2. /\ Cb("step", j) \notin gone /\ Cb("cancel", j) \notin gone
        /\ Cb("step", x) \notin new /\ Cb("start", x) \notin new
    BY <1>5, <1>7, CbIs
  <2>. QED
    BY <1>3, <2>1, <2>2 DEF Led
\* k comes later
<1>8. ASSUME NEW j \in Left', j < k PROVE Led(j, k)'
  <2>1. j \in Left /\ Led(j, k) /\ j # k /\ task'[j] = task[j] /\ task'[k] = r
    BY <1>1, <1>3, <1>4, <1>6, <1>8 DEF Left
  <2>2. /\ Cb("step", j) \notin gone /\ Cb("cancel", j) \notin gone
        /\ Cb("start", k) \notin new
    BY <1>5, <2>1, CbIs
  <2>3. task[k].st \in {"new", "ready", "doomed"} /\ gone # {Cb("step", k)}
    BY <1>2, <1>8, <2>1 DEF Led
  <2>4. r.st \in {"new", "ready", "doomed"}
    BY <1>3, <2>3 DEF Advance
  <2>5. CASE gone = {Cb("start", k)}
    <3>1. task[j].st \in {"unwinding", "doomed"} /\ Has(ready, Cb("step", j))
      BY <1>2, <1>4, <1>8, <2>1, <2>5 DEF Left, Stepping
    <3>. QED
      BY <1>3, <2>1, <2>2, <2>4, <3>1 DEF Led
  <2>6. CASE new = {}
    BY <1>3, <2>1, <2>2, <2>4, <2>6 DEF Led
  <2>. QED
    BY <1>3, <2>3, <2>5, <2>6, CbIs DEF Advance
\* k comes first
<1>9. ASSUME NEW x \in Mine, k \in Left', k < x PROVE Led(k, x)'
  <2>1. k \in Left /\ k # x /\ Led(k, x) /\ task'[k] = r /\ task'[x] = task[x] /\ k # my
    BY <1>1, <1>3, <1>4, <1>6, <1>9 DEF Left
  <2>2. Cb("step", x) \notin new /\ Cb("start", x) \notin new
    BY <1>5, <2>1, CbIs
  <2>3. r.st # "over" /\ task[k].st # "new"
    BY <1>1, <1>2, <1>9, <2>1 DEF Left
  <2>4. CASE r.st \notin {"unwinding", "doomed"}
    <3>1. task[k].st \notin {"unwinding", "doomed"} /\ Cb("cancel", k) \notin gone
      <4>1. k \in Left => ~task[k].timed
        BY DEF Calm, Parted
      <4>2. task[k].st \in States
        <5>1. k \in DOMAIN task /\ task \in Seq(TaskRecord)
          BY <1>3 DEF Mine, Typed
        <5>2. task[k] \in TaskRecord
          BY <5>1
        <5>. QED
          BY <5>2 DEF TaskRecord
      <4>. QED
        BY <1>3, <2>1, <2>3, <2>4, <4>1, <4>2, CbIs DEF Advance, Stepping, States
    <3>. QED
      BY <1>3, <2>1, <2>2, <2>4, <3>1 DEF Led
  <2>5. CASE r.st \in {"unwinding", "doomed"} /\ task[k].st \notin {"unwinding", "doomed"}
    <3>1. ~Has(ready', Cb("step", x))
      BY <1>3, <2>1, <2>2, <2>5 DEF Led
    <3>. QED
      BY <2>1, <2>5, <3>1, AbsentIsLate DEF Led
  <2>6. CASE r.st \in {"unwinding", "doomed"} /\ task[k].st \in {"unwinding", "doomed"}
    <3>1. Cb("step", k) \notin gone /\ Has(ready, Cb("step", k))
      BY <1>3, <1>4, <2>3, <2>6, CbIs DEF Advance, Stepping
    <3>. QED
      BY <1>3, <2>1, <2>6, <3>1 DEF Led
  <2>. QED
    BY <2>4, <2>5, <2>6
<1>10. \A j \in Left', x \in Mine : j < x => Led(j, x)'
  <2>1. \A j \in Left' : ~(j < j)
    BY <1>1, <1>4 DEF Left
  <2>. QED
    BY <1>7, <1>8, <1>9, <2>1
<1>. QED
  BY <1>1, <1>10 DEF Ordered

\* The guard is let go, kept, or taken by the coroutine that moves on.
Guards(k, r, c) ==
  \/ c.owner = NoTask
  \/ c.owner = conn[Main].owner /\ c.owner # k
  \/ c.owner = k /\ r.st \in {"asking", "answered", "unwinding"}

LEMMA GuardedKept ==
  ASSUME Calm, NEW k, NEW r, NEW gone, NEW new, Moves(k, r, gone, new), Guards(k, r, conn'[Main])
  PROVE  Guarded'
<1>1. /\ Mine' = Mine /\ task'[k] = r /\ \A j \in Mine : j # k => task'[j] = task[j] /\ k \in Mine
  BY MineKept DEF Moves
<1>. QED
  BY <1>1 DEF Guarded, Calm, Guards, Moves

\* The head of the queue is the step of a coroutine the main thread waits for: nobody has
\* the connection.
LEMMA NobodyHolds ==
  ASSUME Calm, Typed, NEW k \in Mine, k = my, task[k].st = "ready", Has(ready, Cb("step", k)),
         \A x : ~Before(ready, x, Cb("step", k))
  PROVE  conn[Main].owner = NoTask
<1>1. \A j \in Left : ~(j < k)
  BY DEF Calm, Ordered, Led
<1>2. Mine \subseteq Nat /\ my \in Nat /\ \A j \in Mine : j <= my
  BY TaskIds DEF Calm, Parted, Mine, NoTask
<1>3. conn[Main].owner # NoTask =>
        conn[Main].owner \in Mine /\ task[conn[Main].owner].st \in {"asking", "answered", "unwinding"}
  BY DEF Calm, Guarded
<1>4. ASSUME NEW o \in Mine, task[o].st \in {"asking", "answered", "unwinding"} PROVE FALSE
  <2>1. o # my /\ o \in Left
    BY <1>4 DEF Left
  <2>2. o < k
    BY <1>2, <2>1
  <2>. QED
    BY <1>1, <2>1, <2>2
<1>. QED
  BY <1>3, <1>4

\* What may become of the connection while coroutine k moves on
Fair(k, r, c) ==
  /\ c.open => conn[Main].open
  /\ \/ c.in_transaction = conn[Main].in_transaction
     \/ thr[Main].block # "in"
     \/ k = my /\ Closing(k) /\ r.st \notin {"new", "ready"}
  /\ thr[Main].block = "rolled" =>
       \/ c.server \in {conn[Main].server, "none"}
       \/ k = my /\ task[k].kind = "begin" /\ r.st \notin {"new", "ready"}
  /\ my # NoTask /\ task[my].kind = "rollback" => c.server \in {conn[Main].server, "none"}
  /\ k = my /\ task[k].kind = "rollback" /\ ~Begun(k) /\ r.st \notin {"new", "ready"} =>
       c.server = "none" \/ ~c.open

LEMMA OutcomeKept ==
  ASSUME Calm, Typed, NEW k, NEW r, NEW gone, NEW new, Moves(k, r, gone, new),
         NEW c, c = conn'[Main], Fair(k, r, c)
  PROVE  Outcome'
<1>1. /\ Mine' = Mine /\ my' = my /\ task'[k] = r /\ \A j \in Mine : j # k => task'[j] = task[j]
      /\ r.kind = task[k].kind
      /\ Left' = {j \in Left : j # k \/ r.st # "over"} \cup
                 {j \in Mine : j = k /\ j # my /\ r.st # "over"}
  BY MineKept
<1>2. /\ k # my /\ task[k].st # "over" => k \in Left
      /\ task[k].st = "new" => k = my
  BY Standing
<1>3. k \in Mine /\ Advance(k, r, gone, new) /\ thr'[Main] = thr[Main]
  BY DEF Moves
<1>4. Left' \subseteq Left
  <2>1. k \in Left' => k \in Left
    BY <1>1, <1>2, <1>3 DEF Left, Advance
  <2>. QED
    BY <1>1, <2>1 DEF Left
<1>5. /\ \A j \in Mine : task'[j].kind = task[j].kind
      /\ \A j \in Mine : Begun(j) => Begun(j)'
      /\ my # NoTask => my \in Mine
  <2>1. Begun(k) => Begun(k)'
    BY <1>1, <1>3 DEF Begun, Advance, Stepping
  <2>. QED
    BY <1>1, <2>1 DEF Begun, Calm, Parted
<1>6. Left \subseteq Mine
  BY DEF Left
<1>7. thr'[Main].block = "in" =>
        /\ c.in_transaction \/ (my # NoTask /\ Closing(my)' /\ Begun(my)')
        /\ \A j \in Left' : task'[j].kind = "exec"
  <2>1. thr[Main].block = "in" =>
          /\ conn[Main].in_transaction \/ (my # NoTask /\ Closing(my) /\ Begun(my))
          /\ \A j \in Left : task[j].kind = "exec"
    BY DEF Calm, Outcome
  <2>2. k = my /\ r.st \notin {"new", "ready"} => my # NoTask /\ Begun(my)'
    BY <1>1, <1>3, TaskIds DEF Begun, Mine
  <2>. QED
    BY <1>1, <1>3, <1>4, <1>5, <1>6, <2>1, <2>2 DEF Closing, Fair
<1>8. thr'[Main].block # "in" /\ my # NoTask => ~Closing(my)'
  BY <1>1, <1>3, <1>5 DEF Calm, Outcome, Closing
<1>9. thr'[Main].block = "rolled" => \A j \in Left' : task'[j].kind # "begin"
  BY <1>3, <1>4, <1>5, <1>6 DEF Calm, Outcome
<1>10. ASSUME thr'[Main].block = "rolled", c.open,
              \A j \in Mine : task'[j].kind = "rollback" => task'[j].fut = "done",
              ~(my # NoTask /\ task'[my].kind = "begin" /\ Begun(my)')
       PROVE  c.server = "none"
  <2>1. ASSUME NEW j \in Mine, task[j].kind = "rollback" PROVE task[j].fut = "done"
    <3>1. task'[j].fut = "done"
      BY <1>5, <1>10, <2>1
    <3>2. CASE j = k
      <4>1. k # my
        BY <1>3, <1>10, <2>1, <3>2, TaskIds DEF Calm, Outcome, Closing, Mine
      <4>2. task[k].fut \in {"done", "cancelled"}
        BY <1>3, <4>1 DEF Calm, Parted
      <4>. QED
        BY <1>1, <1>3, <3>1, <3>2, <4>2 DEF Advance
    <3>3. CASE j # k
      BY <1>1, <3>1, <3>3
    <3>. QED
      BY <3>2, <3>3
  <2>2. ~(my # NoTask /\ task[my].kind = "begin" /\ Begun(my))
    BY <1>1, <1>5, <1>10 DEF Begun
  <2>3. conn[Main].server = "none"
    BY <1>3, <1>10, <2>1, <2>2 DEF Calm, Outcome, Fair
  <2>4. ~(k = my /\ task[k].kind = "begin" /\ r.st \notin {"new", "ready"})
    BY <1>1, <1>3, <1>5, <1>10, TaskIds DEF Begun, Mine
  <2>. QED
    BY <1>3, <1>10, <2>3, <2>4 DEF Fair
<1>11. ASSUME my # NoTask, task'[my].kind = "rollback", Begun(my)'
       PROVE  c.server = "none" \/ ~c.open
  <2>1. task[my].kind = "rollback" /\ c.server \in {conn[Main].server, "none"}
    BY <1>5, <1>11 DEF Fair
  <2>2. CASE Begun(my)
    BY <1>11, <2>1, <2>2 DEF Calm, Outcome, Fair
  <2>3. CASE ~Begun(my)
    <3>1. k = my /\ r.st \notin {"new", "ready"}
      BY <1>1, <1>5, <1>11, <2>3 DEF Begun
    <3>. QED
      BY <2>1, <2>3, <3>1 DEF Fair
  <2>. QED
    BY <2>2, <2>3
<1>. QED
  BY <1>1, <1>7, <1>8, <1>9, <1>10, <1>11 DEF Outcome

LEMMA CalmKept ==
  ASSUME Calm, Typed, NEW k, NEW r, NEW gone, NEW new, Moves(k, r, gone, new),
         NEW c, c = conn'[Main], Fair(k, r, c), Guards(k, r, c)
  PROVE  Calm'
<1>1. Alone' /\ Parted' /\ Queued' /\ Ordered' /\ Guarded' /\ Outcome'
  BY PartedKept, QueuedKept, OrderedKept, GuardedKept, OutcomeKept DEF Moves
<1>. QED
  BY <1>1 DEF Calm

LEMMA TakesFew ==
  ASSUME Typed, Calm, ready # <<>>
  PROVE  /\ loops' = Then(1, <<>>) => Alone' /\ Shift({Head(ready)}, {})
         /\ \A x \in Callback :
              x.do # "stop" /\ loops' = Then(1, <<x>>) => Alone' /\ Shift({Head(ready)}, {x})
         /\ Has(ready, Head(ready)) /\ (\A x : ~Before(ready, x, Head(ready)))
         /\ Head(ready) \in Callback /\ ready \in Seq(Callback)
<1>1. Alone /\ \A i \in DOMAIN ready : ready[i].do # "stop"
  BY DEF Calm, Queued
<1>2. ready \in Seq(Callback)
  BY <1>1, AloneIs
<1>3. /\ Has(ready, Head(ready)) /\ (\A x : ~Before(ready, x, Head(ready)))
      /\ Head(ready) \in Callback
  BY <1>2, QueuePopped
<1>4. ASSUME loops' = Then(1, <<>>) PROVE Alone' /\ Shift({Head(ready)}, {})
  <2>. PICK w, new : w = <<>> /\ new = {}
    OBVIOUS
  <2>1. w \in Seq(Callback) /\ (\A i \in DOMAIN w : w[i].do # "stop") /\ loops' = Then(1, w)
    BY <1>4
  <2>2. \A x : x \in new <=> Has(w, x)
    BY FewItems
  <2>3. Alone' /\ \A v : (\A x : x \in v <=> Has(w, x)) => Shift({Head(ready)}, v)
    BY <1>1, <2>1, Takes
  <2>4. Shift({Head(ready)}, new)
    BY <2>2, <2>3
  <2>. QED
    BY <2>3, <2>4
<1>5. ASSUME NEW x \in Callback, x.do # "stop", loops' = Then(1, <<x>>)
      PROVE  Alone' /\ Shift({Head(ready)}, {x})
  <2>1. <<x>> \in Seq(Callback) /\ \A i \in DOMAIN <<x>> : <<x>>[i].do # "stop"
    BY <1>5
  <2>2. \A y : y \in {x} <=> Has(<<x>>, y)
    BY FewItems
  <2>. QED
    BY <1>1, <1>5, <2>1, <2>2, Takes
<1>. QED
  BY <1>2, <1>3, <1>4, <1>5

\* What the main thread's turns have in common
LEMMA OwnTurn ==
  ASSUME IInv, Calm, NEW l \in LoopIds, Turn(l), NEW h, h = Head(loops[l].ready), NEW k, k = h.k
  PROVE  /\ l = 1 /\ ready # <<>> /\ h = Head(ready) /\ h = Cb(h.do, k) /\ thr' = thr
         /\ Has(ready, h) /\ (\A x : ~Before(ready, x, h)) /\ h.do # "stop"
         /\ k \in DOMAIN task /\ task \in Seq(TaskRecord) /\ task[k] \in TaskRecord /\ k \in Nat
         /\ h.do = "step" => task[k].st \in Stepping
         /\ h.do = "start" => task[k].st = "new" /\ task[k].fut # "refused"
         /\ \/ h.do = "start" /\ Starts(1, k)
            \/ h.do = "step" /\ Steps(1, k)
            \/ h.do = "cancel" /\ Cancels(1, k)
<1>1. Typed /\ Alone /\ task \in Seq(TaskRecord)
  BY TaskIds DEF IInv, Calm
<1>2. l = 1 /\ loops[l].ready = ready
  BY <1>1, AloneIs DEF ready
<1>3. /\ loops[l].ready # <<>> /\ h \in Callback
      /\ h.do # "stop" => h.k \in DOMAIN task
      /\ h.do = "step" => task[h.k].st \in Stepping
      /\ h.do = "start" => task[h.k].st = "new" /\ task[h.k].fut # "refused"
      /\ thr' = thr
      /\ \/ h.do = "start" /\ Starts(l, h.k)
         \/ h.do = "step" /\ Steps(l, h.k)
         \/ h.do = "cancel" /\ Cancels(l, h.k)
         \/ h.do = "stop" /\ conn' = conn
  BY TurnArms
<1>4. Has(ready, h) /\ (\A x : ~Before(ready, x, h))
  BY <1>1, <1>2, <1>3, TakesFew
<1>5. h.do # "stop"
  BY <1>4 DEF Has, Calm, Queued
<1>6. h = Cb(h.do, k)
  BY <1>3, CbIs
<1>7. task[k] \in TaskRecord /\ k \in Nat
  BY <1>1, <1>3, <1>5, TaskIds
<1>. QED
  BY <1>1, <1>2, <1>3, <1>4, <1>5, <1>6, <1>7

LEMMA OwnStart ==
  ASSUME IInv, Known, Calm, Typed, ready # <<>>, thr' = thr, NEW k \in Mine,
         Head(ready) = Cb("start", k), task[k].st = "new", task[k].fut # "refused", Starts(1, k)
  PROVE  Calm'
<1>1. /\ task \in Seq(TaskRecord) /\ k \in DOMAIN task /\ k \in Nat
      /\ Has(ready, Head(ready)) /\ (\A x : ~Before(ready, x, Head(ready)))
  BY TaskIds, TakesFew DEF Mine
<1>2. task[k].fut = "pending"
  <2>1. k = my
    BY DEF Calm, Parted, Left
  <2>. QED
    BY <2>1 DEF Calm, Parted
<1>3. loops' = Then(1, <<Cb("step", k)>>) /\ conn' = conn
  <2>1. <<Cb("step", k)>> \o <<>> = <<Cb("step", k)>>
    OBVIOUS
  <2>2. loops' = Then(1, Item("step", k) \o <<>>)
    BY <1>2 DEF Starts
  <2>. QED
    BY <2>1, <2>2, CbIs DEF Starts
<1>4. PICK r : Put(k, r) /\ Same(task[k], r) /\ r.st = "ready" /\ r.fut = task[k].fut
  BY <1>1, StartTask
<1>5. Alone' /\ Shift({Cb("start", k)}, {Cb("step", k)})
  <2>1. Cb("step", k) \in Callback /\ Cb("step", k).do # "stop"
    BY <1>1, CbIs
  <2>. QED
    BY <1>3, <2>1, TakesFew
<1>6. Moves(k, r, {Cb("start", k)}, {Cb("step", k)})
  BY <1>1, <1>4, <1>5 DEF Moves, Advance
<1>7. Fair(k, r, conn[Main]) /\ Guards(k, r, conn[Main])
  BY <1>4 DEF Fair, Guards, Calm, Guarded
<1>. QED
  BY <1>3, <1>6, <1>7, CalmKept

\* The coroutine is over.
LEMMA OwnOver ==
  ASSUME IInv, Known, Calm, Typed, ready # <<>>, thr' = thr, NEW k \in Mine,
         Head(ready) = Cb("step", k), task[k].st \in Stepping, NEW out, NEW c \in ConnRecord,
         Over(1, k, out, c), c.owner = conn[Main].owner, c.server = conn[Main].server,
         c.open => conn[Main].open,
         \/ c.in_transaction = conn[Main].in_transaction
         \/ thr[Main].block # "in"
         \/ k = my /\ Closing(k),
         k = my /\ task[k].kind = "rollback" /\ ~Begun(k) => c.server = "none" \/ ~c.open
  PROVE  Calm'
<1>1. /\ task \in Seq(TaskRecord) /\ k \in DOMAIN task /\ k \in Nat /\ task[k].by = Main
      /\ Has(ready, Head(ready)) /\ (\A x : ~Before(ready, x, Head(ready)))
  BY TaskIds, TakesFew DEF Mine
<1>2. PICK r : /\ Put(k, r) /\ Same(task[k], r) /\ r.st = "over"
               /\ r.fut = IF task[k].fut = "pending" THEN "done" ELSE task[k].fut
  BY <1>1, OverTask
<1>3. PICK d : d = [c EXCEPT !.owner = IF c.owner = k THEN NoTask ELSE c.owner]
  OBVIOUS
<1>4. conn'[Main] = d
  <2>1. conn' = [conn EXCEPT ![Main] = d]
    BY <1>1, <1>3 DEF Over
  <2>. QED
    BY <2>1, RunnerAssumption DEF Known
<1>5. /\ d.owner = (IF c.owner = k THEN NoTask ELSE c.owner) /\ d.server = c.server
      /\ d.open = c.open /\ d.in_transaction = c.in_transaction
  BY <1>3 DEF ConnRecord
<1>6. Alone' /\ Shift({Cb("step", k)}, {})
  <2>1. loops' = Then(1, <<>>)
    BY DEF Over
  <2>. QED
    BY <2>1, TakesFew
<1>7. Moves(k, r, {Cb("step", k)}, {})
  BY <1>1, <1>2, <1>6 DEF Moves, Advance
<1>8. Fair(k, r, d) /\ Guards(k, r, d)
  BY <1>2, <1>5 DEF Fair, Guards
<1>. QED
  BY <1>4, <1>7, <1>8, CalmKept

\* The statement goes out.
LEMMA OwnGoes ==
  ASSUME IInv, Known, Calm, Typed, ready # <<>>, thr' = thr, NEW k \in Mine,
         Head(ready) = Cb("step", k), task[k].st = "ready", NEW out, Goes(1, k, out)
  PROVE  Calm'
<1>1. /\ task \in Seq(TaskRecord) /\ k \in DOMAIN task /\ k \in Nat /\ task[k].by = Main
      /\ Has(ready, Head(ready)) /\ (\A x : ~Before(ready, x, Head(ready)))
  BY TaskIds, TakesFew DEF Mine
<1>2. PICK r : Put(k, r) /\ Same(task[k], r) /\ r.st = "asking" /\ r.fut = task[k].fut
  BY <1>1, GoesTask
<1>3. task[k].kind \in {"exec", "begin", "commit", "rollback"} /\ conn[Main] \in ConnRecord
  <2>1. task[k] \in TaskRecord
    BY <1>1
  <2>. QED
    BY <2>1 DEF TaskRecord, Known
<1>4. PICK o, v : /\ o = IF task[k].kind = "begin" THEN conn[Main].owner ELSE k
                  /\ v = After(task[k].kind, out, conn[Main].server)
  OBVIOUS
<1>5. /\ task[k].kind = "exec" => v = conn[Main].server
      /\ task[k].kind \in {"commit", "rollback"} => v = "none"
  BY <1>3, <1>4, AfterIs DEF ConnRecord
<1>6. PICK d : d = [conn[Main] EXCEPT !.owner = o, !.server = v]
  OBVIOUS
<1>7. conn'[Main] = d
  <2>1. conn' = [conn EXCEPT ![Main] = d]
    BY <1>1, <1>4, <1>6 DEF Goes
  <2>. QED
    BY <2>1, RunnerAssumption DEF Known
<1>8. /\ d.owner = o /\ d.server = v /\ d.open = conn[Main].open
      /\ d.in_transaction = conn[Main].in_transaction
  BY <1>3, <1>6 DEF ConnRecord
<1>9. Alone' /\ Shift({Cb("step", k)}, {})
  <2>1. loops' = Then(1, <<>>)
    BY DEF Goes
  <2>. QED
    BY <2>1, TakesFew
<1>10. Moves(k, r, {Cb("step", k)}, {})
  BY <1>1, <1>2, <1>9 DEF Moves, Advance
<1>11. Guards(k, r, d)
  BY <1>2, <1>4, <1>8 DEF Guards, Calm, Guarded
<1>12. Fair(k, r, d)
  <2>1. k # my => k \in Left
    BY DEF Left
  <2>2. thr[Main].block = "rolled" =>
           d.server \in {conn[Main].server, "none"} \/ (k = my /\ task[k].kind = "begin")
    BY <1>3, <1>5, <1>8, <2>1 DEF Calm, Outcome
  <2>3. my # NoTask /\ task[my].kind = "rollback" => d.server \in {conn[Main].server, "none"}
    <3>1. my # NoTask /\ task[my].kind = "rollback" => thr[Main].block = "in"
      BY DEF Calm, Outcome, Closing
    <3>2. my # NoTask /\ task[my].kind = "rollback" => task[k].kind \in {"exec", "rollback"}
      BY <2>1, <3>1 DEF Calm, Outcome
    <3>. QED
      BY <1>5, <1>8, <3>2
  <2>. QED
    BY <1>2, <1>5, <1>8, <2>2, <2>3 DEF Fair
<1>. QED
  BY <1>7, <1>10, <1>11, <1>12, CalmKept

LEMMA OwnStep ==
  ASSUME IInv, Known, Restored, Calm, Typed, ready # <<>>, thr' = thr, NEW k \in Mine,
         Head(ready) = Cb("step", k), task[k].st \in Stepping, Steps(1, k)
  PROVE  Calm'
<1>1. PICK c : c = conn[Main]
  OBVIOUS
<1>2. /\ c \in ConnRecord /\ conn[task[k].by] = c /\ c.in_transaction \in BOOLEAN
      /\ Has(ready, Cb("step", k)) /\ (\A x : ~Before(ready, x, Cb("step", k)))
      /\ k \in DOMAIN task /\ k # NoTask
  BY <1>1, TaskIds, TakesFew DEF Mine, Known, ConnRecord
<1>3. k = my /\ task[k].kind = "rollback" => thr[Main].block = "in"
  BY <1>2 DEF Calm, Outcome, Closing
<1>4. CASE task[k].st = "ready" /\ FirstStep(1, k)
  <2>1. CASE Over(1, k, "ok", c) /\ task[k].kind = "rollback" /\ ~c.in_transaction
    <3>1. k # my
      BY <1>1, <1>3, <1>4, <2>1 DEF Calm, Outcome, Begun
    <3>. QED
      BY <1>1, <1>2, <2>1, <3>1, OwnOver
  <2>2. CASE Over(1, k, "error", c) /\ (c.open => Taken(k, c))
    <3>1. k = my => ~c.open
      BY <1>1, <1>2, <1>4, <2>2, NobodyHolds DEF Taken
    <3>. QED
      BY <1>1, <1>2, <2>2, <3>1, OwnOver
  <2>3. CASE Over(1, k, "error", [c EXCEPT !.open = FALSE])
    <3>1. PICK d : d = [c EXCEPT !.open = FALSE]
      OBVIOUS
    <3>2. /\ d \in ConnRecord /\ ~d.open /\ d.owner = c.owner /\ d.server = c.server
          /\ d.in_transaction = c.in_transaction
      BY <1>2, <3>1 DEF ConnRecord
    <3>3. Over(1, k, "error", d)
      BY <2>3, <3>1
    <3>. QED
      BY <1>1, <3>2, <3>3, OwnOver
  <2>4. CASE \E out : Goes(1, k, out)
    BY <1>4, <2>4, OwnGoes
  <2>. QED
    BY <1>2, <1>4, <2>1, <2>2, <2>3, <2>4, FirstArms
<1>5. CASE task[k].st \in {"doomed", "unwinding"} /\ Over(1, k, "cancelled", c)
  BY <1>1, <1>2, <1>5, OwnOver DEF Begun
<1>6. CASE task[k].st = "answered" /\ \E b : /\ b = IF task[k].out = "ok" /\ task[k].kind # "exec"
                                                    THEN task[k].kind = "begin" ELSE c.in_transaction
                                             /\ Over(1, k, task[k].out, [c EXCEPT !.in_transaction = b])
  <2>. PICK b : /\ b = IF task[k].out = "ok" /\ task[k].kind # "exec"
                       THEN task[k].kind = "begin" ELSE c.in_transaction
                /\ Over(1, k, task[k].out, [c EXCEPT !.in_transaction = b])
    BY <1>6
  <2>1. PICK d : d = [c EXCEPT !.in_transaction = b]
    OBVIOUS
  <2>2. b \in BOOLEAN /\ (task[k].kind = "exec" => b = c.in_transaction)
    BY <1>2, <1>6
  <2>3. /\ d \in ConnRecord /\ d.open = c.open /\ d.owner = c.owner /\ d.server = c.server
        /\ d.in_transaction = b
    BY <1>2, <2>1, <2>2 DEF ConnRecord
  <2>4. task[k].kind \in {"exec", "begin", "commit", "rollback"}
    <3>1. task[k] \in TaskRecord
      BY <1>2, TaskIds
    <3>. QED
      BY <3>1 DEF TaskRecord
  <2>5. thr[Main].block # "in" \/ task[k].kind = "exec" \/ (k = my /\ Closing(k))
    <3>1. k # my => k \in Left
      BY <1>6 DEF Left
    <3>2. k # my /\ thr[Main].block = "in" => task[k].kind = "exec"
      BY <3>1 DEF Calm, Outcome
    <3>3. k = my /\ thr[Main].block = "in" => task[k].kind # "begin"
      BY <1>2 DEF Restored
    <3>. QED
      BY <2>4, <3>2, <3>3 DEF Closing
  <2>6. b = c.in_transaction \/ thr[Main].block # "in" \/ (k = my /\ Closing(k))
    BY <2>2, <2>5
  <2>7. Over(1, k, task[k].out, d) /\ Begun(k)
    BY <1>6, <2>1 DEF Begun
  <2>. QED
    BY <1>1, <2>3, <2>6, <2>7, OwnOver
<1>7. task[k].st = "unwinding" => ~(task[k].hops > 1)
  BY DEF Calm, Parted
<1>8. \/ task[k].st = "ready" /\ FirstStep(1, k)
      \/ task[k].st = "doomed" /\ Over(1, k, "cancelled", c)
      \/ task[k].st = "answered" /\ \E b : /\ b = IF task[k].out = "ok" /\ task[k].kind # "exec"
                                                  THEN task[k].kind = "begin" ELSE c.in_transaction
                                           /\ Over(1, k, task[k].out, [c EXCEPT !.in_transaction = b])
      \/ task[k].st = "unwinding" /\ Over(1, k, "cancelled", c)
      \/ task[k].st = "unwinding" /\ task[k].hops > 1
  BY <1>2, StepArms
<1>. QED
  BY <1>4, <1>5, <1>6, <1>7, <1>8

\* The coroutine is cancelled.
LEMMA OwnCancel ==
  ASSUME IInv, Known, Calm, Typed, ready # <<>>, thr' = thr, NEW k \in Mine,
         Head(ready) = Cb("cancel", k), Cancels(1, k)
  PROVE  Calm'
<1>1. /\ task \in Seq(TaskRecord) /\ k \in DOMAIN task /\ k \in Nat /\ task[k].by = Main
      /\ Has(ready, Head(ready)) /\ (\A x : ~Before(ready, x, Head(ready)))
      /\ conn[Main] \in ConnRecord /\ task[k] \in TaskRecord
  BY TaskIds, TakesFew DEF Mine, Known
<1>2. k # my
  BY <1>1 DEF Calm, Parted
<1>3. ASSUME loops' = Then(1, <<>>) PROVE Alone' /\ Shift({Cb("cancel", k)}, {})
  BY <1>3, TakesFew
<1>4. \/ task[k].st = "ready" /\ conn' = conn /\ loops' = Then(1, <<>>) /\ Becomes(k, "doomed")
      \/ /\ task[k].st \in {"asking", "answered"} /\ Sends(k, IF task[k].timed THEN Hops ELSE 1)
         /\ loops' = Then(1, IF task[k].st = "asking" THEN Item("step", k) ELSE <<>>)
         /\ \E cut \in BOOLEAN : conn' = [conn EXCEPT ![task[k].by].cut = @ \/ cut]
      \/ /\ task[k].st # "ready" /\ (task[k].st \in {"asking", "answered"} => task[k].timed)
         /\ loops' = Then(1, <<>>) /\ task' = task /\ conn' = conn
  BY CancelArms DEF Becomes, Sends
<1>5. CASE task[k].st = "ready" /\ conn' = conn /\ loops' = Then(1, <<>>) /\ Becomes(k, "doomed")
  <2>1. PICK r : Put(k, r) /\ Same(task[k], r) /\ r.st = "doomed" /\ r.fut = task[k].fut
    BY <1>1, <1>5, StTask
  <2>2. Moves(k, r, {Cb("cancel", k)}, {})
    BY <1>1, <1>3, <1>5, <2>1 DEF Moves, Advance
  <2>3. Fair(k, r, conn[Main]) /\ Guards(k, r, conn[Main])
    BY <1>2, <1>5 DEF Fair, Guards, Calm, Guarded
  <2>. QED
    BY <1>5, <2>2, <2>3, CalmKept
<1>6. CASE /\ task[k].st \in {"asking", "answered"} /\ Sends(k, IF task[k].timed THEN Hops ELSE 1)
           /\ loops' = Then(1, IF task[k].st = "asking" THEN Item("step", k) ELSE <<>>)
           /\ \E cut \in BOOLEAN : conn' = [conn EXCEPT ![task[k].by].cut = @ \/ cut]
  <2>1. PICK n : n = IF task[k].timed THEN Hops ELSE 1
    OBVIOUS
  <2>2. PICK r : /\ Put(k, r) /\ Same(task[k], r) /\ r.st = "unwinding" /\ r.fut = task[k].fut
                 /\ r.hops = n
    <3>1. Sends(k, n)
      BY <1>6, <2>1
    <3>. QED
      BY <1>1, <3>1, UnwindTask
  <2>3. PICK new : new = IF task[k].st = "asking" THEN {Cb("step", k)} ELSE {}
    OBVIOUS
  <2>4. Alone' /\ Shift({Cb("cancel", k)}, new)
    <3>1. CASE task[k].st = "asking"
      <4>1. PICK x : x = Cb("step", k)
        OBVIOUS
      <4>2. loops' = Then(1, <<x>>) /\ x \in Callback /\ x.do # "stop" /\ new = {x}
        BY <1>1, <1>6, <2>3, <3>1, <4>1, CbIs
      <4>. QED
        BY <4>2, TakesFew
    <3>2. CASE task[k].st # "asking"
      BY <1>3, <1>6, <2>3, <3>2
    <3>. QED
      BY <3>1, <3>2
  <2>5. Moves(k, r, {Cb("cancel", k)}, new)
    BY <1>1, <1>6, <2>1, <2>2, <2>3, <2>4 DEF Moves, Advance
  <2>6. PICK cut \in BOOLEAN : conn' = [conn EXCEPT ![task[k].by].cut = @ \/ cut]
    BY <1>6
  <2>7. PICK d : d = [conn[Main] EXCEPT !.cut = conn[Main].cut \/ cut]
    OBVIOUS
  <2>8. conn'[Main] = d
    <3>1. conn' = [conn EXCEPT ![Main] = d]
      BY <1>1, <2>6, <2>7
    <3>. QED
      BY <3>1, RunnerAssumption DEF Known
  <2>9. /\ d.owner = conn[Main].owner /\ d.server = conn[Main].server /\ d.open = conn[Main].open
        /\ d.in_transaction = conn[Main].in_transaction
    BY <1>1, <2>7 DEF ConnRecord
  <2>10. Fair(k, r, d) /\ Guards(k, r, d)
    BY <1>2, <2>2, <2>9 DEF Fair, Guards
  <2>. QED
    BY <2>5, <2>8, <2>10, CalmKept
<1>7. CASE /\ task[k].st # "ready" /\ (task[k].st \in {"asking", "answered"} => task[k].timed)
           /\ loops' = Then(1, <<>>) /\ task' = task /\ conn' = conn
  <2>1. PICK r : r = task[k]
    OBVIOUS
  <2>2. Put(k, r) /\ Same(task[k], r)
    BY <1>1, <1>7, <2>1 DEF Put, Same
  <2>3. Moves(k, r, {Cb("cancel", k)}, {})
    BY <1>1, <1>3, <1>7, <2>1, <2>2 DEF Moves, Advance
  <2>4. Fair(k, r, conn[Main]) /\ Guards(k, r, conn[Main])
    BY <1>2, <2>1 DEF Fair, Guards, Calm, Guarded
  <2>. QED
    BY <1>7, <2>3, <2>4, CalmKept
<1>. QED
  BY <1>4, <1>5, <1>6, <1>7

\* The backend answers.
LEMMA OwnAnswer ==
  ASSUME IInv, Known, Calm, Typed, NEW k \in Mine, Answer(k)
  PROVE  Calm'
<1>1. /\ task \in Seq(TaskRecord) /\ k \in DOMAIN task /\ k \in Nat /\ conn' = conn /\ thr' = thr
      /\ task[k].st = "asking" /\ loops' = Ready(task[k].loop, Item("step", k))
  BY TaskIds DEF Mine, Answer
<1>2. PICK r : Put(k, r) /\ Same(task[k], r) /\ r.st = "answered" /\ r.fut = task[k].fut
  BY <1>1, AnswerTask
<1>3. task[k].loop = 1
  <2>1. k = my /\ thr[Main].pc = "check" => task[k].st = "new"
    <3>1. \A t \in Threads : thr[t].pc = "check" => task[thr[t].k].st = "new"
      BY DEF IInv, Callers, Trying
    <3>. QED
      BY <3>1, RunnerAssumption DEF my
  <2>. QED
    BY <1>1, <2>1 DEF Calm, Parted
<1>4. PICK x, w : x = Cb("step", k) /\ w = <<x>>
  OBVIOUS
<1>5. x \in Callback /\ x.do # "stop" /\ Item("step", k) = w /\ w \in Seq(Callback)
  BY <1>1, <1>4, CbIs
<1>6. Alone' /\ ready' = ready \o w
  <2>1. Alone
    BY DEF Calm
  <2>2. loops' = [loops EXCEPT ![1].ready = ready \o w]
    BY <1>1, <1>3, <1>5, <2>1 DEF Ready, Alone, ready
  <2>. QED
    BY <2>1, <2>2, QueueSet
<1>7. Shift({}, {x})
  <2>1. /\ \A i \in DOMAIN w : w[i].do # "stop"
        /\ \A y : y \in {x} <=> Has(w, y)
    BY <1>4, <1>5, FewItems
  <2>. QED
    BY <1>5, <1>6, <2>1, Posts DEF Calm, Queued
<1>8. Moves(k, r, {}, {x})
  BY <1>1, <1>2, <1>4, <1>6, <1>7 DEF Moves, Advance
<1>9. Fair(k, r, conn[Main]) /\ Guards(k, r, conn[Main])
  BY <1>1, <1>2 DEF Fair, Guards, Calm, Guarded, Begun
<1>. QED
  BY <1>1, <1>8, <1>9, CalmKept


LEMMA OwnWork ==
  ASSUME IInv, Known, Restored, Calm, NEW l \in LoopIds, Turn(l),
         NEW k \in Mine, k = Head(loops[l].ready).k
  PROVE  Calm'
<1>1. PICK h : h = Head(loops[l].ready)
  OBVIOUS
<1>2. /\ ready # <<>> /\ h = Head(ready) /\ h = Cb(h.do, k) /\ thr' = thr
      /\ h.do = "step" => task[k].st \in Stepping
      /\ h.do = "start" => task[k].st = "new" /\ task[k].fut # "refused"
      /\ \/ h.do = "start" /\ Starts(1, k)
         \/ h.do = "step" /\ Steps(1, k)
         \/ h.do = "cancel" /\ Cancels(1, k)
  BY <1>1, OwnTurn
<1>3. Typed
  BY DEF IInv
<1>4. CASE h.do = "start"
  BY <1>2, <1>3, <1>4, OwnStart
<1>5. CASE h.do = "step"
  BY <1>2, <1>3, <1>5, OwnStep
<1>6. CASE h.do = "cancel"
  BY <1>2, <1>3, <1>6, OwnCancel
<1>. QED
  BY <1>2, <1>4, <1>5, <1>6

-----------------------------------------------------------------------------
(* A step that has nothing to do with the main thread                          *)

Aside(gone, new) ==
  /\ Alone' /\ Shift(gone, new) /\ thr'[Main] = thr[Main] /\ conn'[Main] = conn[Main]
  /\ Mine' = Mine /\ (\A j \in Mine : task'[j] = task[j])
  /\ \A x \in gone \cup new : x.k \notin Mine

LEMMA AsideKept ==
  ASSUME Calm, NEW gone, NEW new, Aside(gone, new)
  PROVE  Calm'
<1>1. /\ Alone' /\ thr'[Main] = thr[Main] /\ conn'[Main] = conn[Main]
      /\ Mine' = Mine /\ (\A j \in Mine : task'[j] = task[j]) /\ my' = my
  BY DEF Aside, my
<1>2. Left' = Left /\ Left \subseteq Mine
  BY <1>1 DEF Left
<1>3. \A w, j : j \in Mine => Cb(w, j) \notin gone /\ Cb(w, j) \notin new
  BY CbIs DEF Aside
<1>4. /\ \A x : Has(ready', x) => Has(ready, x) \/ x \in new
      /\ \A x : Has(ready, x) /\ x \notin gone => Has(ready', x)
      /\ \A x, y : Before(ready, x, y) /\ x \notin gone /\ y \notin new => Before(ready', x, y)
      /\ \A i \in DOMAIN ready' : ready'[i].do # "stop"
  BY DEF Aside, Shift
<1>5. /\ \A w, j : j \in Mine => (Has(ready', Cb(w, j)) <=> Has(ready, Cb(w, j)))
      /\ \A w, v, j, x : j \in Mine /\ x \in Mine /\ Before(ready, Cb(w, j), Cb(v, x))
                         => Before(ready', Cb(w, j), Cb(v, x))
  BY <1>3, <1>4
<1>. USE DEF Calm
<1>6. Parted'
  <2>1. /\ thr'[Main].pc \in {"idle", "check", "submit", "wait"}
        /\ my # NoTask => my \in Mine /\ \A j \in Mine : j <= my
        /\ \A j \in Left' : ~task'[j].timed /\ task'[j].st # "new"
    BY <1>1, <1>2 DEF Parted
  <2>2. ASSUME NEW j \in Mine
        PROVE  /\ task'[j].loop = 1 \/ (j = my /\ thr'[Main].pc = "check")
               /\ j # my => task'[j].fut \in {"done", "cancelled"}
               /\ j = my => /\ task'[j].fut \in {"pending", "done"}
                            /\ task'[j].st \notin {"doomed", "unwinding"}
                            /\ ~Has(ready', Cb("cancel", j))
               /\ task'[j].fut = "done" => task'[j].st = "over"
               /\ task'[j].st = "unwinding" => task'[j].hops = 1
    BY <1>1, <1>5 DEF Parted
  <2>. QED
    BY <1>1, <2>1, <2>2 DEF Parted
<1>7. Queued'
  <2>1. \A j \in Mine : task'[j].st \in Stepping => Has(ready', Cb("step", j))
    BY <1>1, <1>5 DEF Queued
  <2>2. \A j \in Left' : task'[j].st \notin {"unwinding", "doomed"} => Has(ready', Cb("cancel", j))
    BY <1>1, <1>2, <1>5 DEF Queued
  <2>. QED
    BY <1>1, <1>4, <2>1, <2>2 DEF Queued
<1>8. Ordered'
  <2>1. ASSUME NEW j \in Left, NEW x \in Mine, Led(j, x) PROVE Led(j, x)'
    BY <1>1, <1>2, <1>5, <2>1 DEF Led
  <2>. QED
    BY <1>1, <1>2, <2>1 DEF Ordered
<1>9. Guarded'
  BY <1>1 DEF Guarded
<1>10. Outcome'
  <2>1. /\ \A j \in Mine : Closing(j)' = Closing(j) /\ Begun(j)' = Begun(j)
        /\ my # NoTask => my \in Mine
    BY <1>1 DEF Closing, Begun, Parted
  <2>2. \A j \in Left : task'[j].kind = task[j].kind
    BY <1>1, <1>2
  <2>3. /\ thr'[Main].block = "in" =>
             /\ conn'[Main].in_transaction \/ (my' # NoTask /\ Closing(my)' /\ Begun(my)')
             /\ \A k \in Left' : task'[k].kind = "exec"
        /\ thr'[Main].block # "in" /\ my' # NoTask => ~Closing(my)'
        /\ thr'[Main].block = "rolled" => \A k \in Left' : task'[k].kind # "begin"
    BY <1>1, <1>2, <2>1, <2>2 DEF Outcome
  <2>4. /\ thr'[Main].block = "rolled" /\ conn'[Main].open
        /\ \A k \in Mine' : task'[k].kind = "rollback" => task'[k].fut = "done"
        /\ ~(my' # NoTask /\ task'[my'].kind = "begin" /\ Begun(my)')
        => conn'[Main].server = "none"
    BY <1>1, <2>1 DEF Outcome
  <2>5. my' # NoTask /\ task'[my'].kind = "rollback" /\ Begun(my)' =>
          conn'[Main].server = "none" \/ ~conn'[Main].open
    BY <1>1, <2>1 DEF Outcome
  <2>. QED
    BY <2>3, <2>4, <2>5 DEF Outcome
<1>. QED
  BY <1>1, <1>6, <1>7, <1>8, <1>9, <1>10

LEMMA Quiet ==
  ASSUME Calm, loops' = loops, thr'[Main] = thr[Main], conn'[Main] = conn[Main],
         Mine' = Mine, \A j \in Mine : task'[j] = task[j]
  PROVE  Calm'
<1>1. Alone' /\ ready' = ready
  BY DEF Calm, Alone, ready
<1>2. Shift({}, {})
  BY <1>1, Stays DEF Calm, Queued
<1>3. Aside({}, {})
  BY <1>1, <1>2 DEF Aside
<1>. QED
  BY <1>3, AsideKept

\* The coroutine of another thread changes.
LEMMA Foreign ==
  ASSUME \/ task' = task
         \/ \E k, r : Put(k, r) /\ r.by = task[k].by /\ task[k].by # Main
  PROVE  Mine' = Mine /\ \A j \in Mine : task'[j] = task[j]
<1>1. CASE task' = task
  BY <1>1 DEF Mine
<1>2. CASE \E k, r : Put(k, r) /\ r.by = task[k].by /\ task[k].by # Main
  <2>. PICK k, r : Put(k, r) /\ r.by = task[k].by /\ task[k].by # Main
    BY <1>2
  <2>1. /\ k \in DOMAIN task /\ DOMAIN task' = DOMAIN task /\ task'[k] = r
        /\ \A j \in DOMAIN task : j # k => task'[j] = task[j]
    BY DEF Put
  <2>. QED
    BY <2>1 DEF Mine
<1>. QED
  BY <1>1, <1>2

\* It is put into a queue.
LEMMA Passed ==
  ASSUME Typed, Calm, NEW l, NEW x \in Callback, x.do # "stop", x.k \notin Mine,
         loops' = Ready(l, <<x>>), thr'[Main] = thr[Main], conn'[Main] = conn[Main],
         Mine' = Mine, \A j \in Mine : task'[j] = task[j]
  PROVE  Calm'
<1>1. /\ DOMAIN loops = {1} /\ loops \in Seq(LoopRecord) /\ Alone /\ ready \in Seq(Callback)
      /\ \A i \in DOMAIN ready : ready[i].do # "stop"
  BY AloneIs DEF Typed, Calm, Queued
<1>2. CASE l = 1
  <2>1. PICK w : w = <<x>>
    OBVIOUS
  <2>2. w \in Seq(Callback) /\ (\A i \in DOMAIN w : w[i].do # "stop") /\ \A y : y \in {x} <=> Has(w, y)
    BY <2>1, FewItems
  <2>3. loops' = [loops EXCEPT ![1].ready = ready \o w]
    BY <1>1, <1>2, <2>1 DEF Ready, Alone, ready
  <2>4. Alone' /\ ready' = ready \o w
    BY <1>1, <2>3, QueueSet
  <2>5. Shift({}, {x})
    BY <1>1, <2>2, <2>4, Posts
  <2>6. Aside({}, {x})
    BY <2>4, <2>5 DEF Aside
  <2>. QED
    BY <2>6, AsideKept
<1>3. CASE l # 1
  <2>1. loops' = loops
    BY <1>1, <1>3 DEF Ready
  <2>. QED
    BY <2>1, Quiet
<1>. QED
  BY <1>2, <1>3

LEMMA TurnPosts ==
  ASSUME IInv, NEW l \in LoopIds, Turn(l), NEW h, h = Head(loops[l].ready), h.do # "stop"
  PROVE  \E its \in Seq(Callback) :
           loops' = Then(l, its) /\ \A i \in DOMAIN its : its[i].k = h.k /\ its[i].do # "stop"
<1>1. /\ h.do # "stop" => h.k \in DOMAIN task
      /\ h.do = "step" => task[h.k].st \in Stepping
      /\ \/ h.do = "start" /\ Starts(l, h.k)
         \/ h.do = "step" /\ Steps(l, h.k)
         \/ h.do = "cancel" /\ Cancels(l, h.k)
  BY TurnArms
<1>. PICK k : k = h.k
  OBVIOUS
<1>2. k \in Nat
  BY <1>1, TaskIds DEF IInv
<1>. DEFINE Fine(its) == /\ its \in Seq(Callback)
                         /\ \A i \in DOMAIN its : its[i].k = k /\ its[i].do # "stop"
<1>3. /\ Fine(<<>>) /\ Fine(Item("step", k))
      /\ Fine(Item("step", k) \o Item("cancel", k)) /\ Fine(Item("step", k) \o <<>>)
  <2>1. PICK x, y : x = Cb("step", k) /\ y = Cb("cancel", k)
    OBVIOUS
  <2>2. /\ x \in Callback /\ y \in Callback /\ x.k = k /\ y.k = k /\ x.do # "stop" /\ y.do # "stop"
        /\ Item("step", k) = <<x>> /\ Item("cancel", k) = <<y>>
    BY <1>2, <2>1, CbIs
  <2>3. Fine(<<>>) /\ Fine(<<x>>) /\ Fine(<<y>>)
    BY <2>2
  <2>4. ASSUME NEW w, NEW v, Fine(w), Fine(v) PROVE Fine(w \o v)
    <3>1. w \in Seq(Callback) /\ v \in Seq(Callback)
      BY <2>4
    <3>2. PICK u : u = w \o v
      OBVIOUS
    <3>3. u \in Seq(Callback)
      BY <3>1, <3>2
    <3>4. \A i \in DOMAIN u : Has(w, u[i]) \/ Has(v, u[i])
      <4>1. \A z : Has(u, z) <=> Has(w, z) \/ Has(v, z)
        BY <3>1, <3>2, QueuePushed
      <4>2. \A i \in DOMAIN u : Has(u, u[i])
        BY DEF Has
      <4>. QED
        BY <4>1, <4>2
    <3>. QED
      BY <2>4, <3>2, <3>3, <3>4 DEF Has
  <2>. HIDE DEF Fine
  <2>. QED
    BY <2>2, <2>3, <2>4
<1>. HIDE DEF Fine
<1>4. \E its : loops' = Then(l, its) /\ Fine(its)
  <2>1. CASE h.do = "start" /\ Starts(l, k)
    BY <1>3, <2>1 DEF Starts
  <2>2. CASE h.do = "step" /\ Steps(l, k)
    <3>1. \/ \E out, c : Over(l, k, out, c)
          \/ \E out : Goes(l, k, out)
          \/ Hopping(l, k)
      <4>1. task[k].st \in Stepping
        BY <1>1, <2>2
      <4>2. PICK c : c = conn[task[k].by]
        OBVIOUS
      <4>. QED
        BY <2>2, <4>1, <4>2, StepArms, FirstArms
    <3>. QED
      BY <1>3, <3>1 DEF Over, Goes, Hopping
  <2>3. CASE h.do = "cancel" /\ Cancels(l, k)
    <3>1. \/ loops' = Then(l, <<>>)
          \/ loops' = Then(l, IF task[k].st = "asking" THEN Item("step", k) ELSE <<>>)
      BY <2>3, CancelArms
    <3>. QED
      BY <1>3, <3>1
  <2>. QED
    BY <1>1, <2>1, <2>2, <2>3
<1>. QED
  BY <1>4 DEF Fine

LEMMA TurnCalm ==
  ASSUME IInv, Known, Restored, Calm, NEW l \in LoopIds, Turn(l)
  PROVE  Calm'
<1>1. PICK h, k : h = Head(loops[l].ready) /\ k = h.k
  OBVIOUS
<1>2. l = 1 /\ ready # <<>> /\ h = Head(ready) /\ h.do # "stop" /\ k \in DOMAIN task /\ thr' = thr
  BY <1>1, OwnTurn
<1>3. CASE k \in Mine
  BY <1>1, <1>3, OwnWork
<1>4. CASE k \notin Mine
  <2>1. task[k].by # Main
    BY <1>2, <1>4 DEF Mine
  <2>2. Mine' = Mine /\ \A j \in Mine : task'[j] = task[j]
    BY <1>1, <2>1, TurnTask, Foreign DEF Same
  <2>3. conn'[Main] = conn[Main]
    BY <1>1, <1>2, <2>1, TurnHolds DEF Held
  <2>4. PICK its \in Seq(Callback) :
          loops' = Then(1, its) /\ \A i \in DOMAIN its : its[i].k = k /\ its[i].do # "stop"
    BY <1>1, <1>2, TurnPosts
  <2>5. PICK new : \A x : x \in new <=> Has(its, x)
    <3>. DEFINE all == {its[i] : i \in DOMAIN its}
    <3>1. \A x : x \in all <=> Has(its, x)
      BY DEF Has
    <3>. QED
      BY <3>1
  <2>6. Alone' /\ Shift({h}, new)
    <3>1. Typed /\ Alone /\ \A i \in DOMAIN ready : ready[i].do # "stop"
      BY DEF IInv, Calm, Queued
    <3>2. Alone' /\ \A v : (\A x : x \in v <=> Has(its, x)) => Shift({Head(ready)}, v)
      BY <1>2, <2>4, <3>1, Takes
    <3>. QED
      BY <1>2, <2>5, <3>2
  <2>7. \A x \in {h} \cup new : x.k \notin Mine
    BY <1>1, <1>4, <2>4, <2>5 DEF Has
  <2>8. Aside({h}, new)
    BY <1>2, <2>2, <2>3, <2>6, <2>7 DEF Aside
  <2>. QED
    BY <2>8, AsideKept
<1>. QED
  BY <1>3, <1>4

LEMMA AnswerCalm ==
  ASSUME IInv, Known, Calm, NEW k \in DOMAIN task, Answer(k)
  PROVE  Calm'
<1>1. Typed /\ task \in Seq(TaskRecord) /\ k \in Nat
  BY TaskIds DEF IInv
<1>2. CASE k \in Mine
  BY <1>1, <1>2, OwnAnswer
<1>3. CASE k \notin Mine
  <2>1. Mine' = Mine /\ \A j \in Mine : task'[j] = task[j]
    <3>1. \E r : Put(k, r) /\ r.by = task[k].by /\ task[k].by # Main
      BY <1>1, <1>3, AnswerTask DEF Same, Mine
    <3>. QED
      BY <3>1, Foreign
  <2>2. PICK x : x = Cb("step", k)
    OBVIOUS
  <2>3. x \in Callback /\ x.do # "stop" /\ x.k \notin Mine /\ Item("step", k) = <<x>>
    BY <1>1, <1>3, <2>2, CbIs
  <2>4. loops' = Ready(task[k].loop, <<x>>) /\ thr' = thr /\ conn' = conn
    BY <2>3 DEF Answer
  <2>. QED
    BY <1>1, <2>1, <2>3, <2>4, Passed
<1>. QED
  BY <1>2, <1>3

\* A new coroutine of another thread
LEMMA CallElsewhere ==
  ASSUME IInv, Calm, NEW t \in Threads, t # Main, NEW kind, NEW timed, Call(t, kind, timed)
  PROVE  Calm'
<1>1. PICK r : /\ r.by = t /\ task' = Append(task, r)
  <2>. DEFINE n == [by |-> t, kind |-> kind, timed |-> timed, st |-> "new", fut |-> "pending",
                    out |-> "none", hops |-> 0, loop |-> 0, starts |-> 0]
  <2>1. n.by = t /\ task' = Append(task, n)
    BY DEF Call
  <2>. QED
    BY <2>1
<1>2. /\ DOMAIN task' = DOMAIN task \cup {Len(task) + 1} /\ task'[Len(task) + 1] = r
      /\ Len(task) + 1 \notin DOMAIN task /\ \A j \in DOMAIN task : task'[j] = task[j]
  BY <1>1, TaskIds DEF IInv
<1>3. Mine' = Mine /\ \A j \in Mine : task'[j] = task[j]
  BY <1>1, <1>2 DEF Mine
<1>4. loops' = loops /\ conn' = conn /\ thr'[Main] = thr[Main]
  <2>1. PICK n : thr' = [thr EXCEPT ![t].pc = "check", ![t].k = n]
    BY DEF Call
  <2>. QED
    BY <2>1, RunnerAssumption DEF Call, IInv, Typed
<1>. QED
  BY <1>3, <1>4, Quiet

LEMMA ThreadElsewhere ==
  ASSUME IInv, Known, Calm, NEW t \in Threads, t # Main, ~spoilt',
         Check(t) \/ Again(t) \/ Restart(t) \/ Join(t) \/ Submit(t) \/ Return(t) \/ Refused(t)
  PROVE  Calm'
<1>1. /\ Typed /\ Alone /\ task \in Seq(TaskRecord)
      /\ DOMAIN loops = {1} /\ cur = 1 /\ is_running(1) /\ loops[1].st = "running"
  BY AloneIs, TaskIds DEF IInv, Calm, Alone
<1>2. PICK k : k = thr[t].k
  OBVIOUS
<1>3. thr[t].pc \in Trying => k \in DOMAIN task /\ task[k].by = t /\ k \in Nat
  BY <1>2, CallerTask
<1>4. \A pc : At(t, pc) => thr'[Main] = thr[Main]
  BY <1>1, RunnerAssumption DEF At, Typed
<1>5. \A r : thr[t].pc \in Trying /\ Put(k, r) /\ r.by = task[k].by =>
               Mine' = Mine /\ \A j \in Mine : task'[j] = task[j]
  BY <1>3, Foreign
<1>6. task' = task => Mine' = Mine /\ \A j \in Mine : task'[j] = task[j]
  BY Foreign
<1>7. CASE Check(t)
  <2>1. TakeLoop(t, 1) /\ thr[t].pc \in Trying /\ loops' = loops /\ conn' = conn
    BY <1>1, <1>7 DEF Check, Trying
  <2>2. PICK r : Put(k, r) /\ r.by = task[k].by
    <3>1. PICK n : task' = [task EXCEPT ![k].loop = n]
      BY <1>2, <2>1 DEF TakeLoop
    <3>. QED
      BY <1>1, <1>3, <2>1, <3>1, LoopTask DEF Looped
  <2>. QED
    BY <1>4, <1>5, <2>1, <2>2, Quiet DEF TakeLoop
<1>8. CASE Again(t)
  <2>1. At(t, "restart") /\ loops' = loops /\ conn' = conn /\ task' = task
    BY <1>8 DEF Again
  <2>. QED
    BY <1>4, <1>6, <2>1, Quiet
<1>9. CASE Restart(t)
  BY <1>1, <1>9 DEF Restart, StopLoop
<1>10. CASE Join(t)
  BY <1>1, <1>10 DEF Join
<1>11. CASE Submit(t)
  <2>1. /\ thr[t].pc \in Trying /\ conn' = conn
        /\ \/ /\ thr' = [thr EXCEPT ![t].pc = "again", ![t].tries = 1]
              /\ task' = task /\ loops' = loops
           \/ At(t, "raise") /\ task' = [task EXCEPT ![k].fut = "refused"] /\ loops' = loops
           \/ /\ At(t, "wait") /\ task' = task
              /\ loops' = Ready(task[k].loop, <<Cb("start", k)>>)
    BY <1>2, <1>11 DEF Submit, Trying, Cb
  <2>2. thr'[Main] = thr[Main]
    <3>1. thr' = [thr EXCEPT ![t].pc = "again", ![t].tries = 1] => thr'[Main] = thr[Main]
      BY <1>1, RunnerAssumption DEF Typed
    <3>. QED
      BY <1>4, <2>1, <3>1
  <2>3. CASE loops' = loops
    <3>1. task' = task \/ \E r : Put(k, r) /\ r.by = task[k].by
      <4>1. task' = task \/ \E f : task' = [task EXCEPT ![k].fut = f]
        BY <2>1
      <4>2. ASSUME NEW f, task' = [task EXCEPT ![k].fut = f] PROVE \E r : Put(k, r) /\ Same(task[k], r)
        BY <1>1, <1>3, <2>1, <4>2, FutTask
      <4>. QED
        BY <4>1, <4>2 DEF Same
    <3>. QED
      BY <1>5, <1>6, <2>1, <2>2, <2>3, <3>1, Quiet
  <2>4. CASE task' = task /\ loops' = Ready(task[k].loop, <<Cb("start", k)>>)
    <3>1. PICK x : x = Cb("start", k)
      OBVIOUS
    <3>2. x \in Callback /\ x.do # "stop" /\ x.k \notin Mine
      BY <1>3, <2>1, <3>1, CbIs DEF Mine
    <3>. QED
      BY <1>1, <1>6, <2>1, <2>2, <2>4, <3>1, <3>2, Passed
  <2>. QED
    BY <2>1, <2>3, <2>4
<1>12. CASE Return(t) \/ Refused(t)
  <2>1. loops' = loops /\ task' = task /\ \E ok : Ends(t, ok)
    BY <1>12 DEF Return, Refused
  <2>2. thr'[Main] = thr[Main] /\ conn'[Main] = conn[Main]
    BY <1>1, <2>1, EndsElsewhere
  <2>. QED
    BY <1>6, <2>1, <2>2, Quiet
<1>. QED
  BY <1>7, <1>8, <1>9, <1>10, <1>11, <1>12

-----------------------------------------------------------------------------
(* The main thread                                                             *)

\* It makes a coroutine.
LEMMA CallMain ==
  ASSUME IInv, Known, Calm, NEW kind, NEW timed, Call(Main, kind, timed),
         kind \in {"commit", "rollback"} => thr[Main].block = "in"
  PROVE  Calm'
<1>1. /\ Typed /\ task \in Seq(TaskRecord) /\ my = NoTask /\ thr[Main].pc = "idle"
      /\ loops' = loops /\ conn' = conn /\ NoTask \notin Mine
  BY TaskIds DEF IInv, Known, Call, my, Mine
<1>2. PICK n, r : /\ n = Len(task) + 1 /\ task' = Append(task, r)
                  /\ r.by = Main /\ r.kind = kind /\ r.st = "new" /\ r.fut = "pending"
  <2>. DEFINE q == [by |-> Main, kind |-> kind, timed |-> timed, st |-> "new", fut |-> "pending",
                    out |-> "none", hops |-> 0, loop |-> 0, starts |-> 0]
  <2>1. task' = Append(task, q) /\ q.by = Main /\ q.kind = kind /\ q.st = "new" /\ q.fut = "pending"
    BY DEF Call
  <2>. QED
    BY <2>1
<1>3. /\ DOMAIN task' = DOMAIN task \cup {n} /\ task'[n] = r /\ n \notin DOMAIN task /\ n \in Nat
      /\ (\A j \in DOMAIN task : task'[j] = task[j] /\ j < n) /\ n # NoTask
  BY <1>1, <1>2 DEF NoTask
<1>4. thr'[Main].pc = "check" /\ thr'[Main].k = n /\ thr'[Main].block = thr[Main].block
  <2>1. PICK s : s = [thr[Main] EXCEPT !.pc = "check", !.k = n]
    OBVIOUS
  <2>2. thr' = [thr EXCEPT ![Main] = s]
    BY <1>2, <2>1 DEF Call
  <2>3. thr'[Main] = s
    BY <1>1, <2>2, RunnerAssumption DEF Typed
  <2>. QED
    BY <2>1, <2>3 DEF Known, ThreadRecord
<1>5. /\ Mine' = Mine \cup {n} /\ my' = n /\ Left' = Left /\ n \notin Mine
      /\ \A j \in Mine : task'[j] = task[j] /\ j < n /\ j # n
  <2>1. Mine' = Mine \cup {n} /\ my' = n /\ n \notin Mine /\ \A j \in Mine : task'[j] = task[j] /\ j < n
    BY <1>2, <1>3, <1>4 DEF Mine, my
  <2>. QED
    BY <1>1, <2>1 DEF Left
<1>6. Alone' /\ ready' = ready /\ Alone
  BY <1>1 DEF Calm, Alone, ready
<1>7. \A w \in {"start", "step", "cancel"} : ~Has(ready, Cb(w, n))
  <2>1. 1 \in LoopIds
    BY <1>1, <1>6, AloneIs
  <2>2. \A i \in DOMAIN ready : ready[i].do # "stop" => ready[i].k \in DOMAIN task
    BY <2>1 DEF IInv, Items, Fits, ready
  <2>. QED
    BY <1>3, <2>2, CbIs DEF Has
<1>. USE DEF Calm
<1>8. Parted'
  <2>1. ASSUME NEW j \in Mine
        PROVE  /\ task[j].loop = 1 /\ task[j].fut \in {"done", "cancelled"}
               /\ task[j].fut = "done" => task[j].st = "over"
               /\ task[j].st = "unwinding" => task[j].hops = 1
    BY <1>1 DEF Parted
  <2>2. \A j \in Left' : ~task'[j].timed /\ task'[j].st # "new"
    BY <1>5 DEF Parted, Left
  <2>3. \A j \in Mine' : j <= n
    BY <1>3, <1>5, TaskIds DEF Mine, IInv
  <2>4. /\ task'[n].fut = "pending" /\ task'[n].st = "new" /\ ~Has(ready', Cb("cancel", n))
    BY <1>2, <1>3, <1>6, <1>7
  <2>. QED
    BY <1>4, <1>5, <2>1, <2>2, <2>3, <2>4 DEF Parted
<1>9. Queued'
  BY <1>2, <1>3, <1>5, <1>6 DEF Queued, Left, Stepping
<1>10. Ordered'
  <2>1. ASSUME NEW j \in Left, NEW x \in Mine, Led(j, x) PROVE Led(j, x)'
    BY <1>5, <1>6, <2>1 DEF Led, Left
  <2>2. ASSUME NEW j \in Left PROVE Led(j, n)'
    BY <1>2, <1>3, <1>6, <1>7, AbsentIsLate DEF Led
  <2>. QED
    BY <1>5, <2>1, <2>2 DEF Ordered
<1>11. Guarded'
  BY <1>1, <1>5 DEF Guarded
<1>12. Outcome'
  <2>1. /\ thr'[Main].block = "in" =>
             conn'[Main].in_transaction /\ \A j \in Left' : task'[j].kind = "exec"
        /\ thr'[Main].block # "in" => ~Closing(n)'
        /\ thr'[Main].block = "rolled" => \A j \in Left' : task'[j].kind # "begin"
    <3>1. \A j \in Left' : j \in Left /\ task'[j].kind = task[j].kind
      BY <1>5 DEF Left
    <3>2. thr'[Main].block = "in" =>
            conn'[Main].in_transaction /\ \A j \in Left' : task'[j].kind = "exec"
      BY <1>1, <1>4, <3>1 DEF Outcome
    <3>3. thr'[Main].block # "in" => ~Closing(n)'
      BY <1>2, <1>3, <1>4 DEF Closing
    <3>4. thr'[Main].block = "rolled" => \A j \in Left' : task'[j].kind # "begin"
      BY <1>4, <3>1 DEF Outcome
    <3>. QED
      BY <3>2, <3>3, <3>4
  <2>2. /\ thr'[Main].block = "rolled" /\ conn'[Main].open
        /\ \A j \in Mine' : task'[j].kind = "rollback" => task'[j].fut = "done"
        => conn'[Main].server = "none"
    BY <1>1, <1>4, <1>5 DEF Outcome
  <2>3. ~Begun(n)'
    BY <1>2, <1>3 DEF Begun
  <2>. QED
    BY <1>5, <2>1, <2>2, <2>3 DEF Outcome
<1>. QED
  BY <1>6, <1>8, <1>9, <1>10, <1>11, <1>12

\* It takes the loop and gives it the coroutine.
LEMMA Submitting ==
  ASSUME Calm, Typed, Alone', NEW new, Shift({}, new),
         new = {} \/ (new = {Cb("start", my)} /\ task[my].st = "new"),
         thr'[Main].pc \in {"submit", "wait"}, thr'[Main].k = my,
         thr'[Main].block = thr[Main].block, conn'[Main] = conn[Main], Mine' = Mine,
         \A j \in Mine :
           /\ task'[j].kind = task[j].kind /\ task'[j].timed = task[j].timed
           /\ task'[j].st = task[j].st /\ task'[j].fut = task[j].fut
           /\ task'[j].hops = task[j].hops /\ task'[j].loop = 1
  PROVE  Calm'
<1>1. my' = my /\ Left' = Left /\ Left \subseteq Mine
  BY DEF my, Left
<1>2. /\ \A x : Has(ready', x) => Has(ready, x) \/ x \in new
      /\ \A x : Has(ready, x) => Has(ready', x)
      /\ \A x, y : Before(ready, x, y) /\ (Has(ready, x) \/ y \notin new) => Before(ready', x, y)
      /\ \A i \in DOMAIN ready' : ready'[i].do # "stop"
  BY DEF Shift
<1>3. \A k : Cb("step", k) \notin new /\ Cb("cancel", k) \notin new
  BY CbIs
<1>. USE DEF Calm
<1>4. Parted'
  <2>1. /\ my # NoTask => my \in Mine /\ \A j \in Mine : j <= my
        /\ \A j \in Left' : ~task'[j].timed /\ task'[j].st # "new"
    BY <1>1 DEF Parted
  <2>2. ASSUME NEW j \in Mine
        PROVE  /\ j # my => task'[j].fut \in {"done", "cancelled"}
               /\ j = my => /\ task'[j].fut \in {"pending", "done"}
                            /\ task'[j].st \notin {"doomed", "unwinding"}
                            /\ ~Has(ready', Cb("cancel", j))
               /\ task'[j].fut = "done" => task'[j].st = "over"
               /\ task'[j].st = "unwinding" => task'[j].hops = 1
    BY <1>2, <1>3 DEF Parted
  <2>. QED
    BY <1>1, <2>1, <2>2 DEF Parted
<1>5. Queued'
  BY <1>1, <1>2 DEF Queued
<1>6. Ordered'
  <2>1. ASSUME NEW j \in Left, NEW x \in Mine, Led(j, x) PROVE Led(j, x)'
    <3>1. task[j].st \notin {"unwinding", "doomed"} => Has(ready, Cb("cancel", j))
      BY DEF Queued
    <3>. QED
      BY <1>1, <1>2, <1>3, <2>1, <3>1 DEF Led
  <2>. QED
    BY <1>1, <2>1 DEF Ordered
<1>7. Guarded'
  BY DEF Guarded
<1>8. Outcome'
  <2>1. /\ \A j \in Mine : Closing(j)' = Closing(j) /\ Begun(j)' = Begun(j)
        /\ my # NoTask => my \in Mine
    BY DEF Closing, Begun, Parted
  <2>2. /\ thr'[Main].block = "in" =>
             /\ conn'[Main].in_transaction \/ (my' # NoTask /\ Closing(my)' /\ Begun(my)')
             /\ \A k \in Left' : task'[k].kind = "exec"
        /\ thr'[Main].block # "in" /\ my' # NoTask => ~Closing(my)'
        /\ thr'[Main].block = "rolled" => \A k \in Left' : task'[k].kind # "begin"
    BY <1>1, <2>1 DEF Outcome
  <2>3. /\ thr'[Main].block = "rolled" /\ conn'[Main].open
        /\ \A k \in Mine' : task'[k].kind = "rollback" => task'[k].fut = "done"
        /\ ~(my' # NoTask /\ task'[my'].kind = "begin" /\ Begun(my)')
        => conn'[Main].server = "none"
    BY <1>1, <2>1 DEF Outcome
  <2>4. my' # NoTask /\ task'[my'].kind = "rollback" /\ Begun(my)' =>
          conn'[Main].server = "none" \/ ~conn'[Main].open
    BY <1>1, <2>1 DEF Outcome
  <2>. QED
    BY <2>2, <2>3, <2>4 DEF Outcome
<1>. QED
  BY <1>4, <1>5, <1>6, <1>7, <1>8

\* Its coroutine is over.
LEMMA ComesBack ==
  ASSUME Calm, Typed, my \in Mine, thr[Main].pc = "wait", task[my].fut = "done",
         NEW ok, Ended(ok), loops' = loops, task' = task
  PROVE  Calm'
<1>1. /\ Mine' = Mine /\ my' = NoTask /\ Alone' /\ ready' = ready /\ NoTask \notin Mine
      /\ Mine \subseteq Nat /\ task[my].st = "over" /\ my # NoTask
  BY TaskIds DEF Ended, Mine, my, Calm, Alone, ready, Parted
<1>. USE DEF Calm
<1>2. Left = {} /\ Left' = {}
  <2>1. ASSUME NEW j \in Left PROVE FALSE
    <3>1. j \in Mine /\ j < my
      BY <1>1 DEF Left, Parted
    <3>. QED
      BY <1>1, <3>1 DEF Ordered, Led
  <2>2. Left' \subseteq Left
    BY <1>1 DEF Left
  <2>. QED
    BY <2>1, <2>2
<1>3. Parted'
  BY <1>1, <1>2 DEF Parted, Ended
<1>4. Queued' /\ Ordered'
  BY <1>1, <1>2 DEF Queued, Ordered
<1>5. Guarded'
  BY <1>1 DEF Guarded, Ended
<1>6. Outcome'
  <2>1. task[my].kind = "rollback" => conn[Main].server = "none" \/ ~conn[Main].open
    BY <1>1 DEF Outcome, Begun
  <2>2. task[my].kind = "exec" /\ thr[Main].block = "in" => conn[Main].in_transaction
    BY DEF Outcome, Closing
  <2>3. task[my].kind = "exec" /\ thr[Main].block = "rolled" /\ conn[Main].open
        /\ (\A j \in Mine : task[j].kind = "rollback" => task[j].fut = "done")
        => conn[Main].server = "none"
    BY DEF Outcome
  <2>4. thr'[Main].block = "in" => conn'[Main].in_transaction
    BY <2>2 DEF Ended
  <2>5. /\ thr'[Main].block = "rolled" /\ conn'[Main].open
        /\ \A j \in Mine : task'[j].kind = "rollback" => task'[j].fut = "done"
        => conn'[Main].server = "none"
    BY <2>1, <2>3 DEF Ended
  <2>. QED
    BY <1>1, <1>2, <2>4, <2>5 DEF Outcome
<1>. QED
  BY <1>1, <1>3, <1>4, <1>5, <1>6

\* It is interrupted and cancels its coroutine.
LEMMA Abandons ==
  ASSUME Calm, Typed, my \in Mine, thr[Main].pc = "wait", task[my].fut = "pending",
         task[my].st # "new", ~task[my].timed, Ended(FALSE), Alone',
         Shift({}, {Cb("cancel", my)}),
         NEW r, Put(my, r), Same(task[my], r), r.st = task[my].st, r.fut = "cancelled",
         r.hops = task[my].hops
  PROVE  Calm'
<1>1. /\ Mine' = Mine /\ my' = NoTask /\ NoTask \notin Mine /\ Mine \subseteq Nat /\ my # NoTask
      /\ task'[my] = r /\ \A j \in Mine : j # my => task'[j] = task[j]
      /\ r.timed = task[my].timed /\ r.kind = task[my].kind /\ r.loop = task[my].loop
  BY TaskIds DEF Ended, Mine, my, Put, Same
<1>2. /\ \A x : Has(ready', x) => Has(ready, x) \/ x = Cb("cancel", my)
      /\ \A x : x = Cb("cancel", my) \/ Has(ready, x) => Has(ready', x)
      /\ \A x, y : Before(ready, x, y) /\ y # Cb("cancel", my) => Before(ready', x, y)
      /\ \A i \in DOMAIN ready' : ready'[i].do # "stop"
  BY DEF Shift
<1>3. Left' \subseteq Left \cup {my} /\ Left \subseteq Mine /\ my \notin Left
  BY <1>1 DEF Left
<1>4. \A j \in Left' : j # my => j \in Left /\ task'[j] = task[j]
  BY <1>1, <1>3
<1>. USE DEF Calm
<1>5. Parted'
  <2>1. \A j \in Left' : ~task'[j].timed /\ task'[j].st # "new"
    BY <1>1, <1>4 DEF Parted
  <2>2. ASSUME NEW j \in Mine
        PROVE  /\ task'[j].loop = 1 /\ task'[j].fut \in {"done", "cancelled"}
               /\ task'[j].fut = "done" => task'[j].st = "over"
               /\ task'[j].st = "unwinding" => task'[j].hops = 1
    BY <1>1 DEF Parted
  <2>. QED
    BY <1>1, <2>1, <2>2 DEF Parted, Ended
<1>6. Queued'
  <2>1. \A j \in Mine : task'[j].st \in Stepping => Has(ready', Cb("step", j))
    BY <1>1, <1>2 DEF Queued
  <2>2. \A j \in Left' : task'[j].st \notin {"unwinding", "doomed"} => Has(ready', Cb("cancel", j))
    BY <1>2, <1>4 DEF Queued
  <2>. QED
    BY <1>1, <1>2, <2>1, <2>2 DEF Queued
<1>7. Ordered'
  <2>1. ASSUME NEW j \in Left', NEW x \in Mine, j < x PROVE Led(j, x)'
    <3>1. j \in Left /\ task'[j] = task[j]
      BY <1>1, <1>3, <1>4, <2>1 DEF Parted
    <3>2. Led(j, x) /\ task'[x].st = task[x].st
      BY <1>1, <2>1, <3>1 DEF Ordered
    <3>3. /\ Cb("step", x) # Cb("cancel", my) /\ Cb("start", x) # Cb("cancel", my)
      BY CbIs
    <3>. QED
      BY <1>2, <3>1, <3>2, <3>3 DEF Led
  <2>. QED
    BY <1>1, <2>1 DEF Ordered
<1>8. Guarded'
  <2>1. conn'[Main].owner = conn[Main].owner /\ \A j \in Mine : task'[j].st = task[j].st
    BY <1>1 DEF Ended
  <2>. QED
    BY <1>1, <2>1 DEF Guarded
<1>9. Outcome'
  <2>1. CASE task[my].kind = "exec"
    <3>1. conn'[Main] = conn[Main] /\ thr'[Main].block = thr[Main].block
      BY <2>1 DEF Ended
    <3>2. \A j \in Left' : j \in Left \/ task'[j].kind = "exec"
      BY <1>1, <1>4, <2>1
    <3>3. thr[Main].block = "in" => conn[Main].in_transaction
      BY <2>1 DEF Outcome, Closing
    <3>4. \A j \in Mine : task'[j].kind = "rollback" <=> task[j].kind = "rollback"
      BY <1>1
    <3>5. \A j \in Mine : task[j].kind = "rollback" => task'[j].fut = task[j].fut
      BY <1>1, <2>1
    <3>6. thr'[Main].block = "in" => /\ conn'[Main].in_transaction
                                     /\ \A j \in Left' : task'[j].kind = "exec"
      BY <1>3, <1>4, <3>1, <3>2, <3>3 DEF Outcome
    <3>7. thr'[Main].block = "rolled" => \A j \in Left' : task'[j].kind # "begin"
      BY <1>3, <1>4, <3>1, <3>2 DEF Outcome
    <3>8. /\ thr'[Main].block = "rolled" /\ conn'[Main].open
          /\ \A j \in Mine : task'[j].kind = "rollback" => task'[j].fut = "done"
          => conn'[Main].server = "none"
      BY <2>1, <3>1, <3>4, <3>5 DEF Outcome
    <3>. QED
      BY <1>1, <3>6, <3>7, <3>8 DEF Outcome
  <2>2. CASE task[my].kind \in {"begin", "commit"}
    <3>1. thr'[Main].block \in {"out", "committed"}
      BY <2>2 DEF Ended
    <3>. QED
      BY <1>1, <3>1 DEF Outcome
  <2>3. CASE task[my].kind = "rollback"
    <3>1. thr'[Main].block = "rolled" /\ thr[Main].block = "in"
      BY <1>1, <2>3 DEF Ended, Outcome, Closing
    <3>2. \A j \in Left' : task'[j].kind # "begin"
      BY <1>1, <1>4, <2>3, <3>1 DEF Outcome
    <3>3. ~(\A j \in Mine : task'[j].kind = "rollback" => task'[j].fut = "done")
      BY <1>1, <2>3
    <3>. QED
      BY <1>1, <3>1, <3>2, <3>3 DEF Outcome
  <2>. QED
    BY <2>1, <2>2, <2>3 DEF Ended
<1>. QED
  BY <1>5, <1>6, <1>7, <1>8, <1>9

LEMMA ThreadMain ==
  ASSUME IInv, Known, Calm, ~spoilt',
         \/ Check(Main) \/ Again(Main) \/ Restart(Main) \/ Join(Main) \/ Submit(Main)
         \/ Return(Main) \/ Refused(Main)
  PROVE  Calm'
<1>1. /\ Typed /\ Alone /\ task \in Seq(TaskRecord) /\ ready \in Seq(Callback)
      /\ cur = 1 /\ is_running(1) /\ ~loops[1].closed /\ loops[1].st = "running"
      /\ \A i \in DOMAIN ready : ready[i].do # "stop"
  BY AloneIs, TaskIds DEF IInv, Calm, Alone, Queued
<1>2. thr[Main].pc \in {"idle", "check", "submit", "wait"}
  BY DEF Calm, Parted
<1>3. Main \in Threads /\ my = thr[Main].k
  BY RunnerAssumption DEF my
<1>4. my # NoTask => my \in Mine /\ my \in DOMAIN task /\ my \in Nat /\ task[my].by = Main
  BY TaskIds, <1>1 DEF Calm, Parted, Mine
<1>5. /\ thr[Main].pc # "idle" => my # NoTask
      /\ thr[Main].pc \in Trying => task[my].st = "new"
  BY <1>3 DEF Known, IInv, Callers
<1>6. \A pc \in {"submit", "wait"} :
        At(Main, pc) => thr'[Main].pc = pc /\ thr'[Main].k = my /\ thr'[Main].block = thr[Main].block
  <2>. SUFFICES ASSUME NEW pc \in {"submit", "wait"}, At(Main, pc)
                PROVE  /\ thr'[Main].pc = pc /\ thr'[Main].k = my
                       /\ thr'[Main].block = thr[Main].block
    OBVIOUS
  <2>1. thr' = [thr EXCEPT ![Main] = [thr[Main] EXCEPT !.pc = pc]]
    BY DEF At
  <2>2. thr'[Main] = [thr[Main] EXCEPT !.pc = pc]
    BY <1>1, <1>3, <2>1 DEF Typed
  <2>. QED
    BY <1>3, <2>2 DEF Known, ThreadRecord
<1>7. CASE Check(Main)
  <2>1. /\ TakeLoop(Main, 1) /\ thr[Main].pc = "check" /\ loops' = loops /\ conn' = conn
        /\ my \in Mine
    BY <1>1, <1>4, <1>5, <1>7 DEF Check
  <2>2. PICK k, n : k = my /\ n = 1 /\ task' = [task EXCEPT ![k].loop = n]
    BY <1>3, <2>1 DEF TakeLoop
  <2>3. PICK r : Put(my, r) /\ Looped(task[my], r, n)
    <3>1. k \in DOMAIN task
      BY <2>1, <2>2 DEF Mine
    <3>2. \E r : Put(k, r) /\ Looped(task[k], r, n)
      <4>1. task \in Seq(TaskRecord) /\ task' = [task EXCEPT ![k].loop = n]
        BY <1>1, <2>2
      <4>. QED
        BY <3>1, <4>1, LoopTask
    <3>. QED
      BY <2>2, <3>2
  <2>4. /\ Mine' = Mine /\ task'[my] = r
        /\ \A j \in Mine : j # my => task'[j] = task[j] /\ task[j].loop = 1
    BY <2>1, <2>3 DEF Mine, Put, Looped, Calm, Parted
  <2>5. Alone' /\ Shift({}, {})
    BY <1>1, <2>1, Stays DEF Alone, ready
  <2>6. /\ thr'[Main].pc = "submit" /\ thr'[Main].k = my /\ thr'[Main].block = thr[Main].block
    BY <1>6, <2>1 DEF TakeLoop
  <2>7. \A j \in Mine :
          /\ task'[j].kind = task[j].kind /\ task'[j].timed = task[j].timed
          /\ task'[j].st = task[j].st /\ task'[j].fut = task[j].fut
          /\ task'[j].hops = task[j].hops /\ task'[j].loop = 1
    BY <2>2, <2>3, <2>4 DEF Looped
  <2>. QED
    BY <1>1, <2>1, <2>4, <2>5, <2>6, <2>7, Submitting
<1>8. CASE Submit(Main)
  <2>1. my \in Mine /\ thr[Main].pc = "submit" /\ conn' = conn /\ task[my].st = "new"
    BY <1>4, <1>5, <1>8 DEF Submit, Trying
  <2>2. \A j \in Mine : task[j].loop = 1
    BY <2>1 DEF Calm, Parted
  <2>3. PICK x, w : x = Cb("start", my) /\ w = <<x>>
    OBVIOUS
  <2>4. At(Main, "wait") /\ task' = task /\ loops' = Ready(1, w)
    BY <1>1, <1>3, <1>8, <2>1, <2>2, <2>3 DEF Submit, Cb
  <2>5. x \in Callback /\ x.do # "stop" /\ w \in Seq(Callback)
    <3>1. PICK k \in Nat : k = my
      BY <1>4, <1>5, <2>1
    <3>. QED
      BY <2>3, <3>1, CbIs
  <2>6. Alone' /\ ready' = ready \o w
    <3>1. loops' = [loops EXCEPT ![1].ready = ready \o w]
      BY <1>1, <2>4 DEF Ready, ready
    <3>. QED
      BY <1>1, <3>1, QueueSet
  <2>7. Shift({}, {x})
    <3>1. (\A i \in DOMAIN w : w[i].do # "stop") /\ \A y : y \in {x} <=> Has(w, y)
      BY <2>3, <2>5, FewItems
    <3>. QED
      BY <1>1, <2>5, <2>6, <3>1, Posts
  <2>8. /\ thr'[Main].pc = "wait" /\ thr'[Main].k = my /\ thr'[Main].block = thr[Main].block
    BY <1>6, <2>4
  <2>9. Mine' = Mine
    BY <2>4 DEF Mine
  <2>. QED
    BY <1>1, <2>1, <2>2, <2>3, <2>4, <2>6, <2>7, <2>8, <2>9, Submitting
<1>9. CASE Return(Main)
  <2>1. /\ thr[Main].pc = "wait" /\ task[my].fut = "done" /\ loops' = loops /\ task' = task
        /\ my \in Mine /\ \E ok \in BOOLEAN : Ends(Main, ok)
    BY <1>3, <1>4, <1>5, <1>9 DEF Return
  <2>2. PICK ok \in BOOLEAN : Ended(ok)
    BY <1>1, <1>4, <2>1, EndedIs DEF Mine
  <2>. QED
    BY <1>1, <2>1, <2>2, ComesBack
<1>10. CASE Again(Main) \/ Restart(Main) \/ Join(Main) \/ Refused(Main)
  BY <1>2, <1>10 DEF Again, Restart, Join, Refused
<1>. QED
  BY <1>7, <1>8, <1>9, <1>10

LEMMA InterruptMain ==
  ASSUME IInv, Known, Calm, ~spoilt', Interrupt(Main)
  PROVE  Calm'
<1>1. /\ Typed /\ Alone /\ task \in Seq(TaskRecord) /\ ready \in Seq(Callback)
      /\ \A i \in DOMAIN ready : ready[i].do # "stop"
  BY AloneIs, TaskIds DEF IInv, Calm, Queued
<1>2. /\ thr[Main].pc = "wait" /\ my \in Mine /\ my \in DOMAIN task /\ my \in Nat
      /\ Ends(Main, FALSE) /\ ~task[my].timed /\ task[my].st # "new"
  <2>1. thr[Main].pc = "wait" /\ Ends(Main, FALSE) /\ ~task[my].timed /\ task[my].st # "new"
    BY DEF Interrupt, my
  <2>2. my \in Mine
    BY <2>1 DEF Known, Calm, Parted
  <2>. QED
    BY <2>1, <2>2, TaskIds, <1>1 DEF Mine
<1>3. Ended(FALSE)
  BY <1>1, <1>2, EndedIs
<1>4. task[my].loop = 1 /\ task[my].fut \in {"pending", "done"}
  BY <1>2 DEF Calm, Parted
<1>5. CASE task[my].fut = "done"
  <2>1. loops' = loops
    BY <1>5 DEF Interrupt, my
  <2>2. PICK f : f = task[my].fut /\ task' = [task EXCEPT ![my].fut = f]
    BY <1>5 DEF Interrupt, my
  <2>3. task[my] \in TaskRecord
    BY <1>1, <1>2
  <2>4. [task[my] EXCEPT !.fut = f] = task[my]
    BY <2>2, <2>3 DEF TaskRecord
  <2>5. task' = [task EXCEPT ![my] = task[my]]
    BY <2>2, <2>4
  <2>6. task' = task
    BY <1>1, <2>5
  <2>. QED
    BY <1>1, <1>2, <1>3, <1>5, <2>1, <2>6, ComesBack
<1>6. CASE task[my].fut = "pending"
  <2>1. PICK k, f : k = my /\ f = "cancelled" /\ task' = [task EXCEPT ![k].fut = f]
    BY <1>6 DEF Interrupt, my
  <2>2. PICK r : /\ Put(my, r) /\ Same(task[my], r) /\ r.st = task[my].st /\ r.fut = f
                 /\ r.hops = task[my].hops
    <3>1. \E r : /\ Put(k, r) /\ Same(task[k], r) /\ r.st = task[k].st /\ r.fut = f
                 /\ r.hops = task[k].hops
      <4>1. task \in Seq(TaskRecord) /\ k \in DOMAIN task /\ task' = [task EXCEPT ![k].fut = f]
        BY <1>1, <1>2, <2>1
      <4>. QED
        BY <4>1, FutTask
    <3>. QED
      BY <2>1, <3>1
  <2>3. PICK x, w : x = Cb("cancel", my) /\ w = <<x>>
    OBVIOUS
  <2>4. loops' = Ready(1, w)
    BY <1>1, <1>2, <1>4, <1>6, <2>3 DEF Interrupt, my, Alone, Cb
  <2>5. x \in Callback /\ x.do # "stop" /\ w \in Seq(Callback)
    BY <1>2, <2>3, CbIs
  <2>6. Alone' /\ ready' = ready \o w
    <3>1. loops' = [loops EXCEPT ![1].ready = ready \o w]
      BY <1>1, <2>4 DEF Ready, ready, Alone
    <3>. QED
      BY <1>1, <3>1, QueueSet
  <2>7. Shift({}, {x})
    <3>1. (\A i \in DOMAIN w : w[i].do # "stop") /\ \A y : y \in {x} <=> Has(w, y)
      BY <2>3, <2>5, FewItems
    <3>. QED
      BY <1>1, <2>5, <2>6, <3>1, Posts
  <2>. QED
    BY <1>1, <1>2, <1>3, <1>6, <2>1, <2>2, <2>3, <2>6, <2>7, Abandons
<1>. QED
  BY <1>4, <1>5, <1>6

-----------------------------------------------------------------------------

LEMMA CalmStep ==
  ASSUME IInv, Known, Restored, Calm, ~spoilt', [Next]_vars
  PROVE  Calm'
<1>1. /\ Typed /\ Alone /\ LoopIds = {1} /\ cur = 1 /\ is_running(1)
      /\ loops[1].st = "running"
  BY AloneIs DEF IInv, Calm, Alone
<1>2. ASSUME NEW t \in Threads, App(t) PROVE Calm'
  <2>1. ASSUME NEW kind, NEW timed, Call(t, kind, timed),
               kind \in {"commit", "rollback"} => thr[t].block = "in"
        PROVE  Calm'
    BY <2>1, CallMain, CallElsewhere
  <2>. QED
    BY <1>2, <2>1 DEF App, Execute, Enter, Leave
<1>3. ASSUME NEW t \in Threads, Thread(t) PROVE Calm'
  BY <1>3, ThreadMain, ThreadElsewhere DEF Thread
<1>4. ASSUME NEW t \in Threads, Interrupt(t) PROVE Calm'
  <2>1. t = Main
    BY <1>4 DEF Interrupt
  <2>. QED
    BY <1>4, <2>1, InterruptMain
<1>5. ASSUME NEW l \in LoopIds, Loop(l) PROVE Calm'
  <2>1. ~LoopBegins(l) /\ ~LoopEnds(l)
    BY <1>1 DEF LoopBegins, LoopEnds
  <2>. QED
    BY <1>5, <2>1, TurnCalm DEF Loop
<1>6. ASSUME NEW k \in DOMAIN task, Answer(k) PROVE Calm'
  BY <1>6, AnswerCalm
<1>7. CASE CloserStops
  BY <1>7 DEF CloserStops, StopLoop
<1>8. ASSUME loops' = loops, thr' = thr, conn' = conn, task' = task PROVE Calm'
  <2>1. Mine' = Mine /\ \A j \in Mine : task'[j] = task[j]
    BY <1>8, Foreign
  <2>. QED
    BY <1>8, <2>1, Quiet
<1>9. CASE CloserCloses
  BY <1>1, <1>8, <1>9 DEF CloserCloses, ClosedLoops
<1>10. CASE UNCHANGED vars
  BY <1>8, <1>10 DEF vars
<1>. QED
  BY <1>2, <1>3, <1>4, <1>5, <1>6, <1>7, <1>9, <1>10 DEF Next

LEMMA SpoiltStays ==
  ASSUME [Next]_vars, spoilt, spoilt \in BOOLEAN PROVE spoilt'
BY DEF Next, App, Execute, Enter, Leave, Call, Thread, Check, Again, Restart, Join, Submit, Return,
       Refused, Interrupt, Loop, LoopBegins, LoopEnds, Turn, Answer, CloserStops, CloserCloses,
       StopLoop, Fresh, vars

LEMMA BlockStep ==
  ASSUME IInv, BlockInv, [Next]_vars PROVE BlockInv'
<1>1. ~spoilt' => ~spoilt
  BY SpoiltStays
<1>. QED
  BY <1>1, KeptStep, CalmStep DEF BlockInv

LEMMA BlockStarts ==
  ASSUME Init PROVE BlockInv
<1>1. PICK s : s = [NewLoop EXCEPT !.st = "running"]
  OBVIOUS
<1>2. loops = <<s>> /\ s.st = "running" /\ ~s.closed /\ s.ready = <<>>
  BY <1>1 DEF Init, NewLoop
<1>3. Alone /\ ready = <<>>
  BY <1>2 DEF Alone, ready
<1>4. /\ thr[Main].pc = "idle" /\ thr[Main].k = NoTask /\ thr[Main].block = "out"
      /\ thr[Main] \in ThreadRecord
  BY RunnerAssumption DEF Init, ThreadRecord, NoTask
<1>5. DOMAIN conn = Threads /\ conn[Main] \in ConnRecord /\ conn[Main].autocommit
      /\ conn[Main].owner = NoTask
  BY RunnerAssumption DEF Init, ConnRecord, NoTask
<1>6. my = NoTask /\ Mine = {} /\ Left = {}
  BY <1>4 DEF Init, my, Mine, Left
<1>7. Known /\ Restored
  BY <1>4, <1>5, <1>6 DEF Known, Restored
<1>8. Parted /\ Queued /\ Ordered /\ Guarded /\ Outcome
  BY <1>3, <1>4, <1>5, <1>6 DEF Parted, Queued, Ordered, Guarded, Outcome
<1>. QED
  BY <1>3, <1>7, <1>8 DEF BlockInv, Calm

\* transaction() leaves nothing open behind it, however the main thread is interrupted, in
\* whatever order the loop works on what was left of earlier calls, and whatever other
\* threads do: where its rollback had a chance, the session has no transaction once it has
\* returned; and autocommit is on again as soon as the block has been left.
THEOREM BlocksLeaveNothing == Spec => []BlocksAreClosed
<1>1. IInv /\ BlockInv => BlocksAreClosed
  <2>. SUFFICES ASSUME IInv, BlockInv PROVE BlocksAreClosed
    OBVIOUS
  <2>1. thr[Main].block = "in" \/ conn[Main].autocommit
    BY DEF BlockInv, Restored
  <2>2. ASSUME ~spoilt PROVE RollsBack
    <3>1. /\ Outcome /\ Mine \subseteq DOMAIN task
          /\ my = NoTask <=> thr[Main].pc = "idle"
      BY <2>2 DEF BlockInv, Calm, Known, Mine
    <3>. QED
      BY <2>1, <3>1 DEF RollsBack, Outcome
  <2>. QED
    BY <2>1, <2>2 DEF BlocksAreClosed
<1>2. Init => IInv /\ BlockInv
  BY Initially, BlockStarts
<1>3. IInv /\ BlockInv /\ [Next]_vars => IInv' /\ BlockInv'
  BY Inductive, BlockStep
<1>. QED
  BY <1>1, <1>2, <1>3, PTL DEF Spec

================================================================================
