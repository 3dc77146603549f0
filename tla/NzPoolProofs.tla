---------------------------- MODULE NzPoolProofs ----------------------------
(***************************************************************************)
(* Proofs about NzPool for every number of tasks and connections and every *)
(* pool size: who has which connection, that the idle ones are clean, that *)
(* the slot counter _created is exact and bounded, that a notification of  *)
(* the condition variable is lost in one way only, and that the pool       *)
(* implements the loan book PoolSpec.                                      *)
(***************************************************************************)
EXTENDS NzPool, FiniteSetTheorems, TLAPS

Owning == {"validating", "holding", "rolling"}

\* Who has which connection, for an idle queue q, reserved set r, loans co,
\* program counters at and connections in hand cn.
OwnedBy(q, r, co, at, cn) ==
  /\ \A i, j \in DOMAIN q : i # j => q[i] # q[j]
  /\ \A i \in DOMAIN q : q[i] \notin r /\ q[i] \notin co
  /\ r \cap co = {}
  /\ \A i \in DOMAIN q, a \in Actors : cn[a] # q[i]
  /\ \A a, b \in Actors : a # b /\ cn[a] # NoConn => cn[a] # cn[b]
  /\ \A a \in Actors : IF at[a] \in Owning THEN cn[a] \in Conns ELSE cn[a] = NoConn
  /\ \A a \in Actors : at[a] = "validating" <=> cn[a] \in r

Ownership == OwnedBy(pool, reserving, checked_out, pc, conn)

\* While the pool is open a borrower's connection is on the books.
LoansBooked ==
  ~closed => \A t \in Tasks : pc[t] \in {"holding", "rolling"} => conn[t] \in checked_out

IInv == TypeOK /\ Ownership /\ LoansBooked

-----------------------------------------------------------------------------
(* Operators on sequences and counters *)

LEMMA NotifiedType ==
  ASSUME NEW w \in Seq(Tasks) PROVE Notified(w) \in Seq(Tasks)
BY DEF Notified

LEMMA DecType ==
  ASSUME NEW n \in Nat PROVE Dec(n) \in Nat
BY DEF Dec

LEMMA WithoutAtType ==
  ASSUME NEW w \in Seq(Tasks), NEW k \in DOMAIN w PROVE WithoutAt(w, k) \in Seq(Tasks)
<1>1. Len(w) \in Nat /\ k \in 1 .. Len(w)
  OBVIOUS
<1>2. \A i \in 1 .. Len(w) - 1 : (IF i < k THEN w[i] ELSE w[i + 1]) \in Tasks
  BY <1>1
<1>3. WithoutAt(w, k) \in [1 .. Len(w) - 1 -> Tasks]
  BY <1>2 DEF WithoutAt
<1>4. Len(w) - 1 \in Nat
  BY <1>1
<1>. QED
  BY <1>3, <1>4

\* Taking the head of the queue leaves the other positions, moved by one.
LEMMA TailFacts ==
  ASSUME NEW q \in Seq(Conns), q # <<>>
  PROVE /\ Head(q) = q[1] /\ Head(q) \in Conns /\ 1 \in DOMAIN q
        /\ Tail(q) \in Seq(Conns)
        /\ \A i \in DOMAIN Tail(q) : i + 1 \in DOMAIN q /\ i + 1 # 1 /\ Tail(q)[i] = q[i + 1]
        /\ DOMAIN Tail(q) \subseteq Nat
<1>1. Len(q) \in Nat /\ Len(q) > 0 /\ DOMAIN q = 1 .. Len(q)
  OBVIOUS
<1>2. Tail(q) \in Seq(Conns) /\ Len(Tail(q)) = Len(q) - 1
  BY <1>1
<1>3. DOMAIN Tail(q) = 1 .. Len(q) - 1
  BY <1>1, <1>2
<1>4. \A i \in 1 .. Len(q) - 1 : Tail(q)[i] = q[i + 1]
  BY <1>1
<1>. QED
  BY <1>1, <1>2, <1>3, <1>4

LEMMA AppendFacts ==
  ASSUME NEW q \in Seq(Conns), NEW c \in Conns
  PROVE /\ Append(q, c) \in Seq(Conns)
        /\ \A i \in DOMAIN Append(q, c) :
             \/ i \in DOMAIN q /\ Append(q, c)[i] = q[i]
             \/ i = Len(q) + 1 /\ Append(q, c)[i] = c
OBVIOUS

-----------------------------------------------------------------------------
(* The loops of acquire(), _fill_idle() and _sweep_idle().  An actor in the     *)
(* middle of one owns nothing: q and r are the idle queue and the reserved set *)
(* that its step has reached.                                                  *)

Transit(a, q, r) ==
  OwnedBy(q, r, checked_out, [pc EXCEPT ![a] = "idle"], [conn EXCEPT ![a] = NoConn])

BookTypes ==
  /\ pool \in Seq(Conns) /\ reserving \subseteq Conns /\ checked_out \subseteq Conns
  /\ created \in Nat /\ waiters \in Seq(Tasks)
  /\ pc \in [Actors -> {"idle", "filling", "opening", "connecting", "validating",
                        "waiting", "holding", "rolling", "off", "sleeping", "done"}]
  /\ conn \in [Actors -> Conns \cup {NoConn}]

\* A step that neither makes a loan nor touches one
LoansKept ==
  /\ checked_out' = checked_out
  /\ \A t \in Tasks : pc'[t] \in {"holding", "rolling"} => pc'[t] = pc[t] /\ conn'[t] = conn[t]

LEMMA IdleTransit ==
  ASSUME BookTypes, Ownership, NEW a \in Actors, pc[a] \notin Owning
  PROVE Transit(a, pool, reserving)
BY PoolAssumption DEF BookTypes, Ownership, OwnedBy, Transit, Owning

\* An actor that goes on without a connection
LEMMA EmptyHanded ==
  ASSUME BookTypes, NEW a \in Actors,
         NEW q \in Seq(Conns), NEW r \in SUBSET Conns, NEW n \in Nat, NEW w \in Seq(Tasks),
         Transit(a, q, r), Settle(q, r, n, w), InHand(a, NoConn),
         NEW where \in {"idle", "filling", "opening", "connecting", "waiting", "sleeping", "done"},
         At(a, where), UNCHANGED checked_out
  PROVE BookTypes' /\ Ownership' /\ LoansKept
BY DEF BookTypes, Ownership, OwnedBy, Transit, Owning, Settle, InHand, At, LoansKept

\* An actor that takes the head of the idle queue to validate it
LEMMA TakesHead ==
  ASSUME BookTypes, NEW a \in Actors,
         NEW q \in Seq(Conns), NEW r \in SUBSET Conns, NEW n \in Nat, NEW w \in Seq(Tasks),
         Transit(a, q, r), q # <<>>, Settle(Tail(q), r \cup {Head(q)}, n, w),
         InHand(a, Head(q)), At(a, "validating"), UNCHANGED checked_out
  PROVE BookTypes' /\ Ownership' /\ LoansKept
<1>. DEFINE c == Head(q)
<1>1. /\ c = q[1] /\ c \in Conns /\ 1 \in DOMAIN q /\ Tail(q) \in Seq(Conns)
      /\ \A i \in DOMAIN Tail(q) : i + 1 \in DOMAIN q /\ i + 1 # 1 /\ Tail(q)[i] = q[i + 1]
      /\ DOMAIN Tail(q) \subseteq Nat
  BY TailFacts
<1>2. BookTypes' /\ LoansKept
  BY <1>1 DEF BookTypes, Settle, InHand, At, LoansKept
<1>3. c \notin r /\ c \notin checked_out /\ c # NoConn
  BY <1>1, PoolAssumption DEF Transit, OwnedBy
<1>4. \A b \in Actors \ {a} : conn[b] # c /\ conn'[b] = conn[b] /\ pc'[b] = pc[b]
  BY <1>1 DEF Transit, OwnedBy, InHand, At, BookTypes
<1>5. conn'[a] = c /\ pc'[a] = "validating"
  BY DEF InHand, At, BookTypes
<1>. HIDE DEF c
<1>6. \A i \in DOMAIN Tail(q) : /\ Tail(q)[i] # c /\ Tail(q)[i] \notin r
                               /\ Tail(q)[i] \notin checked_out
  BY <1>1 DEF Transit, OwnedBy
<1>7. \A i, j \in DOMAIN Tail(q) : i # j => Tail(q)[i] # Tail(q)[j]
  <2>1. \A i, j \in DOMAIN q : i # j => q[i] # q[j]
    BY DEF Transit, OwnedBy
  <2>2. \A i \in DOMAIN Tail(q) : i \in Nat /\ i + 1 \in DOMAIN q /\ Tail(q)[i] = q[i + 1]
    BY <1>1
  <2>3. ASSUME NEW i \in DOMAIN Tail(q), NEW j \in DOMAIN Tail(q), i # j
        PROVE  Tail(q)[i] # Tail(q)[j]
    <3>1. i + 1 \in DOMAIN q /\ j + 1 \in DOMAIN q /\ i + 1 # j + 1
      BY <2>2, <2>3
    <3>2. q[i + 1] # q[j + 1]
      BY <2>1, <3>1
    <3>. QED
      BY <2>2, <3>2
  <2>. QED
    BY <2>3
<1>8. \A i \in DOMAIN Tail(q), b \in Actors : conn'[b] # Tail(q)[i]
  <2>1. \A i \in DOMAIN q, b \in Actors \ {a} : conn[b] # q[i]
    BY <1>1 DEF Transit, OwnedBy, BookTypes
  <2>2. \A i \in DOMAIN Tail(q), b \in Actors \ {a} : conn'[b] # Tail(q)[i]
    BY <1>1, <1>4, <2>1
  <2>. QED
    BY <1>5, <1>6, <2>2
<1>9. \A b, d \in Actors : b # d /\ conn'[b] # NoConn => conn'[b] # conn'[d]
  BY <1>4, <1>5 DEF Transit, OwnedBy, BookTypes
<1>10. \A b \in Actors : IF pc'[b] \in Owning THEN conn'[b] \in Conns ELSE conn'[b] = NoConn
  BY <1>1, <1>4, <1>5 DEF Transit, OwnedBy, BookTypes, Owning
<1>11. \A b \in Actors : pc'[b] = "validating" <=> conn'[b] \in r \cup {c}
  BY <1>1, <1>4, <1>5 DEF Transit, OwnedBy, BookTypes
<1>12. (r \cup {c}) \cap checked_out = {}
  BY <1>3 DEF Transit, OwnedBy
<1>13. pool' = Tail(q) /\ reserving' = r \cup {c} /\ checked_out' = checked_out
  BY DEF Settle, c
<1>14. Ownership'
  BY <1>6, <1>7, <1>8, <1>9, <1>10, <1>11, <1>12, <1>13 DEF Ownership, OwnedBy
<1>. QED
  BY <1>2, <1>14

LEMMA ProceedStep ==
  ASSUME BookTypes, NEW t \in Tasks,
         NEW q \in Seq(Conns), NEW r \in SUBSET Conns, NEW n \in Nat, NEW w \in Seq(Tasks),
         Transit(t, q, r), Proceed(t, q, r, n, w)
  PROVE BookTypes' /\ Ownership' /\ LoansKept
<1>. t \in Actors
  BY DEF Actors
<1>1. CASE q # <<>> /\ Settle(Tail(q), r \cup {Head(q)}, n, w)
           /\ InHand(t, Head(q)) /\ At(t, "validating")
  BY <1>1, TakesHead DEF Proceed
<1>2. CASE Settle(q, r, n + 1, w) /\ InHand(t, NoConn) /\ At(t, "connecting")
  BY <1>2, EmptyHanded DEF Proceed
<1>3. CASE Settle(q, r, n, Append(w, t)) /\ InHand(t, NoConn) /\ At(t, "waiting")
  <2>1. Append(w, t) \in Seq(Tasks)
    OBVIOUS
  <2>. QED
    BY <1>3, <2>1, EmptyHanded DEF Proceed
<1>4. CASE Settle(q, r, n, w) /\ InHand(t, NoConn) /\ At(t, "idle")
  BY <1>4, EmptyHanded DEF Proceed
<1>. QED
  BY <1>1, <1>2, <1>3, <1>4 DEF Proceed

LEMMA AfterFillStep ==
  ASSUME BookTypes, NEW a \in Actors, NEW how,
         NEW q \in Seq(Conns), NEW r \in SUBSET Conns, NEW n \in Nat, NEW w \in Seq(Tasks),
         Transit(a, q, r), AfterFill(a, how, q, r, n, w)
  PROVE BookTypes' /\ Ownership' /\ LoansKept
<1>1. CASE a \in Tasks /\ Proceed(a, q, r, n, w)
  BY <1>1, ProceedStep
<1>2. CASE /\ a \in Tasks /\ Settle(q, r, n, w) /\ InHand(a, NoConn)
           /\ pc' = [pc EXCEPT ![a] = "idle",
                               ![Maint] = IF @ = "off" /\ ~closed THEN "sleeping" ELSE @]
           /\ UNCHANGED checked_out
  <2>1. a # Maint /\ Maint \in Actors
    BY <1>2, PoolAssumption DEF Actors
  <2>2. /\ pc'[a] = "idle"
        /\ \A b \in Actors \ {a} : \/ pc'[b] = pc[b]
                                   \/ pc[b] = "off" /\ pc'[b] = "sleeping"
    BY <1>2, <2>1 DEF BookTypes
  <2>3. BookTypes' /\ LoansKept
    BY <1>2, <2>1, <2>2 DEF BookTypes, Settle, InHand, LoansKept, Actors
  <2>4. Ownership'
    BY <1>2, <2>1, <2>2 DEF Transit, Ownership, OwnedBy, Owning, BookTypes, Settle, InHand
  <2>. QED
    BY <2>3, <2>4
<1>3. CASE a = Maint /\ Settle(q, r, n, w) /\ InHand(a, NoConn) /\ At(a, "sleeping")
           /\ UNCHANGED checked_out
  BY <1>3, EmptyHanded
<1>. QED
  BY <1>1, <1>2, <1>3 DEF AfterFill

LEMMA FillLoopStep ==
  ASSUME BookTypes, NEW a \in Actors, NEW how \in {"filling", "opening"},
         NEW q \in Seq(Conns), NEW r \in SUBSET Conns, NEW n \in Nat, NEW w \in Seq(Tasks),
         Transit(a, q, r), FillLoop(a, how, q, r, n, w)
  PROVE BookTypes' /\ Ownership' /\ LoansKept
<1>1. CASE AfterFill(a, how, q, r, n, w)
  BY <1>1, AfterFillStep
<1>2. CASE Settle(q, r, n + 1, w) /\ InHand(a, NoConn) /\ At(a, how) /\ UNCHANGED checked_out
  BY <1>2, EmptyHanded
<1>. QED
  BY <1>1, <1>2 DEF FillLoop

LEMMA AcquireLoopStep ==
  ASSUME BookTypes, NEW t \in Tasks,
         NEW q \in Seq(Conns), NEW r \in SUBSET Conns, NEW n \in Nat, NEW w \in Seq(Tasks),
         Transit(t, q, r), AcquireLoop(t, q, r, n, w)
  PROVE BookTypes' /\ Ownership' /\ LoansKept
<1>. t \in Actors
  BY DEF Actors
<1>1. CASE FillLoop(t, "filling", q, r, n, w)
  BY <1>1, FillLoopStep
<1>2. CASE Settle(q, r, n, w) /\ InHand(t, NoConn) /\ At(t, "idle") /\ UNCHANGED checked_out
  BY <1>2, EmptyHanded
<1>. QED
  BY <1>1, <1>2 DEF AcquireLoop

LEMMA SweepLoopStep ==
  ASSUME BookTypes, NEW b \in Nat,
         NEW q \in Seq(Conns), NEW r \in SUBSET Conns, NEW n \in Nat, NEW w \in Seq(Tasks),
         Transit(Maint, q, r), SweepLoop(b, q, r, n, w)
  PROVE BookTypes' /\ Ownership' /\ LoansKept /\ budget' \in Nat
<1>. Maint \in Actors
  BY DEF Actors
<1>1. CASE /\ b > 0 /\ q # <<>> /\ budget' = b - 1 /\ Settle(Tail(q), r \cup {Head(q)}, n, w)
           /\ InHand(Maint, Head(q)) /\ At(Maint, "validating") /\ UNCHANGED checked_out
  BY <1>1, TakesHead
<1>2. CASE budget' = 0 /\ FillLoop(Maint, "filling", q, r, n, w)
  BY <1>2, FillLoopStep
<1>. QED
  BY <1>1, <1>2 DEF SweepLoop

-----------------------------------------------------------------------------
(* What an actor has to have done with the connection it owned before it goes  *)
(* on without one                                                              *)

\* It has discarded it (_drop_owned).
LEMMA DropTransit ==
  ASSUME BookTypes, Ownership, NEW a \in Actors, pc[a] = "validating"
  PROVE Transit(a, pool, reserving \ {conn[a]})
BY PoolAssumption DEF BookTypes, Ownership, OwnedBy, Transit, Owning

\* It has appended c, which it owned or has just opened, to the idle queue.
LEMMA AppendTransit ==
  ASSUME BookTypes, NEW a \in Actors, NEW c \in Conns, NEW r \in SUBSET Conns,
         Transit(a, pool, r), c \notin r, c \notin checked_out,
         \A i \in DOMAIN pool : pool[i] # c,
         \A b \in Actors \ {a} : conn[b] # c
  PROVE Transit(a, Append(pool, c), r) /\ Append(pool, c) \in Seq(Conns)
<1>. DEFINE q == Append(pool, c)
<1>1. /\ q \in Seq(Conns)
      /\ \A i \in DOMAIN q : \/ i \in DOMAIN pool /\ q[i] = pool[i]
                             \/ i = Len(pool) + 1 /\ q[i] = c
  BY AppendFacts DEF BookTypes
<1>2. c # NoConn
  BY PoolAssumption
<1>. HIDE DEF q
<1>3. \A i, j \in DOMAIN q : i # j => q[i] # q[j]
  BY <1>1 DEF Transit, OwnedBy
<1>4. \A i \in DOMAIN q : q[i] \notin r /\ q[i] \notin checked_out
  BY <1>1 DEF Transit, OwnedBy
<1>5. \A i \in DOMAIN q, b \in Actors : [conn EXCEPT ![a] = NoConn][b] # q[i]
  BY <1>1, <1>2 DEF Transit, OwnedBy, BookTypes
<1>6. Transit(a, q, r)
  BY <1>3, <1>4, <1>5 DEF Transit, OwnedBy
<1>. QED
  BY <1>1, <1>6 DEF q

LEMMA BornFacts ==
  ASSUME TypeOK, NEW c \in Conns, NEW u \in Nat, Born(c, u)
  PROVE /\ c \notin reserving /\ c \notin checked_out
        /\ \A i \in DOMAIN pool : pool[i] # c
        /\ \A b \in Actors : conn[b] # c
        /\ sock' \in [Conns -> {"open", "midframe", "cut", "closed", "left"}]
        /\ tx' \in [Conns -> BOOLEAN] /\ rows' \in [Conns -> BOOLEAN]
        /\ uses' \in [Conns -> Nat]
BY DEF Born, Forgotten, Idle, TypeOK

LEMMA ClosingType ==
  ASSUME sock \in [Conns -> {"open", "midframe", "cut", "closed", "left"}], NEW cs, Closing(cs)
  PROVE sock' \in [Conns -> {"open", "midframe", "cut", "closed", "left"}]
BY DEF Closing

\* A connect that is given up changes at most a socket nobody refers to.
LEMMA ConnectLostFacts ==
  ASSUME TypeOK, ConnectLost
  PROVE /\ sock' \in [Conns -> {"open", "midframe", "cut", "closed", "left"}]
        /\ UNCHANGED <<tx, rows, uses>>
        /\ \A c \in Conns : sock'[c] = sock[c] \/ Forgotten(c)
BY DEF ConnectLost, TypeOK, connVars

\* A statement that is answered leaves a usable connection usable.
LEMMA AnsweredType ==
  ASSUME TypeOK, NEW c \in Conns, NEW s \in Answered(c)
  PROVE /\ s \in {"open", "midframe", "cut", "closed", "left"}
        /\ [sock EXCEPT ![c] = s] \in [Conns -> {"open", "midframe", "cut", "closed", "left"}]
        /\ Reusable(c) => Usable(s)
BY DEF TypeOK, Answered, Reusable, Usable

\* Most steps keep the loans and the pool's state of being open.
LEMMA StillBooked ==
  ASSUME LoansBooked, LoansKept, UNCHANGED closed
  PROVE LoansBooked'
BY DEF LoansBooked, LoansKept

-----------------------------------------------------------------------------
(* One lemma per action *)

LEMMA AcquireInv ==
  ASSUME IInv, NEW t \in Tasks, Acquire(t) \/ Open(t) \/ Wake(t) PROVE IInv' /\ LoansKept
<1>1. BookTypes /\ Ownership /\ t \in Actors /\ pc[t] \notin Owning
  BY DEF IInv, TypeOK, BookTypes, Actors, Acquire, Open, Wake, Owning
<1>2. Transit(t, pool, reserving)
  BY <1>1, IdleTransit
<1>3. pool \in Seq(Conns) /\ reserving \in SUBSET Conns /\ created \in Nat /\ waiters \in Seq(Tasks)
  BY <1>1 DEF BookTypes
<1>4. BookTypes' /\ Ownership' /\ LoansKept
  <2>1. CASE Acquire(t) \/ Wake(t)
    BY <1>1, <1>2, <1>3, <2>1, AcquireLoopStep DEF Acquire, Wake
  <2>2. CASE Open(t)
    BY <1>1, <1>2, <1>3, <2>2, FillLoopStep DEF Open
  <2>. QED
    BY <2>1, <2>2
<1>5. UNCHANGED <<closed, budget, connVars>>
  BY DEF Acquire, Open, Wake
<1>. QED
  BY <1>4, <1>5, StillBooked DEF IInv, TypeOK, BookTypes, connVars

LEMMA WaitEndsInv ==
  ASSUME IInv, NEW t \in Tasks, WaitEnds(t) PROVE IInv'
<1>1. waiters' \in Seq(Tasks)
  BY NotifiedType, WithoutAtType DEF IInv, TypeOK, WaitEnds
<1>. QED
  BY <1>1 DEF IInv, TypeOK, WaitEnds, At, Ownership, OwnedBy, Owning, LoansBooked, Actors, connVars

LEMMA FillOkInv ==
  ASSUME IInv, NEW a \in Actors, FillOk(a) PROVE IInv' /\ LoansKept
<1>1. BookTypes /\ Ownership /\ LoansBooked /\ TypeOK /\ pc[a] \notin Owning
  BY DEF IInv, TypeOK, BookTypes, FillOk, Owning
<1>2. PICK c \in Conns : /\ Born(c, 0)
                        /\ FillLoop(a, pc[a], Append(pool, c), reserving, created, Notified(waiters))
  BY DEF FillOk
<1>3. /\ c \notin reserving /\ c \notin checked_out
      /\ \A i \in DOMAIN pool : pool[i] # c
      /\ \A b \in Actors : conn[b] # c
      /\ sock' \in [Conns -> {"open", "midframe", "cut", "closed", "left"}]
      /\ tx' \in [Conns -> BOOLEAN] /\ rows' \in [Conns -> BOOLEAN]
      /\ uses' \in [Conns -> Nat]
  BY <1>1, <1>2, BornFacts
<1>4. reserving \in SUBSET Conns /\ created \in Nat /\ Notified(waiters) \in Seq(Tasks)
      /\ pc[a] \in {"filling", "opening"}
  BY <1>1, NotifiedType DEF BookTypes, FillOk
<1>5. Transit(a, Append(pool, c), reserving) /\ Append(pool, c) \in Seq(Conns)
  BY <1>1, <1>3, <1>4, IdleTransit, AppendTransit
<1>6. BookTypes' /\ Ownership' /\ LoansKept
  BY <1>1, <1>2, <1>4, <1>5, FillLoopStep
<1>7. UNCHANGED <<closed, budget>>
  BY DEF FillOk
<1>. QED
  BY <1>1, <1>3, <1>6, <1>7, StillBooked DEF IInv, TypeOK, BookTypes

LEMMA FillEndsInv ==
  ASSUME IInv, NEW a \in Actors, FillTooLate(a) \/ FillFail(a) PROVE IInv' /\ LoansKept
<1>1. BookTypes /\ Ownership /\ pc[a] \notin Owning
  BY DEF IInv, TypeOK, BookTypes, FillTooLate, FillFail, Owning
<1>2. /\ reserving \in SUBSET Conns /\ pool \in Seq(Conns)
      /\ Dec(created) \in Nat /\ waiters \in Seq(Tasks) /\ Notified(waiters) \in Seq(Tasks)
  BY <1>1, NotifiedType, DecType DEF BookTypes
<1>3. Transit(a, pool, reserving)
  BY <1>1, IdleTransit
<1>4. BookTypes' /\ Ownership' /\ LoansKept
  BY <1>1, <1>2, <1>3, AfterFillStep DEF FillTooLate, FillFail
<1>5. UNCHANGED <<closed, budget, tx, rows, uses>>
  BY ConnectLostFacts DEF FillTooLate, FillFail, connVars, IInv
<1>6. sock' \in [Conns -> {"open", "midframe", "cut", "closed", "left"}]
  BY ConnectLostFacts DEF FillTooLate, FillFail, connVars, IInv, TypeOK
<1>. QED
  BY <1>4, <1>5, <1>6, StillBooked DEF IInv, TypeOK, BookTypes

LEMMA GivesUpInv ==
  ASSUME IInv, NEW t \in Tasks, AbandonSlot(t) \/ ConnectTooLate(t) PROVE IInv' /\ LoansKept
<1>1. BookTypes /\ Ownership /\ pc[t] \notin Owning /\ t \in Actors
  BY DEF IInv, TypeOK, BookTypes, AbandonSlot, ConnectTooLate, Owning, Actors
<1>2. /\ reserving \in SUBSET Conns /\ pool \in Seq(Conns)
      /\ Dec(created) \in Nat /\ Notified(waiters) \in Seq(Tasks)
  BY <1>1, NotifiedType, DecType DEF BookTypes
<1>3. Transit(t, pool, reserving) /\ conn[t] = NoConn
  BY <1>1, IdleTransit DEF Ownership, OwnedBy
<1>4. InHand(t, NoConn)
  BY <1>1, <1>3 DEF AbandonSlot, ConnectTooLate, InHand, BookTypes
<1>5. BookTypes' /\ Ownership' /\ LoansKept
  BY <1>1, <1>2, <1>3, <1>4, EmptyHanded DEF AbandonSlot, ConnectTooLate
<1>6. UNCHANGED <<closed, budget, tx, rows, uses>>
  BY ConnectLostFacts DEF AbandonSlot, ConnectTooLate, connVars, IInv
<1>7. sock' \in [Conns -> {"open", "midframe", "cut", "closed", "left"}]
  BY ConnectLostFacts DEF AbandonSlot, ConnectTooLate, connVars, IInv, TypeOK
<1>. QED
  BY <1>5, <1>6, <1>7, StillBooked DEF IInv, TypeOK, BookTypes

LEMMA ConnectOkInv ==
  ASSUME IInv, NEW t \in Tasks, ConnectOk(t) PROVE IInv'
<1>1. PICK c \in Conns : Born(c, 1) /\ checked_out' = checked_out \cup {c} /\ InHand(t, c)
  BY DEF ConnectOk
<1>2. /\ c \notin reserving /\ c \notin checked_out
      /\ \A i \in DOMAIN pool : pool[i] # c
      /\ \A b \in Actors : conn[b] # c
      /\ sock' \in [Conns -> {"open", "midframe", "cut", "closed", "left"}]
      /\ tx' \in [Conns -> BOOLEAN] /\ rows' \in [Conns -> BOOLEAN]
      /\ uses' \in [Conns -> Nat]
  BY <1>1, BornFacts DEF IInv
<1>3. TypeOK'
  BY <1>1, <1>2 DEF IInv, TypeOK, ConnectOk, At, InHand
<1>4. t \in Actors /\ c # NoConn
  BY PoolAssumption DEF Actors
<1>5. Ownership'
  BY <1>1, <1>2, <1>4 DEF IInv, TypeOK, ConnectOk, At, InHand, Ownership, OwnedBy, Owning
<1>6. LoansBooked'
  BY <1>1, <1>4 DEF IInv, TypeOK, ConnectOk, At, InHand, LoansBooked, Actors
<1>. QED
  BY <1>3, <1>5, <1>6 DEF IInv

LEMMA ValidateOkInv ==
  ASSUME IInv, NEW t \in Tasks, ValidateOk(t) PROVE IInv'
<1>1. t \in Actors /\ conn[t] \in Conns /\ conn[t] \in reserving
  BY DEF IInv, TypeOK, ValidateOk, Ownership, OwnedBy, Actors, Owning
<1>2. TypeOK'
  <2>1. sock' \in [Conns -> {"open", "midframe", "cut", "closed", "left"}]
    BY <1>1, AnsweredType DEF ValidateOk, IInv
  <2>. QED
    BY <1>1, <2>1 DEF IInv, TypeOK, ValidateOk, At
<1>3. Ownership'
  <2>. DEFINE c == conn[t]
  <2>1. /\ pc'[t] = "holding" /\ \A b \in Actors \ {t} : pc'[b] = pc[b]
        /\ conn' = conn /\ pool' = pool
        /\ reserving' = reserving \ {c} /\ checked_out' = checked_out \cup {c}
    BY <1>1 DEF IInv, TypeOK, ValidateOk, At
  <2>2. \A b \in Actors \ {t} : conn[b] # c
    BY <1>1, PoolAssumption DEF IInv, Ownership, OwnedBy
  <2>3. \A i \in DOMAIN pool : pool[i] # c
    BY <1>1 DEF IInv, Ownership, OwnedBy
  <2>4. \A b \in Actors : pc'[b] = "validating" <=> conn'[b] \in reserving'
    BY <2>1, <2>2 DEF IInv, Ownership, OwnedBy
  <2>5. \A b \in Actors : IF pc'[b] \in Owning THEN conn'[b] \in Conns ELSE conn'[b] = NoConn
    BY <1>1, <2>1 DEF IInv, Ownership, OwnedBy, Owning
  <2>. HIDE DEF c
  <2>. QED
    BY <2>1, <2>3, <2>4, <2>5 DEF IInv, Ownership, OwnedBy
<1>4. LoansBooked'
  BY <1>1 DEF IInv, TypeOK, ValidateOk, At, LoansBooked, Actors
<1>. QED
  BY <1>2, <1>3, <1>4 DEF IInv

LEMMA ValidateStaleInv ==
  ASSUME IInv, NEW t \in Tasks, ValidateStale(t) PROVE IInv' /\ LoansKept
<1>1. BookTypes /\ Ownership /\ pc[t] = "validating" /\ t \in Actors
  BY DEF IInv, TypeOK, BookTypes, ValidateStale, Actors
<1>2. /\ reserving \ {conn[t]} \in SUBSET Conns /\ pool \in Seq(Conns)
      /\ Dec(created) \in Nat /\ Notified(waiters) \in Seq(Tasks)
  BY <1>1, NotifiedType, DecType DEF BookTypes
<1>3. Transit(t, pool, reserving \ {conn[t]})
  BY <1>1, DropTransit
<1>4. BookTypes' /\ Ownership' /\ LoansKept
  BY <1>1, <1>2, <1>3, AcquireLoopStep DEF ValidateStale
<1>5. sock' \in [Conns -> {"open", "midframe", "cut", "closed", "left"}]
  BY ClosingType DEF IInv, TypeOK, ValidateStale
<1>6. UNCHANGED <<closed, budget, tx, rows, uses>>
  BY DEF ValidateStale
<1>. QED
  BY <1>4, <1>5, <1>6, StillBooked DEF IInv, TypeOK, BookTypes

LEMMA ValidateCancelledInv ==
  ASSUME IInv, NEW t \in Tasks, ValidateCancelled(t) PROVE IInv' /\ LoansKept
<1>1. BookTypes /\ Ownership /\ pc[t] = "validating" /\ t \in Actors
  BY DEF IInv, TypeOK, BookTypes, ValidateCancelled, Actors
<1>2. /\ reserving \ {conn[t]} \in SUBSET Conns /\ pool \in Seq(Conns)
      /\ Dec(created) \in Nat /\ Notified(waiters) \in Seq(Tasks)
  BY <1>1, NotifiedType, DecType DEF BookTypes
<1>3. Transit(t, pool, reserving \ {conn[t]})
  BY <1>1, DropTransit
<1>4. BookTypes' /\ Ownership' /\ LoansKept
  BY <1>1, <1>2, <1>3, EmptyHanded DEF ValidateCancelled
<1>5. sock' \in [Conns -> {"open", "midframe", "cut", "closed", "left"}]
  BY ClosingType DEF IInv, TypeOK, ValidateCancelled
<1>6. UNCHANGED <<closed, budget, tx, rows, uses>>
  BY DEF ValidateCancelled
<1>. QED
  BY <1>4, <1>5, <1>6, StillBooked DEF IInv, TypeOK, BookTypes

LEMMA UseInv ==
  ASSUME IInv, NEW t \in Tasks, Use(t) PROVE IInv'
<1>1. TypeOK'
  <2>1. UNCHANGED <<poolVars, pc, conn, budget, uses>>
    BY DEF Use
  <2>2. /\ sock' \in [Conns -> {"open", "midframe", "cut", "closed", "left"}]
        /\ tx' \in [Conns -> BOOLEAN] /\ rows' \in [Conns -> BOOLEAN]
    <3>1. PICK intx \in BOOLEAN, unread \in BOOLEAN, s \in {"open", "midframe", "cut", "closed", "left"} :
            /\ tx' = [tx EXCEPT ![conn[t]] = intx]
            /\ rows' = [rows EXCEPT ![conn[t]] = unread]
            /\ sock' = [sock EXCEPT ![conn[t]] = s]
      BY DEF Use
    <3>. QED
      BY <3>1 DEF IInv, TypeOK
  <2>. QED
    BY <2>1, <2>2 DEF IInv, TypeOK, poolVars
<1>. QED
  BY <1>1 DEF IInv, Use, poolVars, Ownership, OwnedBy, LoansBooked

LEMMA ReleaseRollsBackInv ==
  ASSUME IInv, ForgetsReference, NEW t \in Tasks, ReleaseRollsBack(t) PROVE IInv'
<1>1. pc[t] = "holding" /\ t \in Actors
  BY DEF ReleaseRollsBack, MayRelease, Actors
<1>. QED
  BY <1>1 DEF IInv, TypeOK, ReleaseRollsBack, poolVars, connVars, At,
              Ownership, OwnedBy, Owning, LoansBooked, Actors

\* The bookkeeping of release(): the borrower ends up without the connection,
\* which is in the idle queue, discarded, or off the books since close_all().
LEMMA GiveBackInv ==
  ASSUME IInv, ForgetsReference, NEW t \in Tasks, pc[t] \in {"holding", "rolling"},
         NEW s \in {"open", "midframe", "cut", "closed", "left"}, NEW intx \in BOOLEAN,
         GiveBack(t, s, intx)
  PROVE IInv'
<1>. DEFINE c == conn[t]
<1>1. t \in Actors /\ c \in Conns /\ c # NoConn /\ c \notin reserving
  BY PoolAssumption DEF IInv, Ownership, OwnedBy, Owning, Actors
<1>2. /\ \A b \in Actors \ {t} : conn[b] # c
      /\ \A i \in DOMAIN pool : pool[i] # c
  BY <1>1 DEF IInv, Ownership, OwnedBy
<1>3. /\ conn' = [conn EXCEPT ![t] = NoConn] /\ pc' = [pc EXCEPT ![t] = "idle"]
      /\ tx' = [tx EXCEPT ![c] = intx] /\ rows' = [rows EXCEPT ![c] = FALSE]
      /\ UNCHANGED <<reserving, closed, budget, uses>>
  BY DEF GiveBack, At, InHand
<1>4. /\ sock' \in [Conns -> {"open", "midframe", "cut", "closed", "left"}]
      /\ tx' \in [Conns -> BOOLEAN] /\ rows' \in [Conns -> BOOLEAN]
  <2>1. \/ Closing({c})
        \/ \E to \in {"open", "midframe", "cut", "closed", "left"} : sock' = [sock EXCEPT ![c] = to]
    BY DEF GiveBack
  <2>2. sock' \in [Conns -> {"open", "midframe", "cut", "closed", "left"}]
    BY <2>1, ClosingType DEF IInv, TypeOK
  <2>. QED
    BY <1>3, <2>2 DEF IInv, TypeOK
<1>5. /\ conn' \in [Actors -> Conns \cup {NoConn}]
      /\ pc' \in [Actors -> {"idle", "filling", "opening", "connecting", "validating",
                             "waiting", "holding", "rolling", "off", "sleeping", "done"}]
      /\ conn'[t] = NoConn /\ pc'[t] = "idle"
      /\ \A b \in Actors \ {t} : conn'[b] = conn[b] /\ pc'[b] = pc[b]
  BY <1>1, <1>3 DEF IInv, TypeOK
<1>6. BookTypes /\ Notified(waiters) \in Seq(Tasks) /\ Dec(created) \in Nat
  BY NotifiedType, DecType DEF BookTypes, IInv, TypeOK
<1>7. Transit(t, pool, reserving)
  <2>1. \A b \in Actors : /\ [conn EXCEPT ![t] = NoConn][b] = IF b = t THEN NoConn ELSE conn[b]
                          /\ [pc EXCEPT ![t] = "idle"][b] = IF b = t THEN "idle" ELSE pc[b]
    BY <1>1 DEF IInv, TypeOK
  <2>2. NoConn \notin reserving /\ \A i \in DOMAIN pool : pool[i] # NoConn
    BY PoolAssumption DEF IInv, TypeOK
  <2>. QED
    BY <1>1, <1>2, <2>1, <2>2 DEF IInv, Ownership, OwnedBy, Transit, Owning
<1>8. CASE UNCHANGED <<pool, checked_out>> /\ created' = created /\ waiters' = waiters
           /\ (closed \/ c \notin checked_out)
  <2>1. TypeOK'
    BY <1>3, <1>4, <1>5, <1>8 DEF IInv, TypeOK
  <2>2. Ownership'
    BY <1>3, <1>7, <1>8 DEF Transit, Ownership, OwnedBy, Owning
  <2>3. LoansBooked'
    BY <1>3, <1>5, <1>8 DEF IInv, LoansBooked, Actors
  <2>. QED
    BY <2>1, <2>2, <2>3 DEF IInv
<1>9. CASE /\ checked_out' = checked_out \ {c} /\ created' = Dec(created)
           /\ waiters' = Notified(waiters) /\ pool' = pool
  <2>1. TypeOK'
    BY <1>3, <1>4, <1>5, <1>6, <1>9 DEF IInv, TypeOK
  <2>2. Ownership'
    BY <1>3, <1>7, <1>9 DEF Transit, Ownership, OwnedBy, Owning
  <2>3. LoansBooked'
    BY <1>2, <1>3, <1>5, <1>9 DEF IInv, LoansBooked, Actors
  <2>. QED
    BY <2>1, <2>2, <2>3 DEF IInv
<1>10. CASE /\ checked_out' = checked_out \ {c} /\ pool' = Append(pool, c)
            /\ waiters' = Notified(waiters) /\ created' = created
  <2>1. /\ pool' \in Seq(Conns)
        /\ \A i \in DOMAIN pool' : \/ i \in DOMAIN pool /\ pool'[i] = pool[i]
                                   \/ i = Len(pool) + 1 /\ pool'[i] = c
    BY <1>1, <1>6, <1>10, AppendFacts DEF BookTypes
  <2>2. TypeOK'
    BY <1>3, <1>4, <1>5, <1>6, <1>10, <2>1 DEF IInv, TypeOK
  <2>. HIDE DEF c
  <2>3. \A i, j \in DOMAIN pool' : i # j => pool'[i] # pool'[j]
    BY <1>2, <2>1 DEF IInv, Ownership, OwnedBy
  <2>4. \A i \in DOMAIN pool' : pool'[i] \notin reserving' /\ pool'[i] \notin checked_out'
    BY <1>1, <1>3, <1>10, <2>1 DEF IInv, Ownership, OwnedBy
  <2>5. \A i \in DOMAIN pool', b \in Actors : conn'[b] # pool'[i]
    <3>1. \A i \in DOMAIN pool : pool[i] # NoConn /\ \A b \in Actors : conn[b] # pool[i]
      BY PoolAssumption DEF IInv, TypeOK, Ownership, OwnedBy
    <3>. QED
      BY <1>1, <1>2, <1>5, <2>1, <3>1
  <2>6. /\ reserving' \cap checked_out' = {}
        /\ \A b, d \in Actors : b # d /\ conn'[b] # NoConn => conn'[b] # conn'[d]
        /\ \A b \in Actors : IF pc'[b] \in Owning THEN conn'[b] \in Conns ELSE conn'[b] = NoConn
        /\ \A b \in Actors : pc'[b] = "validating" <=> conn'[b] \in reserving'
    BY <1>3, <1>7, <1>10 DEF Transit, OwnedBy
  <2>7. Ownership'
    BY <2>3, <2>4, <2>5, <2>6 DEF Ownership, OwnedBy
  <2>8. LoansBooked'
    BY <1>2, <1>3, <1>5, <1>10 DEF IInv, LoansBooked, Actors
  <2>. QED
    BY <2>2, <2>7, <2>8 DEF IInv
<1>. QED
  BY <1>8, <1>9, <1>10 DEF GiveBack

\* However release() goes on to its end, it gives the connection back.
LEMMA GivesBack ==
  ASSUME TypeOK, NEW t \in Tasks, conn[t] \in Conns,
         ReleaseDirectly(t) \/ RollbackOk(t) \/ RollbackFail(t)
  PROVE \E s \in {"open", "midframe", "cut", "closed", "left"}, intx \in BOOLEAN :
          GiveBack(t, s, intx)
<1>. DEFINE Socks == {"open", "midframe", "cut", "closed", "left"}
<1>1. CASE ReleaseDirectly(t)
  <2>1. sock[conn[t]] \in Socks /\ tx[conn[t]] \in BOOLEAN
    BY DEF TypeOK
  <2>2. GiveBack(t, sock[conn[t]], tx[conn[t]])
    BY <1>1 DEF ReleaseDirectly
  <2>. QED
    BY <2>1, <2>2
<1>2. CASE RollbackOk(t)
  <2>1. PICK s \in Answered(conn[t]) : GiveBack(t, s, FALSE)
    BY <1>2 DEF RollbackOk
  <2>2. s \in Socks
    BY AnsweredType
  <2>. QED
    BY <2>1, <2>2
<1>3. CASE RollbackFail(t)
  BY <1>3 DEF RollbackFail
<1>. QED
  BY <1>1, <1>2, <1>3

LEMMA ReleaseInv ==
  ASSUME IInv, ForgetsReference, NEW t \in Tasks,
         ReleaseDirectly(t) \/ RollbackOk(t) \/ RollbackFail(t)
  PROVE IInv'
<1>1. conn[t] \in Conns /\ pc[t] \in {"holding", "rolling"}
  BY DEF IInv, Ownership, OwnedBy, Owning, Actors, ReleaseDirectly, RollbackOk, RollbackFail,
         MayRelease
<1>2. PICK s \in {"open", "midframe", "cut", "closed", "left"}, intx \in BOOLEAN :
        GiveBack(t, s, intx)
  BY <1>1, GivesBack DEF IInv
<1>. QED
  BY <1>1, <1>2, GiveBackInv

LEMMA ReleaseCancelledInv ==
  ASSUME IInv, NEW t \in Tasks, ReleaseCancelled(t) PROVE IInv'
<1>1. t \in Actors /\ pc[t] = "rolling" /\ conn[t] \in Conns
  BY DEF IInv, Ownership, OwnedBy, Owning, Actors, ReleaseCancelled
<1>2. sock' \in [Conns -> {"open", "midframe", "cut", "closed", "left"}]
  BY <1>1 DEF IInv, TypeOK, ReleaseCancelled
<1>3. CASE At(t, "idle") /\ InHand(t, NoConn)
  <2>1. BookTypes /\ Transit(t, pool, reserving)
    <3>1. \A b \in Actors : /\ [conn EXCEPT ![t] = NoConn][b] = IF b = t THEN NoConn ELSE conn[b]
                            /\ [pc EXCEPT ![t] = "idle"][b] = IF b = t THEN "idle" ELSE pc[b]
      BY <1>1 DEF IInv, TypeOK
    <3>2. NoConn \notin reserving /\ \A i \in DOMAIN pool : pool[i] # NoConn
      BY PoolAssumption DEF IInv, TypeOK
    <3>. QED
      BY <1>1, <3>1, <3>2 DEF IInv, TypeOK, BookTypes, Ownership, OwnedBy, Transit, Owning
  <2>2. UNCHANGED poolVars
    BY DEF ReleaseCancelled
  <2>3. BookTypes' /\ Ownership' /\ LoansKept
    BY <1>1, <1>3, <2>1, <2>2, EmptyHanded DEF BookTypes, poolVars, Settle
  <2>. QED
    BY <1>2, <2>2, <2>3, StillBooked DEF IInv, TypeOK, BookTypes, ReleaseCancelled, poolVars
<1>4. CASE At(t, "holding") /\ UNCHANGED conn
  BY <1>1, <1>2, <1>4 DEF IInv, TypeOK, Ownership, OwnedBy, Owning, LoansBooked,
                          ReleaseCancelled, poolVars, At, Actors
<1>. QED
  BY <1>3, <1>4 DEF ReleaseCancelled

LEMMA CloseAllInv ==
  ASSUME IInv, CloseAll PROVE IInv'
<1>1. sock' \in [Conns -> {"open", "midframe", "cut", "closed", "left"}]
  BY ClosingType DEF IInv, TypeOK, CloseAll
<1>. QED
  BY <1>1 DEF IInv, TypeOK, CloseAll, Settle, Ownership, OwnedBy, LoansBooked

LEMMA MaintTickInv ==
  ASSUME IInv, MaintTick PROVE IInv' /\ LoansKept
<1>1. BookTypes /\ Ownership /\ Maint \in Actors /\ pc[Maint] \notin Owning
  BY DEF IInv, TypeOK, BookTypes, MaintTick, Owning, Actors
<1>2. /\ reserving \in SUBSET Conns /\ pool \in Seq(Conns) /\ created \in Nat
      /\ waiters \in Seq(Tasks) /\ Len(pool) \in Nat
  BY <1>1 DEF BookTypes
<1>3. BookTypes' /\ Ownership' /\ LoansKept /\ budget' \in Nat
  BY <1>1, <1>2, IdleTransit, SweepLoopStep DEF MaintTick
<1>. QED
  BY <1>3, StillBooked DEF IInv, TypeOK, BookTypes, MaintTick, connVars

LEMMA SweepOkInv ==
  ASSUME IInv, SweepOk PROVE IInv' /\ LoansKept
<1>. DEFINE c == conn[Maint]
<1>1. BookTypes /\ Ownership /\ Maint \in Actors /\ pc[Maint] = "validating" /\ budget \in Nat
  BY DEF IInv, TypeOK, BookTypes, SweepOk, Actors
<1>2. c \in Conns /\ c \in reserving
  BY <1>1 DEF Ownership, OwnedBy, Owning
<1>3. /\ reserving \ {c} \in SUBSET Conns /\ pool \in Seq(Conns) /\ created \in Nat
      /\ Notified(waiters) \in Seq(Tasks)
  BY <1>1, NotifiedType DEF BookTypes
<1>4. Transit(Maint, pool, reserving \ {c})
  BY <1>1, DropTransit
<1>5. /\ c \notin checked_out /\ \A i \in DOMAIN pool : pool[i] # c
      /\ \A b \in Actors \ {Maint} : conn[b] # c
  BY <1>1, <1>2, PoolAssumption DEF Ownership, OwnedBy
<1>6. Transit(Maint, Append(pool, c), reserving \ {c}) /\ Append(pool, c) \in Seq(Conns)
  BY <1>1, <1>2, <1>3, <1>4, <1>5, AppendTransit
<1>7. BookTypes' /\ Ownership' /\ LoansKept /\ budget' \in Nat
  BY <1>1, <1>3, <1>6, SweepLoopStep DEF SweepOk
<1>8. sock' \in [Conns -> {"open", "midframe", "cut", "closed", "left"}]
  BY <1>2, AnsweredType DEF IInv, SweepOk
<1>. QED
  BY <1>7, <1>8, StillBooked DEF IInv, TypeOK, BookTypes, SweepOk

LEMMA SweepStaleInv ==
  ASSUME IInv, SweepStale PROVE IInv' /\ LoansKept
<1>1. BookTypes /\ Ownership /\ Maint \in Actors /\ pc[Maint] = "validating" /\ budget \in Nat
  BY DEF IInv, TypeOK, BookTypes, SweepStale, Actors
<1>2. /\ reserving \ {conn[Maint]} \in SUBSET Conns /\ pool \in Seq(Conns)
      /\ Dec(created) \in Nat /\ Notified(waiters) \in Seq(Tasks)
  BY <1>1, NotifiedType, DecType DEF BookTypes
<1>3. BookTypes' /\ Ownership' /\ LoansKept /\ budget' \in Nat
  BY <1>1, <1>2, DropTransit, SweepLoopStep DEF SweepStale
<1>4. sock' \in [Conns -> {"open", "midframe", "cut", "closed", "left"}]
  BY ClosingType DEF IInv, TypeOK, SweepStale
<1>. QED
  BY <1>3, <1>4, StillBooked DEF IInv, TypeOK, BookTypes, SweepStale

LEMMA MaintCancelledInv ==
  ASSUME IInv, MaintCancelled PROVE IInv' /\ LoansKept
<1>. DEFINE r == reserving \ {conn[Maint]}
<1>1. BookTypes /\ Ownership /\ Maint \in Actors
  BY DEF IInv, TypeOK, BookTypes, Actors
<1>2. Transit(Maint, pool, r)
  <2>1. CASE pc[Maint] = "validating"
    BY <1>1, <2>1, DropTransit
  <2>2. CASE pc[Maint] \in {"sleeping", "filling"}
    <3>1. conn[Maint] = NoConn /\ r = reserving
      BY <1>1, <2>2, PoolAssumption DEF Ownership, OwnedBy, Owning, BookTypes
    <3>. QED
      BY <1>1, <2>2, <3>1, IdleTransit DEF Owning
  <2>. QED
    BY <2>1, <2>2 DEF MaintCancelled
<1>3. /\ r \in SUBSET Conns /\ pool \in Seq(Conns) /\ created' \in Nat /\ waiters' \in Seq(Tasks)
  BY <1>1, NotifiedType, DecType DEF BookTypes, MaintCancelled
<1>4. /\ pool' = pool /\ reserving' = r /\ checked_out' = checked_out
      /\ At(Maint, "done") /\ InHand(Maint, NoConn)
  BY DEF MaintCancelled
<1>5. BookTypes' /\ Ownership' /\ LoansKept
  BY <1>1, <1>2, <1>3, <1>4
     DEF BookTypes, Ownership, OwnedBy, Transit, Owning, InHand, At, LoansKept
<1>6. sock' \in [Conns -> {"open", "midframe", "cut", "closed", "left"}]
  BY ClosingType, ConnectLostFacts DEF IInv, TypeOK, MaintCancelled, connVars
<1>7. UNCHANGED <<closed, tx, rows, uses>> /\ budget' = 0
  BY ConnectLostFacts DEF IInv, MaintCancelled, connVars
<1>. QED
  BY <1>5, <1>6, <1>7, StillBooked DEF IInv, TypeOK, BookTypes

LEMMA CollectedInv ==
  ASSUME IInv, NEW c \in Conns, Collected(c) PROVE IInv'
<1>1. sock' \in [Conns -> {"open", "midframe", "cut", "closed", "left"}]
  BY ClosingType DEF IInv, TypeOK, Collected
<1>. QED
  BY <1>1 DEF IInv, TypeOK, Collected, poolVars, Ownership, OwnedBy, LoansBooked

-----------------------------------------------------------------------------

LEMMA InitInv == Init => IInv
<1>. SUFFICES ASSUME Init PROVE IInv
  OBVIOUS
<1>1. TypeOK
  <2>1. <<>> \in Seq(Conns) /\ <<>> \in Seq(Tasks)
    OBVIOUS
  <2>2. /\ pc \in [Actors -> {"idle", "off"}] /\ conn \in [Actors -> {NoConn}]
        /\ sock \in [Conns -> {"closed"}]
    BY DEF Init
  <2>3. /\ pc \in [Actors -> {"idle", "filling", "opening", "connecting", "validating",
                              "waiting", "holding", "rolling", "off", "sleeping", "done"}]
        /\ conn \in [Actors -> Conns \cup {NoConn}]
        /\ sock \in [Conns -> {"open", "midframe", "cut", "closed", "left"}]
    BY <2>2
  <2>. QED
    BY <2>1, <2>3 DEF Init, TypeOK
<1>2. Ownership
  <2>1. DOMAIN pool = {} /\ \A a \in Actors : conn[a] = NoConn /\ pc[a] \in {"off", "idle"}
    BY DEF Init
  <2>. QED
    BY <2>1 DEF Init, Ownership, OwnedBy, Owning
<1>3. LoansBooked
  BY DEF Init, LoansBooked, Actors
<1>. QED
  BY <1>1, <1>2, <1>3 DEF IInv

\* Every step keeps the invariant, when borrowers forget what they released.
LEMMA NextInv ==
  ASSUME ForgetsReference, IInv, [Next]_vars PROVE IInv'
<1>1. ASSUME NEW t \in Tasks, Acquire(t) \/ Open(t) PROVE IInv'
  BY <1>1, AcquireInv
<1>2. ASSUME NEW t \in Tasks, Resume(t) PROVE IInv'
  <2>. t \in Actors
    BY DEF Actors
  <2>. QED
    BY <1>2, FillOkInv, FillEndsInv, ConnectOkInv, GivesUpInv, ValidateOkInv, ValidateStaleInv,
       AcquireInv, ReleaseInv DEF Resume
<1>3. ASSUME NEW t \in Tasks, Interrupt(t) PROVE IInv'
  BY <1>3, GivesUpInv, ValidateCancelledInv, WaitEndsInv, ReleaseCancelledInv DEF Interrupt
<1>4. ASSUME NEW t \in Tasks, Use(t) \/ Release(t) PROVE IInv'
  BY <1>4, UseInv, ReleaseRollsBackInv, ReleaseInv DEF Release
<1>5. CASE Maintain
  BY <1>5, MaintTickInv, SweepOkInv, SweepStaleInv, MaintCancelledInv, FillOkInv, FillEndsInv
     DEF Maintain, Actors
<1>6. CASE CloseAll
  BY <1>6, CloseAllInv
<1>7. CASE Ended \/ UNCHANGED vars
  BY <1>7 DEF Ended, vars, poolVars, connVars, IInv, TypeOK, Ownership, OwnedBy, LoansBooked
<1>8. ASSUME NEW c \in Conns, Collected(c) PROVE IInv'
  BY <1>8, CollectedInv
<1>. QED
  BY <1>1, <1>2, <1>3, <1>4, <1>5, <1>6, <1>7, <1>8 DEF Next

THEOREM Invariance == ASSUME ForgetsReference PROVE Spec => []IInv
BY InitInv, NextInv, PTL DEF Spec

\* The shape of the pool's state never degenerates, whatever the interleaving.
THEOREM TypeCorrect == ASSUME ForgetsReference PROVE Spec => []TypeOK
BY Invariance, PTL DEF IInv

\* No connection has two owners: idle queue, validating task, sweep, borrower.
THEOREM OneOwner == ASSUME ForgetsReference PROVE Spec => []ExclusiveOwnership
<1>1. IInv => ExclusiveOwnership
  BY DEF IInv, Ownership, OwnedBy, ExclusiveOwnership, Idle
<1>. QED
  BY <1>1, Invariance, PTL

-----------------------------------------------------------------------------
(* Clean connections *)

\* What the next borrower may be given, for an idle queue q and reserved set r
Stock(q, r) == {q[i] : i \in DOMAIN q} \cup r

Clean(c) == Reusable(c) /\ ~tx[c] /\ ~rows[c]

\* The loops take connections out of stock and put none in.
LEMMA TailStock ==
  ASSUME NEW q \in Seq(Conns), q # <<>>, NEW r
  PROVE Stock(Tail(q), r \cup {Head(q)}) \subseteq Stock(q, r)
BY TailFacts DEF Stock

LEMMA FillLoopStock ==
  ASSUME NEW a, NEW how, NEW q \in Seq(Conns), NEW r, NEW n, NEW w, FillLoop(a, how, q, r, n, w)
  PROVE Stock(pool', reserving') \subseteq Stock(q, r)
BY TailStock DEF FillLoop, AfterFill, Proceed, Settle

LEMMA AcquireLoopStock ==
  ASSUME NEW t, NEW q \in Seq(Conns), NEW r, NEW n, NEW w, AcquireLoop(t, q, r, n, w)
  PROVE Stock(pool', reserving') \subseteq Stock(q, r)
BY FillLoopStock DEF AcquireLoop, Settle

LEMMA SweepLoopStock ==
  ASSUME NEW b, NEW q \in Seq(Conns), NEW r, NEW n, NEW w, SweepLoop(b, q, r, n, w)
  PROVE Stock(pool', reserving') \subseteq Stock(q, r)
BY FillLoopStock, TailStock DEF SweepLoop, Settle

\* Whoever has c in hand and is not validating it has it out of stock.
LEMMA OutOfStock ==
  ASSUME IInv, NEW a \in Actors, pc[a] \in {"holding", "rolling"}
  PROVE conn[a] \in Conns /\ conn[a] \notin Stock(pool, reserving)
BY DEF IInv, Ownership, OwnedBy, Owning, Stock

\* Whoever validates c has it out of the queue.
LEMMA OutOfQueue ==
  ASSUME IInv, NEW a \in Actors, pc[a] = "validating"
  PROVE conn[a] \in Conns /\ conn[a] \notin Stock(pool, reserving \ {conn[a]})
BY DEF IInv, Ownership, OwnedBy, Owning, Stock

LEMMA StockType ==
  ASSUME IInv, NEW r, NEW c \in Conns
  PROVE /\ Stock(Append(pool, c), r) = Stock(pool, r) \cup {c} /\ Append(pool, c) \in Seq(Conns)
        /\ Stock(pool, r) \subseteq Conns \cup r
<1>1. pool \in Seq(Conns) /\ Len(pool) \in Nat /\ DOMAIN pool = 1 .. Len(pool)
  BY DEF IInv, TypeOK
<1>2. /\ Append(pool, c) \in Seq(Conns) /\ DOMAIN Append(pool, c) = 1 .. Len(pool) + 1
      /\ Append(pool, c)[Len(pool) + 1] = c
      /\ \A i \in 1 .. Len(pool) : Append(pool, c)[i] = pool[i]
  BY <1>1
<1>3. Stock(pool, r) \cup {c} \subseteq Stock(Append(pool, c), r)
  BY <1>1, <1>2 DEF Stock
<1>4. Stock(Append(pool, c), r) \subseteq Stock(pool, r) \cup {c}
  <2>. SUFFICES ASSUME NEW i \in 1 .. Len(pool) + 1
                PROVE Append(pool, c)[i] \in Stock(pool, r) \cup {c}
    BY <1>2 DEF Stock
  <2>1. i = Len(pool) + 1 \/ i \in 1 .. Len(pool)
    BY <1>1
  <2>. QED
    BY <1>1, <1>2, <2>1 DEF Stock
<1>5. Stock(pool, r) \subseteq Conns \cup r
  BY <1>1 DEF Stock
<1>. QED
  BY <1>2, <1>3, <1>4, <1>5

LEMMA StockConns == ASSUME IInv PROVE Stock(pool, reserving) \subseteq Conns
BY DEF IInv, TypeOK, Stock

LEMMA StaysClean ==
  ASSUME IInv, IdleIsClean,
         \A c \in Stock(pool', reserving') :
           \/ c \in Stock(pool, reserving) /\ sock'[c] = sock[c] /\ tx'[c] = tx[c] /\ rows'[c] = rows[c]
           \/ Clean(c)'
  PROVE IdleIsClean'
BY DEF IdleIsClean, Stock, Idle, Clean, Reusable, Usable

\* Steps that take from stock and touch no connection, but perhaps close one
\* that is out of stock
LEMMA TakingClean ==
  ASSUME IInv, IdleIsClean, NEW a \in Actors,
         \/ a \in Tasks /\ (Acquire(a) \/ Open(a) \/ Wake(a) \/ WaitEnds(a) \/ ReleaseRollsBack(a))
         \/ a \in Tasks /\ (AbandonSlot(a) \/ ConnectTooLate(a) \/ ValidateOk(a))
         \/ FillTooLate(a) \/ FillFail(a)
         \/ a = Maint /\ MaintTick
  PROVE IdleIsClean'
<1>1. UNCHANGED <<tx, rows>> /\ \A c \in Stock(pool', reserving') : sock'[c] = sock[c]
  <2>1. CASE a \in Tasks /\ ValidateOk(a)
    <3>1. conn[a] \in Conns /\ conn[a] \notin Stock(pool, reserving \ {conn[a]})
      BY <2>1, OutOfQueue DEF ValidateOk
    <3>. QED
      BY <2>1, <3>1 DEF ValidateOk, IInv, TypeOK, Stock
  <2>2. CASE (a \in Tasks /\ AbandonSlot(a)) \/ FillFail(a)
    <3>1. UNCHANGED <<tx, rows>> /\ \A c \in Conns : sock'[c] = sock[c] \/ Forgotten(c)
      BY <2>2, ConnectLostFacts DEF AbandonSlot, FillFail, IInv
    <3>2. Stock(pool', reserving') \subseteq Stock(pool, reserving)
      BY <2>2, TailStock DEF FillFail, AfterFill, Proceed, Settle, AbandonSlot, IInv, TypeOK
    <3>3. \A c \in Stock(pool, reserving) : c \in Conns /\ ~Forgotten(c)
      BY StockConns DEF Forgotten, Stock, Idle
    <3>. QED
      BY <3>1, <3>2, <3>3
  <2>. QED
    BY <2>1, <2>2 DEF Acquire, Open, Wake, WaitEnds, ReleaseRollsBack, ConnectTooLate,
                      FillTooLate, MaintTick, connVars
<1>2. pool \in Seq(Conns)
  BY DEF IInv, TypeOK
<1>3. Stock(pool', reserving') \subseteq Stock(pool, reserving)
  <2>1. CASE Acquire(a) \/ Wake(a)
    BY <1>2, <2>1, AcquireLoopStock DEF Acquire, Wake
  <2>2. CASE Open(a)
    BY <1>2, <2>2, FillLoopStock DEF Open
  <2>3. CASE MaintTick
    BY <1>2, <2>3, SweepLoopStock DEF MaintTick
  <2>4. CASE FillTooLate(a) \/ FillFail(a)
    BY <1>2, <2>4, TailStock DEF FillTooLate, FillFail, AfterFill, Proceed, Settle
  <2>5. CASE \/ WaitEnds(a) \/ ReleaseRollsBack(a) \/ AbandonSlot(a) \/ ConnectTooLate(a)
             \/ ValidateOk(a)
    BY <2>5 DEF WaitEnds, ReleaseRollsBack, AbandonSlot, ConnectTooLate, ValidateOk, Settle,
                poolVars, Stock
  <2>. QED
    BY <2>1, <2>2, <2>3, <2>4, <2>5
<1>. QED
  BY <1>1, <1>3, StaysClean

\* A validated connection that is discarded is out of stock.
LEMMA DiscardClean ==
  ASSUME IInv, IdleIsClean, NEW a \in Actors,
         \/ a \in Tasks /\ (ValidateStale(a) \/ ValidateCancelled(a))
         \/ a = Maint /\ (SweepStale \/ MaintCancelled)
  PROVE IdleIsClean'
<1>1. UNCHANGED <<tx, rows>> /\ pool \in Seq(Conns)
  BY ConnectLostFacts DEF ValidateStale, ValidateCancelled, SweepStale, MaintCancelled, IInv, TypeOK,
                          connVars
<1>2. CASE pc[a] = "validating"
  <2>1. conn[a] \in Conns /\ conn[a] \notin Stock(pool, reserving \ {conn[a]})
        /\ Stock(pool, reserving \ {conn[a]}) \subseteq Stock(pool, reserving)
        /\ Stock(pool, reserving) \subseteq Conns
    BY <1>2, OutOfQueue, StockType DEF Stock, IInv, TypeOK
  <2>2. Stock(pool', reserving') \subseteq Stock(pool, reserving \ {conn[a]})
    <3>1. CASE ValidateStale(a)
      BY <1>1, <3>1, AcquireLoopStock DEF ValidateStale
    <3>2. CASE SweepStale /\ a = Maint
      BY <1>1, <3>2, SweepLoopStock DEF SweepStale
    <3>3. CASE ValidateCancelled(a) \/ (MaintCancelled /\ a = Maint)
      BY <3>3 DEF ValidateCancelled, MaintCancelled, Settle
    <3>. QED
      BY <3>1, <3>2, <3>3
  <2>3. \A c \in Conns \ {conn[a]} : sock'[c] = sock[c]
    BY <1>2 DEF ValidateStale, ValidateCancelled, SweepStale, MaintCancelled, Closing
  <2>. QED
    BY <1>1, <2>1, <2>2, <2>3, StaysClean
<1>3. CASE pc[a] # "validating"
  <2>1. /\ pool' = pool /\ reserving' \subseteq reserving
        /\ \A c \in Conns : sock'[c] = sock[c] \/ Forgotten(c)
    BY <1>3, ConnectLostFacts DEF ValidateStale, ValidateCancelled, SweepStale, MaintCancelled,
                                  connVars, IInv
  <2>2. \A c \in Stock(pool, reserving) : c \in Conns /\ ~Forgotten(c)
    BY StockConns DEF Forgotten, Stock, Idle
  <2>3. Stock(pool', reserving') \subseteq Stock(pool, reserving)
    BY <2>1 DEF Stock
  <2>. QED
    BY <1>1, <2>1, <2>2, <2>3, StaysClean
<1>. QED
  BY <1>2, <1>3

\* A connection that is opened, or passes the sweep, goes to stock clean.
LEMMA StockedClean ==
  ASSUME IInv, IdleIsClean, NEW a \in Actors, FillOk(a) \/ (a = Maint /\ SweepOk)
  PROVE IdleIsClean'
<1>1. CASE FillOk(a)
  <2>1. PICK c \in Conns : /\ Born(c, 0)
                           /\ FillLoop(a, pc[a], Append(pool, c), reserving, created, Notified(waiters))
    BY <1>1 DEF FillOk
  <2>2. /\ Append(pool, c) \in Seq(Conns)
        /\ Stock(Append(pool, c), reserving) = Stock(pool, reserving) \cup {c}
    BY StockType
  <2>3. Stock(pool', reserving') \subseteq Stock(pool, reserving) \cup {c}
    BY <2>1, <2>2, FillLoopStock
  <2>4. /\ sock'[c] = "open" /\ ~tx'[c] /\ ~rows'[c]
        /\ \A d \in Conns \ {c} : sock'[d] = sock[d] /\ tx'[d] = tx[d] /\ rows'[d] = rows[d]
    BY <2>1 DEF Born, IInv, TypeOK
  <2>. QED
    BY <2>3, <2>4, StockConns, StaysClean DEF Clean, Reusable, Usable
<1>2. CASE a = Maint /\ SweepOk
  <2>1. conn[a] \in Conns /\ conn[a] \in reserving /\ UNCHANGED <<tx, rows>>
    BY <1>2 DEF SweepOk, IInv, Ownership, OwnedBy, Owning
  <2>2. /\ Append(pool, conn[a]) \in Seq(Conns)
        /\ Stock(Append(pool, conn[a]), reserving \ {conn[a]})
             = Stock(pool, reserving \ {conn[a]}) \cup {conn[a]}
    BY <2>1, StockType
  <2>3. Stock(pool', reserving') \subseteq Stock(pool, reserving)
    <3>1. Stock(pool', reserving') \subseteq Stock(Append(pool, conn[a]), reserving \ {conn[a]})
      BY <1>2, <2>2, SweepLoopStock DEF SweepOk
    <3>2. Stock(pool, reserving \ {conn[a]}) \cup {conn[a]} \subseteq Stock(pool, reserving)
      BY <2>1 DEF Stock
    <3>. QED
      BY <2>2, <3>1, <3>2
  <2>4. PICK s \in Answered(conn[a]) : sock' = [sock EXCEPT ![conn[a]] = s]
    BY <1>2 DEF SweepOk
  <2>5. \A d \in Conns : d = conn[a] => Clean(d)'
    <3>1. Usable(s) /\ sock'[conn[a]] = s
      BY <1>2, <2>1, <2>4, AnsweredType DEF SweepOk, Presentable, IInv, TypeOK
    <3>2. ~tx[conn[a]] /\ ~rows[conn[a]]
      BY <2>1 DEF IdleIsClean
    <3>. QED
      BY <2>1, <3>1, <3>2 DEF Clean, Reusable
  <2>6. \A d \in Conns \ {conn[a]} : sock'[d] = sock[d]
    BY <2>4 DEF IInv, TypeOK
  <2>. QED
    BY <2>1, <2>3, <2>5, <2>6, StockConns, StaysClean
<1>. QED
  BY <1>1, <1>2

\* The borrower's connection changes out of stock.
LEMMA BorrowedClean ==
  ASSUME IInv, IdleIsClean, NEW t \in Tasks, Use(t) \/ ReleaseCancelled(t) \/ ConnectOk(t)
  PROVE IdleIsClean'
<1>1. t \in Actors /\ Stock(pool', reserving') = Stock(pool, reserving)
  BY DEF Actors, Use, ReleaseCancelled, ConnectOk, poolVars, Stock
<1>2. CASE Use(t) \/ ReleaseCancelled(t)
  <2>1. conn[t] \notin Stock(pool, reserving)
    BY <1>1, <1>2, OutOfStock DEF Use, ReleaseCancelled
  <2>2. \A c \in Conns \ {conn[t]} : sock'[c] = sock[c] /\ tx'[c] = tx[c] /\ rows'[c] = rows[c]
    BY <1>2 DEF Use, ReleaseCancelled, IInv, TypeOK
  <2>. QED
    BY <1>1, <2>1, <2>2, StockConns, StaysClean
<1>3. CASE ConnectOk(t)
  <2>1. PICK c \in Conns : Born(c, 1)
    BY <1>3 DEF ConnectOk
  <2>2. c \notin Stock(pool, reserving)
    BY <2>1 DEF Born, Forgotten, Stock, Idle
  <2>3. \A d \in Conns \ {c} : sock'[d] = sock[d] /\ tx'[d] = tx[d] /\ rows'[d] = rows[d]
    BY <2>1 DEF Born, IInv, TypeOK
  <2>. QED
    BY <1>1, <2>2, <2>3, StockConns, StaysClean
<1>. QED
  BY <1>2, <1>3

\* release() keeps a connection only when it is usable and has no transaction.
LEMMA ReleaseClean ==
  ASSUME IInv, IdleIsClean, ForgetsReference, NEW t \in Tasks,
         ReleaseDirectly(t) \/ RollbackOk(t) \/ RollbackFail(t)
  PROVE IdleIsClean'
<1>. DEFINE c == conn[t]
<1>1. t \in Actors /\ pc[t] \in {"holding", "rolling"}
  BY DEF Actors, ReleaseDirectly, MayRelease, RollbackOk, RollbackFail
<1>2. c \in Conns /\ c \notin Stock(pool, reserving) /\ Stock(pool, reserving) \subseteq Conns
  BY <1>1, OutOfStock, StockConns
<1>3. PICK s \in {"open", "midframe", "cut", "closed", "left"}, intx \in BOOLEAN :
        GiveBack(t, s, intx)
  BY <1>2, GivesBack DEF IInv
<1>4. /\ rows'[c] = FALSE /\ tx'[c] = intx /\ reserving' = reserving
      /\ \A d \in Conns \ {c} : tx'[d] = tx[d] /\ rows'[d] = rows[d]
  BY <1>2, <1>3 DEF GiveBack, IInv, TypeOK
<1>5. \A d \in Conns \ {c} : sock'[d] = sock[d]
  BY <1>2, <1>3 DEF GiveBack, Closing, IInv, TypeOK
<1>. HIDE DEF c
<1>6. CASE pool' = pool
  BY <1>2, <1>4, <1>5, <1>6, StaysClean
<1>7. CASE pool' = Append(pool, c) /\ Usable(s) /\ ~intx /\ sock' = [sock EXCEPT ![c] = s]
  <2>1. Stock(pool', reserving') = Stock(pool, reserving) \cup {c}
    BY <1>2, <1>4, <1>7, StockType
  <2>2. \A d \in Conns : d = c => Clean(d)'
    BY <1>2, <1>4, <1>7 DEF Clean, Reusable, IInv, TypeOK
  <2>. QED
    BY <1>2, <1>4, <1>5, <2>1, <2>2, StaysClean
<1>. QED
  BY <1>3, <1>6, <1>7 DEF GiveBack, c

\* close_all() leaves what is being validated to whoever validates it.
LEMMA CloseClean == ASSUME IInv, IdleIsClean, CloseAll PROVE IdleIsClean'
<1>1. pool' = <<>> /\ reserving' = reserving /\ UNCHANGED <<tx, rows>>
  BY DEF CloseAll, Settle
<1>2. Stock(pool', reserving') = reserving /\ reserving \subseteq Stock(pool, reserving)
  BY <1>1 DEF Stock
<1>3. \A c \in reserving : sock'[c] = sock[c]
  BY DEF CloseAll, Closing, Idle, IInv, TypeOK, Ownership, OwnedBy
<1>. QED
  BY <1>1, <1>2, <1>3, StaysClean

LEMMA CleanNext ==
  ASSUME ForgetsReference, IInv, IdleIsClean, [Next]_vars PROVE IdleIsClean'
<1>1. ASSUME NEW t \in Tasks, Acquire(t) \/ Open(t) PROVE IdleIsClean'
  BY <1>1, TakingClean DEF Actors
<1>2. ASSUME NEW t \in Tasks, Resume(t) PROVE IdleIsClean'
  BY <1>2, TakingClean, StockedClean, BorrowedClean, DiscardClean, ReleaseClean DEF Resume, Actors
<1>3. ASSUME NEW t \in Tasks, Interrupt(t) PROVE IdleIsClean'
  BY <1>3, TakingClean, DiscardClean, BorrowedClean DEF Interrupt, Actors
<1>4. ASSUME NEW t \in Tasks, Use(t) \/ Release(t) PROVE IdleIsClean'
  BY <1>4, TakingClean, BorrowedClean, ReleaseClean DEF Release, Actors
<1>5. CASE Maintain
  BY <1>5, TakingClean, StockedClean, DiscardClean DEF Maintain, Actors
<1>6. CASE CloseAll
  BY <1>6, CloseClean
<1>7. CASE Ended \/ UNCHANGED vars
  BY <1>7 DEF Ended, vars, poolVars, connVars, IdleIsClean, Idle
<1>8. ASSUME NEW c \in Conns, Collected(c) PROVE IdleIsClean'
  <2>1. \A d \in Conns : sock[d] # "left" => sock'[d] = sock[d]
    BY <1>8 DEF Collected, Closing
  <2>2. \A d \in Stock(pool, reserving) : d \in Conns /\ sock[d] # "left"
    BY StockConns DEF IdleIsClean, Stock, Idle
  <2>. QED
    BY <1>8, <2>1, <2>2, StaysClean DEF Collected, poolVars
<1>. QED
  BY <1>1, <1>2, <1>3, <1>4, <1>5, <1>6, <1>7, <1>8 DEF Next

\* The next borrower gets a connection without another's transaction or half-read
\* result, neither closed nor cut within a header or payload, also when the rollback
\* of release() failed, was cancelled, or the borrower broke the connection.
THEOREM QueueIsClean == ASSUME ForgetsReference PROVE Spec => []IdleIsClean
<1>1. IInv /\ IdleIsClean /\ [Next]_vars => IdleIsClean'
  BY CleanNext
<1>2. Init => IdleIsClean
  BY DEF Init, IdleIsClean, Idle
<1>. QED
  BY <1>1, <1>2, Invariance, PTL DEF Spec

-----------------------------------------------------------------------------
(* Slots, notifications and the loan book                                      *)

ConnectingPcs == {"filling", "opening", "connecting"}

\* How many actors are opening a connection, for program counters at
Openers(at) == Cardinality({a \in Actors : at[a] \in ConnectingPcs})

\* The slots an open pool has given out, for an idle queue q, reserved set r,
\* loans co and program counters at
Slots(q, r, co, at) == Len(q) + Cardinality(r) + Cardinality(co) + Openers(at)

SlotInv == ~closed => created = Slots(pool, reserving, checked_out, pc) /\ created <= MaxSize

-----------------------------------------------------------------------------
(* Counting *)

LEMMA ActorsFinite == IsFiniteSet(Actors)
BY PoolAssumption, FS_AddElement DEF Actors

LEMMA OpenersType ==
  ASSUME NEW at PROVE Openers(at) \in Nat /\ IsFiniteSet({a \in Actors : at[a] \in ConnectingPcs})
<1>1. {a \in Actors : at[a] \in ConnectingPcs} \in SUBSET Actors
  OBVIOUS
<1>. QED
  BY <1>1, ActorsFinite, FS_Subset, FS_CardinalityType DEF Openers

\* One actor starts to open a connection.
LEMMA OpenersGrow ==
  ASSUME NEW S, NEW at \in [Actors -> S], NEW a \in Actors, NEW new,
         at[a] \notin ConnectingPcs, new \in ConnectingPcs
  PROVE Openers([at EXCEPT ![a] = new]) = Openers(at) + 1
<1>. DEFINE X == {b \in Actors : at[b] \in ConnectingPcs}
            Y == {b \in Actors : [at EXCEPT ![a] = new][b] \in ConnectingPcs}
<1>1. Y = X \cup {a} /\ a \notin X
  OBVIOUS
<1>2. IsFiniteSet(X)
  BY OpenersType
<1>3. Cardinality(X \cup {a}) = Cardinality(X) + 1
  BY <1>1, <1>2, FS_AddElement
<1>. QED
  BY <1>1, <1>3 DEF Openers

\* One actor stops opening a connection.
LEMMA OpenersShrink ==
  ASSUME NEW S, NEW at \in [Actors -> S], NEW a \in Actors, NEW new,
         at[a] \in ConnectingPcs, new \notin ConnectingPcs
  PROVE Openers([at EXCEPT ![a] = new]) = Openers(at) - 1
<1>. DEFINE X == {b \in Actors : at[b] \in ConnectingPcs}
            Y == {b \in Actors : [at EXCEPT ![a] = new][b] \in ConnectingPcs}
<1>1. Y = X \ {a} /\ a \in X
  OBVIOUS
<1>2. IsFiniteSet(X)
  BY OpenersType
<1>3. Cardinality(X \ {a}) = Cardinality(X) - 1
  BY <1>1, <1>2, FS_RemoveElement
<1>. QED
  BY <1>1, <1>3 DEF Openers

\* No actor that changes place opens a connection before or after.
LEMMA OpenersSame ==
  ASSUME NEW at, NEW bt,
         \A a \in Actors : at[a] \in ConnectingPcs <=> bt[a] \in ConnectingPcs
  PROVE Openers(at) = Openers(bt)
<1>1. {a \in Actors : at[a] \in ConnectingPcs} = {a \in Actors : bt[a] \in ConnectingPcs}
  OBVIOUS
<1>. QED
  BY <1>1 DEF Openers

LEMMA SlotsType ==
  ASSUME BookTypes, NEW q \in Seq(Conns), NEW r \in SUBSET Conns, NEW at
  PROVE /\ IsFiniteSet(r) /\ IsFiniteSet(checked_out)
        /\ Cardinality(r) \in Nat /\ Cardinality(checked_out) \in Nat /\ Len(q) \in Nat
        /\ Openers(at) \in Nat
<1>1. IsFiniteSet(Conns) /\ checked_out \in SUBSET Conns
  BY PoolAssumption DEF BookTypes
<1>2. IsFiniteSet(r) /\ IsFiniteSet(checked_out)
  BY <1>1, FS_Subset
<1>3. Cardinality(r) \in Nat /\ Cardinality(checked_out) \in Nat
  BY <1>2, FS_CardinalityType
<1>4. Openers(at) \in Nat
  BY OpenersType
<1>5. Len(q) \in Nat
  OBVIOUS
<1>. QED
  BY <1>2, <1>3, <1>4, <1>5

-----------------------------------------------------------------------------
(* The loops, for an actor a that holds no slot when it enters them            *)

SlotsTransit(a, q, r, n) ==
  n = Slots(q, r, checked_out, [pc EXCEPT ![a] = "idle"]) /\ n <= MaxSize

SlotsKept == created' = Slots(pool', reserving', checked_out', pc') /\ created' <= MaxSize

LEMMA EmptyHandedSlots ==
  ASSUME BookTypes, NEW a \in Actors,
         NEW q \in Seq(Conns), NEW r \in SUBSET Conns, NEW n \in Nat, NEW w \in Seq(Tasks),
         SlotsTransit(a, q, r, n), Settle(q, r, n, w), UNCHANGED checked_out,
         \A b \in Actors : pc'[b] \in ConnectingPcs <=> [pc EXCEPT ![a] = "idle"][b] \in ConnectingPcs
  PROVE SlotsKept
<1>1. Openers(pc') = Openers([pc EXCEPT ![a] = "idle"])
  BY OpenersSame
<1>. QED
  BY <1>1 DEF SlotsTransit, SlotsKept, Slots, Settle

LEMMA OpensSlots ==
  ASSUME BookTypes, NEW a \in Actors, NEW where \in ConnectingPcs,
         NEW q \in Seq(Conns), NEW r \in SUBSET Conns, NEW n \in Nat, NEW w \in Seq(Tasks),
         SlotsTransit(a, q, r, n), n < MaxSize, Settle(q, r, n + 1, w), At(a, where),
         UNCHANGED checked_out
  PROVE SlotsKept
<1>. DEFINE at == [pc EXCEPT ![a] = "idle"]
            S == {"idle", "filling", "opening", "connecting", "validating",
                  "waiting", "holding", "rolling", "off", "sleeping", "done"}
<1>1. at \in [Actors -> S] /\ at[a] \notin ConnectingPcs /\ pc' = [at EXCEPT ![a] = where]
  BY DEF BookTypes, At, ConnectingPcs
<1>2. Openers(pc') = Openers(at) + 1
  <2>. HIDE DEF at
  <2>. QED
    BY <1>1, OpenersGrow
<1>3. Openers(at) \in Nat /\ Len(q) \in Nat /\ Cardinality(r) \in Nat /\ Cardinality(checked_out) \in Nat
  BY SlotsType
<1>4. n = Len(q) + Cardinality(r) + Cardinality(checked_out) + Openers(at)
  BY DEF SlotsTransit, Slots
<1>5. n + 1 <= MaxSize
  BY PoolAssumption
<1>. QED
  BY <1>2, <1>3, <1>4, <1>5 DEF SlotsKept, Slots, Settle

LEMMA TakesHeadSlots ==
  ASSUME BookTypes, NEW a \in Actors,
         NEW q \in Seq(Conns), NEW r \in SUBSET Conns, NEW n \in Nat, NEW w \in Seq(Tasks),
         Transit(a, q, r), SlotsTransit(a, q, r, n),
         q # <<>>, Settle(Tail(q), r \cup {Head(q)}, n, w), At(a, "validating"),
         UNCHANGED checked_out
  PROVE SlotsKept
<1>1. Head(q) \notin r /\ Tail(q) \in Seq(Conns) /\ Len(q) = Len(Tail(q)) + 1 /\ Len(Tail(q)) \in Nat
  BY TailFacts DEF Transit, OwnedBy
<1>2. IsFiniteSet(r) /\ Cardinality(r) \in Nat /\ Cardinality(checked_out) \in Nat
  BY SlotsType
<1>3. Cardinality(r \cup {Head(q)}) = Cardinality(r) + 1
  BY <1>1, <1>2, FS_AddElement
<1>4. \A b \in Actors : pc'[b] \in ConnectingPcs <=> [pc EXCEPT ![a] = "idle"][b] \in ConnectingPcs
  BY DEF At, BookTypes, ConnectingPcs
<1>5. Openers(pc') = Openers([pc EXCEPT ![a] = "idle"]) /\ Openers(pc') \in Nat
  BY <1>4, OpenersSame, OpenersType
<1>. QED
  BY <1>1, <1>2, <1>3, <1>5 DEF SlotsTransit, SlotsKept, Slots, Settle

LEMMA ProceedSlots ==
  ASSUME BookTypes, NEW t \in Tasks,
         NEW q \in Seq(Conns), NEW r \in SUBSET Conns, NEW n \in Nat, NEW w \in Seq(Tasks),
         Transit(t, q, r), SlotsTransit(t, q, r, n), Proceed(t, q, r, n, w)
  PROVE SlotsKept
<1>. t \in Actors
  BY DEF Actors
<1>1. CASE q # <<>> /\ Settle(Tail(q), r \cup {Head(q)}, n, w) /\ At(t, "validating")
  BY <1>1, TakesHeadSlots DEF Proceed
<1>2. CASE SlotFree(n) /\ Settle(q, r, n + 1, w) /\ At(t, "connecting")
  BY <1>2, OpensSlots DEF Proceed, SlotFree, ConnectingPcs
<1>3. CASE Settle(q, r, n, Append(w, t)) /\ At(t, "waiting")
  <2>1. Append(w, t) \in Seq(Tasks)
    OBVIOUS
  <2>2. \A b \in Actors : pc'[b] \in ConnectingPcs <=> [pc EXCEPT ![t] = "idle"][b] \in ConnectingPcs
    BY <1>3 DEF At, BookTypes, ConnectingPcs
  <2>. QED
    BY <1>3, <2>1, <2>2, EmptyHandedSlots DEF Proceed
<1>4. CASE Settle(q, r, n, w) /\ At(t, "idle")
  <2>1. \A b \in Actors : pc'[b] \in ConnectingPcs <=> [pc EXCEPT ![t] = "idle"][b] \in ConnectingPcs
    BY <1>4 DEF At, BookTypes, ConnectingPcs
  <2>. QED
    BY <1>4, <2>1, EmptyHandedSlots DEF Proceed
<1>. QED
  BY <1>1, <1>2, <1>3, <1>4 DEF Proceed

LEMMA AfterFillSlots ==
  ASSUME BookTypes, NEW a \in Actors, NEW how,
         NEW q \in Seq(Conns), NEW r \in SUBSET Conns, NEW n \in Nat, NEW w \in Seq(Tasks),
         Transit(a, q, r), SlotsTransit(a, q, r, n), AfterFill(a, how, q, r, n, w)
  PROVE SlotsKept
<1>1. CASE a \in Tasks /\ Proceed(a, q, r, n, w)
  BY <1>1, ProceedSlots
<1>2. CASE /\ a \in Tasks /\ Settle(q, r, n, w)
           /\ pc' = [pc EXCEPT ![a] = "idle",
                               ![Maint] = IF @ = "off" /\ ~closed THEN "sleeping" ELSE @]
           /\ UNCHANGED checked_out
  <2>1. a # Maint /\ Maint \in Actors
    BY <1>2, PoolAssumption DEF Actors
  <2>2. \A b \in Actors : pc'[b] \in ConnectingPcs <=> [pc EXCEPT ![a] = "idle"][b] \in ConnectingPcs
    BY <1>2, <2>1 DEF BookTypes, ConnectingPcs
  <2>. QED
    BY <1>2, <2>2, EmptyHandedSlots
<1>3. CASE Settle(q, r, n, w) /\ At(a, "sleeping") /\ UNCHANGED checked_out
  <2>1. \A b \in Actors : pc'[b] \in ConnectingPcs <=> [pc EXCEPT ![a] = "idle"][b] \in ConnectingPcs
    BY <1>3 DEF At, BookTypes, ConnectingPcs
  <2>. QED
    BY <1>3, <2>1, EmptyHandedSlots
<1>. QED
  BY <1>1, <1>2, <1>3 DEF AfterFill

LEMMA FillLoopSlots ==
  ASSUME BookTypes, NEW a \in Actors, NEW how \in {"filling", "opening"},
         NEW q \in Seq(Conns), NEW r \in SUBSET Conns, NEW n \in Nat, NEW w \in Seq(Tasks),
         Transit(a, q, r), SlotsTransit(a, q, r, n), FillLoop(a, how, q, r, n, w)
  PROVE SlotsKept
<1>1. CASE AfterFill(a, how, q, r, n, w)
  BY <1>1, AfterFillSlots
<1>2. CASE n < MinSize /\ Settle(q, r, n + 1, w) /\ At(a, how) /\ UNCHANGED checked_out
  <2>1. n < MaxSize
    BY <1>2, PoolAssumption
  <2>. QED
    BY <1>2, <2>1, OpensSlots DEF ConnectingPcs
<1>. QED
  BY <1>1, <1>2 DEF FillLoop

LEMMA AcquireLoopSlots ==
  ASSUME BookTypes, NEW t \in Tasks, ~closed,
         NEW q \in Seq(Conns), NEW r \in SUBSET Conns, NEW n \in Nat, NEW w \in Seq(Tasks),
         Transit(t, q, r), SlotsTransit(t, q, r, n), AcquireLoop(t, q, r, n, w)
  PROVE SlotsKept
BY FillLoopSlots DEF AcquireLoop, Actors

LEMMA SweepLoopSlots ==
  ASSUME BookTypes, NEW b \in Nat,
         NEW q \in Seq(Conns), NEW r \in SUBSET Conns, NEW n \in Nat, NEW w \in Seq(Tasks),
         Transit(Maint, q, r), SlotsTransit(Maint, q, r, n), SweepLoop(b, q, r, n, w)
  PROVE SlotsKept
BY FillLoopSlots, TakesHeadSlots DEF SweepLoop, Actors

-----------------------------------------------------------------------------
(* What each step hands to the loops *)

Open_ == ~closed /\ created = Slots(pool, reserving, checked_out, pc) /\ created <= MaxSize

LEMMA Counts ==
  ASSUME BookTypes, NEW at
  PROVE /\ Len(pool) \in Nat /\ Cardinality(reserving) \in Nat /\ Cardinality(checked_out) \in Nat
        /\ Openers(at) \in Nat /\ IsFiniteSet(reserving) /\ IsFiniteSet(checked_out)
BY SlotsType DEF BookTypes

LEMMA IdleSlots ==
  ASSUME BookTypes, Open_, NEW a \in Actors, pc[a] \notin ConnectingPcs
  PROVE SlotsTransit(a, pool, reserving, created)
<1>1. \A b \in Actors : pc[b] \in ConnectingPcs <=> [pc EXCEPT ![a] = "idle"][b] \in ConnectingPcs
  BY DEF BookTypes, ConnectingPcs
<1>2. Openers(pc) = Openers([pc EXCEPT ![a] = "idle"])
  BY <1>1, OpenersSame
<1>. QED
  BY <1>2 DEF Open_, SlotsTransit, Slots

LEMMA PcShrink ==
  ASSUME BookTypes, NEW a \in Actors, NEW new, pc[a] \in ConnectingPcs, new \notin ConnectingPcs
  PROVE Openers([pc EXCEPT ![a] = new]) = Openers(pc) - 1
<1>1. PICK S : pc \in [Actors -> S]
  BY DEF BookTypes
<1>. QED
  BY <1>1, OpenersShrink

\* An actor that was opening a connection gives its slot back.
LEMMA GaveUpSlots ==
  ASSUME BookTypes, Open_, NEW a \in Actors, pc[a] \in ConnectingPcs
  PROVE /\ SlotsTransit(a, pool, reserving, Dec(created))
        /\ Openers([pc EXCEPT ![a] = "idle"]) = Openers(pc) - 1
<1>1. Openers([pc EXCEPT ![a] = "idle"]) = Openers(pc) - 1
  BY PcShrink DEF ConnectingPcs
<1>2. Openers([pc EXCEPT ![a] = "idle"]) \in Nat /\ Openers(pc) \in Nat
  BY OpenersType
<1>3. Len(pool) \in Nat /\ Cardinality(reserving) \in Nat /\ Cardinality(checked_out) \in Nat
  BY Counts
<1>4. Dec(created) = created - 1 /\ created - 1 <= MaxSize
  BY <1>1, <1>2, <1>3, PoolAssumption DEF Open_, Slots, Dec
<1>. QED
  BY <1>1, <1>2, <1>3, <1>4 DEF Open_, SlotsTransit, Slots

\* It puts the new connection into the idle queue instead.
LEMMA BornSlots ==
  ASSUME BookTypes, Open_, NEW a \in Actors, pc[a] \in ConnectingPcs, NEW c \in Conns
  PROVE SlotsTransit(a, Append(pool, c), reserving, created)
<1>1. Openers([pc EXCEPT ![a] = "idle"]) = Openers(pc) - 1
  BY GaveUpSlots
<1>2. Openers(pc) \in Nat /\ Len(pool) \in Nat /\ Cardinality(reserving) \in Nat
      /\ Cardinality(checked_out) \in Nat
  BY Counts
<1>3. Len(Append(pool, c)) = Len(pool) + 1
  BY DEF BookTypes
<1>. QED
  BY <1>1, <1>2, <1>3 DEF Open_, SlotsTransit, Slots

\* A validating actor discards its connection, or appends it to the queue.
LEMMA ValidatedSlots ==
  ASSUME BookTypes, Open_, NEW a \in Actors, pc[a] = "validating", conn[a] \in reserving,
         NEW c \in Conns
  PROVE /\ SlotsTransit(a, pool, reserving \ {conn[a]}, Dec(created))
        /\ SlotsTransit(a, Append(pool, c), reserving \ {conn[a]}, created)
<1>1. SlotsTransit(a, pool, reserving, created)
  BY IdleSlots DEF ConnectingPcs
<1>2. Cardinality(reserving \ {conn[a]}) = Cardinality(reserving) - 1
  BY Counts, FS_RemoveElement
<1>3. Cardinality(reserving \ {conn[a]}) \in Nat
  BY Counts, FS_RemoveElement, FS_CardinalityType
<1>4. Openers([pc EXCEPT ![a] = "idle"]) \in Nat /\ Len(pool) \in Nat
      /\ Cardinality(reserving) \in Nat /\ Cardinality(checked_out) \in Nat
  BY Counts
<1>5. Len(Append(pool, c)) = Len(pool) + 1
  BY DEF BookTypes
<1>6. Dec(created) = created - 1 /\ created - 1 <= MaxSize
  BY <1>1, <1>2, <1>3, <1>4, PoolAssumption DEF SlotsTransit, Slots, Dec
<1>. QED
  BY SMTT(60), <1>1, <1>2, <1>3, <1>4, <1>5, <1>6 DEF SlotsTransit, Slots

-----------------------------------------------------------------------------
(* One lemma per group of actions *)

LEMMA LoopSlotInv ==
  ASSUME IInv, SlotInv, NEW t \in Tasks, Acquire(t) \/ Open(t) \/ Wake(t) PROVE SlotInv'
<1>1. BookTypes /\ t \in Actors /\ pc[t] \notin ConnectingPcs /\ pc[t] \notin Owning
      /\ Ownership /\ closed' = closed
  BY DEF IInv, TypeOK, BookTypes, Actors, Acquire, Open, Wake, ConnectingPcs, Owning
<1>. SUFFICES ASSUME ~closed PROVE SlotsKept
  BY <1>1 DEF SlotInv, SlotsKept
<1>2. SlotsTransit(t, pool, reserving, created) /\ Transit(t, pool, reserving)
  BY <1>1, IdleSlots, IdleTransit DEF SlotInv, Open_
<1>3. pool \in Seq(Conns) /\ reserving \in SUBSET Conns /\ created \in Nat /\ waiters \in Seq(Tasks)
  BY <1>1 DEF BookTypes
<1>4. CASE Acquire(t) \/ Wake(t)
  BY <1>1, <1>2, <1>3, <1>4, AcquireLoopSlots DEF Acquire, Wake
<1>5. CASE Open(t)
  BY <1>1, <1>2, <1>3, <1>5, FillLoopSlots DEF Open
<1>. QED
  BY <1>4, <1>5

LEMMA FillSlotInv ==
  ASSUME IInv, SlotInv, NEW a \in Actors, FillOk(a) \/ FillTooLate(a) \/ FillFail(a) PROVE SlotInv'
<1>1. BookTypes /\ TypeOK /\ pc[a] \in {"filling", "opening"} /\ pc[a] \in ConnectingPcs
      /\ pc[a] \notin Owning /\ Ownership /\ closed' = closed
  BY DEF IInv, TypeOK, BookTypes, FillOk, FillTooLate, FillFail, ConnectingPcs, Owning
<1>. SUFFICES ASSUME ~closed PROVE SlotsKept
  BY <1>1 DEF SlotInv, SlotsKept
<1>2. Open_
  BY DEF SlotInv, Open_
<1>3. /\ pool \in Seq(Conns) /\ reserving \in SUBSET Conns /\ created \in Nat
      /\ Dec(created) \in Nat /\ Notified(waiters) \in Seq(Tasks) /\ Transit(a, pool, reserving)
  BY <1>1, NotifiedType, DecType, IdleTransit DEF BookTypes
<1>4. CASE FillFail(a)
  BY <1>1, <1>2, <1>3, <1>4, GaveUpSlots, AfterFillSlots DEF FillFail
<1>5. CASE FillOk(a)
  <2>1. PICK c \in Conns : /\ Born(c, 0)
                           /\ FillLoop(a, pc[a], Append(pool, c), reserving, created, Notified(waiters))
    BY <1>5 DEF FillOk
  <2>2. /\ c \notin reserving /\ c \notin checked_out /\ \A i \in DOMAIN pool : pool[i] # c
        /\ \A b \in Actors : conn[b] # c
    BY <1>1, <2>1, BornFacts
  <2>3. Transit(a, Append(pool, c), reserving) /\ Append(pool, c) \in Seq(Conns)
    BY <1>1, <1>3, <2>2, AppendTransit
  <2>4. SlotsTransit(a, Append(pool, c), reserving, created)
    BY <1>1, <1>2, BornSlots
  <2>. QED
    BY <1>1, <1>3, <2>1, <2>3, <2>4, FillLoopSlots
<1>. QED
  BY <1>4, <1>5 DEF FillTooLate

LEMMA AbandonSlotInv ==
  ASSUME IInv, SlotInv, NEW t \in Tasks, AbandonSlot(t) \/ ConnectTooLate(t) PROVE SlotInv'
<1>1. BookTypes /\ t \in Actors /\ pc[t] \in ConnectingPcs /\ closed' = closed
  BY DEF IInv, TypeOK, BookTypes, AbandonSlot, ConnectTooLate, ConnectingPcs, Actors
<1>. SUFFICES ASSUME ~closed PROVE SlotsKept
  BY <1>1 DEF SlotInv, SlotsKept
<1>2. SlotsTransit(t, pool, reserving, Dec(created))
  BY <1>1, GaveUpSlots DEF SlotInv, Open_
<1>. QED
  BY <1>2 DEF AbandonSlot, ConnectTooLate, SlotsTransit, SlotsKept, Slots, Settle, At

LEMMA ConnectOkSlotInv ==
  ASSUME IInv, SlotInv, NEW t \in Tasks, ConnectOk(t) PROVE SlotInv'
<1>1. BookTypes /\ t \in Actors /\ pc[t] \in ConnectingPcs /\ Open_
  BY DEF IInv, TypeOK, BookTypes, ConnectOk, ConnectingPcs, Actors, SlotInv, Open_
<1>2. PICK c \in Conns : Born(c, 1) /\ checked_out' = checked_out \cup {c}
  BY DEF ConnectOk
<1>3. c \notin checked_out
  BY <1>2 DEF Born, Forgotten
<1>4. Cardinality(checked_out') = Cardinality(checked_out) + 1
  BY <1>1, <1>2, <1>3, Counts, FS_AddElement
<1>5. Openers(pc') = Openers(pc) - 1
  <2>1. pc' = [pc EXCEPT ![t] = "holding"] /\ "holding" \notin ConnectingPcs
    BY DEF ConnectOk, At, ConnectingPcs
  <2>2. Openers([pc EXCEPT ![t] = "holding"]) = Openers(pc) - 1
    BY <1>1, <2>1, PcShrink
  <2>. QED
    BY <2>1, <2>2
<1>6. Openers(pc) \in Nat /\ Len(pool) \in Nat /\ Cardinality(reserving) \in Nat
      /\ Cardinality(checked_out) \in Nat
  BY <1>1, Counts
<1>. QED
  BY <1>1, <1>4, <1>5, <1>6 DEF ConnectOk, SlotInv, Open_, Slots

LEMMA ValidateSlotInv ==
  ASSUME IInv, SlotInv, NEW t \in Tasks, ValidateOk(t) \/ ValidateStale(t) \/ ValidateCancelled(t)
  PROVE SlotInv'
<1>1. BookTypes /\ t \in Actors /\ pc[t] = "validating" /\ closed' = closed /\ Ownership
      /\ conn[t] \in reserving /\ conn[t] \in Conns /\ conn[t] \notin checked_out
  BY DEF IInv, TypeOK, BookTypes, ValidateOk, ValidateStale, ValidateCancelled, Actors,
         Ownership, OwnedBy, Owning
<1>. SUFFICES ASSUME ~closed PROVE SlotsKept
  BY <1>1 DEF SlotInv, SlotsKept
<1>2. SlotsTransit(t, pool, reserving \ {conn[t]}, Dec(created))
  BY <1>1, ValidatedSlots DEF SlotInv, Open_
<1>3. CASE ValidateCancelled(t)
  BY <1>2, <1>3 DEF ValidateCancelled, SlotsTransit, SlotsKept, Slots, Settle, At
<1>4. CASE ValidateStale(t)
  <2>1. /\ pool \in Seq(Conns) /\ reserving \ {conn[t]} \in SUBSET Conns
        /\ Dec(created) \in Nat /\ Notified(waiters) \in Seq(Tasks)
        /\ Transit(t, pool, reserving \ {conn[t]})
    BY <1>1, NotifiedType, DecType, DropTransit DEF BookTypes
  <2>. QED
    BY <1>1, <1>2, <1>4, <2>1, AcquireLoopSlots DEF ValidateStale
<1>5. CASE ValidateOk(t)
  <2>1. \A b \in Actors : pc'[b] \in ConnectingPcs <=> pc[b] \in ConnectingPcs
    BY <1>1, <1>5 DEF ValidateOk, At, BookTypes, ConnectingPcs
  <2>2. Openers(pc') = Openers(pc)
    BY <2>1, OpenersSame
  <2>3. /\ reserving' = reserving \ {conn[t]} /\ checked_out' = checked_out \cup {conn[t]}
        /\ pool' = pool /\ created' = created
    BY <1>5 DEF ValidateOk
  <2>4. /\ Cardinality(reserving') = Cardinality(reserving) - 1
        /\ Cardinality(checked_out') = Cardinality(checked_out) + 1
    BY <1>1, <2>3, Counts, FS_AddElement, FS_RemoveElement
  <2>5. Openers(pc) \in Nat /\ Len(pool) \in Nat /\ Cardinality(reserving) \in Nat
        /\ Cardinality(checked_out) \in Nat
    BY <1>1, Counts
  <2>. QED
    BY <2>2, <2>3, <2>4, <2>5 DEF SlotInv, SlotsKept, Slots
<1>. QED
  BY <1>3, <1>4, <1>5

\* Steps that move neither a slot nor a connection
LEMMA QuietSlotInv ==
  ASSUME IInv, SlotInv, NEW t \in Tasks,
         WaitEnds(t) \/ Use(t) \/ ReleaseRollsBack(t) \/ ReleaseCancelled(t)
  PROVE SlotInv'
<1>1. UNCHANGED <<pool, reserving, checked_out, created, closed>>
  BY DEF WaitEnds, Use, ReleaseRollsBack, ReleaseCancelled, poolVars
<1>2. pc[t] \notin ConnectingPcs /\ BookTypes
  BY DEF IInv, TypeOK, BookTypes, WaitEnds, Use, ReleaseRollsBack, ReleaseCancelled,
         ConnectingPcs, MayRelease
<1>3. \A b \in Actors : pc'[b] \in ConnectingPcs <=> pc[b] \in ConnectingPcs
  BY <1>2 DEF WaitEnds, Use, ReleaseRollsBack, ReleaseCancelled, At, BookTypes, ConnectingPcs
<1>4. Openers(pc') = Openers(pc)
  BY <1>3, OpenersSame
<1>. QED
  BY <1>1, <1>4 DEF SlotInv, Slots

LEMMA GiveBackSlotInv ==
  ASSUME IInv, SlotInv, NEW t \in Tasks,
         ReleaseDirectly(t) \/ RollbackOk(t) \/ RollbackFail(t)
  PROVE SlotInv'
<1>1. PICK s, intx : GiveBack(t, s, intx)
  BY DEF ReleaseDirectly, RollbackOk, RollbackFail
<1>2. pc[t] \notin ConnectingPcs /\ BookTypes /\ t \in Actors
  BY DEF IInv, TypeOK, BookTypes, ReleaseDirectly, RollbackOk, RollbackFail, ConnectingPcs,
         MayRelease, Actors
<1>. SUFFICES ASSUME ~closed PROVE SlotsKept
  BY <1>1 DEF SlotInv, SlotsKept, GiveBack
<1>3. \A b \in Actors : pc'[b] \in ConnectingPcs <=> pc[b] \in ConnectingPcs
  BY <1>1, <1>2 DEF GiveBack, At, BookTypes, ConnectingPcs
<1>4. Openers(pc') = Openers(pc)
  BY <1>3, OpenersSame
<1>5. reserving' = reserving
  BY <1>1 DEF GiveBack
<1>6. Openers(pc) \in Nat /\ Len(pool) \in Nat /\ Cardinality(reserving) \in Nat
      /\ Cardinality(checked_out) \in Nat
  BY <1>2, Counts
<1>7. conn[t] \in checked_out => /\ conn[t] \in Conns
                                 /\ Cardinality(checked_out \ {conn[t]}) = Cardinality(checked_out) - 1
                                 /\ Cardinality(checked_out \ {conn[t]}) \in Nat
  BY <1>2, Counts, FS_RemoveElement, FS_CardinalityType DEF BookTypes
<1>8. CASE UNCHANGED <<pool, checked_out, created>>
  BY <1>4, <1>5, <1>8 DEF SlotInv, SlotsKept, Slots
<1>9. CASE /\ conn[t] \in checked_out /\ checked_out' = checked_out \ {conn[t]}
           /\ created' = Dec(created) /\ UNCHANGED pool
  BY <1>4, <1>5, <1>6, <1>7, <1>9, PoolAssumption DEF SlotInv, SlotsKept, Slots, Dec
<1>10. CASE /\ conn[t] \in checked_out /\ checked_out' = checked_out \ {conn[t]}
            /\ created' = created /\ pool' = Append(pool, conn[t])
  <2>1. Len(pool') = Len(pool) + 1
    BY <1>2, <1>7, <1>10 DEF BookTypes
  <2>. QED
    BY <1>4, <1>5, <1>6, <1>7, <1>10, <2>1 DEF SlotInv, SlotsKept, Slots
<1>. QED
  BY <1>1, <1>8, <1>9, <1>10 DEF GiveBack

LEMMA MaintainSlotInv ==
  ASSUME IInv, SlotInv, MaintTick \/ SweepOk \/ SweepStale \/ MaintCancelled PROVE SlotInv'
<1>1. BookTypes /\ TypeOK /\ Maint \in Actors /\ closed' = closed /\ Ownership
  BY DEF IInv, TypeOK, BookTypes, Actors, MaintTick, SweepOk, SweepStale, MaintCancelled, connVars
<1>. SUFFICES ASSUME ~closed PROVE SlotsKept
  BY <1>1 DEF SlotInv, SlotsKept
<1>2. Open_
  BY DEF SlotInv, Open_
<1>3. /\ pool \in Seq(Conns) /\ reserving \in SUBSET Conns /\ created \in Nat
      /\ reserving \ {conn[Maint]} \in SUBSET Conns /\ budget \in Nat /\ Len(pool) \in Nat
      /\ Dec(created) \in Nat /\ waiters \in Seq(Tasks) /\ Notified(waiters) \in Seq(Tasks)
  <2>1. budget \in Nat /\ Len(pool) \in Nat
    BY <1>1, Counts DEF TypeOK
  <2>. QED
    BY <1>1, <2>1, NotifiedType, DecType DEF BookTypes
<1>4. CASE MaintTick
  <2>1. SlotsTransit(Maint, pool, reserving, created) /\ Transit(Maint, pool, reserving)
    BY <1>1, <1>2, <1>4, IdleSlots, IdleTransit DEF MaintTick, ConnectingPcs, Owning
  <2>. QED
    BY <1>1, <1>3, <1>4, <2>1, SweepLoopSlots DEF MaintTick
<1>5. CASE SweepOk \/ SweepStale
  <2>1. pc[Maint] = "validating"
    BY <1>5 DEF SweepOk, SweepStale
  <2>2. /\ conn[Maint] \in reserving /\ conn[Maint] \in Conns /\ conn[Maint] \notin checked_out
        /\ \A i \in DOMAIN pool : pool[i] # conn[Maint]
        /\ \A b \in Actors \ {Maint} : conn[b] # conn[Maint]
    BY <1>1, <2>1, PoolAssumption DEF Ownership, OwnedBy, Owning
  <2>3. Transit(Maint, pool, reserving \ {conn[Maint]})
    BY <1>1, <2>1, DropTransit
  <2>4. /\ Transit(Maint, Append(pool, conn[Maint]), reserving \ {conn[Maint]})
        /\ Append(pool, conn[Maint]) \in Seq(Conns)
    BY <1>1, <1>3, <2>2, <2>3, AppendTransit
  <2>5. /\ SlotsTransit(Maint, pool, reserving \ {conn[Maint]}, Dec(created))
        /\ SlotsTransit(Maint, Append(pool, conn[Maint]), reserving \ {conn[Maint]}, created)
    BY <1>1, <1>2, <2>1, <2>2, ValidatedSlots
  <2>6. CASE SweepOk
    BY <1>1, <1>3, <2>4, <2>5, <2>6, SweepLoopSlots DEF SweepOk
  <2>7. CASE SweepStale
    BY <1>1, <1>3, <2>3, <2>5, <2>7, SweepLoopSlots DEF SweepStale
  <2>. QED
    BY <1>5, <2>6, <2>7
<1>. QED
  BY <1>4, <1>5 DEF MaintCancelled

-----------------------------------------------------------------------------

LEMMA SlotInvInit == Init => SlotInv
<1>. SUFFICES ASSUME Init PROVE SlotInv
  OBVIOUS
<1>1. {a \in Actors : pc[a] \in ConnectingPcs} = {}
  BY DEF Init, ConnectingPcs
<1>2. Openers(pc) = 0 /\ Cardinality(reserving) = 0 /\ Cardinality(checked_out) = 0
  BY <1>1, FS_EmptySet DEF Openers, Init
<1>. QED
  BY <1>2, PoolAssumption DEF Init, SlotInv, Slots

LEMMA SlotInvNext ==
  ASSUME IInv, SlotInv, [Next]_vars PROVE SlotInv'
<1>1. ASSUME NEW t \in Tasks, Acquire(t) \/ Open(t) PROVE SlotInv'
  BY <1>1, LoopSlotInv
<1>2. ASSUME NEW t \in Tasks, Resume(t) PROVE SlotInv'
  BY <1>2, FillSlotInv, ConnectOkSlotInv, AbandonSlotInv, ValidateSlotInv, LoopSlotInv,
     GiveBackSlotInv DEF Resume, Actors
<1>3. ASSUME NEW t \in Tasks, Interrupt(t) PROVE SlotInv'
  BY <1>3, AbandonSlotInv, ValidateSlotInv, QuietSlotInv DEF Interrupt
<1>4. ASSUME NEW t \in Tasks, Use(t) \/ Release(t) PROVE SlotInv'
  BY <1>4, QuietSlotInv, GiveBackSlotInv DEF Release
<1>5. CASE Maintain
  BY <1>5, MaintainSlotInv, FillSlotInv DEF Maintain, Actors
<1>6. CASE CloseAll
  BY <1>6 DEF CloseAll, SlotInv
<1>7. CASE Ended \/ UNCHANGED vars
  BY <1>7 DEF Ended, vars, poolVars, SlotInv
<1>8. ASSUME NEW c \in Conns, Collected(c) PROVE SlotInv'
  BY <1>8 DEF Collected, poolVars, SlotInv
<1>. QED
  BY <1>1, <1>2, <1>3, <1>4, <1>5, <1>6, <1>7, <1>8 DEF Next

LEMMA SlotInvariance == ASSUME ForgetsReference PROVE Spec => []SlotInv
<1>1. IInv /\ SlotInv /\ [Next]_vars => SlotInv'
  BY SlotInvNext
<1>. QED
  BY <1>1, SlotInvInit, Invariance, PTL DEF Spec

\* No failure, cancellation or retirement loses a slot or frees one twice, and
\* the pool never has more than max_size connections.
THEOREM SlotsExact == ASSUME ForgetsReference PROVE Spec => []SlotAccounting
<1>1. SlotInv => SlotAccounting
  BY DEF SlotInv, SlotAccounting, Slots, Openers, Connecting, ConnectingPcs
<1>. QED
  BY <1>1, SlotInvariance, PTL

-----------------------------------------------------------------------------
(* Waiters and notifications.  w is a waiter queue, at are program counters.   *)

Queued(w) == {w[k] : k \in DOMAIN w}

\* Tasks that were notified and have not looked at the pool since
Woken(w, at) == {t \in Tasks : at[t] = "waiting" /\ t \notin Queued(w)}

Orderly(w, at) ==
  /\ \A i, j \in DOMAIN w : i # j => w[i] # w[j]
  /\ \A k \in DOMAIN w : at[w[k]] = "waiting"

\* While the pool is open and a task sleeps, every idle connection and every
\* free slot has a notified task on its way, but for short of them.
Served(q, n, w, at, short) ==
  ~closed /\ w # <<>> => Len(q) + (MaxSize - n) <= Cardinality(Woken(w, at)) + short

\* Nothing is lost but, so far, lost notifications.
WakeInv(lost) == Orderly(waiters, pc) /\ Served(pool, created, waiters, pc, lost)

LEMMA WokenFinite ==
  ASSUME NEW w, NEW at
  PROVE IsFiniteSet(Woken(w, at)) /\ Cardinality(Woken(w, at)) \in Nat
<1>1. Woken(w, at) \in SUBSET Tasks
  BY DEF Woken
<1>. QED
  BY <1>1, PoolAssumption, FS_Subset, FS_CardinalityType

LEMMA QueueFacts ==
  ASSUME NEW w \in Seq(Tasks), w # <<>>
  PROVE /\ Head(w) = w[1] /\ Head(w) \in Tasks /\ 1 \in DOMAIN w
        /\ Tail(w) \in Seq(Tasks) /\ Notified(w) = Tail(w)
        /\ \A i \in DOMAIN Tail(w) : i + 1 \in DOMAIN w /\ i + 1 # 1 /\ Tail(w)[i] = w[i + 1]
        /\ \A i \in DOMAIN w : i # 1 => i - 1 \in DOMAIN Tail(w) /\ w[i] = Tail(w)[i - 1]
        /\ DOMAIN Tail(w) \subseteq Nat
<1>1. Len(w) \in Nat /\ Len(w) > 0 /\ DOMAIN w = 1 .. Len(w)
  OBVIOUS
<1>2. Tail(w) \in Seq(Tasks) /\ Len(Tail(w)) = Len(w) - 1
  BY <1>1
<1>3. DOMAIN Tail(w) = 1 .. Len(w) - 1
  BY <1>1, <1>2
<1>4. \A i \in 1 .. Len(w) - 1 : Tail(w)[i] = w[i + 1]
  BY <1>1
<1>5. Head(w) = w[1] /\ Head(w) \in Tasks /\ Notified(w) = Tail(w)
  BY <1>1 DEF Notified
<1>. QED
  BY <1>1, <1>2, <1>3, <1>4, <1>5

\* _cond.notify(1) moves the head of the queue among the woken.
LEMMA NotifyWakes ==
  ASSUME NEW w \in Seq(Tasks), NEW at, Orderly(w, at), w # <<>>
  PROVE /\ Orderly(Notified(w), at)
        /\ Cardinality(Woken(Notified(w), at)) = Cardinality(Woken(w, at)) + 1
<1>1. /\ Head(w) = w[1] /\ Head(w) \in Tasks /\ 1 \in DOMAIN w /\ Notified(w) = Tail(w)
      /\ \A i \in DOMAIN Tail(w) : i + 1 \in DOMAIN w /\ i + 1 # 1 /\ Tail(w)[i] = w[i + 1]
      /\ \A i \in DOMAIN w : i # 1 => i - 1 \in DOMAIN Tail(w) /\ w[i] = Tail(w)[i - 1]
      /\ DOMAIN Tail(w) \subseteq Nat
  BY QueueFacts
<1>2. Orderly(Tail(w), at)
  BY <1>1 DEF Orderly
<1>3. Queued(w) = Queued(Tail(w)) \cup {Head(w)} /\ Head(w) \notin Queued(Tail(w))
  <2>1. ASSUME NEW i \in DOMAIN w, i # 1 PROVE w[i] \in Queued(Tail(w))
    <3>1. i - 1 \in DOMAIN Tail(w) /\ w[i] = Tail(w)[i - 1]
      BY <1>1, <2>1
    <3>. QED
      BY <3>1 DEF Queued
  <2>2. \A x \in Queued(Tail(w)) : x \in Queued(w) /\ x # Head(w)
    BY <1>1 DEF Queued, Orderly
  <2>3. Head(w) \in Queued(w)
    BY <1>1 DEF Queued
  <2>. QED
    <3>1. ASSUME NEW x \in Queued(w) PROVE x = Head(w) \/ x \in Queued(Tail(w))
      <4>1. PICK i \in DOMAIN w : x = w[i]
        BY <3>1 DEF Queued
      <4>. QED
        BY <1>1, <2>1, <4>1
    <3>. QED
      BY <2>2, <2>3, <3>1
<1>4. at[Head(w)] = "waiting"
  BY <1>1 DEF Orderly
<1>5. Woken(Tail(w), at) = Woken(w, at) \cup {Head(w)} /\ Head(w) \notin Woken(w, at)
  BY <1>1, <1>3, <1>4 DEF Woken
<1>. QED
  BY <1>1, <1>2, <1>5, WokenFinite, FS_AddElement

\* A notification serves one more connection or slot.
LEMMA NotifyServes ==
  ASSUME NEW w \in Seq(Tasks), NEW at, Orderly(w, at),
         NEW q \in Seq(Conns), NEW n \in Nat, NEW p \in Seq(Conns), NEW m \in Nat,
         NEW short \in Nat,
         Served(q, n, w, at, short),
         ~closed => Len(p) + (MaxSize - m) <= Len(q) + (MaxSize - n) + 1
  PROVE Orderly(Notified(w), at) /\ Served(p, m, Notified(w), at, short)
<1>1. CASE w = <<>>
  BY <1>1 DEF Notified, Served
<1>2. CASE w # <<>>
  <2>1. /\ Orderly(Notified(w), at)
        /\ Cardinality(Woken(Notified(w), at)) = Cardinality(Woken(w, at)) + 1
    BY <1>2, NotifyWakes
  <2>2. Cardinality(Woken(w, at)) \in Nat /\ Len(p) \in Nat /\ Len(q) \in Nat
    BY WokenFinite
  <2>. QED
    BY <1>2, <2>1, <2>2, PoolAssumption DEF Served
<1>. QED
  BY <1>1, <1>2

\* A task that leaves the queue from any place is not woken by it.
LEMMA LeavesQueue ==
  ASSUME NEW w \in Seq(Tasks), NEW at, Orderly(w, at), NEW k \in DOMAIN w, NEW bt,
         bt[w[k]] # "waiting", \A t \in Tasks \ {w[k]} : bt[t] = at[t]
  PROVE /\ Orderly(WithoutAt(w, k), bt) /\ WithoutAt(w, k) \in Seq(Tasks)
        /\ Woken(WithoutAt(w, k), bt) = Woken(w, at)
<1>. DEFINE v == WithoutAt(w, k)
<1>1. Len(w) \in Nat /\ k \in 1 .. Len(w) /\ DOMAIN w = 1 .. Len(w)
      /\ \A i \in DOMAIN w : w[i] \in Tasks
  OBVIOUS
<1>2. v \in Seq(Tasks)
  BY WithoutAtType
<1>3. DOMAIN v = 1 .. Len(w) - 1
  BY DEF WithoutAt
<1>4. \A i \in DOMAIN v : v[i] = IF i < k THEN w[i] ELSE w[i + 1]
  BY <1>3 DEF WithoutAt
<1>. HIDE DEF v
<1>5. \A i \in DOMAIN v : i \in DOMAIN w /\ i + 1 \in DOMAIN w
  BY <1>1, <1>3
<1>6. \A i \in DOMAIN v : v[i] # w[k] /\ v[i] \in Queued(w)
  BY <1>1, <1>3, <1>4, <1>5 DEF Orderly, Queued
<1>7. \A i, j \in DOMAIN v : i # j => v[i] # v[j]
  BY <1>1, <1>3, <1>4, <1>5 DEF Orderly
<1>8. \A i \in DOMAIN v : bt[v[i]] = "waiting"
  BY <1>2, <1>6 DEF Orderly, Queued
<1>9. \A i \in DOMAIN w : i # k => w[i] \in Queued(v)
  <2>. SUFFICES ASSUME NEW i \in DOMAIN w, i # k PROVE w[i] \in Queued(v)
    OBVIOUS
  <2>1. CASE i < k
    <3>1. i \in DOMAIN v /\ v[i] = w[i]
      BY <1>1, <1>3, <1>4, <2>1
    <3>. QED
      BY <3>1 DEF Queued
  <2>2. CASE i > k
    <3>1. i - 1 \in DOMAIN v /\ ~(i - 1 < k) /\ (i - 1) + 1 = i
      BY <1>1, <1>3, <2>2
    <3>2. v[i - 1] = w[i]
      BY <1>4, <3>1
    <3>. QED
      BY <3>1, <3>2 DEF Queued
  <2>. QED
    BY <1>1, <2>1, <2>2
<1>10. Queued(w) = Queued(v) \cup {w[k]} /\ w[k] \notin Queued(v)
  BY <1>6, <1>9 DEF Queued
<1>11. Woken(v, bt) = Woken(w, at)
  BY <1>10 DEF Woken
<1>. QED
  BY <1>2, <1>7, <1>8, <1>11 DEF v, Orderly

-----------------------------------------------------------------------------
(* The loops                                                                   *)

WakeTransit(a, q, n, w, short) ==
  Orderly(w, [pc EXCEPT ![a] = "idle"]) /\ Served(q, n, w, [pc EXCEPT ![a] = "idle"], short)

WakeKept(lost) == Orderly(waiters', pc') /\ Served(pool', created', waiters', pc', lost)

\* The loop that ends with nobody more asleep and nobody less on his way
LEMMA GoesOn ==
  ASSUME BookTypes, NEW a \in Actors, NEW w \in Seq(Tasks), NEW where, where # "waiting",
         Orderly(w, [pc EXCEPT ![a] = "idle"]), At(a, where)
  PROVE Orderly(w, pc') /\ Woken(w, pc') = Woken(w, [pc EXCEPT ![a] = "idle"])
<1>1. \A t \in Tasks : pc'[t] = "waiting" <=> [pc EXCEPT ![a] = "idle"][t] = "waiting"
  BY DEF BookTypes, At, Actors
<1>2. \A k \in DOMAIN w : w[k] \in Tasks
  OBVIOUS
<1>. QED
  BY <1>1, <1>2 DEF Orderly, Woken

LEMMA GoesOnServed ==
  ASSUME NEW lost \in Nat,
         BookTypes, NEW a \in Actors, NEW w \in Seq(Tasks), NEW where, where # "waiting",
         NEW q \in Seq(Conns), NEW n \in Nat, NEW short \in Nat,
         WakeTransit(a, q, n, w, short), At(a, where), waiters' = w,
         Len(pool') + (MaxSize - created') <= Len(q) + (MaxSize - n) + lost - short,
         pool' \in Seq(Conns), created' \in Nat
  PROVE WakeKept(lost)
<1>1. Orderly(w, pc') /\ Woken(w, pc') = Woken(w, [pc EXCEPT ![a] = "idle"])
  BY GoesOn DEF WakeTransit
<1>2. Cardinality(Woken(w, pc')) \in Nat /\ Len(q) \in Nat /\ Len(pool') \in Nat
  BY WokenFinite
<1>3. ASSUME ~closed, w # <<>>
      PROVE  Len(pool') + (MaxSize - created') <= Cardinality(Woken(w, pc')) + lost
  <2>1. Len(q) + (MaxSize - n) <= Cardinality(Woken(w, pc')) + short
    BY <1>1, <1>3 DEF WakeTransit, Served
  <2>2. MaxSize \in Nat
    BY PoolAssumption
  <2>3. \A x, y, k, m, l \in Nat :
          /\ y + (m - l) <= x + (m - n) + lost - short
          /\ x + (m - n) <= k + short
          => y + (m - l) <= k + lost
    OBVIOUS
  <2>. QED
    BY <1>2, <2>1, <2>2, <2>3
<1>4. Served(pool', created', w, pc', lost)
  BY <1>3 DEF Served
<1>. QED
  BY <1>1, <1>4 DEF WakeTransit, WakeKept

LEMMA TailShorter ==
  ASSUME NEW q \in Seq(Conns), q # <<>> PROVE Tail(q) \in Seq(Conns) /\ Len(Tail(q)) = Len(q) - 1
OBVIOUS

\* An acquirer takes what a notification promised, or finds nothing left.
LEMMA ProceedServed ==
  ASSUME NEW lost \in Nat, BookTypes, NEW t \in Tasks,
         NEW q \in Seq(Conns), NEW r \in SUBSET Conns, NEW n \in Nat, NEW w \in Seq(Tasks),
         WakeTransit(t, q, n, w, lost + 1), Proceed(t, q, r, n, w)
  PROVE WakeKept(lost)
<1>. t \in Actors
  BY DEF Actors
<1>1. CASE q # <<>> /\ Settle(Tail(q), r \cup {Head(q)}, n, w) /\ At(t, "validating")
  <2>1. Tail(q) \in Seq(Conns) /\ Len(Tail(q)) = Len(q) - 1 /\ Len(q) \in Nat
    BY <1>1, TailShorter
  <2>. QED
    BY <1>1, <2>1, GoesOnServed, PoolAssumption DEF Settle
<1>2. CASE SlotFree(n) /\ Settle(q, r, n + 1, w) /\ At(t, "connecting")
  <2>1. Len(q) \in Nat
    OBVIOUS
  <2>. QED
    BY <1>2, <2>1, GoesOnServed, PoolAssumption DEF Settle
<1>3. CASE q = <<>> /\ ~SlotFree(n) /\ Settle(q, r, n, Append(w, t)) /\ At(t, "waiting")
  <2>. DEFINE at == [pc EXCEPT ![t] = "idle"]
  <2>1. Orderly(w, at) /\ at[t] # "waiting" /\ pc'[t] = "waiting"
        /\ \A s \in Tasks \ {t} : pc'[s] = at[s]
    BY <1>3 DEF WakeTransit, BookTypes, At
  <2>. HIDE DEF at
  <2>2. /\ Len(w) \in Nat /\ DOMAIN w = 1 .. Len(w) /\ \A i \in DOMAIN w : w[i] \in Tasks
        /\ DOMAIN Append(w, t) = 1 .. Len(w) + 1
        /\ \A i \in DOMAIN w : Append(w, t)[i] = w[i]
        /\ Append(w, t)[Len(w) + 1] = t
    OBVIOUS
  <2>3. \A i \in DOMAIN w : w[i] # t
    BY <2>1 DEF Orderly
  <2>4. \A i \in DOMAIN Append(w, t) : i \in DOMAIN w \/ i = Len(w) + 1
    BY <2>2
  <2>5. Orderly(Append(w, t), pc')
    BY <2>1, <2>2, <2>3, <2>4 DEF Orderly
  <2>6. Cardinality(Woken(Append(w, t), pc')) \in Nat
    BY WokenFinite
  <2>7. Len(q) = 0
    BY <1>3
  <2>. QED
    BY <1>3, <2>5, <2>6, <2>7, PoolAssumption DEF WakeKept, Served, Settle, SlotFree
<1>4. CASE q = <<>> /\ ~SlotFree(n) /\ Settle(q, r, n, w) /\ At(t, "idle")
  <2>1. Orderly(w, pc')
    BY <1>4, GoesOn DEF WakeTransit
  <2>2. Cardinality(Woken(w, pc')) \in Nat
    BY WokenFinite
  <2>3. Len(q) = 0
    BY <1>4
  <2>. QED
    BY <1>4, <2>1, <2>2, <2>3, PoolAssumption DEF WakeKept, Served, Settle, SlotFree
<1>. QED
  BY <1>1, <1>2, <1>3, <1>4 DEF Proceed

\* Only an acquirer may come here one short: it goes on to Proceed.
ShortOf(a, how) == IF a \in Tasks /\ how = "filling" THEN 1 ELSE 0

LEMMA TransitWeaken ==
  ASSUME NEW lost \in Nat, NEW a \in Actors, NEW q \in Seq(Conns), NEW n \in Nat, NEW w \in Seq(Tasks),
         WakeTransit(a, q, n, w, lost)
  PROVE WakeTransit(a, q, n, w, lost + 1)
<1>1. Cardinality(Woken(w, [pc EXCEPT ![a] = "idle"])) \in Nat /\ Len(q) \in Nat
  BY WokenFinite
<1>. QED
  BY <1>1, PoolAssumption DEF WakeTransit, Served

LEMMA AfterFillServed ==
  ASSUME NEW lost \in Nat, BookTypes, NEW a \in Actors, NEW how,
         NEW q \in Seq(Conns), NEW r \in SUBSET Conns, NEW n \in Nat, NEW w \in Seq(Tasks),
         WakeTransit(a, q, n, w, lost + ShortOf(a, how)), AfterFill(a, how, q, r, n, w)
  PROVE WakeKept(lost)
<1>. Len(q) \in Nat
  OBVIOUS
<1>1. CASE a \in Tasks /\ how = "filling" /\ Proceed(a, q, r, n, w)
  BY <1>1, ProceedServed DEF ShortOf
<1>2. CASE /\ a \in Tasks /\ how = "opening" /\ Settle(q, r, n, w)
           /\ pc' = [pc EXCEPT ![a] = "idle",
                               ![Maint] = IF @ = "off" /\ ~closed THEN "sleeping" ELSE @]
  <2>. DEFINE at == [pc EXCEPT ![a] = "idle"]
  <2>1. \A t \in Tasks : pc'[t] = "waiting" <=> at[t] = "waiting"
    BY <1>2, PoolAssumption DEF BookTypes, Actors
  <2>2. Orderly(w, at) /\ Served(q, n, w, at, lost)
    BY <1>2 DEF WakeTransit, ShortOf
  <2>. HIDE DEF at
  <2>3. \A k \in DOMAIN w : w[k] \in Tasks
    OBVIOUS
  <2>4. Orderly(w, pc') /\ Woken(w, pc') = Woken(w, at)
    BY <2>1, <2>2, <2>3 DEF Orderly, Woken
  <2>. QED
    BY <1>2, <2>2, <2>4 DEF WakeKept, Served, Settle
<1>3. CASE a = Maint /\ Settle(q, r, n, w) /\ At(a, "sleeping")
  <2>1. WakeTransit(a, q, n, w, lost)
    BY <1>3, PoolAssumption DEF ShortOf
  <2>. QED
    BY <1>3, <2>1, GoesOnServed, PoolAssumption DEF Settle
<1>. QED
  BY <1>1, <1>2, <1>3 DEF AfterFill

LEMMA FillLoopServed ==
  ASSUME NEW lost \in Nat, BookTypes, NEW a \in Actors, NEW how \in {"filling", "opening"},
         NEW q \in Seq(Conns), NEW r \in SUBSET Conns, NEW n \in Nat, NEW w \in Seq(Tasks),
         WakeTransit(a, q, n, w, lost + ShortOf(a, how)), FillLoop(a, how, q, r, n, w)
  PROVE WakeKept(lost)
<1>1. CASE AfterFill(a, how, q, r, n, w)
  BY <1>1, AfterFillServed
<1>2. CASE Settle(q, r, n + 1, w) /\ At(a, how)
  <2>1. ShortOf(a, how) \in {0, 1} /\ Len(q) \in Nat
    BY DEF ShortOf
  <2>. QED
    <3>1. WakeTransit(a, q, n, w, lost + 1)
      BY <2>1, TransitWeaken
    <3>. QED
      BY <1>2, <2>1, <3>1, GoesOnServed, PoolAssumption DEF Settle
<1>. QED
  BY <1>1, <1>2 DEF FillLoop

LEMMA AcquireLoopServed ==
  ASSUME NEW lost \in Nat, BookTypes, NEW t \in Tasks,
         NEW q \in Seq(Conns), NEW r \in SUBSET Conns, NEW n \in Nat, NEW w \in Seq(Tasks),
         WakeTransit(t, q, n, w, lost + 1), AcquireLoop(t, q, r, n, w)
  PROVE WakeKept(lost)
<1>. t \in Actors
  BY DEF Actors
<1>1. CASE FillLoop(t, "filling", q, r, n, w)
  BY <1>1, FillLoopServed DEF ShortOf
<1>2. CASE closed /\ Settle(q, r, n, w) /\ At(t, "idle")
  <2>1. Orderly(w, pc')
    BY <1>2, GoesOn DEF WakeTransit
  <2>. QED
    BY <1>2, <2>1 DEF WakeKept, Served, Settle
<1>. QED
  BY <1>1, <1>2 DEF AcquireLoop

LEMMA SweepLoopServed ==
  ASSUME NEW lost \in Nat, BookTypes, NEW b \in Nat,
         NEW q \in Seq(Conns), NEW r \in SUBSET Conns, NEW n \in Nat, NEW w \in Seq(Tasks),
         WakeTransit(Maint, q, n, w, lost), SweepLoop(b, q, r, n, w)
  PROVE WakeKept(lost)
<1>. Maint \in Actors /\ ShortOf(Maint, "filling") = 0
  BY PoolAssumption DEF Actors, ShortOf
<1>1. CASE FillLoop(Maint, "filling", q, r, n, w)
  BY <1>1, FillLoopServed
<1>2. CASE q # <<>> /\ Settle(Tail(q), r \cup {Head(q)}, n, w) /\ At(Maint, "validating")
  <2>1. Tail(q) \in Seq(Conns) /\ Len(Tail(q)) = Len(q) - 1 /\ Len(q) \in Nat
    BY <1>2, TailShorter
  <2>. QED
    BY <1>2, <2>1, GoesOnServed, PoolAssumption DEF Settle
<1>. QED
  BY <1>1, <1>2 DEF SweepLoop

-----------------------------------------------------------------------------
(* What each step hands to the loops *)

\* An actor that does not wait enters a loop.
LEMMA EntersServed ==
  ASSUME NEW lost \in Nat, BookTypes, WakeInv(lost), NEW a \in Actors, pc[a] # "waiting"
  PROVE WakeTransit(a, pool, created, waiters, lost)
<1>1. \A t \in Tasks : pc[t] = "waiting" <=> [pc EXCEPT ![a] = "idle"][t] = "waiting"
  BY DEF BookTypes, Actors
<1>2. waiters \in Seq(Tasks) /\ \A k \in DOMAIN waiters : waiters[k] \in Tasks
  BY DEF BookTypes
<1>. QED
  BY <1>1, <1>2 DEF WakeTransit, WakeInv, Orderly, Served, Woken

\* It gives a slot or a connection back first, and notifies.
LEMMA GivesServed ==
  ASSUME NEW lost \in Nat, BookTypes, WakeInv(lost), NEW a \in Actors, pc[a] # "waiting",
         NEW q \in Seq(Conns), NEW n \in Nat,
         ~closed => Len(q) + (MaxSize - n) <= Len(pool) + (MaxSize - created) + 1
  PROVE WakeTransit(a, q, n, Notified(waiters), lost)
<1>1. WakeTransit(a, pool, created, waiters, lost)
  BY EntersServed
<1>2. waiters \in Seq(Tasks) /\ pool \in Seq(Conns) /\ created \in Nat /\ 0 \in Nat
  BY DEF BookTypes
<1>. QED
  BY <1>1, <1>2, NotifyServes DEF WakeTransit

\* A task that was notified resumes: one fewer is on its way.
LEMMA ResumesServed ==
  ASSUME NEW lost \in Nat,
         BookTypes, WakeInv(lost), NEW t \in Tasks, pc[t] = "waiting", t \notin Queued(waiters)
  PROVE WakeTransit(t, pool, created, waiters, lost + 1)
<1>. DEFINE at == [pc EXCEPT ![t] = "idle"]
<1>1. /\ at[t] # "waiting" /\ \A s \in Tasks \ {t} : at[s] = pc[s]
  BY DEF BookTypes, Actors
<1>. HIDE DEF at
<1>2. waiters \in Seq(Tasks) /\ \A k \in DOMAIN waiters : waiters[k] \in Tasks \ {t}
  BY DEF BookTypes, Queued
<1>3. Orderly(waiters, at)
  BY <1>1, <1>2 DEF WakeInv, Orderly
<1>4. Woken(waiters, at) = Woken(waiters, pc) \ {t} /\ t \in Woken(waiters, pc)
  BY <1>1 DEF Woken
<1>5. Cardinality(Woken(waiters, at)) = Cardinality(Woken(waiters, pc)) - 1
  BY <1>4, WokenFinite, FS_RemoveElement
<1>6. Cardinality(Woken(waiters, pc)) \in Nat
  BY WokenFinite
<1>. QED
  BY <1>3, <1>5, <1>6 DEF at, WakeTransit, WakeInv, Served

LEMMA SlotOwned ==
  ASSUME BookTypes, Open_, NEW a \in Actors,
         pc[a] \in ConnectingPcs \/ conn[a] \in reserving \/ conn[a] \in checked_out
  PROVE Dec(created) = created - 1
<1>1. Openers(pc) \in Nat /\ Len(pool) \in Nat /\ Cardinality(reserving) \in Nat
      /\ Cardinality(checked_out) \in Nat
  BY Counts
<1>2. CASE pc[a] \in ConnectingPcs
  <2>1. Openers([pc EXCEPT ![a] = "idle"]) = Openers(pc) - 1
        /\ Openers([pc EXCEPT ![a] = "idle"]) \in Nat
    BY <1>2, GaveUpSlots, OpenersType
  <2>. QED
    BY <1>1, <2>1, PoolAssumption DEF Open_, Slots, Dec
<1>3. CASE conn[a] \in reserving
  <2>1. Cardinality(reserving \ {conn[a]}) = Cardinality(reserving) - 1
        /\ Cardinality(reserving \ {conn[a]}) \in Nat
    BY <1>3, Counts, FS_RemoveElement, FS_CardinalityType
  <2>. QED
    BY <1>1, <2>1, PoolAssumption DEF Open_, Slots, Dec
<1>4. CASE conn[a] \in checked_out
  <2>1. Cardinality(checked_out \ {conn[a]}) = Cardinality(checked_out) - 1
        /\ Cardinality(checked_out \ {conn[a]}) \in Nat
    BY <1>4, Counts, FS_RemoveElement, FS_CardinalityType
  <2>. QED
    BY <1>1, <2>1, PoolAssumption DEF Open_, Slots, Dec
<1>. QED
  BY <1>2, <1>3, <1>4

\* One connection more in the queue, or one slot more.
LEMMA OneMore ==
  ASSUME BookTypes, SlotInv, NEW a \in Actors
  PROVE /\ \A c \in Conns : /\ Append(pool, c) \in Seq(Conns)
                             /\ Len(Append(pool, c)) + (MaxSize - created)
                                   <= Len(pool) + (MaxSize - created) + 1
        /\ ~closed /\ (pc[a] \in ConnectingPcs \/ conn[a] \in reserving \/ conn[a] \in checked_out)
             => Len(pool) + (MaxSize - Dec(created)) <= Len(pool) + (MaxSize - created) + 1
        /\ Dec(created) \in Nat
<1>1. Len(pool) \in Nat /\ created \in Nat /\ pool \in Seq(Conns)
  BY Counts DEF BookTypes
<1>2. \A c \in Conns : Append(pool, c) \in Seq(Conns) /\ Len(Append(pool, c)) = Len(pool) + 1
  BY <1>1
<1>3. ~closed /\ (pc[a] \in ConnectingPcs \/ conn[a] \in reserving \/ conn[a] \in checked_out)
        => Dec(created) = created - 1
  BY SlotOwned DEF SlotInv, Open_
<1>4. Dec(created) \in Nat /\ MaxSize \in Nat
  BY <1>1, DecType, PoolAssumption
<1>5. \A c \in Conns : Len(Append(pool, c)) + (MaxSize - created)
                          <= Len(pool) + (MaxSize - created) + 1
  BY <1>1, <1>2, <1>4
<1>6. Dec(created) = created - 1
        => Len(pool) + (MaxSize - Dec(created)) <= Len(pool) + (MaxSize - created) + 1
  BY <1>1, <1>4
<1>. QED
  BY <1>2, <1>3, <1>4, <1>5, <1>6

-----------------------------------------------------------------------------
(* One lemma per group of actions *)

LEMMA LoopWakeInv ==
  ASSUME NEW lost \in Nat,
         IInv, WakeInv(lost), NEW t \in Tasks, Acquire(t) \/ Open(t) \/ Wake(t)
  PROVE WakeInv(lost)'
<1>1. /\ BookTypes /\ t \in Actors /\ closed' = closed
      /\ pool \in Seq(Conns) /\ reserving \in SUBSET Conns /\ created \in Nat /\ waiters \in Seq(Tasks)
  BY DEF IInv, TypeOK, BookTypes, Actors, Acquire, Open, Wake
<1>. SUFFICES WakeKept(lost)
  BY <1>1 DEF WakeInv, WakeKept, Served
<1>2. CASE Acquire(t)
  <2>1. WakeTransit(t, pool, created, waiters, lost + 1)
    BY <1>1, <1>2, EntersServed, TransitWeaken DEF Acquire
  <2>. QED
    BY <1>1, <1>2, <2>1, AcquireLoopServed DEF Acquire
<1>3. CASE Wake(t)
  <2>1. WakeTransit(t, pool, created, waiters, lost + 1)
    BY <1>1, <1>3, ResumesServed DEF Wake, Asleep, Queued
  <2>. QED
    BY <1>1, <1>3, <2>1, AcquireLoopServed DEF Wake
<1>4. CASE Open(t)
  <2>1. WakeTransit(t, pool, created, waiters, lost) /\ ShortOf(t, "opening") = 0
    BY <1>1, <1>4, EntersServed DEF Open, ShortOf
  <2>. QED
    BY <1>1, <1>4, <2>1, FillLoopServed DEF Open
<1>. QED
  BY <1>2, <1>3, <1>4

\* A loop that anyone may enter: nothing is short.
LEMMA AnyShort ==
  ASSUME NEW lost \in Nat,
         NEW a \in Actors, NEW how, NEW q \in Seq(Conns), NEW n \in Nat, NEW w \in Seq(Tasks),
         WakeTransit(a, q, n, w, lost)
  PROVE WakeTransit(a, q, n, w, lost + ShortOf(a, how))
BY TransitWeaken DEF ShortOf

LEMMA FillWakeInv ==
  ASSUME NEW lost \in Nat,
         IInv, SlotInv, WakeInv(lost), NEW a \in Actors, FillOk(a) \/ FillTooLate(a) \/ FillFail(a)
  PROVE WakeInv(lost)'
<1>1. /\ BookTypes /\ pc[a] \in {"filling", "opening"} /\ pc[a] \in ConnectingPcs
      /\ pc[a] # "waiting" /\ closed' = closed
      /\ pool \in Seq(Conns) /\ reserving \in SUBSET Conns /\ created \in Nat
      /\ waiters \in Seq(Tasks) /\ Dec(created) \in Nat /\ Notified(waiters) \in Seq(Tasks)
  BY NotifiedType, DecType DEF IInv, TypeOK, BookTypes, FillOk, FillTooLate, FillFail, ConnectingPcs
<1>. SUFFICES WakeKept(lost)
  BY <1>1 DEF WakeInv, WakeKept, Served
<1>2. CASE FillFail(a)
  <2>1. WakeTransit(a, pool, Dec(created), Notified(waiters), lost)
    BY <1>1, OneMore, GivesServed
  <2>2. WakeTransit(a, pool, Dec(created), Notified(waiters), lost + ShortOf(a, pc[a]))
    BY <1>1, <2>1, AnyShort
  <2>. QED
    BY <1>1, <1>2, <2>2, AfterFillServed DEF FillFail
<1>3. CASE FillTooLate(a)
  <2>1. WakeTransit(a, pool, created, waiters, lost)
    BY <1>1, EntersServed
  <2>2. WakeTransit(a, pool, Dec(created), waiters, lost + ShortOf(a, pc[a]))
    BY <1>3, <2>1 DEF WakeTransit, Served, FillTooLate
  <2>. QED
    BY <1>1, <1>3, <2>2, AfterFillServed DEF FillTooLate
<1>4. CASE FillOk(a)
  <2>1. PICK c \in Conns : FillLoop(a, pc[a], Append(pool, c), reserving, created, Notified(waiters))
    BY <1>4 DEF FillOk
  <2>2. Append(pool, c) \in Seq(Conns) /\ WakeTransit(a, Append(pool, c), created, Notified(waiters), lost)
    BY <1>1, OneMore, GivesServed
  <2>3. WakeTransit(a, Append(pool, c), created, Notified(waiters), lost + ShortOf(a, pc[a]))
    BY <1>1, <2>2, AnyShort
  <2>. QED
    BY <1>1, <2>1, <2>2, <2>3, FillLoopServed
<1>. QED
  BY <1>2, <1>3, <1>4

\* A connect or a validation that is given up
LEMMA GivesUpWakeInv ==
  ASSUME NEW lost \in Nat, IInv, SlotInv, WakeInv(lost), NEW t \in Tasks,
         AbandonSlot(t) \/ ConnectTooLate(t) \/ ValidateCancelled(t)
  PROVE WakeInv(lost)'
<1>1. /\ BookTypes /\ t \in Actors /\ pc[t] # "waiting" /\ closed' = closed
      /\ pc[t] \in ConnectingPcs \/ conn[t] \in reserving
      /\ pool \in Seq(Conns) /\ Dec(created) \in Nat /\ Notified(waiters) \in Seq(Tasks)
  BY NotifiedType, DecType DEF IInv, TypeOK, BookTypes, Ownership, OwnedBy, Actors, AbandonSlot,
     ConnectTooLate, ValidateCancelled, ConnectingPcs
<1>2. WakeTransit(t, pool, Dec(created), Notified(waiters), lost)
  BY <1>1, OneMore, GivesServed
<1>3. pool' = pool /\ created' = Dec(created) /\ waiters' = Notified(waiters) /\ At(t, "idle")
  BY DEF AbandonSlot, ConnectTooLate, ValidateCancelled, Settle
<1>4. Len(pool') + (MaxSize - created') <= Len(pool) + (MaxSize - Dec(created)) + lost - lost
  BY <1>1, <1>3, PoolAssumption
<1>5. WakeKept(lost)
  <2>1. pool' \in Seq(Conns) /\ created' \in Nat /\ "idle" # "waiting"
    BY <1>1, <1>3
  <2>. QED
    BY <1>1, <1>2, <1>3, <1>4, <2>1, GoesOnServed
<1>. QED
  BY <1>1, <1>5 DEF WakeInv, WakeKept, Served

LEMMA ValidateStaleWakeInv ==
  ASSUME NEW lost \in Nat,
         IInv, SlotInv, WakeInv(lost), NEW t \in Tasks, ValidateStale(t)
  PROVE WakeInv(lost)'
<1>1. /\ BookTypes /\ t \in Actors /\ pc[t] # "waiting" /\ closed' = closed /\ conn[t] \in reserving
      /\ pool \in Seq(Conns) /\ reserving \ {conn[t]} \in SUBSET Conns
      /\ Dec(created) \in Nat /\ Notified(waiters) \in Seq(Tasks)
  BY NotifiedType, DecType DEF IInv, TypeOK, BookTypes, Ownership, OwnedBy, Actors, ValidateStale
<1>2. WakeTransit(t, pool, Dec(created), Notified(waiters), lost)
  BY <1>1, OneMore, GivesServed
<1>3. WakeTransit(t, pool, Dec(created), Notified(waiters), lost + 1)
  BY <1>1, <1>2, TransitWeaken
<1>4. WakeKept(lost)
  BY <1>1, <1>3, AcquireLoopServed DEF ValidateStale
<1>. QED
  BY <1>1, <1>4 DEF WakeInv, WakeKept, Served

\* Steps that move neither a slot, nor an idle connection, nor a waiter
LEMMA QuietWakeInv ==
  ASSUME NEW lost \in Nat, IInv, WakeInv(lost), NEW t \in Tasks,
         ConnectOk(t) \/ ValidateOk(t) \/ Use(t) \/ ReleaseRollsBack(t) \/ ReleaseCancelled(t)
  PROVE WakeInv(lost)'
<1>1. UNCHANGED <<pool, created, closed, waiters>>
  BY DEF ConnectOk, ValidateOk, Use, ReleaseRollsBack, ReleaseCancelled, poolVars
<1>2. pc[t] # "waiting" /\ BookTypes
  BY DEF IInv, TypeOK, BookTypes, ConnectOk, ValidateOk, Use, ReleaseRollsBack, ReleaseCancelled,
         MayRelease
<1>3. \A s \in Tasks : pc'[s] = "waiting" <=> pc[s] = "waiting"
  BY <1>2 DEF ConnectOk, ValidateOk, Use, ReleaseRollsBack, ReleaseCancelled, At, BookTypes, Actors
<1>4. \A k \in DOMAIN waiters : waiters[k] \in Tasks
  BY <1>2 DEF BookTypes
<1>5. Orderly(waiters, pc') /\ Woken(waiters, pc') = Woken(waiters, pc)
  BY <1>3, <1>4 DEF WakeInv, Orderly, Woken
<1>. QED
  BY <1>1, <1>5 DEF WakeInv, Served

LEMMA GiveBackWakeInv ==
  ASSUME NEW lost \in Nat, IInv, SlotInv, WakeInv(lost), NEW t \in Tasks,
         ReleaseDirectly(t) \/ RollbackOk(t) \/ RollbackFail(t)
  PROVE WakeInv(lost)'
<1>1. PICK s, intx : GiveBack(t, s, intx)
  BY DEF ReleaseDirectly, RollbackOk, RollbackFail
<1>2. /\ pc[t] # "waiting" /\ BookTypes /\ t \in Actors /\ checked_out \subseteq Conns
      /\ pool \in Seq(Conns) /\ created \in Nat /\ waiters \in Seq(Tasks)
      /\ Dec(created) \in Nat /\ Notified(waiters) \in Seq(Tasks)
  BY NotifiedType, DecType DEF IInv, TypeOK, BookTypes, ReleaseDirectly, RollbackOk, RollbackFail,
     MayRelease, Actors
<1>3. closed' = closed /\ At(t, "idle")
  BY <1>1 DEF GiveBack
<1>4. CASE UNCHANGED <<pool, created, waiters>>
  <2>1. WakeTransit(t, pool, created, waiters, lost) /\ Len(pool) \in Nat
    BY <1>2, EntersServed
  <2>2. WakeKept(lost)
    BY <1>2, <1>3, <1>4, <2>1, GoesOnServed, PoolAssumption
  <2>. QED
    BY <1>3, <2>2 DEF WakeInv, WakeKept, Served
<1>5. CASE /\ conn[t] \in checked_out /\ created' = Dec(created) /\ waiters' = Notified(waiters)
           /\ UNCHANGED pool
  <2>1. WakeTransit(t, pool, Dec(created), Notified(waiters), lost) /\ Len(pool) \in Nat
    BY <1>2, <1>5, OneMore, GivesServed
  <2>2. WakeKept(lost)
    BY <1>2, <1>3, <1>5, <2>1, GoesOnServed, PoolAssumption
  <2>. QED
    BY <1>3, <2>2 DEF WakeInv, WakeKept, Served
<1>6. CASE /\ conn[t] \in checked_out /\ pool' = Append(pool, conn[t])
           /\ waiters' = Notified(waiters) /\ UNCHANGED created
  <2>1. conn[t] \in Conns
    BY <1>2, <1>6
  <2>2. /\ Append(pool, conn[t]) \in Seq(Conns)
        /\ Len(Append(pool, conn[t])) + (MaxSize - created) <= Len(pool) + (MaxSize - created) + 1
    BY <1>2, <2>1, OneMore
  <2>3. WakeTransit(t, Append(pool, conn[t]), created, Notified(waiters), lost)
    BY <1>2, <2>2, GivesServed
  <2>4. Len(pool') + (MaxSize - created')
          <= Len(Append(pool, conn[t])) + (MaxSize - created) + lost - lost
    <3>1. Len(Append(pool, conn[t])) \in Nat
      BY <2>2
    <3>. QED
      BY <1>2, <1>6, <3>1, PoolAssumption
  <2>5. WakeKept(lost)
    <3>1. pool' \in Seq(Conns) /\ created' \in Nat /\ "idle" # "waiting"
      BY <1>2, <1>6, <2>2
    <3>. QED
      BY <1>2, <1>3, <1>6, <2>2, <2>3, <2>4, <3>1, GoesOnServed
  <2>. QED
    BY <1>3, <2>5 DEF WakeInv, WakeKept, Served
<1>. QED
  BY <1>1, <1>4, <1>5, <1>6 DEF GiveBack

\* A wait that is cancelled or times out passes its notification on, or had none.
LEMMA WaitEndsWakeInv ==
  ASSUME NEW lost \in Nat, IInv, WakeInv(lost), NEW t \in Tasks, WaitEnds(t),
         NotifyOnCancel \/ t \in Asleep
  PROVE WakeInv(lost)'
<1>1. /\ BookTypes /\ t \in Actors /\ closed' = closed /\ pc[t] = "waiting" /\ At(t, "idle")
      /\ pool \in Seq(Conns) /\ created \in Nat /\ waiters \in Seq(Tasks)
      /\ UNCHANGED <<pool, created>> /\ Len(pool) \in Nat
  BY DEF IInv, TypeOK, BookTypes, Actors, WaitEnds
<1>. SUFFICES WakeKept(lost)
  BY <1>1 DEF WakeInv, WakeKept, Served
<1>2. pc' = [pc EXCEPT ![t] = "idle"]
  BY <1>1 DEF At
<1>3. CASE t \notin Asleep /\ waiters' = Notified(waiters)
  <2>1. WakeTransit(t, pool, created, waiters, lost + 1)
    BY <1>1, <1>3, ResumesServed DEF Asleep, Queued
  <2>. DEFINE at == [pc EXCEPT ![t] = "idle"]
  <2>2. Orderly(waiters, at) /\ Served(pool, created, waiters, at, lost + 1)
    BY <2>1 DEF WakeTransit
  <2>. HIDE DEF at
  <2>3. CASE waiters = <<>>
    <3>1. Notified(waiters) = waiters
      BY <2>3 DEF Notified
    <3>. QED
      BY <1>2, <1>3, <2>2, <2>3, <3>1 DEF at, WakeKept, Served
  <2>4. CASE waiters # <<>>
    <3>1. /\ Orderly(Notified(waiters), at)
          /\ Cardinality(Woken(Notified(waiters), at)) = Cardinality(Woken(waiters, at)) + 1
      BY <1>1, <2>2, <2>4, NotifyWakes
    <3>2. Cardinality(Woken(waiters, at)) \in Nat
      BY WokenFinite
    <3>3. pc' = at
      BY <1>2 DEF at
    <3>. QED
      BY <1>1, <1>3, <2>2, <2>4, <3>1, <3>2, <3>3, PoolAssumption DEF WakeKept, Served
  <2>. QED
    BY <2>3, <2>4
<1>4. ASSUME NEW k \in DOMAIN waiters, waiters[k] = t,
             waiters' \in {WithoutAt(waiters, k), Notified(WithoutAt(waiters, k))}
      PROVE WakeKept(lost)
  <2>1. pc'[t] # "waiting" /\ \A s \in Tasks \ {t} : pc'[s] = pc[s]
    BY <1>1, <1>2 DEF BookTypes
  <2>2. /\ Orderly(WithoutAt(waiters, k), pc') /\ WithoutAt(waiters, k) \in Seq(Tasks)
        /\ Woken(WithoutAt(waiters, k), pc') = Woken(waiters, pc)
    <3>1. Orderly(waiters, pc)
      BY DEF WakeInv
    <3>. QED
      BY <1>1, <1>4, <2>1, <3>1, LeavesQueue
  <2>3. waiters # <<>>
    BY <1>4
  <2>4. Served(pool, created, WithoutAt(waiters, k), pc', lost)
    BY <2>2, <2>3 DEF WakeInv, Served
  <2>5. Len(pool) + (MaxSize - created) <= Len(pool) + (MaxSize - created) + 1
    BY <1>1, PoolAssumption
  <2>6. Orderly(Notified(WithoutAt(waiters, k)), pc')
        /\ Served(pool, created, Notified(WithoutAt(waiters, k)), pc', lost)
    BY <1>1, <2>2, <2>4, <2>5, NotifyServes
  <2>. QED
    BY <1>1, <1>4, <2>2, <2>4, <2>6 DEF WakeKept
<1>. QED
  BY <1>3, <1>4 DEF WaitEnds, Asleep

\* Otherwise one notification is lost, and no more.
LEMMA GivesUpLosesOne ==
  ASSUME NEW lost \in Nat, IInv, WakeInv(lost), NEW t \in Tasks, WaitEnds(t),
         ~NotifyOnCancel, t \notin Asleep
  PROVE WakeInv(lost + 1)'
<1>1. /\ BookTypes /\ pc[t] = "waiting" /\ pc' = [pc EXCEPT ![t] = "idle"]
      /\ UNCHANGED <<pool, created, closed, waiters>>
  BY DEF IInv, TypeOK, BookTypes, WaitEnds, At, Asleep
<1>2. WakeTransit(t, pool, created, waiters, lost + 1)
  BY <1>1, ResumesServed DEF Asleep, Queued
<1>. QED
  BY <1>1, <1>2 DEF WakeTransit, WakeInv, Served

LEMMA MaintainWakeInv ==
  ASSUME NEW lost \in Nat,
         IInv, SlotInv, WakeInv(lost), MaintTick \/ SweepOk \/ SweepStale \/ MaintCancelled
  PROVE WakeInv(lost)'
<1>1. /\ BookTypes /\ Maint \in Actors /\ closed' = closed /\ pc[Maint] # "waiting"
      /\ pool \in Seq(Conns) /\ reserving \in SUBSET Conns /\ created \in Nat
      /\ reserving \ {conn[Maint]} \in SUBSET Conns /\ budget \in Nat /\ Len(pool) \in Nat
      /\ Dec(created) \in Nat /\ waiters \in Seq(Tasks) /\ Notified(waiters) \in Seq(Tasks)
  <2>1. BookTypes /\ budget \in Nat
    BY DEF IInv, TypeOK, BookTypes
  <2>2. Maint \in Actors /\ closed' = closed /\ pc[Maint] # "waiting"
    BY DEF Actors, MaintTick, SweepOk, SweepStale, MaintCancelled, connVars
  <2>3. /\ pool \in Seq(Conns) /\ reserving \in SUBSET Conns /\ created \in Nat
        /\ waiters \in Seq(Tasks) /\ reserving \ {conn[Maint]} \in SUBSET Conns
    BY <2>1 DEF BookTypes
  <2>4. Len(pool) \in Nat /\ Dec(created) \in Nat /\ Notified(waiters) \in Seq(Tasks)
    <3>1. Len(pool) \in Nat
      BY <2>3
    <3>2. Dec(created) \in Nat
      BY <2>3, DecType
    <3>. QED
      BY <2>3, <3>1, <3>2, NotifiedType
  <2>. QED
    BY <2>1, <2>2, <2>3, <2>4
<1>. SUFFICES WakeKept(lost)
  BY <1>1 DEF WakeInv, WakeKept, Served
<1>2. CASE MaintTick
  <2>1. WakeTransit(Maint, pool, created, waiters, lost)
    BY <1>1, EntersServed
  <2>. QED
    BY <1>1, <1>2, <2>1, SweepLoopServed DEF MaintTick
<1>3. CASE SweepOk \/ SweepStale
  <2>1. pc[Maint] = "validating"
    BY <1>3 DEF SweepOk, SweepStale
  <2>2. conn[Maint] \in reserving /\ conn[Maint] \in Conns
    BY <1>1, <2>1 DEF IInv, Ownership, OwnedBy, Owning
  <2>3. CASE SweepOk
    <3>1. Append(pool, conn[Maint]) \in Seq(Conns)
          /\ WakeTransit(Maint, Append(pool, conn[Maint]), created, Notified(waiters), lost)
      BY <1>1, <2>2, OneMore, GivesServed
    <3>. QED
      BY <1>1, <2>3, <3>1, SweepLoopServed DEF SweepOk
  <2>4. CASE SweepStale
    <3>1. WakeTransit(Maint, pool, Dec(created), Notified(waiters), lost)
      BY <1>1, <2>2, OneMore, GivesServed
    <3>. QED
      BY <1>1, <2>4, <3>1, SweepLoopServed DEF SweepStale
  <2>. QED
    BY <1>3, <2>3, <2>4
<1>4. CASE MaintCancelled
  <2>1. closed /\ At(Maint, "done") /\ waiters' \in {waiters, Notified(waiters)}
    BY <1>4 DEF MaintCancelled
  <2>2. WakeTransit(Maint, pool, created, waiters, lost)
        /\ WakeTransit(Maint, pool, created, Notified(waiters), lost)
    BY <1>1, <2>1, EntersServed, GivesServed
  <2>3. Orderly(waiters', pc')
    BY <1>1, <2>1, <2>2, GoesOn DEF WakeTransit
  <2>. QED
    BY <2>1, <2>3 DEF WakeKept, Served
<1>. QED
  BY <1>2, <1>3, <1>4

-----------------------------------------------------------------------------

LEMMA WakeInvNext ==
  ASSUME NEW lost \in Nat, IInv, SlotInv, WakeInv(lost), [Next]_vars,
         NotifyOnCancel \/ ~NotifiedWaiterGivesUp
  PROVE WakeInv(lost)'
<1>1. ASSUME NEW t \in Tasks, Acquire(t) \/ Open(t) PROVE WakeInv(lost)'
  BY <1>1, LoopWakeInv
<1>2. ASSUME NEW t \in Tasks, Resume(t) PROVE WakeInv(lost)'
  BY <1>2, FillWakeInv, QuietWakeInv, GivesUpWakeInv, ValidateStaleWakeInv, LoopWakeInv,
     GiveBackWakeInv DEF Resume, Actors
<1>3. ASSUME NEW t \in Tasks, Interrupt(t) PROVE WakeInv(lost)'
  BY <1>3, GivesUpWakeInv, WaitEndsWakeInv, QuietWakeInv DEF Interrupt, NotifiedWaiterGivesUp
<1>4. ASSUME NEW t \in Tasks, Use(t) \/ Release(t) PROVE WakeInv(lost)'
  BY <1>4, QuietWakeInv, GiveBackWakeInv DEF Release
<1>5. CASE Maintain
  BY <1>5, MaintainWakeInv, FillWakeInv DEF Maintain, Actors
<1>6. CASE CloseAll
  BY <1>6 DEF CloseAll, WakeInv, Settle, Orderly, Served
<1>7. CASE Ended \/ UNCHANGED vars
  BY <1>7 DEF Ended, vars, poolVars, WakeInv, Served
<1>8. ASSUME NEW c \in Conns, Collected(c) PROVE WakeInv(lost)'
  BY <1>8 DEF Collected, poolVars, WakeInv, Served
<1>. QED
  BY <1>1, <1>2, <1>3, <1>4, <1>5, <1>6, <1>7, <1>8 DEF Next

\* The queue of waiters stays in order whatever was lost: some number of lost
\* notifications always explains the state.
LEMMA OrderlyNext ==
  ASSUME IInv, SlotInv, Orderly(waiters, pc), [Next]_vars PROVE Orderly(waiters, pc)'
<1>1. pool \in Seq(Conns) /\ created \in Nat /\ Len(pool) \in Nat /\ MaxSize \in Nat
  BY PoolAssumption DEF IInv, TypeOK
<1>2. Cardinality(Woken(waiters, pc)) \in Nat
  BY WokenFinite
<1>3. PICK lost \in Nat : lost = Len(pool) + MaxSize
  BY <1>1
<1>4. WakeInv(lost)
  BY <1>1, <1>2, <1>3 DEF WakeInv, Served
<1>5. CASE NotifyOnCancel \/ ~NotifiedWaiterGivesUp
  BY <1>4, <1>5, WakeInvNext DEF WakeInv
<1>6. CASE ~NotifyOnCancel /\ NotifiedWaiterGivesUp
  BY <1>4, <1>6, GivesUpLosesOne DEF WakeInv, NotifiedWaiterGivesUp
<1>. QED
  BY <1>5, <1>6

LEMMA NothingLost ==
  ASSUME IInv, Orderly(waiters, pc) PROVE NoLostWakeup <=> WakeInv(0)
<1>1. Claimants = Woken(waiters, pc)
  BY DEF Claimants, Woken, Asleep, Queued
<1>2. Asleep # {} <=> waiters # <<>>
  <2>1. waiters \in Seq(Tasks)
    BY DEF IInv, TypeOK
  <2>2. CASE waiters = <<>>
    BY <2>2 DEF Asleep
  <2>3. CASE waiters # <<>>
    <3>1. 1 \in DOMAIN waiters
      BY <2>1, <2>3
    <3>. QED
      BY <2>3, <3>1 DEF Asleep
  <2>. QED
    BY <2>2, <2>3
<1>3. Cardinality(Woken(waiters, pc)) + 0 = Cardinality(Woken(waiters, pc))
  BY WokenFinite
<1>. QED
  BY <1>1, <1>2, <1>3 DEF NoLostWakeup, WakeInv, Served

\* A notification is lost in one way only, for every number of tasks, connections
\* and slots: where asyncio does not pass it on (before CPython 3.13), by the waiter
\* that got it being cancelled or timing out before it ran.  No other step leaves a
\* waiter asleep beside an idle connection or a free slot; with such an asyncio as
\* CPython 3.13's, none does.
THEOREM WakeupsKept == ASSUME ForgetsReference PROVE Spec => WakeupsReachWaiters
<1>1. Init => Orderly(waiters, pc)
  BY DEF Init, Orderly
<1>2. IInv /\ SlotInv /\ Orderly(waiters, pc) /\ [Next]_vars => Orderly(waiters, pc)'
  BY OrderlyNext
<1>3. ASSUME IInv, SlotInv, WakeInv(0), [Next]_vars
      PROVE [WakeInv(0)' \/ (~NotifyOnCancel /\ NotifiedWaiterGivesUp)]_vars
  BY <1>3, WakeInvNext
<1>4. IInv /\ Orderly(waiters, pc) => (NoLostWakeup <=> WakeInv(0))
  BY NothingLost
<1>. QED
  BY <1>1, <1>2, <1>3, <1>4, Invariance, SlotInvariance, PTL DEF Spec, WakeupsReachWaiters

-----------------------------------------------------------------------------
(* The loan book: every step lends, takes back, closes or changes no loan.    *)

Lent == {"holding", "rolling"}

\* A step of another kind than lending, taking back and closing
BookStutters == Loan' = Loan /\ closed' = closed

LEMMA NoLoanChange ==
  ASSUME LoansKept, UNCHANGED closed,
         \A t \in Tasks : pc[t] \in Lent => pc'[t] \in Lent
  PROVE BookStutters
BY DEF BookStutters, LoansKept, Loan, Lent

\* The loops move nobody but the actor that runs them and the sweeper.
LEMMA LoopFrame ==
  ASSUME BookTypes, NEW a \in Actors, NEW how, NEW q, NEW r, NEW n, NEW w, NEW b,
         \/ FillLoop(a, how, q, r, n, w)
         \/ AcquireLoop(a, q, r, n, w)
         \/ a = Maint /\ SweepLoop(b, q, r, n, w)
  PROVE \A t \in Tasks \ {a} : pc'[t] = pc[t]
<1>. Maint \notin Tasks /\ Tasks \subseteq Actors
  BY PoolAssumption DEF Actors
<1>1. ASSUME NEW h, AfterFill(a, h, q, r, n, w) PROVE \A t \in Tasks \ {a} : pc'[t] = pc[t]
  BY <1>1 DEF AfterFill, Proceed, At, BookTypes
<1>2. ASSUME NEW h, FillLoop(a, h, q, r, n, w) PROVE \A t \in Tasks \ {a} : pc'[t] = pc[t]
  BY <1>1, <1>2 DEF FillLoop, At, BookTypes
<1>3. ASSUME AcquireLoop(a, q, r, n, w) PROVE \A t \in Tasks \ {a} : pc'[t] = pc[t]
  BY <1>2, <1>3 DEF AcquireLoop, At, BookTypes
<1>4. ASSUME a = Maint, SweepLoop(b, q, r, n, w) PROVE \A t \in Tasks \ {a} : pc'[t] = pc[t]
  BY <1>2, <1>4 DEF SweepLoop, At, BookTypes
<1>. QED
  BY <1>2, <1>3, <1>4

-----------------------------------------------------------------------------
(* Steps that change no loan *)

LEMMA TaskStutters ==
  ASSUME IInv, NEW t \in Tasks,
         \/ Acquire(t) \/ Open(t) \/ Wake(t) \/ FillOk(t) \/ FillTooLate(t) \/ FillFail(t)
         \/ AbandonSlot(t) \/ ConnectTooLate(t) \/ ValidateStale(t) \/ ValidateCancelled(t)
  PROVE BookStutters
<1>1. LoansKept
  BY AcquireInv, FillOkInv, FillEndsInv, GivesUpInv, ValidateStaleInv, ValidateCancelledInv DEF Actors
<1>2. BookTypes /\ t \in Actors /\ pc[t] \notin Lent /\ closed' = closed
  BY DEF IInv, TypeOK, BookTypes, Actors, Lent, Acquire, Open, Wake, FillOk, FillTooLate, FillFail,
         AbandonSlot, ConnectTooLate, ValidateStale, ValidateCancelled
<1>3. \A b \in Tasks \ {t} : pc'[b] = pc[b]
  <2>1. CASE Acquire(t) \/ Open(t) \/ Wake(t) \/ FillOk(t) \/ ValidateStale(t)
    BY <1>2, <2>1, LoopFrame DEF Acquire, Open, Wake, FillOk, ValidateStale
  <2>2. CASE FillTooLate(t) \/ FillFail(t)
    BY <1>2, <2>2, PoolAssumption
       DEF FillTooLate, FillFail, AfterFill, Proceed, At, BookTypes, Actors
  <2>3. CASE AbandonSlot(t) \/ ConnectTooLate(t) \/ ValidateCancelled(t)
    BY <1>2, <2>3 DEF AbandonSlot, ConnectTooLate, ValidateCancelled, At, BookTypes, Actors
  <2>. QED
    BY <2>1, <2>2, <2>3
<1>. QED
  BY <1>1, <1>2, <1>3, NoLoanChange

LEMMA QuietStutters ==
  ASSUME IInv, ForgetsReference, NEW t \in Tasks, WaitEnds(t) \/ Use(t) \/ ReleaseRollsBack(t)
  PROVE BookStutters
<1>1. conn' = conn /\ closed' = closed
  BY DEF WaitEnds, Use, ReleaseRollsBack, poolVars
<1>2. \A b \in Tasks : pc[b] \in Lent <=> pc'[b] \in Lent
  BY DEF WaitEnds, Use, ReleaseRollsBack, MayRelease, At, Lent, IInv, TypeOK, Actors
<1>. QED
  BY <1>1, <1>2 DEF BookStutters, Loan, Lent

LEMMA MaintainStutters ==
  ASSUME IInv, Maintain PROVE BookStutters
<1>1. LoansKept
  BY MaintTickInv, SweepOkInv, SweepStaleInv, MaintCancelledInv, FillOkInv, FillEndsInv
     DEF Maintain, Actors
<1>2. BookTypes /\ Maint \in Actors /\ Maint \notin Tasks /\ closed' = closed
  BY PoolAssumption DEF IInv, TypeOK, BookTypes, Actors, Maintain, MaintTick, SweepOk, SweepStale,
                        MaintCancelled, FillOk, FillFail
<1>3. \A b \in Tasks : pc'[b] = pc[b]
  <2>1. CASE MaintTick \/ SweepOk \/ SweepStale \/ FillOk(Maint)
    BY <1>2, <2>1, LoopFrame DEF MaintTick, SweepOk, SweepStale, FillOk
  <2>2. CASE FillFail(Maint)
    BY <1>2, <2>2 DEF FillFail, AfterFill, Proceed, At, BookTypes, Actors
  <2>3. CASE MaintCancelled
    BY <1>2, <2>3 DEF MaintCancelled, At, BookTypes, Actors
  <2>. QED
    BY <2>1, <2>2, <2>3 DEF Maintain
<1>. QED
  BY <1>1, <1>2, <1>3, NoLoanChange

-----------------------------------------------------------------------------
(* Steps that lend *)

\* The loan book counts with its own copy of the library's Cardinality.
LEMMA SameCardinality ==
  ASSUME NEW S PROVE Book!Cardinality(S) = Cardinality(S)
BY DEF Book!Cardinality, Cardinality

LEMMA OnLoanBounded ==
  ASSUME IInv, ~closed
  PROVE /\ Book!OnLoan \subseteq checked_out
        /\ Cardinality(Book!OnLoan) <= Cardinality(checked_out)
        /\ Cardinality(Book!OnLoan) \in Nat /\ Cardinality(checked_out) \in Nat
<1>1. Book!OnLoan \subseteq checked_out
  BY DEF Book!OnLoan, Loan, IInv, LoansBooked
<1>2. IsFiniteSet(checked_out)
  BY PoolAssumption, FS_Subset DEF IInv, TypeOK
<1>. QED
  BY <1>1, <1>2, FS_Subset, FS_CardinalityType

LEMMA LendStep ==
  ASSUME IInv, SlotInv, NEW t \in Tasks, ConnectOk(t) \/ ValidateOk(t)
  PROVE Book!Next
<1>. DEFINE c == conn'[t]
<1>1. t \in Actors /\ BookTypes /\ ~closed /\ closed' = closed /\ pc[t] \notin Lent
  BY DEF Actors, ConnectOk, ValidateOk, IInv, TypeOK, BookTypes, Lent
<1>2. c \in Conns /\ c \notin checked_out
  <2>1. CASE ConnectOk(t)
    BY <1>1, <2>1 DEF ConnectOk, Born, Forgotten, InHand, BookTypes
  <2>2. CASE ValidateOk(t)
    BY <1>1, <2>2 DEF ValidateOk, IInv, Ownership, OwnedBy, Owning
  <2>. QED
    BY <2>1, <2>2
<1>3. Cardinality(checked_out) < MaxSize
  <2>1. /\ Len(pool) \in Nat /\ Cardinality(reserving) \in Nat /\ Cardinality(checked_out) \in Nat
        /\ Openers(pc) \in Nat /\ IsFiniteSet(reserving)
    BY <1>1, Counts
  <2>2. Openers(pc) > 0 \/ Cardinality(reserving) > 0
    <3>1. CASE ConnectOk(t)
      <4>1. t \in {a \in Actors : pc[a] \in ConnectingPcs}
        BY <1>1, <3>1 DEF ConnectOk, ConnectingPcs
      <4>2. Openers(pc) # 0
        BY <4>1, OpenersType, FS_EmptySet DEF Openers
      <4>. QED
        BY <2>1, <4>2
    <3>2. CASE ValidateOk(t)
      <4>1. conn[t] \in reserving
        BY <1>1, <3>2 DEF ValidateOk, IInv, Ownership, OwnedBy
      <4>2. Cardinality(reserving) # 0
        BY <2>1, <4>1, FS_EmptySet
      <4>. QED
        BY <2>1, <4>2
    <3>. QED
      BY <3>1, <3>2
  <2>3. created = Len(pool) + Cardinality(reserving) + Cardinality(checked_out) + Openers(pc)
        /\ created <= MaxSize
    BY <1>1 DEF SlotInv, Slots
  <2>. QED
    BY <2>1, <2>2, <2>3, PoolAssumption
<1>4. /\ Book!OnLoan \subseteq checked_out
      /\ Cardinality(Book!OnLoan) <= Cardinality(checked_out)
      /\ Cardinality(Book!OnLoan) \in Nat /\ Cardinality(checked_out) \in Nat
  BY <1>1, OnLoanBounded
<1>5. Cardinality(Book!OnLoan) < MaxSize
  BY <1>3, <1>4, PoolAssumption
<1>6. /\ pc'[t] \in Lent /\ \A b \in Tasks \ {t} : pc'[b] = pc[b] /\ conn'[b] = conn[b]
  BY <1>1 DEF ConnectOk, ValidateOk, At, InHand, BookTypes, Lent, Actors
<1>7. Loan' = [Loan EXCEPT ![t] = c] /\ Loan[t] = NoConn
  BY <1>1, <1>6 DEF Loan, Lent
<1>8. Book!Lend(t, c)
  <2>1. c \notin Book!OnLoan
    BY <1>2, <1>4
  <2>2. (~closed)' = (~closed)
    BY <1>1
  <2>3. Book!Cardinality(Book!OnLoan) < MaxSize
    BY <1>5, SameCardinality
  <2>. HIDE DEF c
  <2>. QED
    BY <1>1, <1>7, <2>1, <2>2, <2>3 DEF Book!Lend
<1>. QED
  BY <1>2, <1>8 DEF Book!Next

-----------------------------------------------------------------------------
(* Steps that take back, and close_all() *)

LEMMA ReturnStep ==
  ASSUME IInv, ForgetsReference, NEW t \in Tasks,
         \/ ReleaseDirectly(t) \/ RollbackOk(t) \/ RollbackFail(t) \/ ReleaseCancelled(t)
  PROVE Book!Next \/ BookStutters
<1>1. /\ t \in Actors /\ pc[t] \in Lent /\ closed' = closed
      /\ conn \in [Actors -> Conns \cup {NoConn}] /\ conn[t] \in Conns /\ conn[t] # NoConn
  BY PoolAssumption
     DEF Actors, IInv, TypeOK, Ownership, OwnedBy, Owning, Lent, ReleaseDirectly, RollbackOk,
         RollbackFail, ReleaseCancelled, MayRelease, GiveBack, poolVars
<1>2. CASE At(t, "idle")
  <2>1. Loan' = [Loan EXCEPT ![t] = NoConn] /\ Loan[t] # NoConn
    <3>1. /\ pc'[t] \notin Lent
          /\ \A b \in Tasks \ {t} : pc'[b] = pc[b] /\ conn'[b] = conn[b]
      BY <1>1, <1>2
         DEF At, InHand, Lent, Actors, IInv, TypeOK, ReleaseDirectly, RollbackOk, RollbackFail,
             ReleaseCancelled, GiveBack
    <3>. QED
      BY <1>1, <3>1 DEF Loan, Lent
  <2>2. Book!Return(t)
    BY <1>1, <2>1 DEF Book!Return
  <2>. QED
    BY <2>2 DEF Book!Next
<1>3. CASE At(t, "holding") /\ UNCHANGED conn
  <2>1. \A b \in Tasks : pc[b] \in Lent <=> pc'[b] \in Lent
    BY <1>1, <1>3 DEF At, Lent, Actors, IInv, TypeOK
  <2>. QED
    BY <1>1, <1>3, <2>1 DEF BookStutters, Loan, Lent
<1>. QED
  BY <1>2, <1>3 DEF ReleaseDirectly, RollbackOk, RollbackFail, ReleaseCancelled, GiveBack

LEMMA CloseStep == CloseAll => Book!Next
BY DEF CloseAll, Book!Next, Book!Close, Loan

-----------------------------------------------------------------------------

LEMMA BookInit == Init => Book!Init
BY DEF Init, Book!Init, Loan, Actors

LEMMA BookNext ==
  ASSUME ForgetsReference, IInv, SlotInv, [Next]_vars PROVE [Book!Next]_(Book!vars)
<1>1. BookStutters => UNCHANGED Book!vars
  BY DEF BookStutters, Book!vars
<1>2. ASSUME NEW t \in Tasks, Acquire(t) \/ Open(t) PROVE BookStutters
  BY <1>2, TaskStutters
<1>3. ASSUME NEW t \in Tasks, Resume(t) PROVE Book!Next \/ BookStutters
  BY <1>3, TaskStutters, LendStep, ReturnStep DEF Resume
<1>4. ASSUME NEW t \in Tasks, Interrupt(t) PROVE Book!Next \/ BookStutters
  BY <1>4, TaskStutters, QuietStutters, ReturnStep DEF Interrupt
<1>5. ASSUME NEW t \in Tasks, Use(t) \/ Release(t) PROVE Book!Next \/ BookStutters
  BY <1>5, QuietStutters, ReturnStep DEF Release
<1>6. CASE Maintain
  BY <1>6, MaintainStutters, <1>1
<1>7. CASE CloseAll
  BY <1>7, CloseStep
<1>8. CASE Ended \/ UNCHANGED vars
  BY <1>8 DEF Ended, vars, poolVars, Book!vars, Loan
<1>9. ASSUME NEW c \in Conns, Collected(c) PROVE BookStutters
  BY <1>9 DEF Collected, poolVars, BookStutters, Loan
<1>. QED
  BY <1>1, <1>2, <1>3, <1>4, <1>5, <1>6, <1>7, <1>8, <1>9 DEF Next

\* acquire() hands a connection to one task at a time, only while the pool is
\* open, and never more than max_size of them; release() ends exactly one loan.
THEOREM Implementation == ASSUME ForgetsReference PROVE Spec => ImplementsPoolSpec
<1>1. IInv /\ SlotInv /\ [Next]_vars => [Book!Next]_(Book!vars)
  BY BookNext
<1>. QED
  BY <1>1, BookInit, Invariance, SlotInvariance, PTL DEF Spec, ImplementsPoolSpec, Book!Spec

=============================================================================
