--------------------------- MODULE SyncPoolProofs ---------------------------
(***************************************************************************)
(* Proofs about SyncPool for every number of threads and connections and   *)
(* every pool size: who owns a connection, that no open socket is          *)
(* forgotten, that what waits in the queue is clean, that the slots and    *)
(* the semaphore are exact, and that it implements the loan book PoolSpec. *)
(***************************************************************************)
EXTENDS SyncPool, FiniteSetTheorems, TLAPS

\* Where an actor has a connection in hand, and where it has none
InHandPcs == {"validating", "discarding", "holding", "rolling", "returning", "dropping", "retiring"}
EmptyPcs == {"idle", "waiting", "looking", "polling", "connecting", "unwinding", "handing",
             "topping", "filling", "sleeping", "sweeping", "done"}

TypeOK ==
  /\ pool \in Seq(Conns) /\ checked_out \in SUBSET Conns /\ doomed \in SUBSET Conns
  /\ created \in Nat /\ sem \in Nat /\ budget \in Nat /\ closed \in BOOLEAN
  /\ pc \in [Actors -> InHandPcs \cup EmptyPcs]
  /\ conn \in [Actors -> Conns \cup {NoConn}]
  /\ sock \in [Conns -> {"open", "cut", "closed"}]
  /\ tx \in [Conns -> BOOLEAN] /\ rows \in [Conns -> BOOLEAN] /\ uses \in [Conns -> Nat]

Distinct(q) == \A i, j \in DOMAIN q : i # j => q[i] # q[j]

\* An actor has a connection in hand exactly at the places that use one, nobody
\* else has it, and it is on the books exactly while it is on loan from an open
\* pool; close_all() leaves nothing on the books but what it still has to close.
Ownership ==
  /\ Distinct(pool)
  /\ Idle \cap checked_out = {}
  /\ \A a, b \in Actors : a # b /\ conn[a] # NoConn => conn[a] # conn[b]
  /\ \A a \in Actors : conn[a] \notin Idle
  /\ \A a \in Actors : IF pc[a] \in InHandPcs THEN conn[a] \in Conns ELSE conn[a] = NoConn
  /\ \A a \in Actors : conn[a] \in checked_out <=> (pc[a] = "holding" /\ ~closed)
  /\ IF closed THEN pool = <<>> ELSE doomed = {}

\* A borrower that close_all() has overtaken may leave its connection alone: it
\* is closed, or close_all() is about to close it.
Overtaken ==
  \A a \in Actors : pc[a] = "holding" /\ closed => conn[a] \in doomed \/ sock[conn[a]] = "closed"

Reachable ==
  \A c \in Conns : sock[c] # "closed" => c \in Idle \cup doomed \/ \E a \in Actors : conn[a] = c

OwnerInv == TypeOK /\ Ownership
OrphanInv == Overtaken /\ Reachable

\* Nobody is to wait for the end of a transaction or read the rest of a result
\* that another has left behind.  With autocommit off the ping itself begins a
\* transaction (Pinged), so only the rows are promised then.
Fresh(c) == ~rows[c] /\ (ManualCommit \/ ~tx[c])

CleanInv ==
  /\ \A c \in Idle : Fresh(c)
  /\ \A a \in Actors : pc[a] \in {"validating", "returning"} => Fresh(conn[a])
  /\ \A a \in Actors : pc[a] = "rolling" => ~rows[conn[a]]

-----------------------------------------------------------------------------
(* The idle queue, as a sequence and as a set *)

LEMMA DecType == ASSUME NEW n \in Nat PROVE Dec(n) \in Nat
BY DEF Dec

\* Taking the head of the queue takes one connection out of the set.
LEMMA TakeHead ==
  ASSUME pool \in Seq(Conns), Distinct(pool), pool # <<>>, pool' = Tail(pool)
  PROVE /\ Head(pool) \in Idle /\ Head(pool) \in Conns
        /\ pool' \in Seq(Conns) /\ Distinct(pool') /\ Idle' = Idle \ {Head(pool)}
<1>1. /\ Len(pool) \in Nat /\ Len(pool) > 0 /\ DOMAIN pool = 1 .. Len(pool)
      /\ \A i \in 1 .. Len(pool) : pool[i] \in Conns
  OBVIOUS
<1>2. /\ pool' \in Seq(Conns) /\ DOMAIN pool' = 1 .. Len(pool) - 1 /\ Head(pool) = pool[1]
      /\ \A i \in 1 .. Len(pool) - 1 : pool'[i] = pool[i + 1]
  BY <1>1
<1>3. Distinct(pool')
  BY <1>1, <1>2 DEF Distinct
<1>4. ASSUME NEW c \in Idle \ {Head(pool)} PROVE c \in Idle'
  <2>1. PICK i \in 1 .. Len(pool) : pool[i] = c
    BY <1>1 DEF Idle
  <2>2. i - 1 \in 1 .. Len(pool) - 1
    BY <1>1, <1>2, <2>1
  <2>3. pool'[i - 1] = c
    BY <1>2, <2>1, <2>2
  <2>. QED
    BY <1>2, <2>2, <2>3 DEF Idle
<1>5. ASSUME NEW c \in Idle' PROVE c \in Idle \ {Head(pool)}
  <2>1. PICK i \in 1 .. Len(pool) - 1 : pool'[i] = c
    BY <1>2 DEF Idle
  <2>2. i + 1 \in 1 .. Len(pool) /\ 1 \in 1 .. Len(pool) /\ i + 1 # 1 /\ pool[i + 1] = c
    BY <1>1, <1>2, <2>1
  <2>3. pool[1] # c
    BY <1>1, <2>2 DEF Distinct
  <2>. QED
    BY <1>1, <1>2, <2>2, <2>3 DEF Idle
<1>6. Head(pool) \in Idle /\ Head(pool) \in Conns
  BY <1>1, <1>2 DEF Idle
<1>. QED
  BY <1>2, <1>3, <1>4, <1>5, <1>6

\* Appending one that is not in the queue adds it to the set.
LEMMA AppendOne ==
  ASSUME pool \in Seq(Conns), Distinct(pool), NEW c \in Conns, c \notin Idle,
         pool' = Append(pool, c)
  PROVE pool' \in Seq(Conns) /\ Distinct(pool') /\ Idle' = Idle \cup {c}
<1>1. Len(pool) \in Nat /\ DOMAIN pool = 1 .. Len(pool)
  OBVIOUS
<1>2. /\ pool' \in Seq(Conns) /\ DOMAIN pool' = 1 .. Len(pool) + 1 /\ pool'[Len(pool) + 1] = c
      /\ \A i \in 1 .. Len(pool) : pool'[i] = pool[i]
  BY <1>1
<1>3. \A i \in 1 .. Len(pool) : pool[i] # c
  BY <1>1 DEF Idle
<1>4. Distinct(pool')
  BY <1>1, <1>2, <1>3 DEF Distinct
<1>5. Idle' = Idle \cup {c}
  <2>1. ASSUME NEW d \in Idle PROVE d \in Idle'
    <3>1. PICK i \in 1 .. Len(pool) : pool[i] = d
      BY <1>1 DEF Idle
    <3>2. i \in DOMAIN pool' /\ pool'[i] = d
      BY <1>1, <1>2, <3>1
    <3>. QED
      BY <3>2 DEF Idle
  <2>2. c \in Idle'
    BY <1>1, <1>2 DEF Idle
  <2>3. ASSUME NEW d \in Idle' PROVE d \in Idle \cup {c}
    <3>1. PICK i \in 1 .. Len(pool) + 1 : pool'[i] = d
      BY <1>2 DEF Idle
    <3>2. i = Len(pool) + 1 \/ i \in 1 .. Len(pool)
      BY <1>1
    <3>. QED
      BY <1>1, <1>2, <3>1, <3>2 DEF Idle
  <2>. QED
    BY <2>1, <2>2, <2>3
<1>. QED
  BY <1>2, <1>4, <1>5

-----------------------------------------------------------------------------
(* Steps that move an actor and no connection *)

LEMMA WalkOwned ==
  ASSUME OwnerInv, NEW a \in Actors, NEW where \in InHandPcs \cup EmptyPcs, At(a, where),
         where \in InHandPcs <=> pc[a] \in InHandPcs, pc[a] # "holding", where # "holding",
         UNCHANGED <<pool, checked_out, closed, doomed, conn>>
  PROVE Ownership'
BY DEF OwnerInv, TypeOK, Ownership, Distinct, Idle, At

\* The head of the queue goes to an actor that has nothing in hand.
LEMMA TakeOwned ==
  ASSUME OwnerInv, NEW a \in Actors, pc[a] \in EmptyPcs, pool # <<>>, pool' = Tail(pool),
         InHand(a, Head(pool)), At(a, "validating"), UNCHANGED <<checked_out, closed, doomed>>
  PROVE Ownership'
<1>. DEFINE c == Head(pool)
<1>1. c \in Idle /\ c \in Conns /\ Distinct(pool') /\ Idle' = Idle \ {c}
  BY TakeHead DEF OwnerInv, TypeOK, Ownership
<1>2. /\ conn'[a] = c /\ pc'[a] = "validating"
      /\ \A b \in Actors \ {a} : conn'[b] = conn[b] /\ pc'[b] = pc[b]
  BY DEF InHand, At, OwnerInv, TypeOK
<1>3. ~closed
  BY DEF OwnerInv, Ownership
<1>4. c \notin checked_out /\ \A b \in Actors : conn[b] # c
  BY <1>1 DEF OwnerInv, Ownership
<1>. HIDE DEF c
<1>. QED
  BY <1>1, <1>2, <1>3, <1>4 DEF OwnerInv, Ownership, InHandPcs

\* A connection nobody else has goes to the end of the queue, out of the hands
\* of an actor that had it or has just opened it.
LEMMA AppendOwned ==
  ASSUME OwnerInv, NEW a \in Actors, pc[a] # "holding", ~closed,
         NEW c \in Conns, c \notin Idle \cup checked_out, \A b \in Actors \ {a} : conn[b] # c,
         pool' = Append(pool, c), NEW where \in EmptyPcs, At(a, where),
         conn' = [conn EXCEPT ![a] = NoConn], UNCHANGED <<checked_out, closed, doomed>>
  PROVE Ownership'
<1>1. Distinct(pool') /\ Idle' = Idle \cup {c}
  BY AppendOne DEF OwnerInv, TypeOK, Ownership
<1>2. /\ conn'[a] = NoConn /\ pc'[a] = where /\ where \notin InHandPcs /\ where # "holding"
      /\ \A b \in Actors \ {a} : conn'[b] = conn[b] /\ pc'[b] = pc[b]
  BY DEF At, OwnerInv, TypeOK, EmptyPcs, InHandPcs
<1>3. NoConn \notin Idle \cup checked_out \cup {c}
  BY SyncPoolAssumption DEF OwnerInv, TypeOK, Idle
<1>. QED
  BY <1>1, <1>2, <1>3 DEF OwnerInv, Ownership

\* An actor is done with a connection that is not on the books.
LEMMA LetGoOwned ==
  ASSUME OwnerInv, NEW a \in Actors, conn[a] \notin checked_out,
         NEW where \in EmptyPcs, At(a, where), InHand(a, NoConn),
         UNCHANGED <<pool, checked_out, closed, doomed>>
  PROVE Ownership'
<1>1. /\ conn'[a] = NoConn /\ pc'[a] = where /\ where \notin InHandPcs /\ where # "holding"
      /\ \A b \in Actors \ {a} : conn'[b] = conn[b] /\ pc'[b] = pc[b]
  BY DEF At, InHand, OwnerInv, TypeOK, EmptyPcs, InHandPcs
<1>2. NoConn \notin Idle \cup checked_out
  BY SyncPoolAssumption DEF OwnerInv, TypeOK, Idle
<1>3. Idle' = Idle
  BY DEF Idle
<1>. QED
  BY <1>1, <1>2, <1>3 DEF OwnerInv, Ownership

\* A connection is put on the books for the thread that has it, or takes it.
LEMMA LendOwned ==
  ASSUME OwnerInv, NEW a \in Actors, pc[a] # "holding", ~closed,
         NEW c \in Conns, c \notin Idle \cup checked_out, \A b \in Actors \ {a} : conn[b] # c,
         checked_out' = checked_out \cup {c}, At(a, "holding"), InHand(a, c),
         UNCHANGED <<pool, closed, doomed>>
  PROVE Ownership'
<1>1. /\ conn'[a] = c /\ pc'[a] = "holding"
      /\ \A b \in Actors \ {a} : conn'[b] = conn[b] /\ pc'[b] = pc[b]
  BY DEF At, InHand, OwnerInv, TypeOK
<1>2. Idle' = Idle
  BY DEF Idle
<1>. QED
  BY <1>1, <1>2 DEF OwnerInv, Ownership, InHandPcs

\* The loan ends; the thread keeps the connection in hand for the time being.
LEMMA UnlendOwned ==
  ASSUME OwnerInv, NEW a \in Actors, pc[a] = "holding", conn[a] \in checked_out,
         checked_out' = checked_out \ {conn[a]},
         NEW where \in InHandPcs \ {"holding"}, At(a, where),
         UNCHANGED <<pool, closed, doomed, conn>>
  PROVE Ownership'
<1>1. pc'[a] = where /\ where # "holding" /\ \A b \in Actors \ {a} : pc'[b] = pc[b]
  BY DEF At, OwnerInv, TypeOK
<1>2. Idle' = Idle /\ conn[a] # NoConn
  BY SyncPoolAssumption DEF Idle, OwnerInv, TypeOK
<1>. QED
  BY <1>1, <1>2 DEF OwnerInv, Ownership, InHandPcs

-----------------------------------------------------------------------------
(* Types *)

LEMMA TypeOKInit == Init => TypeOK
<1>. SUFFICES ASSUME Init PROVE TypeOK
  OBVIOUS
<1>1. pool \in Seq(Conns) /\ Len(pool) \in Nat
  BY SyncPoolAssumption DEF Init
<1>. QED
  BY <1>1, SyncPoolAssumption DEF Init, TypeOK, InHandPcs, EmptyPcs, Actors

\* Each step moves one actor; it writes what the types allow.
LEMMA ThreadType ==
  ASSUME TypeOK, NEW t \in Threads,
         \/ Acquire(t) \/ SemTake(t) \/ SemTimeout(t) \/ PollTimeout(t) \/ Unwind(t) \/ HandBack(t)
         \/ Open(t) \/ ConnectFail(t) \/ ValidateStale(t) \/ Drop(t)
  PROVE TypeOK'
<1>1. t \in Actors /\ Dec(created) \in Nat /\ sem + 1 \in Nat /\ (sem > 0 => sem - 1 \in Nat)
  BY DecType DEF Actors, TypeOK
<1>. QED
  BY <1>1 DEF TypeOK, Acquire, SemTake, SemTimeout, PollTimeout, Unwind, HandBack, Open,
              ConnectFail, ValidateStale, Drop, At, poolVars, bookVars, connVars, InHandPcs, EmptyPcs

LEMMA LookType == ASSUME OwnerInv, NEW t \in Threads, Look(t) PROVE TypeOK'
<1>1. t \in Actors /\ created + 1 \in Nat
  BY DEF Actors, OwnerInv, TypeOK
<1>2. CASE pool # <<>> /\ pool' = Tail(pool) /\ InHand(t, Head(pool)) /\ At(t, "validating")
           /\ UNCHANGED <<checked_out, created>>
  <2>1. pool' \in Seq(Conns) /\ Head(pool) \in Conns
    BY <1>2, TakeHead DEF OwnerInv, TypeOK, Ownership
  <2>. QED
    BY <1>1, <1>2, <2>1 DEF Look, OwnerInv, TypeOK, InHand, At, connVars, InHandPcs
<1>3. CASE UNCHANGED <<pool, checked_out, conn>> /\ created' \in {created, created + 1}
           /\ \E where \in EmptyPcs : At(t, where)
  BY <1>1, <1>3 DEF Look, OwnerInv, TypeOK, At, connVars
<1>. QED
  BY <1>2, <1>3 DEF Look, bookVars, EmptyPcs

LEMMA ConnType ==
  ASSUME OwnerInv, NEW t \in Threads,
         \/ ConnectOk(t) \/ ValidateOk(t) \/ Discard(t) \/ Use(t) \/ Release(t)
         \/ RollbackOk(t) \/ RollbackFail(t) \/ Retire(t)
  PROVE TypeOK'
<1>1. t \in Actors /\ (pc[t] \in InHandPcs => conn[t] \in Conns)
  BY DEF Actors, OwnerInv, Ownership
<1>2. CASE ConnectOk(t)
  BY <1>1, <1>2 DEF ConnectOk, Born, InHand, At, OwnerInv, TypeOK, InHandPcs
<1>3. CASE ValidateOk(t)
  BY <1>1, <1>3 DEF ValidateOk, Pinged, At, OwnerInv, TypeOK, InHandPcs
<1>4. CASE Discard(t) \/ Retire(t)
  BY <1>1, <1>4 DEF Discard, Retire, Closing, InHand, At, OwnerInv, TypeOK, EmptyPcs,
                    poolVars, bookVars
<1>5. CASE Use(t) \/ RollbackOk(t) \/ RollbackFail(t)
  <2>1. CASE Use(t)
    <3>1. UNCHANGED <<poolVars, pc, conn, budget, uses>>
      BY <2>1 DEF Use
    <3>2. PICK intx \in BOOLEAN, unread \in BOOLEAN, s \in {"open", "cut", "closed"} :
            /\ tx' = [tx EXCEPT ![conn[t]] = intx]
            /\ rows' = [rows EXCEPT ![conn[t]] = unread]
            /\ sock' = [sock EXCEPT ![conn[t]] = s]
      BY <2>1 DEF Use
    <3>3. /\ tx \in [Conns -> BOOLEAN] /\ rows \in [Conns -> BOOLEAN]
          /\ sock \in [Conns -> {"open", "cut", "closed"}]
      BY DEF OwnerInv, TypeOK
    <3>4. tx' \in [Conns -> BOOLEAN] /\ rows' \in [Conns -> BOOLEAN]
      BY <3>2, <3>3
    <3>5. sock' \in [Conns -> {"open", "cut", "closed"}]
      BY <3>2, <3>3
    <3>. QED
      BY <3>1, <3>4, <3>5 DEF OwnerInv, TypeOK, poolVars, bookVars
  <2>2. CASE RollbackOk(t)
    BY <1>1, <2>2 DEF RollbackOk, At, OwnerInv, TypeOK, InHandPcs, poolVars, bookVars
  <2>3. CASE RollbackFail(t)
    BY <1>1, <2>3 DEF RollbackFail, At, OwnerInv, TypeOK, InHandPcs, poolVars, bookVars
  <2>. QED
    BY <1>5, <2>1, <2>2, <2>3
<1>6. CASE Release(t)
  BY <1>1, <1>6 DEF Release, InHand, At, OwnerInv, TypeOK, InHandPcs, EmptyPcs
<1>. QED
  BY <1>2, <1>3, <1>4, <1>5, <1>6

LEMMA AppendType ==
  ASSUME OwnerInv, NEW a \in Actors, GiveBack(a) \/ FillOk(a) \/ (a = Maint /\ SweepOk)
  PROVE TypeOK'
<1>1. pc[a] \in InHandPcs => conn[a] \in Conns
  BY DEF OwnerInv, Ownership
<1>2. \A c \in Conns : Append(pool, c) \in Seq(Conns)
  BY DEF OwnerInv, TypeOK
<1>3. CASE GiveBack(a)
  BY <1>1, <1>2, <1>3 DEF GiveBack, InHand, At, OwnerInv, TypeOK, InHandPcs, EmptyPcs, connVars
<1>4. CASE FillOk(a)
  BY <1>1, <1>2, <1>4 DEF FillOk, Born, At, OwnerInv, TypeOK, EmptyPcs
<1>5. CASE a = Maint /\ SweepOk
  BY <1>1, <1>2, <1>5 DEF SweepOk, Pinged, InHand, At, OwnerInv, TypeOK, InHandPcs, EmptyPcs
<1>. QED
  BY <1>3, <1>4, <1>5

LEMMA FillType == ASSUME TypeOK, NEW a \in Actors, FillClaim(a) \/ FillFail(a) PROVE TypeOK'
<1>1. Dec(created) \in Nat /\ created + 1 \in Nat
  BY DecType DEF TypeOK
<1>. QED
  BY <1>1 DEF TypeOK, FillClaim, FillFail, AfterFill, At, connVars, InHandPcs, EmptyPcs

LEMMA MaintainType ==
  ASSUME OwnerInv, MaintTick \/ SweepTake \/ SweepStale \/ SweepDiscard PROVE TypeOK'
<1>1. Maint \in Actors /\ (pc[Maint] \in InHandPcs => conn[Maint] \in Conns) /\ TypeOK
  BY DEF Actors, OwnerInv, Ownership
<1>2. Dec(created) \in Nat /\ Len(pool) \in Nat /\ (budget > 0 => budget - 1 \in Nat)
  BY <1>1, DecType DEF TypeOK
<1>3. CASE MaintTick \/ SweepStale \/ SweepDiscard
  BY <1>1, <1>2, <1>3 DEF TypeOK, MaintTick, SweepStale, SweepDiscard, Closing, InHand, At,
                          poolVars, bookVars, connVars, InHandPcs, EmptyPcs
<1>4. CASE SweepTake
  <2>1. CASE pool # <<>> /\ budget > 0 /\ pool' = Tail(pool) /\ budget' = budget - 1
             /\ InHand(Maint, Head(pool)) /\ At(Maint, "validating")
    <3>1. pool' \in Seq(Conns) /\ Head(pool) \in Conns
      BY <2>1, TakeHead DEF OwnerInv, TypeOK, Ownership
    <3>. QED
      BY <1>1, <1>2, <1>4, <2>1, <3>1 DEF TypeOK, SweepTake, InHand, At, connVars, InHandPcs
  <2>2. CASE budget' = 0 /\ At(Maint, "topping") /\ UNCHANGED <<pool, conn>>
    BY <1>1, <1>4, <2>2 DEF TypeOK, SweepTake, At, connVars, EmptyPcs
  <2>. QED
    BY <1>4, <2>1, <2>2 DEF SweepTake
<1>. QED
  BY <1>3, <1>4

LEMMA CloseType == ASSUME TypeOK, CloseAll \/ (\E c \in Conns : CloseOne(c)) PROVE TypeOK'
<1>1. sem + MaxSize \in Nat /\ Idle \in SUBSET Conns /\ <<>> \in Seq(Conns)
  BY SyncPoolAssumption DEF TypeOK, Idle
<1>2. CASE CloseAll
  BY <1>1, <1>2 DEF TypeOK, CloseAll, connVars
<1>3. ASSUME NEW c \in Conns, CloseOne(c) PROVE TypeOK'
  BY <1>3 DEF TypeOK, CloseOne, Closing, bookVars
<1>. QED
  BY <1>2, <1>3

-----------------------------------------------------------------------------
(* Ownership, one lemma per group of actions *)

LEMMA WalkInv ==
  ASSUME OwnerInv, NEW t \in Threads,
         \/ Acquire(t) \/ SemTake(t) \/ SemTimeout(t) \/ PollTimeout(t) \/ Unwind(t) \/ HandBack(t)
         \/ Open(t) \/ ConnectFail(t) \/ ValidateStale(t) \/ Drop(t)
         \/ RollbackOk(t) \/ RollbackFail(t)
  PROVE OwnerInv'
<1>1. t \in Actors
  BY DEF Actors
<1>2. UNCHANGED <<pool, checked_out, closed, doomed, conn>> /\ pc[t] # "holding"
  BY DEF Acquire, SemTake, SemTimeout, PollTimeout, Unwind, HandBack, Open, ConnectFail,
         ValidateStale, Drop, RollbackOk, RollbackFail, poolVars, bookVars
<1>3. \E where \in InHandPcs \cup EmptyPcs :
        /\ At(t, where) /\ where # "holding" /\ (where \in InHandPcs <=> pc[t] \in InHandPcs)
  BY DEF Acquire, SemTake, SemTimeout, PollTimeout, Unwind, HandBack, Open, ConnectFail,
         ValidateStale, Drop, RollbackOk, RollbackFail, InHandPcs, EmptyPcs
<1>. QED
  BY <1>1, <1>2, <1>3, WalkOwned, ThreadType, ConnType DEF OwnerInv

LEMMA LookInv == ASSUME OwnerInv, NEW t \in Threads, Look(t) PROVE OwnerInv'
<1>1. t \in Actors /\ pc[t] \in EmptyPcs /\ pc[t] \notin InHandPcs /\ pc[t] # "holding"
      /\ UNCHANGED <<closed, doomed>>
  BY DEF Actors, Look, EmptyPcs, InHandPcs
<1>2. CASE pool # <<>> /\ pool' = Tail(pool) /\ InHand(t, Head(pool)) /\ At(t, "validating")
           /\ UNCHANGED checked_out
  BY <1>1, <1>2, TakeOwned, LookType DEF OwnerInv
<1>3. CASE UNCHANGED <<pool, checked_out, conn>> /\ \E where \in EmptyPcs \ InHandPcs : At(t, where)
  BY <1>1, <1>3, WalkOwned, LookType DEF OwnerInv, InHandPcs
<1>. QED
  BY <1>2, <1>3 DEF Look, bookVars, EmptyPcs, InHandPcs

LEMMA ConnectOkInv == ASSUME OwnerInv, NEW t \in Threads, ConnectOk(t) PROVE OwnerInv'
<1>1. t \in Actors /\ pc[t] # "holding" /\ ~closed /\ UNCHANGED <<pool, closed, doomed>>
  BY DEF Actors, ConnectOk
<1>2. PICK c \in Conns : Born(c, 1) /\ checked_out' = checked_out \cup {c} /\ InHand(t, c)
  BY DEF ConnectOk
<1>3. c \notin Idle \cup checked_out /\ \A b \in Actors \ {t} : conn[b] # c
  BY <1>2 DEF Born, Forgotten
<1>4. At(t, "holding")
  BY DEF ConnectOk
<1>. QED
  BY <1>1, <1>2, <1>3, <1>4, LendOwned, ConnType DEF OwnerInv

LEMMA ValidateOkInv == ASSUME OwnerInv, NEW t \in Threads, ValidateOk(t) PROVE OwnerInv'
<1>1. t \in Actors /\ pc[t] # "holding" /\ ~closed /\ UNCHANGED <<pool, closed, doomed>>
  BY DEF Actors, ValidateOk
<1>2. /\ conn[t] \in Conns /\ conn[t] \notin Idle \cup checked_out
      /\ \A b \in Actors \ {t} : conn[b] # conn[t]
  BY <1>1, SyncPoolAssumption DEF ValidateOk, OwnerInv, Ownership, InHandPcs
<1>3. checked_out' = checked_out \cup {conn[t]} /\ InHand(t, conn[t]) /\ At(t, "holding")
  BY <1>1 DEF ValidateOk, InHand, OwnerInv, TypeOK
<1>. QED
  BY <1>1, <1>2, <1>3, LendOwned, ConnType DEF OwnerInv

\* The connection in hand is closed, or left to close_all().
LEMMA LetGoInv ==
  ASSUME OwnerInv, NEW t \in Threads,
         Discard(t) \/ Retire(t) \/ (Release(t) /\ conn[t] \notin checked_out)
  PROVE OwnerInv'
<1>1. t \in Actors /\ conn[t] \notin checked_out
  BY DEF Actors, Discard, Retire, OwnerInv, Ownership
<1>2. InHand(t, NoConn) /\ UNCHANGED <<pool, checked_out, closed, doomed>>
  BY DEF Discard, Retire, Release, poolVars, bookVars
<1>3. \E where \in EmptyPcs : At(t, where)
  BY DEF Discard, Retire, Release, EmptyPcs
<1>. QED
  BY <1>1, <1>2, <1>3, LetGoOwned, ConnType DEF OwnerInv

LEMMA ReleaseInv == ASSUME OwnerInv, NEW t \in Threads, Release(t) PROVE OwnerInv'
<1>1. CASE conn[t] \notin checked_out
  BY <1>1, LetGoInv
<1>2. CASE conn[t] \in checked_out
  <2>1. t \in Actors /\ pc[t] = "holding" /\ checked_out' = checked_out \ {conn[t]}
        /\ UNCHANGED <<pool, closed, doomed, conn>>
    BY <1>2 DEF Actors, Release
  <2>2. \E where \in InHandPcs \ {"holding"} : At(t, where)
    BY <1>2 DEF Release, InHandPcs
  <2>. QED
    BY <1>2, <2>1, <2>2, UnlendOwned, ConnType DEF OwnerInv
<1>. QED
  BY <1>1, <1>2

LEMMA UseInv == ASSUME OwnerInv, NEW t \in Threads, Use(t) PROVE OwnerInv'
<1>1. UNCHANGED <<pool, checked_out, closed, doomed, pc, conn>> /\ TypeOK'
  BY ConnType DEF Use, poolVars, bookVars
<1>. QED
  BY <1>1 DEF OwnerInv, Ownership, Distinct, Idle

LEMMA GiveBackInv == ASSUME OwnerInv, NEW t \in Threads, GiveBack(t) PROVE OwnerInv'
<1>1. t \in Actors /\ pc[t] # "holding" /\ ~closed /\ UNCHANGED <<checked_out, closed, doomed>>
      /\ At(t, "handing") /\ pool' = Append(pool, conn[t]) /\ conn' = [conn EXCEPT ![t] = NoConn]
  BY DEF Actors, GiveBack, InHand
<1>2. /\ conn[t] \in Conns /\ conn[t] \notin Idle \cup checked_out
      /\ \A b \in Actors \ {t} : conn[b] # conn[t]
  BY <1>1, SyncPoolAssumption DEF GiveBack, OwnerInv, Ownership, InHandPcs
<1>. QED
  BY <1>1, <1>2, AppendOwned, AppendType DEF OwnerInv, EmptyPcs

LEMMA FillInv ==
  ASSUME OwnerInv, NEW a \in Actors, FillClaim(a) \/ FillOk(a) \/ FillFail(a) PROVE OwnerInv'
<1>1. pc[a] \in {"topping", "filling"} /\ pc[a] # "holding" /\ pc[a] \notin InHandPcs
  BY DEF FillClaim, FillOk, FillFail, InHandPcs
<1>2. CASE FillClaim(a) \/ FillFail(a)
  <2>1. UNCHANGED <<pool, checked_out, closed, doomed, conn>>
    BY <1>2 DEF FillClaim, FillFail
  <2>2. \E where \in EmptyPcs \ InHandPcs : At(a, where)
    BY <1>2 DEF FillClaim, FillFail, AfterFill, EmptyPcs, InHandPcs
  <2>. QED
    BY <1>1, <1>2, <2>1, <2>2, WalkOwned, FillType DEF OwnerInv, InHandPcs
<1>3. CASE FillOk(a)
  <2>1. PICK c \in Conns : Born(c, 0) /\ pool' = Append(pool, c)
    BY <1>3 DEF FillOk
  <2>2. c \notin Idle \cup checked_out /\ \A b \in Actors \ {a} : conn[b] # c
    BY <2>1 DEF Born, Forgotten
  <2>3. ~closed /\ UNCHANGED <<checked_out, closed, doomed>> /\ At(a, "topping")
        /\ conn' = [conn EXCEPT ![a] = NoConn]
    BY <1>1, <1>3 DEF FillOk, OwnerInv, TypeOK, Ownership
  <2>. QED
    BY <1>1, <1>3, <2>1, <2>2, <2>3, AppendOwned, AppendType DEF OwnerInv, EmptyPcs
<1>. QED
  BY <1>2, <1>3

LEMMA SweepInv ==
  ASSUME OwnerInv, MaintTick \/ SweepTake \/ SweepOk \/ SweepStale \/ SweepDiscard PROVE OwnerInv'
<1>1. Maint \in Actors
  BY DEF Actors
<1>2. CASE MaintTick \/ SweepStale
  <2>1. UNCHANGED <<pool, checked_out, closed, doomed, conn>> /\ pc[Maint] # "holding"
    BY <1>2 DEF MaintTick, SweepStale, poolVars, bookVars
  <2>2. \E where \in InHandPcs \cup EmptyPcs :
          /\ At(Maint, where) /\ where # "holding"
          /\ (where \in InHandPcs <=> pc[Maint] \in InHandPcs)
    BY <1>2 DEF MaintTick, SweepStale, InHandPcs, EmptyPcs
  <2>. QED
    BY <1>1, <1>2, <2>1, <2>2, WalkOwned, MaintainType DEF OwnerInv
<1>3. CASE SweepTake
  <2>1. pc[Maint] \in EmptyPcs /\ pc[Maint] \notin InHandPcs /\ pc[Maint] # "holding"
        /\ UNCHANGED <<checked_out, closed, doomed>> /\ TypeOK'
    BY <1>3, MaintainType DEF SweepTake, EmptyPcs, InHandPcs
  <2>2. CASE pool # <<>> /\ pool' = Tail(pool) /\ InHand(Maint, Head(pool)) /\ At(Maint, "validating")
    BY <1>1, <2>1, <2>2, TakeOwned DEF OwnerInv
  <2>3. CASE UNCHANGED <<pool, conn>> /\ At(Maint, "topping")
    BY <1>1, <2>1, <2>3, WalkOwned DEF OwnerInv, EmptyPcs, InHandPcs
  <2>. QED
    BY <1>3, <2>2, <2>3 DEF SweepTake
<1>4. CASE SweepOk
  <2>1. pc[Maint] # "holding" /\ ~closed /\ UNCHANGED <<checked_out, closed, doomed>>
        /\ At(Maint, "sweeping") /\ pool' = Append(pool, conn[Maint])
        /\ conn' = [conn EXCEPT ![Maint] = NoConn] /\ TypeOK'
    BY <1>1, <1>4, AppendType DEF SweepOk, InHand
  <2>2. /\ conn[Maint] \in Conns /\ conn[Maint] \notin Idle \cup checked_out
        /\ \A b \in Actors \ {Maint} : conn[b] # conn[Maint]
    BY <1>1, <1>4, <2>1, SyncPoolAssumption DEF SweepOk, OwnerInv, Ownership, InHandPcs
  <2>. QED
    BY <1>1, <2>1, <2>2, AppendOwned DEF OwnerInv, EmptyPcs
<1>5. CASE SweepDiscard
  <2>1. conn[Maint] \notin checked_out /\ At(Maint, "sweeping") /\ InHand(Maint, NoConn)
        /\ UNCHANGED <<pool, checked_out, closed, doomed>> /\ TypeOK'
    BY <1>1, <1>5, MaintainType DEF SweepDiscard, OwnerInv, Ownership, poolVars, bookVars
  <2>. QED
    BY <1>1, <2>1, LetGoOwned DEF OwnerInv, EmptyPcs
<1>. QED
  BY <1>2, <1>3, <1>4, <1>5

LEMMA CloseInv == ASSUME OwnerInv, CloseAll \/ (\E c \in Conns : CloseOne(c)) PROVE OwnerInv'
<1>1. TypeOK'
  BY CloseType DEF OwnerInv
<1>2. CASE CloseAll
  <2>1. Idle' = {} /\ Distinct(pool') /\ closed' /\ checked_out' = {} /\ pool' = <<>>
        /\ UNCHANGED <<pc, conn>>
    BY <1>2 DEF CloseAll, Idle, Distinct
  <2>. QED
    BY <1>1, <2>1 DEF OwnerInv, Ownership
<1>3. ASSUME NEW c \in Conns, CloseOne(c) PROVE OwnerInv'
  BY <1>1, <1>3 DEF CloseOne, OwnerInv, Ownership, Distinct, Idle, bookVars
<1>. QED
  BY <1>2, <1>3

-----------------------------------------------------------------------------

LEMMA OwnerInvInit == Init => OwnerInv
<1>. SUFFICES ASSUME Init PROVE Ownership
  BY TypeOKInit DEF OwnerInv
<1>1. TypeOK
  BY TypeOKInit
<1>2. NoConn \notin Idle
  BY <1>1, SyncPoolAssumption DEF TypeOK, Idle
<1>. QED
  BY <1>2 DEF Init, Ownership, Distinct, InHandPcs, Actors

LEMMA OwnerInvNext == ASSUME OwnerInv, [Next]_vars PROVE OwnerInv'
<1>1. ASSUME NEW t \in Threads,
             \/ Acquire(t) \/ SemTake(t) \/ SemTimeout(t) \/ PollTimeout(t) \/ Use(t) \/ Open(t)
      PROVE OwnerInv'
  BY <1>1, WalkInv, UseInv
<1>2. ASSUME NEW t \in Threads, Advance(t) PROVE OwnerInv'
  BY <1>2, WalkInv, LookInv, ConnectOkInv, ValidateOkInv, LetGoInv, ReleaseInv, GiveBackInv, FillInv
     DEF Advance, Actors
<1>3. CASE Maintain
  BY <1>3, SweepInv, FillInv DEF Maintain, Actors
<1>4. CASE CloseAll \/ \E c \in Conns : CloseOne(c)
  BY <1>4, CloseInv
<1>5. CASE Ended \/ UNCHANGED vars
  BY <1>5 DEF Ended, vars, poolVars, bookVars, connVars, OwnerInv, TypeOK, Ownership, Distinct, Idle
<1>. QED
  BY <1>1, <1>2, <1>3, <1>4, <1>5 DEF Next

LEMMA OwnerInvariance == Spec => []OwnerInv
BY OwnerInvInit, OwnerInvNext, PTL DEF Spec

\* Whatever the threads, the maintenance thread and close_all() do, at most one
\* of the idle queue, the loans and the hands of one thread has a connection:
\* a borrower never gets one that the sweep is still testing.
THEOREM OneOwner == Spec => []ExclusiveOwnership
<1>1. OwnerInv => ExclusiveOwnership
  BY DEF OwnerInv, Ownership, Distinct, ExclusiveOwnership, Idle
<1>. QED
  BY <1>1, OwnerInvariance, PTL

-----------------------------------------------------------------------------
(* Open sockets *)

\* One actor moves; no connection, socket or list of close_all() is touched.
LEMMA WalkOrphan ==
  ASSUME TypeOK, OrphanInv, NEW a \in Actors, NEW where, where # "holding", At(a, where),
         UNCHANGED <<pool, closed, doomed, conn, sock>>
  PROVE OrphanInv'
<1>1. \A b \in Actors : pc'[b] = "holding" => pc[b] = "holding"
  BY DEF TypeOK, At
<1>2. Overtaken'
  BY <1>1 DEF OrphanInv, Overtaken
<1>3. Reachable'
  BY DEF OrphanInv, Reachable, Idle
<1>. QED
  BY <1>2, <1>3 DEF OrphanInv

LEMMA TakeOrphan ==
  ASSUME OwnerInv, OrphanInv, NEW a \in Actors, pc[a] \in EmptyPcs, pool # <<>>,
         pool' = Tail(pool), InHand(a, Head(pool)), At(a, "validating"),
         UNCHANGED <<closed, doomed, sock>>
  PROVE OrphanInv'
<1>. DEFINE c == Head(pool)
<1>1. Idle' = Idle \ {c}
  BY TakeHead DEF OwnerInv, TypeOK, Ownership
<1>2. /\ conn'[a] = c /\ conn[a] = NoConn /\ pc'[a] = "validating"
      /\ \A b \in Actors \ {a} : conn'[b] = conn[b] /\ pc'[b] = pc[b]
  BY DEF InHand, At, OwnerInv, TypeOK, Ownership, EmptyPcs, InHandPcs
<1>. HIDE DEF c
<1>. QED
  BY <1>1, <1>2, SyncPoolAssumption DEF OrphanInv, Overtaken, Reachable

\* What an actor had in hand, or a new connection, is in the queue now.
LEMMA AppendOrphan ==
  ASSUME OwnerInv, OrphanInv, NEW a \in Actors, NEW c \in Conns, c \notin Idle,
         conn[a] \in {c, NoConn}, pool' = Append(pool, c), NEW where, where # "holding", At(a, where),
         conn' = [conn EXCEPT ![a] = NoConn], ~closed, UNCHANGED <<closed, doomed>>,
         \A d \in Conns \ {c} : sock'[d] = sock[d]
  PROVE OrphanInv'
<1>1. Idle' = Idle \cup {c}
  BY AppendOne DEF OwnerInv, TypeOK, Ownership
<1>2. conn'[a] = NoConn /\ \A b \in Actors \ {a} : conn'[b] = conn[b]
  BY DEF OwnerInv, TypeOK
<1>. QED
  BY <1>1, <1>2, SyncPoolAssumption DEF OrphanInv, Overtaken, Reachable

\* The connection in hand is closed, or close_all() has it.
LEMMA LetGoOrphan ==
  ASSUME OwnerInv, OrphanInv, NEW a \in Actors, conn[a] \in Conns,
         NEW where, where # "holding", At(a, where), InHand(a, NoConn),
         \A d \in Conns \ {conn[a]} : sock'[d] = sock[d],
         sock'[conn[a]] = "closed" \/ (conn[a] \in doomed /\ sock' = sock),
         UNCHANGED <<pool, closed, doomed>>
  PROVE OrphanInv'
<1>1. /\ pc'[a] # "holding" /\ \A b \in Actors \ {a} : conn'[b] = conn[b] /\ pc'[b] = pc[b]
  BY DEF At, InHand, OwnerInv, TypeOK
<1>2. Idle' = Idle
  BY DEF Idle
<1>3. Overtaken'
  <2>. SUFFICES ASSUME NEW b \in Actors, pc'[b] = "holding", closed
                PROVE conn'[b] \in doomed' \/ sock'[conn'[b]] = "closed"
    BY DEF Overtaken
  <2>1. b # a /\ conn'[b] = conn[b] /\ pc[b] = "holding" /\ conn[b] \in Conns
    BY <1>1 DEF OwnerInv, Ownership, InHandPcs
  <2>. QED
    BY <2>1 DEF OrphanInv, Overtaken
<1>4. Reachable'
  BY <1>1, <1>2 DEF OrphanInv, Reachable
<1>. QED
  BY <1>3, <1>4 DEF OrphanInv

\* A server answer, or the lack of one, changes the socket of a connection that
\* an actor has in hand.
LEMMA TouchOrphan ==
  ASSUME OwnerInv, OrphanInv, NEW a \in Actors, conn[a] \in Conns,
         \A d \in Conns \ {conn[a]} : sock'[d] = sock[d],
         pc'[a] = "holding" /\ closed => pc[a] = "holding" /\ sock[conn[a]] # "closed",
         \A b \in Actors \ {a} : pc'[b] = pc[b], UNCHANGED <<pool, closed, doomed, conn>>
  PROVE OrphanInv'
<1>1. Idle' = Idle
  BY DEF Idle
<1>2. Reachable'
  BY <1>1 DEF OrphanInv, Reachable
<1>3. Overtaken'
  <2>. SUFFICES ASSUME NEW b \in Actors, pc'[b] = "holding", closed
                PROVE conn[b] \in doomed \/ sock'[conn[b]] = "closed"
    BY DEF Overtaken
  <2>1. CASE b = a
    BY <2>1 DEF OrphanInv, Overtaken
  <2>2. CASE b # a
    <3>1. pc[b] = "holding" /\ conn[b] \in Conns /\ conn[b] # conn[a]
      BY <2>2, SyncPoolAssumption DEF OwnerInv, Ownership, InHandPcs
    <3>. QED
      BY <3>1 DEF OrphanInv, Overtaken
  <2>. QED
    BY <2>1, <2>2
<1>. QED
  BY <1>2, <1>3 DEF OrphanInv

-----------------------------------------------------------------------------

LEMMA ThreadOrphan ==
  ASSUME OwnerInv, OrphanInv, NEW t \in Threads,
         \/ Acquire(t) \/ SemTake(t) \/ SemTimeout(t) \/ PollTimeout(t) \/ Unwind(t) \/ HandBack(t)
         \/ Open(t) \/ ConnectFail(t) \/ ValidateStale(t) \/ Drop(t) \/ RollbackOk(t)
  PROVE OrphanInv'
<1>1. t \in Actors /\ UNCHANGED <<pool, closed, doomed, conn, sock>>
  BY DEF Actors, Acquire, SemTake, SemTimeout, PollTimeout, Unwind, HandBack, Open, ConnectFail,
         ValidateStale, Drop, RollbackOk, poolVars, bookVars, connVars
<1>2. \E where \in InHandPcs \cup EmptyPcs : At(t, where) /\ where # "holding"
  BY DEF Acquire, SemTake, SemTimeout, PollTimeout, Unwind, HandBack, Open, ConnectFail,
         ValidateStale, Drop, RollbackOk, InHandPcs, EmptyPcs
<1>. QED
  BY <1>1, <1>2, WalkOrphan DEF OwnerInv

LEMMA LookOrphan == ASSUME OwnerInv, OrphanInv, NEW t \in Threads, Look(t) PROVE OrphanInv'
<1>1. t \in Actors /\ pc[t] \in EmptyPcs /\ UNCHANGED <<closed, doomed, sock>>
  BY DEF Actors, Look, EmptyPcs, connVars
<1>2. CASE pool # <<>> /\ pool' = Tail(pool) /\ InHand(t, Head(pool)) /\ At(t, "validating")
  BY <1>1, <1>2, TakeOrphan
<1>3. CASE UNCHANGED <<pool, conn>> /\ \E where \in EmptyPcs : At(t, where) /\ where # "holding"
  BY <1>1, <1>3, WalkOrphan DEF OwnerInv
<1>. QED
  BY <1>2, <1>3 DEF Look, bookVars, EmptyPcs

LEMMA LendOrphan ==
  ASSUME OwnerInv, OrphanInv, NEW t \in Threads, ConnectOk(t) \/ ValidateOk(t) PROVE OrphanInv'
<1>1. t \in Actors /\ ~closed /\ UNCHANGED <<pool, closed, doomed>>
  BY DEF Actors, ConnectOk, ValidateOk
<1>2. Overtaken' /\ Idle' = Idle
  BY <1>1 DEF Overtaken, Idle
<1>3. CASE ConnectOk(t)
  <2>1. PICK c \in Conns : Born(c, 1) /\ InHand(t, c)
    BY <1>3 DEF ConnectOk
  <2>2. conn[t] = NoConn
    BY <1>1, <1>3 DEF ConnectOk, OwnerInv, Ownership, InHandPcs
  <2>3. /\ conn'[t] = c /\ \A b \in Actors \ {t} : conn'[b] = conn[b]
        /\ \A d \in Conns \ {c} : sock'[d] = sock[d]
    BY <1>1, <2>1 DEF Born, InHand, OwnerInv, TypeOK
  <2>. QED
    BY <1>1, <1>2, <2>2, <2>3, SyncPoolAssumption DEF OrphanInv, Reachable
<1>4. CASE ValidateOk(t)
  BY <1>1, <1>2, <1>4 DEF ValidateOk, OrphanInv, Reachable
<1>. QED
  BY <1>3, <1>4

LEMMA LetGoesOrphan ==
  ASSUME OwnerInv, OrphanInv, NEW t \in Threads, Discard(t) \/ Retire(t) PROVE OrphanInv'
<1>1. t \in Actors /\ InHand(t, NoConn) /\ UNCHANGED <<pool, closed, doomed>> /\ Closing({conn[t]})
      /\ conn[t] \in Conns
  BY DEF Actors, Discard, Retire, poolVars, bookVars, OwnerInv, Ownership, InHandPcs
<1>2. sock'[conn[t]] = "closed" /\ \A d \in Conns \ {conn[t]} : sock'[d] = sock[d]
  BY <1>1 DEF Closing
<1>3. \E where \in EmptyPcs : At(t, where) /\ where # "holding"
  BY DEF Discard, Retire, EmptyPcs
<1>. QED
  BY <1>1, <1>2, <1>3, LetGoOrphan

LEMMA ReleaseOrphan == ASSUME OwnerInv, OrphanInv, NEW t \in Threads, Release(t) PROVE OrphanInv'
<1>1. t \in Actors /\ UNCHANGED <<pool, closed, doomed, sock>> /\ pc[t] = "holding"
      /\ conn[t] \in Conns
  BY DEF Actors, Release, OwnerInv, Ownership, InHandPcs
<1>2. CASE conn[t] \in checked_out
  BY <1>1, <1>2, WalkOrphan DEF Release, OwnerInv
<1>3. CASE conn[t] \notin checked_out
  <2>1. InHand(t, NoConn) /\ At(t, "idle") /\ closed
    BY <1>1, <1>3 DEF Release, OwnerInv, Ownership
  <2>2. conn[t] \in doomed \/ sock[conn[t]] = "closed"
    BY <1>1, <2>1 DEF OrphanInv, Overtaken
  <2>. QED
    BY <1>1, <2>1, <2>2, LetGoOrphan
<1>. QED
  BY <1>2, <1>3

LEMMA TouchesOrphan ==
  ASSUME OwnerInv, OrphanInv, NEW t \in Threads, Use(t) \/ RollbackFail(t) PROVE OrphanInv'
<1>1. t \in Actors /\ UNCHANGED <<pool, closed, doomed, conn>> /\ conn[t] \in Conns
  BY DEF Actors, Use, RollbackFail, poolVars, bookVars, OwnerInv, Ownership, InHandPcs
<1>2. \A d \in Conns \ {conn[t]} : sock'[d] = sock[d]
  BY DEF Use, RollbackFail, OwnerInv, TypeOK
<1>3. \A b \in Actors \ {t} : pc'[b] = pc[b]
  BY DEF Use, RollbackFail, At, OwnerInv, TypeOK
<1>4. pc'[t] = "holding" => pc[t] = "holding" /\ sock[conn[t]] # "closed"
  BY <1>1 DEF Use, RollbackFail, At, OwnerInv, TypeOK
<1>. QED
  BY <1>1, <1>2, <1>3, <1>4, TouchOrphan

LEMMA AppendsOrphan ==
  ASSUME OwnerInv, OrphanInv, NEW a \in Actors,
         GiveBack(a) \/ FillOk(a) \/ (a = Maint /\ SweepOk)
  PROVE OrphanInv'
<1>1. ~closed /\ UNCHANGED <<closed, doomed>>
  BY DEF GiveBack, FillOk, SweepOk
<1>2. \E where \in EmptyPcs : At(a, where) /\ where # "holding"
  BY DEF GiveBack, FillOk, SweepOk, EmptyPcs
<1>3. CASE GiveBack(a) \/ (a = Maint /\ SweepOk)
  <2>1. conn[a] \in Conns /\ conn[a] \notin Idle
    BY <1>3 DEF GiveBack, SweepOk, OwnerInv, Ownership, InHandPcs
  <2>2. pool' = Append(pool, conn[a]) /\ conn' = [conn EXCEPT ![a] = NoConn] /\ sock' = sock
    BY <1>3 DEF GiveBack, SweepOk, InHand, connVars
  <2>. QED
    BY <1>1, <1>2, <2>1, <2>2, AppendOrphan
<1>4. CASE FillOk(a)
  <2>1. PICK c \in Conns : Born(c, 0) /\ pool' = Append(pool, c)
    BY <1>4 DEF FillOk
  <2>2. c \notin Idle /\ \A d \in Conns \ {c} : sock'[d] = sock[d]
    BY <2>1 DEF Born, Forgotten, OwnerInv, TypeOK
  <2>3. conn[a] = NoConn /\ conn' = [conn EXCEPT ![a] = NoConn]
    BY <1>4 DEF FillOk, OwnerInv, TypeOK, Ownership, InHandPcs
  <2>. QED
    BY <1>1, <1>2, <2>1, <2>2, <2>3, AppendOrphan
<1>. QED
  BY <1>3, <1>4

LEMMA FillOrphan ==
  ASSUME OwnerInv, OrphanInv, NEW a \in Actors, FillClaim(a) \/ FillFail(a) PROVE OrphanInv'
<1>1. UNCHANGED <<pool, closed, doomed, conn, sock>>
  BY DEF FillClaim, FillFail, connVars
<1>2. \E where \in EmptyPcs : At(a, where) /\ where # "holding"
  BY DEF FillClaim, FillFail, AfterFill, EmptyPcs
<1>. QED
  BY <1>1, <1>2, WalkOrphan DEF OwnerInv

LEMMA SweepOrphan ==
  ASSUME OwnerInv, OrphanInv, MaintTick \/ SweepTake \/ SweepStale \/ SweepDiscard PROVE OrphanInv'
<1>1. Maint \in Actors /\ UNCHANGED <<closed, doomed>>
  BY DEF Actors, MaintTick, SweepTake, SweepStale, SweepDiscard, poolVars
<1>2. CASE MaintTick \/ SweepStale
  BY <1>1, <1>2, WalkOrphan DEF MaintTick, SweepStale, OwnerInv, poolVars, bookVars, connVars
<1>3. CASE SweepTake
  <2>1. pc[Maint] \in EmptyPcs /\ sock' = sock
    BY <1>3 DEF SweepTake, EmptyPcs, connVars
  <2>2. CASE pool # <<>> /\ pool' = Tail(pool) /\ InHand(Maint, Head(pool)) /\ At(Maint, "validating")
    BY <1>1, <2>1, <2>2, TakeOrphan
  <2>3. CASE UNCHANGED <<pool, conn>> /\ At(Maint, "topping")
    BY <1>1, <2>1, <2>3, WalkOrphan DEF OwnerInv
  <2>. QED
    BY <1>3, <2>2, <2>3 DEF SweepTake
<1>4. CASE SweepDiscard
  <2>1. /\ conn[Maint] \in Conns /\ InHand(Maint, NoConn) /\ At(Maint, "sweeping")
        /\ sock'[conn[Maint]] = "closed" /\ UNCHANGED pool
        /\ \A d \in Conns \ {conn[Maint]} : sock'[d] = sock[d]
    BY <1>1, <1>4 DEF SweepDiscard, Closing, OwnerInv, Ownership, InHandPcs, poolVars, bookVars
  <2>. QED
    BY <1>1, <2>1, LetGoOrphan
<1>. QED
  BY <1>2, <1>3, <1>4

LEMMA CloseOrphan ==
  ASSUME OwnerInv, OrphanInv, CloseAll \/ (\E c \in Conns : CloseOne(c)) PROVE OrphanInv'
<1>1. CASE CloseAll
  <2>1. doomed' = Idle \cup checked_out /\ Idle' = {} /\ UNCHANGED <<pc, conn, sock>> /\ doomed = {}
    BY <1>1 DEF CloseAll, Idle, connVars, OwnerInv, Ownership
  <2>2. \A a \in Actors : pc[a] = "holding" => conn[a] \in doomed'
    BY <1>1, <2>1 DEF CloseAll, OwnerInv, Ownership
  <2>. QED
    BY <2>1, <2>2 DEF OrphanInv, Overtaken, Reachable
<1>2. ASSUME NEW c \in Conns, CloseOne(c) PROVE OrphanInv'
  <2>1. /\ sock'[c] = "closed" /\ \A d \in Conns \ {c} : sock'[d] = sock[d]
        /\ doomed' = doomed \ {c} /\ UNCHANGED <<pool, closed, pc, conn>>
    BY <1>2 DEF CloseOne, Closing, bookVars
  <2>2. \A a \in Actors : pc[a] = "holding" => conn[a] \in Conns
    BY DEF OwnerInv, Ownership, InHandPcs
  <2>. QED
    BY <2>1, <2>2 DEF OrphanInv, Overtaken, Reachable, Idle
<1>. QED
  BY <1>1, <1>2

-----------------------------------------------------------------------------

LEMMA OrphanInvInit == Init => OrphanInv
BY DEF Init, OrphanInv, Overtaken, Reachable, Actors

LEMMA OrphanInvNext == ASSUME OwnerInv, OrphanInv, [Next]_vars PROVE OrphanInv'
<1>1. ASSUME NEW t \in Threads,
             \/ Acquire(t) \/ SemTake(t) \/ SemTimeout(t) \/ PollTimeout(t) \/ Use(t) \/ Open(t)
      PROVE OrphanInv'
  BY <1>1, ThreadOrphan, TouchesOrphan
<1>2. ASSUME NEW t \in Threads, Advance(t) PROVE OrphanInv'
  BY <1>2, ThreadOrphan, LookOrphan, LendOrphan, LetGoesOrphan, ReleaseOrphan, TouchesOrphan,
     AppendsOrphan, FillOrphan DEF Advance, Actors
<1>3. CASE Maintain
  BY <1>3, SweepOrphan, AppendsOrphan, FillOrphan DEF Maintain, Actors
<1>4. CASE CloseAll \/ \E c \in Conns : CloseOne(c)
  BY <1>4, CloseOrphan
<1>5. CASE Ended \/ UNCHANGED vars
  BY <1>5 DEF Ended, vars, poolVars, bookVars, connVars, OrphanInv, Overtaken, Reachable, Idle
<1>. QED
  BY <1>1, <1>2, <1>3, <1>4, <1>5 DEF Next

LEMMA OrphanInvariance == Spec => []OrphanInv
<1>1. OwnerInv /\ OrphanInv /\ [Next]_vars => OrphanInv'
  BY OrphanInvNext
<1>. QED
  BY <1>1, OrphanInvInit, OwnerInvariance, PTL DEF Spec

\* An open socket is always somewhere the pool will find it, whichever of the
\* failures, retirements and the end of the pool its connection went through.
THEOREM NoSocketForgotten == Spec => []NoOrphans
<1>1. OwnerInv /\ OrphanInv => NoOrphans
  BY DEF OwnerInv, Ownership, OrphanInv, Reachable, NoOrphans
<1>. QED
  BY <1>1, OwnerInvariance, OrphanInvariance, PTL

-----------------------------------------------------------------------------
(* Clean connections *)

\* One actor moves to a place that asks for nothing.
LEMMA WalkClean ==
  ASSUME OwnerInv, CleanInv, NEW a \in Actors, NEW where, At(a, where),
         where \notin {"validating", "returning", "rolling"}, UNCHANGED <<pool, tx, rows>>,
         \A b \in Actors \ {a} : conn'[b] = conn[b]
  PROVE CleanInv'
<1>1. /\ pc'[a] \notin {"validating", "returning", "rolling"}
      /\ \A b \in Actors \ {a} : pc'[b] = pc[b]
  BY DEF At, OwnerInv, TypeOK
<1>2. Idle' = Idle
  BY DEF Idle
<1>. QED
  BY <1>1, <1>2 DEF CleanInv, Fresh

\* The connection of an actor, or a new one, has its transaction or its rows
\* changed; the actor stays with it, and leaves it clean where that is asked.
LEMMA TouchClean ==
  ASSUME OwnerInv, CleanInv, NEW a \in Actors, NEW c \in Conns, c \notin Idle,
         \A b \in Actors \ {a} : conn[b] # c /\ conn'[b] = conn[b] /\ pc'[b] = pc[b],
         conn'[a] = c, UNCHANGED pool,
         \A d \in Conns \ {c} : tx'[d] = tx[d] /\ rows'[d] = rows[d],
         pc'[a] \in {"validating", "returning"} => ~rows'[c] /\ (ManualCommit \/ ~tx'[c]),
         pc'[a] = "rolling" => ~rows'[c]
  PROVE CleanInv'
<1>1. Idle' = Idle /\ Idle \subseteq Conns
  BY DEF Idle, OwnerInv, TypeOK
<1>2. \A d \in Idle : ~rows'[d] /\ (ManualCommit \/ ~tx'[d])
  BY <1>1 DEF CleanInv, Fresh
<1>3. ASSUME NEW b \in Actors \ {a}, pc'[b] \in {"validating", "returning", "rolling"}
      PROVE /\ rows'[conn'[b]] = rows[conn[b]] /\ tx'[conn'[b]] = tx[conn[b]] /\ pc[b] = pc'[b]
  BY <1>3 DEF OwnerInv, Ownership, InHandPcs
<1>. QED
  BY <1>1, <1>2, <1>3 DEF CleanInv, Fresh

LEMMA TakeClean ==
  ASSUME OwnerInv, CleanInv, NEW a \in Actors, pool # <<>>, pool' = Tail(pool),
         InHand(a, Head(pool)), At(a, "validating"), UNCHANGED <<tx, rows>>
  PROVE CleanInv'
<1>. DEFINE c == Head(pool)
<1>1. c \in Idle /\ Idle' = Idle \ {c}
  BY TakeHead DEF OwnerInv, TypeOK, Ownership
<1>2. /\ conn'[a] = c /\ pc'[a] = "validating"
      /\ \A b \in Actors \ {a} : conn'[b] = conn[b] /\ pc'[b] = pc[b]
  BY DEF InHand, At, OwnerInv, TypeOK
<1>. HIDE DEF c
<1>. QED
  BY <1>1, <1>2 DEF CleanInv, Fresh

\* A connection that is clean goes to the queue.
LEMMA AppendClean ==
  ASSUME OwnerInv, CleanInv, NEW a \in Actors, NEW c \in Conns, c \notin Idle,
         \A b \in Actors \ {a} : conn[b] # c, pool' = Append(pool, c),
         NEW where \in EmptyPcs, At(a, where), conn' = [conn EXCEPT ![a] = NoConn],
         \A d \in Conns \ {c} : tx'[d] = tx[d] /\ rows'[d] = rows[d],
         ~rows'[c] /\ (ManualCommit \/ ~tx'[c])
  PROVE CleanInv'
<1>1. Idle' = Idle \cup {c}
  BY AppendOne DEF OwnerInv, TypeOK, Ownership
<1>2. /\ pc'[a] \notin {"validating", "returning", "rolling"}
      /\ \A b \in Actors \ {a} : conn'[b] = conn[b] /\ pc'[b] = pc[b]
  BY DEF At, OwnerInv, TypeOK, EmptyPcs
<1>3. ASSUME NEW b \in Actors \ {a}, pc'[b] \in {"validating", "returning", "rolling"}
      PROVE rows'[conn'[b]] = rows[conn[b]] /\ tx'[conn'[b]] = tx[conn[b]] /\ pc[b] = pc'[b]
  BY <1>2, <1>3 DEF OwnerInv, Ownership, InHandPcs
<1>4. Idle \subseteq Conns
  BY DEF OwnerInv, TypeOK, Idle
<1>. QED
  BY <1>1, <1>2, <1>3, <1>4 DEF CleanInv, Fresh

-----------------------------------------------------------------------------

LEMMA ThreadClean ==
  ASSUME OwnerInv, CleanInv, NEW t \in Threads,
         \/ Acquire(t) \/ SemTake(t) \/ SemTimeout(t) \/ PollTimeout(t) \/ Unwind(t) \/ HandBack(t)
         \/ Open(t) \/ ConnectFail(t) \/ ValidateStale(t) \/ Drop(t) \/ Discard(t) \/ Retire(t)
         \/ FillClaim(t) \/ FillFail(t)
  PROVE CleanInv'
<1>1. t \in Actors /\ UNCHANGED <<pool, tx, rows>>
  BY DEF Actors, Acquire, SemTake, SemTimeout, PollTimeout, Unwind, HandBack, Open, ConnectFail,
         ValidateStale, Drop, Discard, Retire, FillClaim, FillFail, poolVars, bookVars, connVars
<1>2. \A b \in Actors \ {t} : conn'[b] = conn[b]
  BY DEF Acquire, SemTake, SemTimeout, PollTimeout, Unwind, HandBack, Open, ConnectFail,
         ValidateStale, Drop, Discard, Retire, FillClaim, FillFail, InHand, OwnerInv, TypeOK
<1>3. \E where : At(t, where) /\ where \notin {"validating", "returning", "rolling"}
  BY DEF Acquire, SemTake, SemTimeout, PollTimeout, Unwind, HandBack, Open, ConnectFail,
         ValidateStale, Drop, Discard, Retire, FillClaim, FillFail, AfterFill
<1>. QED
  BY <1>1, <1>2, <1>3, WalkClean

LEMMA LookClean == ASSUME OwnerInv, CleanInv, NEW t \in Threads, Look(t) PROVE CleanInv'
<1>1. t \in Actors /\ UNCHANGED <<tx, rows>>
  BY DEF Actors, Look, connVars
<1>2. CASE pool # <<>> /\ pool' = Tail(pool) /\ InHand(t, Head(pool)) /\ At(t, "validating")
  BY <1>1, <1>2, TakeClean
<1>3. CASE UNCHANGED <<pool, conn>> /\ \E where \in EmptyPcs : At(t, where)
  BY <1>1, <1>3, WalkClean DEF EmptyPcs
<1>. QED
  BY <1>2, <1>3 DEF Look, bookVars, EmptyPcs

LEMMA ConnectClean == ASSUME OwnerInv, CleanInv, NEW t \in Threads, ConnectOk(t) PROVE CleanInv'
<1>1. t \in Actors /\ UNCHANGED pool /\ At(t, "holding")
  BY DEF Actors, ConnectOk
<1>2. PICK c \in Conns : Born(c, 1) /\ InHand(t, c)
  BY DEF ConnectOk
<1>3. /\ c \notin Idle /\ \A b \in Actors : conn[b] # c
      /\ \A d \in Conns \ {c} : tx'[d] = tx[d] /\ rows'[d] = rows[d]
  BY <1>2 DEF Born, Forgotten, OwnerInv, TypeOK
<1>4. /\ conn'[t] = c /\ pc'[t] = "holding"
      /\ \A b \in Actors \ {t} : conn'[b] = conn[b] /\ pc'[b] = pc[b]
  BY <1>1, <1>2 DEF InHand, At, OwnerInv, TypeOK
<1>. QED
  BY <1>1, <1>3, <1>4, TouchClean

\* An actor works on the connection it has in hand.
LEMMA WorkClean ==
  ASSUME OwnerInv, CleanInv, NEW t \in Threads,
         \/ ValidateOk(t) \/ Use(t) \/ RollbackOk(t) \/ RollbackFail(t)
         \/ (Release(t) /\ conn[t] \in checked_out)
  PROVE CleanInv'
<1>1. t \in Actors /\ UNCHANGED <<pool, conn>> /\ pc[t] \in InHandPcs
  BY DEF Actors, ValidateOk, Use, RollbackOk, RollbackFail, Release, InHandPcs, poolVars, bookVars
<1>2. conn[t] \in Conns /\ conn[t] \notin Idle /\ \A b \in Actors \ {t} : conn[b] # conn[t]
  BY <1>1, SyncPoolAssumption DEF OwnerInv, Ownership
<1>3. \A d \in Conns \ {conn[t]} : tx'[d] = tx[d] /\ rows'[d] = rows[d]
  BY <1>2 DEF ValidateOk, Pinged, Use, RollbackOk, RollbackFail, Release, OwnerInv, TypeOK
<1>4. \A b \in Actors \ {t} : pc'[b] = pc[b]
  BY DEF ValidateOk, Use, RollbackOk, RollbackFail, Release, At, OwnerInv, TypeOK
<1>5. /\ pc'[t] # "validating"
      /\ pc'[t] = "returning" => ~rows'[conn[t]] /\ ~tx'[conn[t]]
      /\ pc'[t] = "rolling" => ~rows'[conn[t]]
  <2>1. CASE ValidateOk(t)
    BY <1>1, <2>1 DEF ValidateOk, At, OwnerInv, TypeOK
  <2>2. CASE Use(t)
    BY <1>1, <2>2 DEF Use, OwnerInv, TypeOK
  <2>3. CASE RollbackOk(t) \/ RollbackFail(t)
    <3>1. ~rows'[conn[t]]
      BY <1>1, <2>3 DEF RollbackOk, RollbackFail, CleanInv
    <3>2. pc'[t] \in {"returning", "dropping"} /\ (pc'[t] = "returning" => ~tx'[conn[t]])
      BY <1>1, <1>2, <2>3 DEF RollbackOk, RollbackFail, At, OwnerInv, TypeOK
    <3>. QED
      BY <3>1, <3>2
  <2>4. CASE Release(t) /\ conn[t] \in checked_out
    BY <1>1, <1>2, <2>4 DEF Release, At, OwnerInv, TypeOK
  <2>. QED
    BY <2>1, <2>2, <2>3, <2>4
<1>. QED
  BY <1>1, <1>2, <1>3, <1>4, <1>5, TouchClean

LEMMA ReleaseClean == ASSUME OwnerInv, CleanInv, NEW t \in Threads, Release(t) PROVE CleanInv'
<1>1. CASE conn[t] \in checked_out
  BY <1>1, WorkClean
<1>2. CASE conn[t] \notin checked_out
  <2>1. t \in Actors /\ UNCHANGED <<pool, tx, rows>> /\ At(t, "idle")
        /\ \A b \in Actors \ {t} : conn'[b] = conn[b]
    BY <1>2 DEF Actors, Release, InHand, OwnerInv, TypeOK
  <2>. QED
    BY <2>1, WalkClean
<1>. QED
  BY <1>1, <1>2

LEMMA AppendsClean ==
  ASSUME OwnerInv, CleanInv, NEW a \in Actors,
         GiveBack(a) \/ FillOk(a) \/ (a = Maint /\ SweepOk)
  PROVE CleanInv'
<1>1. \E where \in EmptyPcs : At(a, where)
  BY DEF GiveBack, FillOk, SweepOk, EmptyPcs
<1>2. CASE GiveBack(a) \/ (a = Maint /\ SweepOk)
  <2>1. pc[a] \in {"returning", "validating"} /\ pool' = Append(pool, conn[a])
        /\ conn' = [conn EXCEPT ![a] = NoConn] /\ rows' = rows
    BY <1>2 DEF GiveBack, SweepOk, InHand, connVars
  <2>2. conn[a] \in Conns /\ conn[a] \notin Idle /\ \A b \in Actors \ {a} : conn[b] # conn[a]
    BY <2>1, SyncPoolAssumption DEF OwnerInv, Ownership, InHandPcs
  <2>3. \A d \in Conns \ {conn[a]} : tx'[d] = tx[d]
    BY <1>2 DEF GiveBack, SweepOk, Pinged, connVars, OwnerInv, TypeOK
  <2>4. ~rows[conn[a]] /\ (ManualCommit \/ ~tx[conn[a]])
    BY <2>1 DEF CleanInv, Fresh
  <2>5. ManualCommit \/ ~tx'[conn[a]]
    BY <1>2, <2>2, <2>4 DEF GiveBack, SweepOk, Pinged, connVars, OwnerInv, TypeOK
  <2>. QED
    BY <1>1, <2>1, <2>2, <2>3, <2>4, <2>5, AppendClean
<1>3. CASE FillOk(a)
  <2>1. PICK c \in Conns : Born(c, 0) /\ pool' = Append(pool, c)
    BY <1>3 DEF FillOk
  <2>2. /\ c \notin Idle /\ \A b \in Actors : conn[b] # c
        /\ \A d \in Conns \ {c} : tx'[d] = tx[d] /\ rows'[d] = rows[d]
        /\ ~tx'[c] /\ ~rows'[c]
    BY <2>1 DEF Born, Forgotten, OwnerInv, TypeOK
  <2>3. conn' = [conn EXCEPT ![a] = NoConn]
    BY <1>3 DEF FillOk, OwnerInv, TypeOK, Ownership, InHandPcs
  <2>. QED
    BY <1>1, <2>1, <2>2, <2>3, AppendClean
<1>. QED
  BY <1>2, <1>3

LEMMA SweepClean ==
  ASSUME OwnerInv, CleanInv,
         \/ MaintTick \/ SweepTake \/ SweepStale \/ SweepDiscard
         \/ FillClaim(Maint) \/ FillFail(Maint)
  PROVE CleanInv'
<1>1. Maint \in Actors /\ UNCHANGED <<tx, rows>>
  BY DEF Actors, MaintTick, SweepTake, SweepStale, SweepDiscard, FillClaim, FillFail, connVars
<1>2. CASE pool # <<>> /\ pool' = Tail(pool) /\ InHand(Maint, Head(pool)) /\ At(Maint, "validating")
  BY <1>1, <1>2, TakeClean
<1>3. CASE /\ UNCHANGED pool /\ \A b \in Actors \ {Maint} : conn'[b] = conn[b]
           /\ \E where : At(Maint, where) /\ where \notin {"validating", "returning", "rolling"}
  BY <1>1, <1>3, WalkClean
<1>4. CASE MaintTick \/ SweepStale \/ FillClaim(Maint) \/ FillFail(Maint)
  BY <1>3, <1>4 DEF MaintTick, SweepStale, FillClaim, FillFail, AfterFill, poolVars, bookVars
<1>5. CASE SweepDiscard
  BY <1>1, <1>3, <1>5 DEF SweepDiscard, InHand, poolVars, bookVars, OwnerInv, TypeOK
<1>6. CASE SweepTake
  BY <1>2, <1>3, <1>6 DEF SweepTake
<1>. QED
  BY <1>4, <1>5, <1>6

LEMMA CloseClean ==
  ASSUME OwnerInv, CleanInv, CloseAll \/ (\E c \in Conns : CloseOne(c)) PROVE CleanInv'
<1>1. Idle' \subseteq Idle /\ UNCHANGED <<pc, conn, tx, rows>>
  <2>1. CASE CloseAll
    BY <2>1 DEF CloseAll, Idle, connVars
  <2>2. CASE \E c \in Conns : CloseOne(c)
    BY <2>2 DEF CloseOne, Idle, bookVars
  <2>. QED
    BY <2>1, <2>2
<1>. QED
  BY <1>1 DEF CleanInv, Fresh

-----------------------------------------------------------------------------

LEMMA CleanInvInit == Init => CleanInv
<1>. SUFFICES ASSUME Init PROVE CleanInv
  OBVIOUS
<1>1. Idle \subseteq Conns
  BY TypeOKInit DEF TypeOK, Idle
<1>. QED
  BY <1>1 DEF Init, CleanInv, Fresh, Actors

LEMMA CleanInvNext == ASSUME OwnerInv, CleanInv, [Next]_vars PROVE CleanInv'
<1>1. ASSUME NEW t \in Threads,
             \/ Acquire(t) \/ SemTake(t) \/ SemTimeout(t) \/ PollTimeout(t) \/ Use(t) \/ Open(t)
      PROVE CleanInv'
  BY <1>1, ThreadClean, WorkClean
<1>2. ASSUME NEW t \in Threads, Advance(t) PROVE CleanInv'
  BY <1>2, ThreadClean, LookClean, ConnectClean, WorkClean, ReleaseClean, AppendsClean
     DEF Advance, Actors
<1>3. CASE Maintain
  BY <1>3, SweepClean, AppendsClean DEF Maintain, Actors
<1>4. CASE CloseAll \/ \E c \in Conns : CloseOne(c)
  BY <1>4, CloseClean
<1>5. CASE Ended \/ UNCHANGED vars
  BY <1>5 DEF Ended, vars, poolVars, bookVars, connVars, CleanInv, Fresh, Idle
<1>. QED
  BY <1>1, <1>2, <1>3, <1>4, <1>5 DEF Next

LEMMA CleanInvariance == Spec => []CleanInv
<1>1. OwnerInv /\ CleanInv /\ [Next]_vars => CleanInv'
  BY CleanInvNext
<1>. QED
  BY <1>1, CleanInvInit, OwnerInvariance, PTL DEF Spec

\* The next borrower waits for nobody's transaction and reads nobody's rows,
\* when the connections commit by themselves, as they do unless on_connect
\* turns autocommit off.
THEOREM QueueIsClean == ASSUME ~ManualCommit PROVE Spec => []IdleIsClean
<1>1. CleanInv => IdleIsClean
  BY DEF CleanInv, Fresh, IdleIsClean
<1>. QED
  BY <1>1, CleanInvariance, PTL

\* With autocommit off too, nobody reads another's rows.
THEOREM QueueHasNoRows == Spec => [](\A c \in Idle : ~rows[c])
<1>1. CleanInv => \A c \in Idle : ~rows[c]
  BY DEF CleanInv, Fresh
<1>. QED
  BY <1>1, CleanInvariance, PTL

-----------------------------------------------------------------------------
(* The counters, the slots and the semaphore, and the loan book.              *)

SlotPcs == {"connecting", "validating", "rolling", "returning", "dropping", "filling"}
AdmittedPcs == {"looking", "polling", "connecting", "validating", "discarding", "unwinding",
                "holding", "rolling", "returning", "dropping", "retiring", "handing"}

\* The actors of group A that are at one of places P
Among(A, P) == {a \in A : pc[a] \in P}
Number(A, P) == Cardinality(Among(A, P))

\* Every slot is in the queue, on loan or with one actor.
Books ==
  ~closed => /\ created = Len(pool) + Cardinality(checked_out) + Number(Actors, SlotPcs)
             /\ created <= MaxSize

\* Every unit of the semaphore is free or with one thread.
Units == ~closed => sem + Number(Threads, AdmittedPcs) = MaxSize

-----------------------------------------------------------------------------
(* Counting *)

LEMMA Groups ==
  /\ IsFiniteSet(Actors) /\ IsFiniteSet(Threads) /\ Threads \subseteq Actors
  /\ Maint \in Actors /\ Maint \notin Threads
BY SyncPoolAssumption, FS_AddElement DEF Actors

LEMMA NumberType ==
  ASSUME NEW A, IsFiniteSet(A), NEW P PROVE IsFiniteSet(Among(A, P)) /\ Number(A, P) \in Nat
<1>1. Among(A, P) \subseteq A
  BY DEF Among
<1>. QED
  BY <1>1, FS_Subset, FS_CardinalityType DEF Number

LEMMA Enters ==
  ASSUME TypeOK, NEW A \in {Actors, Threads}, NEW P, NEW a \in A, NEW where, At(a, where),
         pc[a] \notin P, where \in P
  PROVE Number(A, P)' = Number(A, P) + 1
<1>1. Among(A, P)' = Among(A, P) \cup {a} /\ a \notin Among(A, P)
  BY Groups DEF TypeOK, At, Among
<1>2. IsFiniteSet(Among(A, P))
  BY Groups, NumberType
<1>. QED
  BY <1>1, <1>2, FS_AddElement DEF Number

LEMMA Leaves ==
  ASSUME TypeOK, NEW A \in {Actors, Threads}, NEW P, NEW a \in A, NEW where, At(a, where),
         pc[a] \in P, where \notin P
  PROVE Number(A, P)' = Number(A, P) - 1 /\ Number(A, P) >= 1
<1>1. Among(A, P)' = Among(A, P) \ {a} /\ a \in Among(A, P)
  BY Groups DEF TypeOK, At, Among
<1>2. IsFiniteSet(Among(A, P)) /\ IsFiniteSet(Among(A, P) \ {a})
  BY Groups, NumberType, FS_Subset
<1>3. Cardinality(Among(A, P) \ {a}) = Cardinality(Among(A, P)) - 1
  BY <1>1, <1>2, FS_RemoveElement
<1>4. Cardinality(Among(A, P)) \in Nat /\ Cardinality(Among(A, P) \ {a}) \in Nat
  BY <1>2, FS_CardinalityType
<1>. QED
  BY <1>1, <1>3, <1>4 DEF Number

LEMMA Stays ==
  ASSUME TypeOK, NEW A \in {Actors, Threads}, NEW P, NEW a \in Actors, NEW where, At(a, where),
         a \notin A \/ (pc[a] \in P <=> where \in P)
  PROVE Number(A, P)' = Number(A, P)
<1>1. Among(A, P)' = Among(A, P)
  BY Groups DEF TypeOK, At, Among
<1>. QED
  BY <1>1 DEF Number

LEMMA BookTypes ==
  ASSUME TypeOK
  PROVE /\ Len(pool) \in Nat /\ Cardinality(checked_out) \in Nat /\ IsFiniteSet(checked_out)
        /\ \A P : Number(Actors, P) \in Nat /\ Number(Threads, P) \in Nat
<1>1. IsFiniteSet(checked_out)
  BY SyncPoolAssumption, FS_Subset DEF TypeOK
<1>. QED
  BY <1>1, Groups, NumberType, FS_CardinalityType DEF TypeOK

-----------------------------------------------------------------------------
(* Slots.  The four ways a slot moves, for an actor a *)

\* ... it does not.
LEMMA KeepSlots ==
  ASSUME TypeOK, Books, NEW a \in Actors, NEW where, At(a, where),
         pc[a] \in SlotPcs <=> where \in SlotPcs, UNCHANGED <<pool, checked_out, created, closed>>
  PROVE Books'
BY Stays DEF Books

\* ... the actor takes one, or gives its own up.
LEMMA TakeSlot ==
  ASSUME TypeOK, Books, ~closed, NEW a \in Actors, NEW where \in SlotPcs, At(a, where),
         pc[a] \notin SlotPcs, created < MaxSize, created' = created + 1,
         UNCHANGED <<pool, checked_out>>
  PROVE Books'
<1>1. Number(Actors, SlotPcs)' = Number(Actors, SlotPcs) + 1
  BY Enters
<1>. QED
  BY <1>1, BookTypes, SyncPoolAssumption DEF Books, TypeOK

LEMMA GiveSlot ==
  ASSUME TypeOK, Books, NEW a \in Actors, NEW where, At(a, where),
         pc[a] \in SlotPcs, where \notin SlotPcs, created' = Dec(created),
         UNCHANGED <<pool, checked_out, closed>>
  PROVE Books'
<1>1. Number(Actors, SlotPcs)' = Number(Actors, SlotPcs) - 1 /\ Number(Actors, SlotPcs) >= 1
  BY Leaves
<1>. QED
  BY <1>1, BookTypes, SyncPoolAssumption DEF Books, TypeOK, Dec

\* ... it passes between the actor and the queue.
LEMMA SlotFromQueue ==
  ASSUME TypeOK, Books, NEW a \in Actors, NEW where \in SlotPcs, At(a, where),
         pc[a] \notin SlotPcs, pool # <<>>, pool' = Tail(pool),
         UNCHANGED <<checked_out, created, closed>>
  PROVE Books'
<1>1. Number(Actors, SlotPcs)' = Number(Actors, SlotPcs) + 1
  BY Enters
<1>2. Len(pool') = Len(pool) - 1
  BY DEF TypeOK
<1>. QED
  BY <1>1, <1>2, BookTypes DEF Books, TypeOK

LEMMA SlotToQueue ==
  ASSUME TypeOK, Books, NEW a \in Actors, NEW where, At(a, where),
         pc[a] \in SlotPcs, where \notin SlotPcs, NEW c \in Conns, pool' = Append(pool, c),
         UNCHANGED <<checked_out, created, closed>>
  PROVE Books'
<1>1. Number(Actors, SlotPcs)' = Number(Actors, SlotPcs) - 1
  BY Leaves
<1>2. Len(pool') = Len(pool) + 1
  BY DEF TypeOK
<1>. QED
  BY <1>1, <1>2, BookTypes DEF Books, TypeOK

\* ... it passes between the actor and the loans.
LEMMA SlotToLoan ==
  ASSUME TypeOK, Books, NEW a \in Actors, NEW where, At(a, where),
         pc[a] \in SlotPcs, where \notin SlotPcs, NEW c, c \notin checked_out,
         checked_out' = checked_out \cup {c}, UNCHANGED <<pool, created, closed>>
  PROVE Books'
<1>1. Number(Actors, SlotPcs)' = Number(Actors, SlotPcs) - 1
  BY Leaves
<1>2. Cardinality(checked_out') = Cardinality(checked_out) + 1
  BY BookTypes, FS_AddElement
<1>. QED
  BY <1>1, <1>2, BookTypes DEF Books, TypeOK

LEMMA SlotFromLoan ==
  ASSUME TypeOK, Books, NEW a \in Actors, NEW where \in SlotPcs, At(a, where),
         pc[a] \notin SlotPcs, NEW c \in checked_out, checked_out' = checked_out \ {c},
         UNCHANGED <<pool, created, closed>>
  PROVE Books'
<1>1. Number(Actors, SlotPcs)' = Number(Actors, SlotPcs) + 1
  BY Enters
<1>2. Cardinality(checked_out') = Cardinality(checked_out) - 1
  BY BookTypes, FS_RemoveElement
<1>. QED
  BY <1>1, <1>2, BookTypes DEF Books, TypeOK

-----------------------------------------------------------------------------

LEMMA WalkBooks ==
  ASSUME OwnerInv, Books, NEW t \in Threads,
         \/ Acquire(t) \/ SemTake(t) \/ SemTimeout(t) \/ PollTimeout(t) \/ Unwind(t) \/ HandBack(t)
         \/ Open(t) \/ Discard(t) \/ Retire(t) \/ RollbackOk(t) \/ RollbackFail(t)
  PROVE Books'
<1>1. t \in Actors /\ UNCHANGED <<pool, checked_out, created, closed>>
  BY Groups DEF Acquire, SemTake, SemTimeout, PollTimeout, Unwind, HandBack, Open, Discard, Retire,
                RollbackOk, RollbackFail, poolVars, bookVars
<1>2. \E where : At(t, where) /\ (pc[t] \in SlotPcs <=> where \in SlotPcs)
  BY DEF Acquire, SemTake, SemTimeout, PollTimeout, Unwind, HandBack, Open, Discard, Retire,
         RollbackOk, RollbackFail, SlotPcs
<1>. QED
  BY <1>1, <1>2, KeepSlots DEF OwnerInv

LEMMA LookBooks == ASSUME OwnerInv, Books, NEW t \in Threads, Look(t) PROVE Books'
<1>1. t \in Actors /\ pc[t] \notin SlotPcs /\ UNCHANGED <<closed, checked_out>>
  BY Groups DEF Look, SlotPcs, bookVars
<1>2. CASE pool # <<>> /\ pool' = Tail(pool) /\ At(t, "validating") /\ UNCHANGED created
  BY <1>1, <1>2, SlotFromQueue DEF OwnerInv, SlotPcs
<1>3. CASE ~closed /\ SlotFree(created) /\ created' = created + 1 /\ At(t, "connecting")
           /\ UNCHANGED pool
  BY <1>1, <1>3, TakeSlot DEF OwnerInv, SlotPcs, SlotFree
<1>4. CASE UNCHANGED <<pool, created>> /\ (At(t, "unwinding") \/ At(t, "polling"))
  BY <1>1, <1>4, KeepSlots DEF OwnerInv, SlotPcs
<1>. QED
  BY <1>2, <1>3, <1>4 DEF Look, bookVars

LEMMA GivesUpBooks ==
  ASSUME OwnerInv, Books, NEW t \in Threads, ConnectFail(t) \/ ValidateStale(t) \/ Drop(t)
  PROVE Books'
<1>1. t \in Actors /\ pc[t] \in SlotPcs /\ created' = Dec(created)
      /\ UNCHANGED <<pool, checked_out, closed>>
  BY Groups DEF ConnectFail, ValidateStale, Drop, SlotPcs
<1>2. \E where : At(t, where) /\ where \notin SlotPcs
  BY DEF ConnectFail, ValidateStale, Drop, SlotPcs
<1>. QED
  BY <1>1, <1>2, GiveSlot DEF OwnerInv

LEMMA LendBooks ==
  ASSUME OwnerInv, Books, NEW t \in Threads, ConnectOk(t) \/ ValidateOk(t) PROVE Books'
<1>1. t \in Actors /\ pc[t] \in SlotPcs /\ At(t, "holding") /\ "holding" \notin SlotPcs
      /\ UNCHANGED <<pool, created, closed>>
  BY Groups DEF ConnectOk, ValidateOk, SlotPcs
<1>2. \E c : c \notin checked_out /\ checked_out' = checked_out \cup {c}
  BY <1>1 DEF ConnectOk, Born, Forgotten, ValidateOk, OwnerInv, Ownership
<1>. QED
  BY <1>1, <1>2, SlotToLoan DEF OwnerInv

LEMMA ReleaseBooks == ASSUME OwnerInv, Books, NEW t \in Threads, Release(t) PROVE Books'
<1>1. t \in Actors /\ pc[t] = "holding" /\ UNCHANGED <<pool, created, closed>>
  BY Groups DEF Release
<1>2. CASE conn[t] \notin checked_out
  BY <1>1, <1>2 DEF OwnerInv, Ownership, Books
<1>3. CASE conn[t] \in checked_out
  <2>1. checked_out' = checked_out \ {conn[t]} /\ \E where \in SlotPcs : At(t, where)
    BY <1>3 DEF Release, SlotPcs
  <2>. QED
    BY <1>1, <1>3, <2>1, SlotFromLoan DEF OwnerInv, SlotPcs
<1>. QED
  BY <1>2, <1>3

LEMMA QueueBooks ==
  ASSUME OwnerInv, Books, NEW a \in Actors,
         GiveBack(a) \/ FillOk(a) \/ (a = Maint /\ SweepOk)
  PROVE Books'
<1>1. pc[a] \in SlotPcs /\ UNCHANGED <<checked_out, created, closed>>
  BY DEF GiveBack, FillOk, SweepOk, SlotPcs
<1>2. \E where : At(a, where) /\ where \notin SlotPcs
  BY DEF GiveBack, FillOk, SweepOk, SlotPcs
<1>3. \E c \in Conns : pool' = Append(pool, c)
  BY DEF GiveBack, FillOk, SweepOk, OwnerInv, Ownership, InHandPcs
<1>. QED
  BY <1>1, <1>2, <1>3, SlotToQueue DEF OwnerInv

LEMMA FillBooks ==
  ASSUME OwnerInv, Books, NEW a \in Actors, FillClaim(a) \/ FillFail(a) PROVE Books'
<1>1. UNCHANGED <<pool, checked_out, closed>>
  BY DEF FillClaim, FillFail
<1>2. CASE FillFail(a)
  BY <1>1, <1>2, GiveSlot DEF FillFail, AfterFill, SlotPcs, OwnerInv
<1>3. CASE FillClaim(a)
  <2>1. pc[a] \notin SlotPcs
    BY <1>3 DEF FillClaim, SlotPcs
  <2>2. CASE UNCHANGED created /\ At(a, AfterFill(a))
    BY <1>1, <2>1, <2>2, KeepSlots DEF AfterFill, SlotPcs, OwnerInv
  <2>3. CASE ~closed /\ created < MinSize /\ created' = created + 1 /\ At(a, "filling")
    <3>1. created < MaxSize
      BY <2>3, SyncPoolAssumption DEF OwnerInv, TypeOK
    <3>. QED
      BY <1>1, <2>1, <2>3, <3>1, TakeSlot DEF SlotPcs, OwnerInv
  <2>. QED
    BY <1>3, <2>2, <2>3 DEF FillClaim
<1>. QED
  BY <1>2, <1>3

LEMMA SweepBooks ==
  ASSUME OwnerInv, Books, MaintTick \/ SweepTake \/ SweepStale \/ SweepDiscard PROVE Books'
<1>1. Maint \in Actors /\ UNCHANGED <<checked_out, closed>> /\ TypeOK
  BY Groups DEF MaintTick, SweepTake, SweepStale, SweepDiscard, poolVars, bookVars, OwnerInv
<1>2. CASE MaintTick \/ SweepDiscard
  BY <1>1, <1>2, KeepSlots DEF MaintTick, SweepDiscard, SlotPcs, poolVars, bookVars
<1>3. CASE SweepStale
  BY <1>1, <1>3, GiveSlot DEF SweepStale, SlotPcs
<1>4. CASE SweepTake
  <2>1. pc[Maint] \notin SlotPcs /\ UNCHANGED created
    BY <1>4 DEF SweepTake, SlotPcs
  <2>2. CASE pool # <<>> /\ pool' = Tail(pool) /\ At(Maint, "validating")
    BY <1>1, <2>1, <2>2, SlotFromQueue DEF SlotPcs
  <2>3. CASE UNCHANGED pool /\ At(Maint, "topping")
    BY <1>1, <2>1, <2>3, KeepSlots DEF SlotPcs
  <2>. QED
    BY <1>4, <2>2, <2>3 DEF SweepTake
<1>. QED
  BY <1>2, <1>3, <1>4

LEMMA BooksInit == Init => Books
<1>. SUFFICES ASSUME Init PROVE Books
  OBVIOUS
<1>1. Among(Actors, SlotPcs) = {}
  BY DEF Init, Among, SlotPcs
<1>2. Number(Actors, SlotPcs) = 0 /\ Cardinality(checked_out) = 0
  BY <1>1, FS_EmptySet DEF Init, Number
<1>3. Len(pool) \in Nat /\ Len(pool) <= MaxSize
  BY SyncPoolAssumption DEF Init
<1>. QED
  BY <1>2, <1>3 DEF Init, Books

LEMMA BooksNext == ASSUME OwnerInv, Books, [Next]_vars PROVE Books'
<1>1. ASSUME NEW t \in Threads,
             Acquire(t) \/ SemTake(t) \/ SemTimeout(t) \/ PollTimeout(t) \/ Open(t)
      PROVE Books'
  BY <1>1, WalkBooks
<1>2. ASSUME NEW t \in Threads, Advance(t) PROVE Books'
  BY <1>2, Groups, WalkBooks, LookBooks, GivesUpBooks, LendBooks, ReleaseBooks, QueueBooks, FillBooks
     DEF Advance
<1>3. CASE Maintain
  BY <1>3, Groups, SweepBooks, QueueBooks, FillBooks DEF Maintain
<1>4. CASE CloseAll
  BY <1>4 DEF CloseAll, Books
<1>5. CASE (\E t \in Threads : Use(t)) \/ (\E c \in Conns : CloseOne(c)) \/ Ended \/ UNCHANGED vars
  <2>1. UNCHANGED <<pool, checked_out, created, closed, pc>>
    BY <1>5 DEF Use, CloseOne, Ended, vars, poolVars, bookVars
  <2>. QED
    BY <2>1 DEF Books, Number, Among
<1>. QED
  BY <1>1, <1>2, <1>3, <1>4, <1>5 DEF Next

LEMMA BooksInvariance == Spec => []Books
<1>1. OwnerInv /\ Books /\ [Next]_vars => Books'
  BY BooksNext
<1>. QED
  BY <1>1, BooksInit, OwnerInvariance, PTL DEF Spec

-----------------------------------------------------------------------------
(* Units of the semaphore *)

LEMMA UnitsInit == Init => Units
<1>. SUFFICES ASSUME Init PROVE Units
  OBVIOUS
<1>1. Among(Threads, AdmittedPcs) = {}
  BY Groups DEF Init, Among, AdmittedPcs
<1>. QED
  BY <1>1, FS_EmptySet, SyncPoolAssumption DEF Init, Units, Number

\* Only a thread that passes the semaphore, on its way in or out, moves a unit.
LEMMA KeepUnits ==
  ASSUME TypeOK, Units, NEW a \in Actors, NEW where, At(a, where),
         a = Maint \/ (pc[a] \in AdmittedPcs <=> where \in AdmittedPcs), UNCHANGED <<sem, closed>>
  PROVE Units'
BY Groups, Stays DEF Units

LEMMA TakeUnit == ASSUME TypeOK, Units, NEW t \in Threads, SemTake(t) PROVE Units'
<1>1. Number(Threads, AdmittedPcs)' = Number(Threads, AdmittedPcs) + 1
  BY Enters DEF SemTake, AdmittedPcs
<1>. QED
  BY <1>1, BookTypes DEF SemTake, Units, TypeOK

LEMMA GiveUnit == ASSUME TypeOK, Units, NEW t \in Threads, Unwind(t) \/ HandBack(t) PROVE Units'
<1>1. Number(Threads, AdmittedPcs)' = Number(Threads, AdmittedPcs) - 1
  BY Leaves DEF Unwind, HandBack, AdmittedPcs
<1>. QED
  BY <1>1, BookTypes DEF Unwind, HandBack, Units, TypeOK

LEMMA ThreadUnits ==
  ASSUME TypeOK, Units, NEW t \in Threads,
         \/ Acquire(t) \/ SemTimeout(t) \/ PollTimeout(t) \/ Open(t) \/ Look(t) \/ ConnectOk(t)
         \/ ConnectFail(t) \/ ValidateOk(t) \/ ValidateStale(t) \/ Discard(t) \/ RollbackOk(t)
         \/ RollbackFail(t) \/ GiveBack(t) \/ Drop(t) \/ Retire(t)
         \/ FillClaim(t) \/ FillOk(t) \/ FillFail(t)
  PROVE Units'
<1>1. t \in Actors /\ UNCHANGED <<sem, closed>>
  BY Groups DEF Acquire, SemTimeout, PollTimeout, Open, Look, ConnectOk, ConnectFail, ValidateOk,
                ValidateStale, Discard, RollbackOk, RollbackFail, GiveBack, Drop, Retire, FillClaim,
                FillOk, FillFail, poolVars
<1>2. CASE /\ pc[t] \in AdmittedPcs
           /\ \/ Look(t) \/ PollTimeout(t) \/ ConnectOk(t) \/ ConnectFail(t) \/ ValidateOk(t)
              \/ ValidateStale(t) \/ Discard(t) \/ RollbackOk(t) \/ RollbackFail(t) \/ GiveBack(t)
              \/ Drop(t) \/ Retire(t)
  <2>1. \E where \in AdmittedPcs : At(t, where)
    BY <1>2 DEF Look, PollTimeout, ConnectOk, ConnectFail, ValidateOk, ValidateStale, Discard,
                RollbackOk, RollbackFail, GiveBack, Drop, Retire, AdmittedPcs
  <2>. QED
    BY <1>1, <1>2, <2>1, KeepUnits
<1>3. CASE Acquire(t) \/ SemTimeout(t) \/ Open(t) \/ FillClaim(t) \/ FillOk(t) \/ FillFail(t)
  <2>1. pc[t] \notin AdmittedPcs /\ \E where : At(t, where) /\ where \notin AdmittedPcs
    BY <1>3, Groups DEF Acquire, SemTimeout, Open, FillClaim, FillOk, FillFail, AfterFill, AdmittedPcs
  <2>. QED
    BY <1>1, <2>1, KeepUnits
<1>. QED
  BY <1>2, <1>3 DEF Look, PollTimeout, ConnectOk, ConnectFail, ValidateOk, ValidateStale, Discard,
                    RollbackOk, RollbackFail, GiveBack, Drop, Retire, AdmittedPcs

\* A release that finds its loan gone does so because the pool is closed.
LEMMA ReleaseUnits == ASSUME OwnerInv, Units, NEW t \in Threads, Release(t) PROVE Units'
<1>1. t \in Actors /\ pc[t] = "holding" /\ UNCHANGED <<sem, closed>>
  BY Groups DEF Release
<1>2. CASE conn[t] \notin checked_out
  BY <1>1, <1>2 DEF OwnerInv, Ownership, Units
<1>3. CASE conn[t] \in checked_out
  <2>1. \E where \in AdmittedPcs : At(t, where)
    BY <1>3 DEF Release, AdmittedPcs
  <2>. QED
    BY <1>1, <2>1, KeepUnits DEF OwnerInv, AdmittedPcs
<1>. QED
  BY <1>2, <1>3

LEMMA MaintainUnits == ASSUME TypeOK, Units, Maintain PROVE Units'
<1>1. Maint \in Actors /\ UNCHANGED <<sem, closed>> /\ \E where : At(Maint, where)
  BY Groups DEF Maintain, MaintTick, SweepTake, SweepOk, SweepStale, SweepDiscard, FillClaim, FillOk,
                FillFail, poolVars
<1>. QED
  BY <1>1, KeepUnits

LEMMA UnitsNext == ASSUME OwnerInv, Units, [Next]_vars PROVE Units'
<1>. TypeOK
  BY DEF OwnerInv
<1>1. ASSUME NEW t \in Threads,
             Acquire(t) \/ SemTake(t) \/ SemTimeout(t) \/ PollTimeout(t) \/ Open(t)
      PROVE Units'
  BY <1>1, ThreadUnits, TakeUnit
<1>2. ASSUME NEW t \in Threads, Advance(t) PROVE Units'
  BY <1>2, ThreadUnits, GiveUnit, ReleaseUnits DEF Advance
<1>3. CASE Maintain
  BY <1>3, MaintainUnits
<1>4. CASE CloseAll
  BY <1>4 DEF CloseAll, Units
<1>5. CASE (\E t \in Threads : Use(t)) \/ (\E c \in Conns : CloseOne(c)) \/ Ended \/ UNCHANGED vars
  <2>1. UNCHANGED <<sem, closed, pc>>
    BY <1>5 DEF Use, CloseOne, Ended, vars, poolVars
  <2>. QED
    BY <2>1 DEF Units, Number, Among
<1>. QED
  BY <1>1, <1>2, <1>3, <1>4, <1>5 DEF Next

LEMMA UnitsInvariance == Spec => []Units
<1>1. OwnerInv /\ Units /\ [Next]_vars => Units'
  BY UnitsNext
<1>. QED
  BY <1>1, UnitsInit, OwnerInvariance, PTL DEF Spec

\* No failure, retirement, interrupt or timeout loses or doubles a slot or a
\* unit of the semaphore, and the pool never has more than max_size connections.
THEOREM CountersExact == Spec => []SlotAccounting
<1>1. Among(Actors, SlotPcs) = SlotOwners
  BY DEF Among, SlotOwners, In, SlotPcs
<1>2. Among(Threads, AdmittedPcs) = Admitted
  BY Groups DEF Among, Admitted, In, AdmittedPcs, Actors
<1>3. Books /\ Units => SlotAccounting
  BY <1>1, <1>2 DEF Books, Units, SlotAccounting, Number
<1>. QED
  BY <1>3, BooksInvariance, UnitsInvariance, PTL

-----------------------------------------------------------------------------
(* The loan book *)

BookStutters == Loan' = Loan /\ closed' = closed

\* The loan book counts with its own copy of the library's Cardinality.
LEMMA SameCardinality == ASSUME NEW S PROVE Book!Cardinality(S) = Cardinality(S)
BY DEF Book!Cardinality, Cardinality

\* Whoever is in the middle of something else neither makes nor ends a loan.
LEMMA NoLoanChange ==
  ASSUME TypeOK, NEW a \in Actors, a = Maint \/ pc[a] # "holding",
         NEW where, where # "holding", At(a, where), UNCHANGED closed,
         \A b \in Actors \ {a} : conn'[b] = conn[b]
  PROVE BookStutters
<1>1. \A t \in Threads : IF pc'[t] = "holding" THEN pc[t] = "holding" /\ conn'[t] = conn[t]
                                               ELSE pc[t] # "holding"
  BY Groups DEF TypeOK, At
<1>. QED
  BY <1>1 DEF BookStutters, Loan

LEMMA ThreadStutters ==
  ASSUME OwnerInv, NEW t \in Threads,
         \/ Acquire(t) \/ SemTake(t) \/ SemTimeout(t) \/ PollTimeout(t) \/ Open(t) \/ Look(t)
         \/ ConnectFail(t) \/ ValidateStale(t) \/ Discard(t) \/ Unwind(t) \/ RollbackOk(t)
         \/ RollbackFail(t) \/ GiveBack(t) \/ Drop(t) \/ Retire(t) \/ HandBack(t)
         \/ FillClaim(t) \/ FillOk(t) \/ FillFail(t)
  PROVE BookStutters
<1>1. t \in Actors /\ pc[t] # "holding" /\ UNCHANGED closed
  BY Groups DEF Acquire, SemTake, SemTimeout, PollTimeout, Open, Look, ConnectFail, ValidateStale,
                Discard, Unwind, RollbackOk, RollbackFail, GiveBack, Drop, Retire, HandBack,
                FillClaim, FillOk, FillFail, poolVars
<1>2. \A b \in Actors \ {t} : conn'[b] = conn[b]
  BY DEF Acquire, SemTake, SemTimeout, PollTimeout, Open, Look, ConnectFail, ValidateStale,
         Discard, Unwind, RollbackOk, RollbackFail, GiveBack, Drop, Retire, HandBack,
         FillClaim, FillOk, FillFail, InHand, OwnerInv, TypeOK
<1>3. \E where : At(t, where) /\ where # "holding"
  BY DEF Acquire, SemTake, SemTimeout, PollTimeout, Open, Look, ConnectFail, ValidateStale,
         Discard, Unwind, RollbackOk, RollbackFail, GiveBack, Drop, Retire, HandBack,
         FillClaim, FillOk, FillFail, AfterFill
<1>. QED
  BY <1>1, <1>2, <1>3, NoLoanChange DEF OwnerInv

LEMMA MaintainStutters == ASSUME OwnerInv, Maintain PROVE BookStutters
<1>1. Maint \in Actors /\ UNCHANGED closed
  BY Groups DEF Maintain, MaintTick, SweepTake, SweepOk, SweepStale, SweepDiscard, FillClaim, FillOk,
                FillFail, poolVars
<1>2. \A b \in Actors \ {Maint} : conn'[b] = conn[b]
  BY DEF Maintain, MaintTick, SweepTake, SweepOk, SweepStale, SweepDiscard, FillClaim, FillOk,
         FillFail, InHand, OwnerInv, TypeOK
<1>3. \E where : At(Maint, where) /\ where # "holding"
  BY DEF Maintain, MaintTick, SweepTake, SweepOk, SweepStale, SweepDiscard, FillClaim, FillOk,
         FillFail, AfterFill
<1>. QED
  BY <1>1, <1>2, <1>3, NoLoanChange DEF OwnerInv

LEMMA LendStep ==
  ASSUME OwnerInv, Books, NEW t \in Threads, ConnectOk(t) \/ ValidateOk(t) PROVE Book!Next
<1>1. t \in Actors /\ TypeOK /\ ~closed /\ closed' = closed /\ pc[t] \in SlotPcs /\ pc[t] # "holding"
      /\ At(t, "holding")
  BY Groups DEF ConnectOk, ValidateOk, OwnerInv, SlotPcs
<1>2. PICK c \in Conns : c \notin checked_out /\ InHand(t, c)
  <2>1. CASE ConnectOk(t)
    BY <2>1 DEF ConnectOk, Born, Forgotten
  <2>2. CASE ValidateOk(t)
    BY <1>1, <2>2 DEF ValidateOk, InHand, OwnerInv, TypeOK, Ownership, InHandPcs
  <2>. QED
    BY <2>1, <2>2
<1>3. Cardinality(checked_out) < MaxSize
  <2>1. t \in Among(Actors, SlotPcs)
    BY <1>1 DEF Among
  <2>2. Number(Actors, SlotPcs) # 0
    BY <2>1, Groups, NumberType, FS_EmptySet DEF Number
  <2>. QED
    BY <1>1, <2>2, BookTypes, SyncPoolAssumption DEF Books, TypeOK
<1>4. Book!OnLoan \subseteq checked_out
  BY <1>1, Groups DEF Book!OnLoan, Loan, OwnerInv, Ownership
<1>5. Book!Cardinality(Book!OnLoan) < MaxSize
  <2>1. /\ Cardinality(Book!OnLoan) <= Cardinality(checked_out)
        /\ Cardinality(Book!OnLoan) \in Nat /\ Cardinality(checked_out) \in Nat
    BY <1>1, <1>4, BookTypes, FS_Subset, FS_CardinalityType
  <2>. QED
    BY <1>3, <2>1, SameCardinality, SyncPoolAssumption
<1>6. /\ conn'[t] = c /\ pc'[t] = "holding"
      /\ \A b \in Actors \ {t} : pc'[b] = pc[b] /\ conn'[b] = conn[b]
  BY <1>1, <1>2 DEF At, InHand, TypeOK
<1>7. Loan' = [Loan EXCEPT ![t] = c] /\ Loan[t] = NoConn
  BY <1>1, <1>6, Groups DEF Loan
<1>8. Book!Lend(t, c)
  BY <1>1, <1>2, <1>4, <1>5, <1>7 DEF Book!Lend
<1>. QED
  BY <1>2, <1>8 DEF Book!Next

LEMMA ReturnStep == ASSUME OwnerInv, NEW t \in Threads, Release(t) PROVE Book!Next
<1>1. t \in Actors /\ closed' = closed /\ pc[t] = "holding" /\ conn[t] # NoConn
  BY Groups, SyncPoolAssumption DEF Release, OwnerInv, Ownership, InHandPcs
<1>2. \E where : At(t, where) /\ where # "holding"
  BY DEF Release
<1>3. \A b \in Actors \ {t} : conn'[b] = conn[b] /\ pc'[b] = pc[b]
  BY <1>2 DEF Release, InHand, At, OwnerInv, TypeOK
<1>4. pc'[t] # "holding"
  BY <1>1, <1>2 DEF At, OwnerInv, TypeOK
<1>5. Loan' = [Loan EXCEPT ![t] = NoConn] /\ Loan[t] # NoConn
  BY <1>1, <1>3, <1>4, Groups DEF Loan
<1>6. Book!Return(t)
  BY <1>1, <1>5 DEF Book!Return
<1>. QED
  BY <1>6 DEF Book!Next

-----------------------------------------------------------------------------

LEMMA BookInit == Init => Book!Init
BY Groups DEF Init, Book!Init, Loan

LEMMA BookNext == ASSUME OwnerInv, Books, [Next]_vars PROVE [Book!Next]_(Book!vars)
<1>1. BookStutters => UNCHANGED Book!vars
  BY DEF BookStutters, Book!vars
<1>2. ASSUME NEW t \in Threads,
             Acquire(t) \/ SemTake(t) \/ SemTimeout(t) \/ PollTimeout(t) \/ Open(t)
      PROVE BookStutters
  BY <1>2, ThreadStutters
<1>3. ASSUME NEW t \in Threads, Advance(t) PROVE Book!Next \/ BookStutters
  BY <1>3, ThreadStutters, LendStep, ReturnStep DEF Advance
<1>4. CASE Maintain
  BY <1>1, <1>4, MaintainStutters
<1>5. CASE CloseAll
  BY <1>5 DEF CloseAll, Book!Next, Book!Close, Loan
<1>6. CASE (\E t \in Threads : Use(t)) \/ (\E c \in Conns : CloseOne(c)) \/ Ended \/ UNCHANGED vars
  <2>1. UNCHANGED <<closed, pc, conn>>
    BY <1>6 DEF Use, CloseOne, Ended, vars, poolVars
  <2>. QED
    BY <1>1, <2>1 DEF BookStutters, Loan
<1>. QED
  BY <1>1, <1>2, <1>3, <1>4, <1>5, <1>6 DEF Next

\* acquire() hands a connection to one thread at a time, only while the pool is
\* open, and never more than max_size of them; release() ends exactly one loan.
THEOREM Implementation == Spec => ImplementsPoolSpec
<1>1. OwnerInv /\ Books /\ [Next]_vars => [Book!Next]_(Book!vars)
  BY BookNext
<1>. QED
  BY <1>1, BookInit, OwnerInvariance, BooksInvariance, PTL DEF Spec, ImplementsPoolSpec, Book!Spec

=============================================================================
