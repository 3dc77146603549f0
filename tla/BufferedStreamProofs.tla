------------------------- MODULE BufferedStreamProofs -------------------------
(***************************************************************************)
(* Proofs about BufferedStream for every number of connections and buffers,*)
(* every size of a buffer and of the pool, and every result.               *)
(*                                                                         *)
(* First who owns a buffer, then what is on the wire and where, then what   *)
(* a buffer holds and where its reader stands.                             *)
(***************************************************************************)
EXTENDS BufferedStream, FiniteSetTheorems, TLAPS

\* The fields that decide, so that EXCEPT changes them
Fields(s) == {"open", "buffer", "pc", "wait"} \subseteq DOMAIN s

\* Only a read waits.
Good(s) == Fields(s) /\ s.open \in BOOLEAN /\ (s.wait # "no" => s.pc \in Reading)

Shape ==
  /\ DOMAIN stream = Conns
  /\ \A c \in Conns : Good(stream[c]) /\ (stream[c].open => stream[c].buffer \in Buffers)
  /\ pooled \in Seq(Buffers)

IInv == Shape /\ BuffersExclusive

-----------------------------------------------------------------------------
(* What a reader does leaves the stream open with its buffer, or closed. *)

Keeps(s, u) == Good(u) /\ u.open = s.open /\ (s.open => u.buffer = s.buffer)

LEMMA ClosedForm ==
  ASSUME NEW how PROVE Good(Closed(how)) /\ Closed(how).open = FALSE
BY DEF Closed, NewStream, Fields, Good

\* A record that differs from a good one in other fields, or waits no more
LEMMA SameHands ==
  ASSUME NEW s, Good(s), NEW u, DOMAIN u = DOMAIN s, u.open = s.open, u.buffer = s.buffer,
         u.wait = "no" \/ (u.wait = s.wait /\ u.pc = s.pc)
  PROVE  Keeps(s, u)
BY DEF Good, Fields, Keeps

LEMMA EndedKeeps ==
  ASSUME NEW s, Fields(s), s.open \in BOOLEAN, NEW how PROVE Keeps(s, Ended(s, how))
<1>1. CASE s.open BY <1>1 DEF Ended, Keeps, Fields, Good
<1>2. CASE ~s.open BY <1>2, ClosedForm DEF Ended, Keeps
<1> QED BY <1>1, <1>2

LEMMA FailsKeeps ==
  ASSUME NEW s, Good(s) PROVE Keeps(s, Fails(s))
<1> DEFINE t == [s EXCEPT !.partial_read = @ \/ s.got # <<>>]
<1>1. Fields(t) /\ t.open = s.open /\ t.buffer = s.buffer
  BY DEF Fields, Good
<1>2. Keeps(t, Ended(t, "failing"))
  BY <1>1, EndedKeeps DEF Good
<1> HIDE DEF t
<1>3. Keeps(s, Ended(t, "failing"))
  BY <1>1, <1>2 DEF Keeps
<1> QED BY <1>3 DEF Fails, t

LEMMA DispatchKeeps ==
  ASSUME NEW s, Good(s), s.wait = "no", NEW header PROVE Keeps(s, Dispatch(s, header))
<1> DEFINE t == [s EXCEPT !.frame_in_progress = TRUE, !.ahead = <<>>]
           z == [t EXCEPT !.frame_in_progress = FALSE]
           row == [t EXCEPT !.pc = "payload", !.is = header[1].is, !.size = header[2].n]
           padding == [t EXCEPT !.pc = "header", !.frame_in_progress = FALSE]
           other == [t EXCEPT !.pc = "failing"]
<1>1. DOMAIN t = DOMAIN s /\ t.open = s.open /\ t.buffer = s.buffer /\ t.wait = "no"
  BY DEF Good, Fields
<1>2. Fields(z) /\ z.open = s.open /\ z.buffer = s.buffer
  BY <1>1 DEF Good, Fields
<1>3. Keeps(s, Ended(z, "done"))
  BY <1>2, EndedKeeps DEF Good, Keeps
<1> HIDE DEF t
<1>4. Keeps(s, row) /\ Keeps(s, padding) /\ Keeps(s, other)
  <2>1. Keeps(s, row) BY <1>1 DEF Keeps, Good, Fields
  <2>2. Keeps(s, padding) BY <1>1 DEF Keeps, Good, Fields
  <2>3. Keeps(s, other) BY <1>1 DEF Keeps, Good, Fields
  <2> QED BY <2>1, <2>2, <2>3
<1> HIDE DEF z, row, padding, other
<1>5. Dispatch(s, header) \in {Ended(z, "done"), row, padding, other}
  BY DEF Dispatch, t, z, row, padding, other
<1> QED BY <1>3, <1>4, <1>5

LEMMA GoesKeeps ==
  ASSUME NEW s, Good(s), s.pc \in Reading, NEW bytes, NEW u \in Goes(s, bytes)
  PROVE  Keeps(s, u)
<1> DEFINE t == [s EXCEPT !.got = <<>>, !.wait = "no", !.moved = 0]
           row == [t EXCEPT !.rows = Append(@, bytes),
                            !.pc = IF s.is = "Y" THEN "next" ELSE "header",
                            !.frame_in_progress = FALSE]
           ahead == [t EXCEPT !.pc = "ahead", !.ahead = bytes]
           batch == [row EXCEPT !.pc = "batch"]
<1>1. DOMAIN t = DOMAIN s /\ t.open = s.open /\ t.buffer = s.buffer /\ t.wait = "no"
  BY DEF Good, Fields
<1>2. Keeps(s, t)
  BY <1>1, SameHands
<1> HIDE DEF t
<1>3. Keeps(s, row) /\ Keeps(s, ahead) /\ Keeps(s, batch)
  <2>1. Keeps(s, row) BY <1>1 DEF Keeps, Good, Fields
  <2>2. Keeps(s, ahead) BY <1>1 DEF Keeps, Good, Fields
  <2>3. Keeps(s, batch) BY <1>1 DEF Keeps, Good, Fields
  <2> QED BY <2>1, <2>2, <2>3
<1> HIDE DEF row, ahead, batch
<1>4. Keeps(s, Dispatch(t, bytes))
  BY <1>1, <1>2, DispatchKeeps DEF Keeps
<1>6. CASE s.pc = "header"
  <2>1. Goes(s, bytes) = {Dispatch(t, bytes)}
    BY <1>6 DEF Goes, t
  <2> QED BY <2>1, <1>4
<1>7. CASE s.pc = "payload"
  <2>1. Goes(s, bytes) \subseteq {row, batch}
    BY <1>7 DEF Goes, t, row, batch
  <2> QED BY <2>1, <1>3
<1>8. CASE s.pc = "next"
  <2>1. Goes(s, bytes) = {ahead}
    BY <1>8 DEF Goes, t, ahead
  <2> QED BY <2>1, <1>3
<1> QED BY <1>6, <1>7, <1>8 DEF Reading

-----------------------------------------------------------------------------
(* Steps on the streams and the pool *)

LEMMA KeepStep ==
  ASSUME IInv, NEW c \in Conns, NEW u, Becomes(c, u), Keeps(stream[c], u), UNCHANGED pooled
  PROVE  IInv'
<1>1. /\ DOMAIN stream' = Conns /\ stream'[c] = u
      /\ \A d \in Conns : d # c => stream'[d] = stream[d]
  BY DEF IInv, Shape, Becomes
<1>2. \A d \in Conns : Keeps(stream[d], stream'[d])
  BY <1>1 DEF Keeps, IInv, Shape
<1>3. Shape'
  BY <1>1, <1>2 DEF Keeps, IInv, Shape
<1>4. InUse' = InUse
  BY <1>2 DEF InUse, Keeps
<1>5. BuffersExclusive'
  BY <1>2, <1>4 DEF IInv, BuffersExclusive, Keeps
<1> QED BY <1>3, <1>5 DEF IInv

\* The buffer goes back to the pool once, or is dropped.
LEMMA CloseStep ==
  ASSUME IInv, NEW c \in Conns, NEW s, Good(s), Closes(c, s)
  PROVE  IInv'
<1> DEFINE u == [s EXCEPT !.open = FALSE]
           b == stream[c].buffer
<1>1. /\ DOMAIN stream' = Conns /\ stream'[c] = u
      /\ \A d \in Conns : d # c => stream'[d] = stream[d]
  BY DEF IInv, Shape, Closes, Becomes
<1>2. Good(u) /\ u.open = FALSE
  BY DEF Good, Fields
<1> HIDE DEF u
<1>3. \A d \in Conns : stream'[d].open => d # c /\ stream'[d] = stream[d]
  BY <1>1, <1>2
<1>4. InUse' \subseteq InUse
  BY <1>1, <1>3 DEF InUse
<1>5. pooled' = pooled \/ (stream[c].open /\ pooled' = Append(pooled, b))
  BY DEF Closes, Returned
<1>6. CASE pooled' = pooled
  <2>1. Shape'
    BY <1>1, <1>2, <1>3, <1>6 DEF IInv, Shape
  <2>2. BuffersExclusive'
    BY <1>3, <1>4, <1>6 DEF IInv, BuffersExclusive
  <2> QED BY <2>1, <2>2 DEF IInv
<1>7. CASE stream[c].open /\ pooled' = Append(pooled, b)
  <2>1. b \in Buffers /\ b \in InUse
    BY <1>7 DEF IInv, Shape, InUse
  <2>2. Shape'
    <3>1. pooled' \in Seq(Buffers)
      BY <1>7, <2>1 DEF IInv, Shape
    <3> QED BY <3>1, <1>1, <1>2, <1>3 DEF IInv, Shape
  <2>3. b \notin InUse'
    BY <1>3, <1>7 DEF InUse, IInv, BuffersExclusive
  <2>4. /\ DOMAIN pooled' = DOMAIN pooled \cup {Len(pooled) + 1}
        /\ pooled'[Len(pooled) + 1] = b
        /\ \A i \in DOMAIN pooled : pooled'[i] = pooled[i] /\ i # Len(pooled) + 1
    BY <1>7, <2>1 DEF IInv, Shape
  <2>5. \A i \in DOMAIN pooled : pooled[i] # b
    BY <2>1 DEF IInv, BuffersExclusive
  <2>6. \A i, j \in DOMAIN pooled' : i # j => pooled'[i] # pooled'[j]
    BY <2>4, <2>5 DEF IInv, BuffersExclusive
  <2>7. \A i \in DOMAIN pooled' : pooled'[i] \notin InUse'
    BY <1>4, <2>3, <2>4 DEF IInv, BuffersExclusive
  <2>8. \A d, e \in Conns :
          d # e /\ stream'[d].open /\ stream'[e].open => stream'[d].buffer # stream'[e].buffer
    BY <1>3 DEF IInv, BuffersExclusive
  <2>9. BuffersExclusive'
    BY <2>6, <2>7, <2>8 DEF BuffersExclusive
  <2> QED BY <2>2, <2>9 DEF IInv
<1> QED BY <1>5, <1>6, <1>7

LEMMA OpenStep ==
  ASSUME IInv, NEW c \in Conns, Open(c) PROVE IInv'
<1>1. PICK b \in Buffers :
        /\ \/ pooled # <<>> /\ b = Last(pooled) /\ pooled' = Front(pooled)
           \/ b \notin InUse /\ pooled = <<>> /\ UNCHANGED pooled
        /\ \E f : Becomes(c, [NewStream EXCEPT !.open = TRUE, !.buffer = b, !.pc = "header",
                                              !.fd = f])
  BY DEF Open
<1>2. PICK f : Becomes(c, [NewStream EXCEPT !.open = TRUE, !.buffer = b, !.pc = "header",
                                            !.fd = f])
  BY <1>1
<1> DEFINE u == [NewStream EXCEPT !.open = TRUE, !.buffer = b, !.pc = "header", !.fd = f]
<1>3. Good(u) /\ u.open /\ u.buffer = b
  BY DEF Good, Fields, NewStream
<1>4. /\ DOMAIN stream' = Conns /\ stream'[c] = u
      /\ \A d \in Conns : d # c => stream'[d] = stream[d]
  BY <1>2 DEF IInv, Shape, Becomes
<1> HIDE DEF u
<1>5. /\ pooled' \in Seq(Buffers) /\ DOMAIN pooled' \subseteq DOMAIN pooled
      /\ \A i \in DOMAIN pooled' : pooled'[i] = pooled[i] /\ pooled[i] # b
  <2>1. CASE pooled # <<>> /\ b = Last(pooled) /\ pooled' = Front(pooled)
    <3>1. Len(pooled) \in Nat \ {0} /\ DOMAIN pooled = 1 .. Len(pooled)
      BY <2>1 DEF IInv, Shape
    <3>2. b = pooled[Len(pooled)] /\ pooled' = SubSeq(pooled, 1, Len(pooled) - 1)
      BY <2>1 DEF Last, Front
    <3>3. /\ pooled' \in Seq(Buffers) /\ DOMAIN pooled' = 1 .. Len(pooled) - 1
          /\ \A i \in 1 .. Len(pooled) - 1 : pooled'[i] = pooled[i]
      BY <3>1, <3>2 DEF IInv, Shape
    <3> QED BY <3>1, <3>2, <3>3 DEF IInv, BuffersExclusive
  <2>2. CASE pooled = <<>> /\ UNCHANGED pooled
    BY <2>2 DEF IInv, Shape
  <2> QED BY <1>1, <2>1, <2>2
<1>6. b \notin InUse
  <2>1. CASE pooled # <<>> /\ b = Last(pooled)
    <3>1. Len(pooled) \in DOMAIN pooled /\ b = pooled[Len(pooled)]
      BY <2>1 DEF Last, IInv, Shape
    <3> QED BY <3>1 DEF IInv, BuffersExclusive
  <2> QED BY <1>1, <2>1
<1>7. InUse' \subseteq InUse \cup {b}
  BY <1>3, <1>4 DEF InUse
<1>8. Shape'
  BY <1>3, <1>4, <1>5 DEF IInv, Shape
<1>9. \A d, e \in Conns :
        d # e /\ stream'[d].open /\ stream'[e].open => stream'[d].buffer # stream'[e].buffer
  <2>1. \A d \in Conns : d # c /\ stream'[d].open => stream'[d].buffer \in InUse
    BY <1>4 DEF InUse
  <2> QED BY <1>3, <1>4, <1>6, <2>1 DEF IInv, BuffersExclusive
<1>10. /\ \A i, j \in DOMAIN pooled' : i # j => pooled'[i] # pooled'[j]
       /\ \A i \in DOMAIN pooled' : pooled'[i] \notin InUse'
  BY <1>5, <1>7 DEF IInv, BuffersExclusive
<1> QED BY <1>8, <1>9, <1>10 DEF IInv, BuffersExclusive

-----------------------------------------------------------------------------
(* The steps *)

LEMMA StreamGood ==
  ASSUME IInv, NEW c \in Conns PROVE Good(stream[c])
BY DEF IInv, Shape

LEMMA ServeStep ==
  ASSUME IInv, NEW c \in Conns, Serve(c) PROVE IInv'
<1> DEFINE s == stream[c]
           k == Min({Want(s) - Len(s.got), s.tail - s.head})
           t == [s EXCEPT !.got = @ \o SubSeq(content[s.buffer], s.head + 1, s.head + k),
                          !.head = @ + k]
<1>1. Good(s) /\ s.pc \in Reading /\ s.wait = "no" /\ UNCHANGED pooled
  BY StreamGood DEF Serve
<1>2. DOMAIN t = DOMAIN s /\ t.open = s.open /\ t.buffer = s.buffer /\ t.wait = "no" /\ t.pc = s.pc
  BY <1>1 DEF Good, Fields
<1>3. Keeps(s, t)
  BY <1>1, <1>2, SameHands
<1>4. Becomes(c, t) \/ \E u \in Goes(t, t.got) : Becomes(c, u)
  BY DEF Serve
<1> HIDE DEF s, t
<1>5. \A u \in Goes(t, t.got) : Keeps(s, u)
  BY <1>1, <1>2, <1>3, GoesKeeps DEF Keeps
<1> QED BY <1>1, <1>3, <1>4, <1>5, KeepStep DEF s

LEMMA FillStep ==
  ASSUME IInv, NEW c \in Conns, FillNow(c) \/ Arrive(c) \/ Park(c) PROVE IInv'
<1> DEFINE s == stream[c]
<1>1. Good(s) /\ UNCHANGED pooled
  BY StreamGood DEF FillNow, Arrive, Park
<1>2. CASE FillNow(c)
  <2>1. PICK k \in Chunks(c) : Received(c, k, Counted(c, s, k))
    BY <1>2 DEF FillNow
  <2>2. /\ Fields(Counted(c, s, k)) /\ Counted(c, s, k).open = s.open
        /\ Counted(c, s, k).buffer = s.buffer /\ Counted(c, s, k).wait = s.wait
        /\ Counted(c, s, k).pc = s.pc
    BY <1>1 DEF Counted, Good, Fields
  <2> DEFINE u == [Counted(c, s, k) EXCEPT !.received = @ + k]
  <2>3. Keeps(s, u)
    BY <1>1, <2>2 DEF Keeps, Good, Fields
  <2>4. Becomes(c, u)
    BY <2>1 DEF Received
  <2> QED BY <1>1, <2>3, <2>4, KeepStep
<1>3. CASE Arrive(c)
  <2>1. PICK k : Received(c, k, [s EXCEPT !.wait = "moved", !.moved = k])
    BY <1>3 DEF Arrive
  <2> DEFINE t == [s EXCEPT !.wait = "moved", !.moved = k]
             u == [t EXCEPT !.received = @ + k]
  <2>2. s.pc \in Reading
    BY <1>1, <1>3 DEF Good, Arrive
  <2>3. Keeps(s, u)
    BY <1>1, <2>2 DEF Keeps, Good, Fields
  <2>4. Becomes(c, u)
    BY <2>1 DEF Received
  <2> QED BY <1>1, <2>3, <2>4, KeepStep
<1>4. CASE Park(c)
  <2> DEFINE u == [s EXCEPT !.wait = "parked", !.head = 0, !.tail = 0]
  <2>1. Keeps(s, u) /\ Becomes(c, u)
    BY <1>1, <1>4 DEF Park, Filling, Keeps, Good, Fields
  <2> QED BY <1>1, <2>1, KeepStep
<1> QED BY <1>2, <1>3, <1>4

LEMMA ResumeStep ==
  ASSUME IInv, NEW c \in Conns, Resume(c) PROVE IInv'
<1> DEFINE s == stream[c]
           w == [s EXCEPT !.wait = "no", !.moved = 0, !.received = @ - s.moved]
           t == Counted(c, w, s.moved)
           known == [t EXCEPT !.received = s.received]
           zeros == [i \in 1 .. Want(s) - Len(s.got) |-> Nul]
<1>1. Good(s) /\ UNCHANGED pooled /\ s.pc \in Reading
  BY StreamGood DEF Resume, Good
<1>2. /\ DOMAIN w = DOMAIN s /\ w.open = s.open /\ w.buffer = s.buffer
      /\ w.wait = "no" /\ w.pc = s.pc
  BY <1>1 DEF Good, Fields
<1>3. PICK u : /\ Becomes(c, u)
               /\ u = Fails(s) \/ u = known \/ u \in Goes(known, t.got) \/ u \in Goes(s, s.got \o zeros)
  BY DEF Resume
<1> HIDE DEF w
<1>4. DOMAIN t = DOMAIN s /\ t.open = s.open /\ t.buffer = s.buffer /\ t.wait = "no" /\ t.pc = s.pc
  BY <1>1, <1>2 DEF Counted, Good, Fields
<1> HIDE DEF t
<1>5. /\ DOMAIN known = DOMAIN s /\ known.open = s.open /\ known.buffer = s.buffer
      /\ known.wait = "no" /\ known.pc = s.pc
  BY <1>1, <1>4 DEF Good, Fields
<1> HIDE DEF s, known
<1>6. Keeps(s, known)
  BY <1>1, <1>5, SameHands
<1>7. \A v \in Goes(known, t.got) : Keeps(s, v)
  BY <1>1, <1>5, <1>6, GoesKeeps DEF Keeps
<1>8. \A v \in Goes(s, s.got \o zeros) : Keeps(s, v)
  BY <1>1, GoesKeeps
<1>9. Keeps(s, Fails(s))
  BY <1>1, FailsKeeps
<1> QED BY <1>1, <1>3, <1>6, <1>7, <1>8, <1>9, KeepStep DEF s

LEMMA DecodeStep ==
  ASSUME IInv, NEW c \in Conns, Decode(c) PROVE IInv'
<1> DEFINE s == stream[c]
           view == SubSeq(content[s.buffer], s.head + 1, s.tail)
           taken == [s EXCEPT !.head = @ + 2 + view[2].n,
                              !.rows = Append(@, SubSeq(view, 3, 2 + view[2].n))]
           left == [s EXCEPT !.pc = "next"]
<1>1. Good(s) /\ s.pc = "batch" /\ UNCHANGED pooled
  BY StreamGood DEF Decode
<1>2. s.wait = "no"
  BY <1>1 DEF Good, Reading
<1>3. Keeps(s, taken) /\ Keeps(s, left)
  <2>1. /\ DOMAIN taken = DOMAIN s /\ taken.open = s.open /\ taken.buffer = s.buffer
        /\ taken.wait = "no"
    BY <1>1, <1>2 DEF Good, Fields
  <2>2. /\ DOMAIN left = DOMAIN s /\ left.open = s.open /\ left.buffer = s.buffer
        /\ left.wait = "no"
    BY <1>1, <1>2 DEF Good, Fields
  <2> HIDE DEF taken, left
  <2> QED BY <1>1, <2>1, <2>2, SameHands
<1>4. Becomes(c, taken) \/ Becomes(c, left)
  BY DEF Decode
<1> HIDE DEF s, view, taken, left
<1> QED BY <1>1, <1>3, <1>4, KeepStep DEF s

LEMMA ReadAheadStep ==
  ASSUME IInv, NEW c \in Conns, ReadAhead(c) PROVE IInv'
<1>1. PICK header : Becomes(c, Dispatch(stream[c], header))
  BY DEF ReadAhead
<1>2. Good(stream[c]) /\ stream[c].wait = "no" /\ UNCHANGED pooled
  BY StreamGood DEF ReadAhead, Good, Reading
<1> QED BY <1>1, <1>2, DispatchKeeps, KeepStep

LEMMA StopStep ==
  ASSUME IInv, NEW c \in Conns, Cancel(c) \/ Timeout(c) PROVE IInv'
<1> DEFINE s == stream[c]
           t == [s EXCEPT !.partial_read = @ \/ s.got # <<>>, !.overtaken = @ \/ Overtaken(s)]
<1>1. Good(s) /\ UNCHANGED pooled /\ \E how : Becomes(c, Ended(t, how))
  BY StreamGood DEF Cancel, Timeout, Stops, Stopped
<1>2. Fields(t) /\ t.open = s.open /\ t.buffer = s.buffer
  BY <1>1 DEF Good, Fields
<1> HIDE DEF s, t
<1>3. \A how : Keeps(s, Ended(t, how))
  BY <1>1, <1>2, EndedKeeps DEF Good, Keeps
<1> QED BY <1>1, <1>3, KeepStep DEF s

\* After its own timeout a task closes the connection or keeps it.
LEMMA RetireStep ==
  ASSUME IInv, NEW c \in Conns, Retire(c) PROVE IInv'
<1> DEFINE s == stream[c]
           u == [s EXCEPT !.pc = "kept"]
<1>1. Good(s) /\ s.pc = "late"
  BY StreamGood DEF Retire
<1>2. CASE Closes(c, Closed("failed"))
  BY <1>2, ClosedForm, CloseStep
<1>3. CASE Becomes(c, u) /\ UNCHANGED pooled
  <2>1. s.wait = "no"
    BY <1>1 DEF Good, Reading
  <2>2. DOMAIN u = DOMAIN s /\ u.open = s.open /\ u.buffer = s.buffer /\ u.wait = "no"
    BY <1>1, <2>1 DEF Good, Fields
  <2> HIDE DEF u
  <2>3. Keeps(s, u)
    BY <1>1, <2>2, SameHands
  <2> QED BY <1>3, <2>3, KeepStep
<1> QED BY <1>2, <1>3 DEF Retire

\* By its own reader, or by another task
LEMMA CloseOrFailStep ==
  ASSUME IInv, NEW c \in Conns, Close(c) \/ Fail(c) PROVE IInv'
<1> DEFINE s == stream[c]
           t == [s EXCEPT !.overtaken = @ \/ Overtaken(s)]
<1>1. Good(s)
  BY StreamGood
<1>2. Good(t)
  BY <1>1 DEF Good, Fields
<1>3. Closes(c, t) \/ \E how : Closes(c, Closed(how))
  BY DEF Close, Fail
<1> HIDE DEF t
<1> QED BY <1>2, <1>3, ClosedForm, CloseStep

-----------------------------------------------------------------------------

LEMMA Initially == ASSUME Init PROVE IInv
<1>1. Good(NewStream) /\ NewStream.open = FALSE
  BY DEF NewStream, Good, Fields
<1> QED BY <1>1 DEF Init, IInv, Shape, BuffersExclusive

LEMMA Inductive ==
  ASSUME IInv, [Next]_vars PROVE IInv'
<1>1. CASE UNCHANGED vars
  BY <1>1 DEF vars, IInv, Shape, BuffersExclusive, InUse
<1>2. ASSUME NEW c \in Conns, Open(c) \/ Reader(c) \/ Cancel(c) \/ Timeout(c) \/ Close(c) PROVE IInv'
  BY <1>2, OpenStep, ServeStep, FillStep, ResumeStep, DecodeStep, ReadAheadStep, StopStep,
     RetireStep, CloseOrFailStep
  DEF Reader
<1> QED BY <1>1, <1>2 DEF Next

\* No receive buffer is ever shared: not by two open connections, and not by a connection
\* and the pool, however streams are opened, read, cancelled, closed and fail.
THEOREM NoSharedBuffer == Spec => []BuffersExclusive
<1>1. IInv => BuffersExclusive
  BY DEF IInv
<1> QED BY <1>1, Initially, Inductive, PTL DEF Spec

-----------------------------------------------------------------------------
(* The wire: messages one behind the other, of whatever sizes *)

\* A set of naturals that holds 0 and, with a number, the next one, holds them all: of
\* those it did not hold one would be the least.
LEMMA NatSet ==
  ASSUME NEW T, 0 \in T, \A n \in Nat : n \in T => n + 1 \in T
  PROVE  \A n \in Nat : n \in T
<1> DEFINE B == Nat \ T
           R == StrictSubsetOrdering(Nat)
           F == FiniteSubsetsOf(Nat)
           Q == {0 .. n : n \in B}
<1>1. IsWellFoundedOn(R, F)
  BY FS_StrictSubsetOrderingWellFounded
<1>2. SUFFICES ASSUME B # {} PROVE FALSE
  OBVIOUS
<1>3. \A n \in Nat : IsFiniteSet(0 .. n)
  BY FS_Interval
<1>4. Q \subseteq F /\ Q # {}
  BY <1>2, <1>3 DEF FiniteSubsetsOf
<1>5. PICK x \in Q : \A y \in Q : ~ (<<y, x>> \in R)
  <2> HIDE DEF R, F, Q
  <2> QED BY <1>1, <1>4, WFMin
<1>6. PICK n \in B : x = 0 .. n
  OBVIOUS
<1>7. n # 0 /\ n - 1 \in Nat /\ n - 1 \in B
  BY <1>6
<1>8. 0 .. (n - 1) \in Q
  BY <1>7
<1>9. <<0 .. (n - 1), 0 .. n>> \in R
  <2>1. /\ 0 .. (n - 1) \subseteq 0 .. n /\ 0 .. n \subseteq Nat
        /\ n \in 0 .. n /\ n \notin 0 .. (n - 1)
    BY <1>7
  <2> QED BY <2>1 DEF StrictSubsetOrdering
<1> QED BY <1>5, <1>6, <1>8, <1>9

\* Any sizes have their places.
LEMMA PlacesExist ==
  ASSUME NEW N \in Nat, NEW w, \A i \in 1 .. N : w[i] \in Nat
  PROVE  \E g \in [1 .. N + 1 -> Nat \ {0}] :
           g[1] = 1 /\ \A i \in 1 .. N : g[i + 1] = g[i] + 2 + w[i]
<1> DEFINE Fine(g, n) == g[1] = 1 /\ \A i \in 1 .. n : g[i + 1] = g[i] + 2 + w[i]
           T == {n \in Nat : n <= N => \E g \in [1 .. n + 1 -> Nat \ {0}] : Fine(g, n)}
<1>1. 0 \in T
  <2>1. [i \in 1 .. 0 + 1 |-> 1] \in [1 .. 0 + 1 -> Nat \ {0}] /\ Fine([i \in 1 .. 0 + 1 |-> 1], 0)
    OBVIOUS
  <2> QED BY <2>1
<1>2. ASSUME NEW n \in Nat, n \in T PROVE n + 1 \in T
  <2>1. SUFFICES ASSUME n + 1 <= N
                 PROVE  \E g \in [1 .. (n + 1) + 1 -> Nat \ {0}] : Fine(g, n + 1)
    OBVIOUS
  <2>2. PICK g \in [1 .. n + 1 -> Nat \ {0}] : Fine(g, n)
    BY <1>2, <2>1
  <2> DEFINE h == [i \in 1 .. (n + 1) + 1 |-> IF i = n + 2 THEN g[n + 1] + 2 + w[n + 1] ELSE g[i]]
  <2>3. n + 1 \in 1 .. N /\ w[n + 1] \in Nat /\ g[n + 1] \in Nat \ {0}
    BY <2>1, <2>2
  <2>4. h \in [1 .. (n + 1) + 1 -> Nat \ {0}]
    BY <2>2, <2>3
  <2>5. Fine(h, n + 1)
    <3>1. h[1] = 1
      BY <2>2
    <3>2. ASSUME NEW i \in 1 .. n + 1 PROVE h[i + 1] = h[i] + 2 + w[i]
      <4>1. CASE i = n + 1
        BY <4>1, <2>3
      <4>2. CASE i # n + 1
        BY <4>2, <2>2
      <4> QED BY <4>1, <4>2
    <3> QED BY <3>1, <3>2
  <2> QED BY <2>4, <2>5
<1>3. N \in T
  <2> HIDE DEF T
  <2> QED BY <1>1, <1>2, NatSet
<1>4. PICK g \in [1 .. N + 1 -> Nat \ {0}] : Fine(g, N)
  <2> HIDE DEF Fine
  <2>1. N <= N => \E g \in [1 .. N + 1 -> Nat \ {0}] : Fine(g, N)
    BY <1>3
  <2> QED BY <2>1
<1> QED BY <1>4

LEMMA SentIs ==
  ASSUME NEW c \in Conns
  PROVE  /\ Frames[c] \in Seq([is : {"Y", "D"}, n : Nat]) /\ Len(Frames[c]) \in Nat
         /\ Sent(c) \in Seq([is : {"Y", "D", "Z"}, n : Nat])
         /\ Len(Sent(c)) = Len(Frames[c]) + 1
         /\ \A i \in 1 .. Len(Frames[c]) :
              Sent(c)[i] = Frames[c][i] /\ Sent(c)[i].is \in {"Y", "D"} /\ Sent(c)[i].n \in Nat
         /\ Sent(c)[Len(Frames[c]) + 1].is = "Z" /\ Sent(c)[Len(Frames[c]) + 1].n = 0
<1> DEFINE F == Frames[c]
           z == [is |-> "Z", n |-> 0]
           R == [is : {"Y", "D"}, n : Nat]
           S == [is : {"Y", "D", "Z"}, n : Nat]
<1>1. F \in Seq(R)
  BY BufferedStreamAssumption
<1>2. z \in S /\ z.is = "Z" /\ z.n = 0
  OBVIOUS
<1>3. \A x \in R : x \in S /\ x.is \in {"Y", "D"} /\ x.n \in Nat
  OBVIOUS
<1> HIDE DEF z, F, R, S
<1>4. F \in Seq(S) /\ Len(F) \in Nat /\ \A i \in 1 .. Len(F) : F[i] \in R
  BY <1>1, <1>3
<1>5. /\ Append(F, z) \in Seq(S) /\ Len(Append(F, z)) = Len(F) + 1
      /\ Append(F, z)[Len(F) + 1] = z /\ \A i \in 1 .. Len(F) : Append(F, z)[i] = F[i]
  BY <1>2, <1>4
<1>6. \A i \in 1 .. Len(F) : F[i].is \in {"Y", "D"} /\ F[i].n \in Nat
  BY <1>3, <1>4
<1> QED BY <1>1, <1>2, <1>4, <1>5, <1>6 DEF Sent, F, z, R, S

LEMMA SentNumbers ==
  ASSUME NEW c \in Conns
  PROVE  /\ Len(Sent(c)) \in Nat \ {0} /\ DOMAIN Sent(c) = 1 .. Len(Sent(c))
         /\ \A i \in 1 .. Len(Sent(c)) : Sent(c)[i].n \in Nat
<1> DEFINE S == [is : {"Y", "D", "Z"}, n : Nat]
           F == Sent(c)
<1>1. F \in Seq(S) /\ Len(F) # 0
  BY SentIs
<1>2. \A x \in S : x.n \in Nat
  OBVIOUS
<1> HIDE DEF S, F
<1>3. Len(F) \in Nat \ {0} /\ DOMAIN F = 1 .. Len(F) /\ \A i \in 1 .. Len(F) : F[i] \in S
  BY <1>1
<1> QED BY <1>2, <1>3 DEF F

\* The places of the messages, each behind the one before
LEMMA PlaceIs ==
  ASSUME NEW c \in Conns
  PROVE  /\ Place(c) \in [1 .. Len(Sent(c)) + 1 -> Nat \ {0}]
         /\ Place(c)[1] = 1
         /\ \A i \in 1 .. Len(Sent(c)) : Place(c)[i + 1] = Place(c)[i] + 2 + Sent(c)[i].n
<1> DEFINE N == Len(Sent(c))
           w == [i \in 1 .. N |-> Sent(c)[i].n]
           step(g) == [i \in 1 .. N + 1 |-> IF i = 1 THEN 1 ELSE g[i - 1] + 2 + Sent(c)[i - 1].n]
<1>1. N \in Nat /\ \A i \in 1 .. N : w[i] \in Nat
  BY SentIs
<1>2. PICK g \in [1 .. N + 1 -> Nat \ {0}] :
        g[1] = 1 /\ \A i \in 1 .. N : g[i + 1] = g[i] + 2 + w[i]
  <2> HIDE DEF N, w
  <2> QED BY <1>1, PlacesExist
<1>3. g = step(g)
  <2>1. ASSUME NEW i \in 1 .. N + 1, i # 1 PROVE g[i] = g[i - 1] + 2 + Sent(c)[i - 1].n
    <3>1. i - 1 \in 1 .. N /\ (i - 1) + 1 = i
      BY <1>1, <2>1
    <3> QED BY <1>2, <3>1
  <2> QED BY <1>1, <1>2, <2>1
<1>4. Place(c) = CHOOSE f : f = step(f)
  BY DEF Place
<1>5. Place(c) = step(Place(c))
  <2> HIDE DEF step
  <2> QED BY <1>3, <1>4
<1> DEFINE p == Place(c)
<1> HIDE DEF p
<1>6. p = step(p)
  BY <1>5 DEF p
<1>7. \A i \in 1 .. N + 1 : p[i] = IF i = 1 THEN 1 ELSE p[i - 1] + 2 + Sent(c)[i - 1].n
  <2>1. ASSUME NEW i \in 1 .. N + 1 PROVE step(p)[i] = IF i = 1 THEN 1 ELSE p[i - 1] + 2 + Sent(c)[i - 1].n
    OBVIOUS
  <2> HIDE DEF step
  <2> QED BY <1>6, <2>1
<1>8. p[1] = 1 /\ DOMAIN p = 1 .. N + 1
  <2>1. DOMAIN step(p) = 1 .. N + 1
    OBVIOUS
  <2> QED BY <1>1, <1>6, <1>7, <2>1
<1> HIDE DEF step, w
<1>9. \A i \in 1 .. N : p[i + 1] = p[i] + 2 + Sent(c)[i].n
  BY <1>1, <1>7
<1>10. \A i \in 1 .. N + 1 : p[i] \in Nat \ {0}
  <2> DEFINE T == {n \in Nat : n <= N => p[n + 1] \in Nat \ {0}}
  <2>1. 0 \in T
    BY <1>8
  <2>2. ASSUME NEW n \in Nat, n \in T PROVE n + 1 \in T
    <3>1. SUFFICES ASSUME n + 1 <= N PROVE p[(n + 1) + 1] \in Nat \ {0}
      OBVIOUS
    <3>2. n + 1 \in 1 .. N /\ p[n + 1] \in Nat \ {0} /\ Sent(c)[n + 1].n \in Nat
      BY <1>1, <2>2, <3>1, SentIs
    <3> QED BY <1>9, <3>2
  <2> HIDE DEF T
  <2>3. \A n \in Nat : n \in T
    BY <2>1, <2>2, NatSet
  <2>4. ASSUME NEW i \in 1 .. N + 1 PROVE p[i] \in Nat \ {0}
    <3>1. i - 1 \in Nat /\ i - 1 <= N /\ (i - 1) + 1 = i
      BY <1>1
    <3> QED BY <2>3, <3>1 DEF T
  <2> QED BY <2>4
<1>11. p \in [1 .. N + 1 -> Nat \ {0}]
  <2>1. p = [i \in 1 .. N + 1 |-> p[i]]
    <3>1. step(p) = [i \in 1 .. N + 1 |-> step(p)[i]]
      BY DEF step
    <3> QED BY <1>6, <3>1
  <2> QED BY <1>10, <2>1
<1> QED BY <1>8, <1>9, <1>11 DEF p

LEMMA PlacesGrow ==
  ASSUME NEW c \in Conns, NEW i \in 1 .. Len(Sent(c)), NEW j \in i + 1 .. Len(Sent(c)) + 1
  PROVE  Place(c)[i + 1] <= Place(c)[j]
<1> DEFINE N == Len(Sent(c))
           p == Place(c)
           T == {k \in Nat : i + 1 + k <= N + 1 => p[i + 1] <= p[i + 1 + k]}
<1>1. N \in Nat /\ \A k \in 1 .. N : Sent(c)[k].n \in Nat
  BY SentNumbers
<1>2. p \in [1 .. N + 1 -> Nat \ {0}] /\ \A k \in 1 .. N : p[k + 1] = p[k] + 2 + Sent(c)[k].n
  BY PlaceIs
<1> HIDE DEF N, p
<1>3. 0 \in T
  <2>1. i + 1 \in 1 .. N + 1
    BY <1>1 DEF N
  <2> QED BY <1>2, <2>1
<1>4. ASSUME NEW k \in Nat, k \in T PROVE k + 1 \in T
  <2>1. SUFFICES ASSUME i + 1 + (k + 1) <= N + 1 PROVE p[i + 1] <= p[i + 1 + (k + 1)]
    OBVIOUS
  <2>2. i + 1 + k \in 1 .. N /\ i \in 1 .. N /\ (i + 1 + k) + 1 = i + 1 + (k + 1)
    BY <1>1, <2>1 DEF N
  <2>3. p[i + 1] <= p[i + 1 + k] /\ p[(i + 1 + k) + 1] = p[i + 1 + k] + 2 + Sent(c)[i + 1 + k].n
    <3>1. p[i + 1] <= p[i + 1 + k]
      BY <1>4, <2>1, <1>1 DEF N
    <3> QED BY <1>2, <2>2, <3>1
  <2>4. p[i + 1] \in Nat /\ p[i + 1 + k] \in Nat /\ Sent(c)[i + 1 + k].n \in Nat
    <3>1. i + 1 \in 1 .. N + 1 /\ i + 1 + k \in 1 .. N + 1
      BY <1>1, <2>2
    <3> HIDE DEF T
    <3> QED BY <1>1, <1>2, <2>2, <3>1
  <2> HIDE DEF T
  <2>5. p[i + 1] <= p[(i + 1 + k) + 1]
    <3>1. ASSUME NEW a \in Nat, NEW b \in Nat, NEW n \in Nat, a <= b PROVE a <= b + 2 + n
      BY <3>1
    <3> HIDE DEF p
    <3> QED BY <2>3, <2>4, <3>1
  <2>6. p[(i + 1 + k) + 1] = p[i + 1 + (k + 1)]
    BY <2>2
  <2> QED BY <2>5, <2>6
<1>5. j - (i + 1) \in T
  <2> HIDE DEF T
  <2>1. j - (i + 1) \in Nat
    BY DEF N
  <2> QED BY <1>3, <1>4, <2>1, NatSet
<1>6. i + 1 + (j - (i + 1)) = j /\ j <= N + 1
  BY <1>1 DEF N
<1> QED BY <1>5, <1>6 DEF N, p

Byte == {Layout(c, p) : c \in Conns, p \in Nat} \cup {Nul}

\* The bytes of a message are found where it has its place.
LEMMA LayoutIs ==
  ASSUME NEW c \in Conns, NEW i \in 1 .. Len(Sent(c))
  PROVE  /\ Layout(c, Place(c)[i]).is = Sent(c)[i].is
         /\ Layout(c, Place(c)[i] + 1).n = Sent(c)[i].n
<1> DEFINE N == Len(Sent(c))
           P == Place(c)
           at(p) == CHOOSE j \in DOMAIN Sent(c) : P[j] <= p /\ p < P[j + 1]
<1>1. N \in Nat /\ DOMAIN Sent(c) = 1 .. N /\ \A k \in 1 .. N : Sent(c)[k].n \in Nat
  BY SentNumbers
<1>2. P \in [1 .. N + 1 -> Nat \ {0}] /\ \A k \in 1 .. N : P[k + 1] = P[k] + 2 + Sent(c)[k].n
  BY PlaceIs
<1>3. \A k \in 1 .. N : P[k] \in Nat /\ P[k + 1] \in Nat
  BY <1>1, <1>2
<1>4. \A j \in i + 1 .. N + 1 : P[i + 1] <= P[j]
  BY PlacesGrow
<1>5. \A j \in 1 .. N : j < i => P[j + 1] <= P[i]
  <2>1. ASSUME NEW j \in 1 .. N, j < i PROVE P[j + 1] <= P[i]
    <3>1. i \in j + 1 .. N + 1
      BY <1>1, <2>1
    <3> QED BY <3>1, PlacesGrow
  <2> QED BY <2>1
<1> HIDE DEF N, P
<1>6. i \in 1 .. N
  BY DEF N
<1>7. ASSUME NEW p \in {P[i], P[i] + 1} PROVE at(p) = i
  <2>1. P[i] <= p /\ p < P[i + 1]
    <3>1. P[i + 1] = P[i] + 2 + Sent(c)[i].n /\ Sent(c)[i].n \in Nat /\ P[i] \in Nat
      BY <1>1, <1>2, <1>3, <1>6
    <3> QED BY <3>1, <1>7
  <2>2. at(p) \in 1 .. N /\ P[at(p)] <= p /\ p < P[at(p) + 1]
    BY <1>1, <1>6, <2>1
  <2> DEFINE j == at(p)
  <2> HIDE DEF at
  <2>3. p \in Nat /\ P[i] \in Nat /\ P[i + 1] \in Nat /\ P[j] \in Nat /\ P[j + 1] \in Nat
    BY <1>3, <1>6, <1>7, <2>2
  <2>4. ~(j < i)
    BY <1>5, <2>1, <2>2, <2>3
  <2>5. ~(i < j)
    <3>1. i < j => j \in i + 1 .. N + 1
      BY <1>1, <1>6, <2>2
    <3> QED BY <1>4, <2>1, <2>2, <2>3, <3>1
  <2>6. j \in Int /\ i \in Int
    BY <2>2, <1>6
  <2> HIDE DEF j
  <2>7. j = i
    BY <2>4, <2>5, <2>6
  <2> QED BY <2>7 DEF j
<1> DEFINE as(is, n) == [of |-> c, at |-> P[i], is |-> is, n |-> n]
<1>8. Layout(c, P[i]).is = Sent(c)[i].is
  <2>1. at(P[i]) = i
    BY <1>7
  <2>2. Layout(c, P[i]) = as(Sent(c)[at(P[i])].is, 0)
    BY <2>1 DEF Layout, P
  <2> HIDE DEF at
  <2> QED BY <2>1, <2>2
<1>9. Layout(c, P[i] + 1).n = Sent(c)[i].n
  <2>1. at(P[i] + 1) = i
    BY <1>7
  <2>2. P[i] + 1 # P[i]
    BY <1>3, <1>6
  <2>3. Layout(c, P[i] + 1) = [of |-> c, at |-> P[i] + 1, is |-> "size", n |-> Sent(c)[i].n]
    BY <2>1, <2>2 DEF Layout, P
  <2> QED BY <2>3
<1> QED BY <1>8, <1>9 DEF P

LEMMA LayoutOf ==
  ASSUME NEW c, NEW p PROVE Layout(c, p).of = c
BY DEF Layout

\* What each backend sends, byte by byte
LEMMA WireIs ==
  ASSUME NEW c \in Conns
  PROVE  /\ Wire[c] \in Seq(Byte)
         /\ Len(Wire[c]) = Place(c)[Len(Sent(c)) + 1] - 1
         /\ \A p \in 1 .. Len(Wire[c]) : Wire[c][p].of = c
         /\ \A i \in 1 .. Len(Sent(c)) :
              /\ Place(c)[i + 1] - 1 <= Len(Wire[c])
              /\ Wire[c][Place(c)[i]].is = Sent(c)[i].is
              /\ Wire[c][Place(c)[i] + 1].n = Sent(c)[i].n
<1> DEFINE N == Len(Sent(c))
           P == Place(c)
           L == P[N + 1] - 1
<1>1. N \in Nat \ {0} /\ \A k \in 1 .. N : Sent(c)[k].n \in Nat
  BY SentNumbers
<1>2. P \in [1 .. N + 1 -> Nat \ {0}] /\ \A k \in 1 .. N : P[k + 1] = P[k] + 2 + Sent(c)[k].n
  BY PlaceIs
<1>3. \A i \in 1 .. N : P[i] \in Nat \ {0} /\ P[i + 1] \in Nat \ {0}
  BY <1>1, <1>2
<1>4. \A i \in 1 .. N : P[i + 1] - 1 <= L
  <2>1. ASSUME NEW i \in 1 .. N PROVE P[i + 1] <= P[N + 1]
    <3>1. N + 1 \in i + 1 .. N + 1
      BY <1>1
    <3> QED BY <3>1, PlacesGrow
  <2>2. P[N + 1] \in Nat
    BY <1>1, <1>3
  <2> QED BY <1>3, <2>1, <2>2
<1>5. L \in Nat
  BY <1>1, <1>3
<1> HIDE DEF N, P, L
<1>6. Wire[c] = [p \in 1 .. L |-> Layout(c, p)]
  BY DEF Wire, L, P, N
<1>7. Wire[c] \in Seq(Byte) /\ Len(Wire[c]) = L /\ \A p \in 1 .. L : Wire[c][p] = Layout(c, p)
  <2>1. \A p \in 1 .. L : Layout(c, p) \in Byte
    BY <1>5 DEF Byte
  <2> QED BY <1>5, <1>6, <2>1
<1>8. ASSUME NEW i \in 1 .. N
      PROVE  /\ Wire[c][P[i]].is = Sent(c)[i].is
             /\ Wire[c][P[i] + 1].n = Sent(c)[i].n
  <2>1. P[i] \in 1 .. L /\ P[i] + 1 \in 1 .. L
    <3>1. /\ P[i + 1] = P[i] + 2 + Sent(c)[i].n /\ Sent(c)[i].n \in Nat
          /\ P[i] \in Nat \ {0} /\ P[i + 1] - 1 <= L
      BY <1>1, <1>2, <1>3, <1>4
    <3> QED BY <1>5, <3>1
  <2> QED BY <1>7, <2>1, LayoutIs DEF N, P
<1>9. \A p \in 1 .. L : Wire[c][p].of = c
  BY <1>7, LayoutOf
<1> QED BY <1>4, <1>7, <1>8, <1>9 DEF N, P, L

LEMMA RowsAre ==
  ASSUME NEW c \in Conns
  PROVE  /\ RowsOf(c) \in Seq(Seq(Byte)) /\ Len(RowsOf(c)) = Len(Frames[c])
         /\ \A i \in 1 .. Len(Frames[c]) :
              /\ RowsOf(c)[i] = SubSeq(Wire[c], Place(c)[i] + 2, Place(c)[i + 1] - 1)
              /\ RowsOf(c)[i] \in Seq(Byte) /\ Len(RowsOf(c)[i]) = Sent(c)[i].n
              /\ \A j \in 1 .. Sent(c)[i].n : RowsOf(c)[i][j] = Wire[c][Place(c)[i] + 1 + j]
<1> DEFINE M == Len(Frames[c])
           W == Wire[c]
           P == Place(c)
           S == Sent(c)
<1>1. M \in Nat /\ DOMAIN Frames[c] = 1 .. M /\ Len(S) = M + 1 /\ \A k \in 1 .. M : S[k].n \in Nat
  BY SentIs
<1>2. P \in [1 .. Len(S) + 1 -> Nat \ {0}] /\ \A k \in 1 .. Len(S) : P[k + 1] = P[k] + 2 + S[k].n
  BY PlaceIs
<1>3. W \in Seq(Byte) /\ \A i \in 1 .. Len(S) : P[i + 1] - 1 <= Len(W)
  BY WireIs
<1> HIDE DEF M, W, P, S
<1>4. ASSUME NEW i \in 1 .. M
      PROVE  /\ SubSeq(W, P[i] + 2, P[i + 1] - 1) \in Seq(Byte)
             /\ Len(SubSeq(W, P[i] + 2, P[i + 1] - 1)) = S[i].n
             /\ \A j \in 1 .. S[i].n : SubSeq(W, P[i] + 2, P[i + 1] - 1)[j] = W[P[i] + 1 + j]
  <2>1. P[i] \in Nat \ {0} /\ S[i].n \in Nat /\ P[i + 1] = P[i] + 2 + S[i].n
        /\ P[i + 1] - 1 <= Len(W) /\ Len(W) \in Nat
    <3>1. i \in 1 .. Len(S)
      BY <1>1
    <3>2. Len(W) \in Nat /\ P[i + 1] - 1 <= Len(W)
      BY <1>3, <3>1
    <3>3. P[i] \in Nat \ {0} /\ P[i + 1] = P[i] + 2 + S[i].n
      <4>1. Len(S) \in Nat
        BY <1>1
      <4>2. i \in 1 .. Len(S) + 1
        BY <3>1, <4>1
      <4> QED BY <1>2, <3>1, <4>2
    <3> QED BY <1>1, <3>2, <3>3
  <2> DEFINE a == P[i] + 2
             b == P[i + 1] - 1
  <2>2. a \in Nat \ {0} /\ b \in Nat /\ b <= Len(W) /\ b - a + 1 = S[i].n /\ S[i].n \in Nat
    <3> DEFINE x == P[i]
               y == P[i + 1]
               n == S[i].n
               l == Len(W)
    <3>1. x \in Nat \ {0} /\ n \in Nat /\ l \in Nat /\ y = x + 2 + n /\ y - 1 <= l
      BY <2>1
    <3> HIDE DEF x, y, n, l
    <3>2. /\ x + 2 \in Nat \ {0} /\ y - 1 \in Nat /\ y - 1 <= l /\ n \in Nat
          /\ y - 1 - (x + 2) + 1 = n
      BY <3>1
    <3> QED BY <3>2 DEF x, y, n, l
  <2>4. ASSUME NEW j \in 1 .. S[i].n PROVE a + j - 1 = P[i] + 1 + j
    BY <2>1
  <2> HIDE DEF a, b
  <2>3. /\ SubSeq(W, a, b) \in Seq(Byte) /\ Len(SubSeq(W, a, b)) = S[i].n
        /\ \A j \in 1 .. S[i].n : SubSeq(W, a, b)[j] = W[a + j - 1]
    BY <1>3, <2>2
  <2> QED BY <2>3, <2>4 DEF a, b
<1>5. RowsOf(c) = [i \in 1 .. M |-> SubSeq(W, P[i] + 2, P[i + 1] - 1)]
  BY <1>1 DEF RowsOf, W, P
<1>6. /\ RowsOf(c) \in Seq(Seq(Byte)) /\ Len(RowsOf(c)) = M
      /\ \A i \in 1 .. M : RowsOf(c)[i] = SubSeq(W, P[i] + 2, P[i + 1] - 1)
  <2> DEFINE row(i) == SubSeq(W, P[i] + 2, P[i + 1] - 1)
  <2>1. RowsOf(c) = [i \in 1 .. M |-> row(i)] /\ \A i \in 1 .. M : row(i) \in Seq(Byte)
    BY <1>4, <1>5
  <2> HIDE DEF row
  <2>2. /\ RowsOf(c) \in Seq(Seq(Byte)) /\ Len(RowsOf(c)) = M
        /\ \A i \in 1 .. M : RowsOf(c)[i] = row(i)
    BY <1>1, <2>1
  <2> QED BY <2>2 DEF row
<1> QED BY <1>4, <1>6 DEF M, W, P, S

-----------------------------------------------------------------------------
(* What the reader of a stream has, and what its buffer holds *)

Names == {"open", "buffer", "head", "tail", "partial_read", "frame_in_progress", "fd", "received",
          "pc", "is", "size", "ahead", "rows", "got", "wait", "moved", "overtaken"}

Live == Reading \cup {"batch", "ahead"}

\* The reader is at work, or will be when it is resumed.
Attached(s) == s.pc \in Live /\ (s.open \/ s.wait # "no")

\* How many bytes of the stream have been handed to the reader
Stand(s) == s.received - s.moved - (s.tail - s.head)

\* The place before the part of message m that is being read, or will be
Base(c, s, m) == IF s.pc \in {"payload", "ahead"} THEN Place(c)[m] + 1 ELSE Place(c)[m] - 1

\* The reader is at message m: it has the rows before it and the beginning of the part.
At(c, s, m) ==
  /\ m \in 1 .. Len(Sent(c))
  /\ Len(s.rows) = m - 1 /\ \A i \in 1 .. m - 1 : s.rows[i] = RowsOf(c)[i]
  /\ Stand(s) = Base(c, s, m) + Len(s.got) /\ Len(s.got) <= Want(s)
  /\ \A j \in 1 .. Len(s.got) : s.got[j] = Wire[c][Base(c, s, m) + j]
  /\ Large(s) => Len(s.got) + s.moved <= Want(s)
  /\ s.pc = "payload" =>
       m # Len(Sent(c)) /\ s.is = Sent(c)[m].is /\ s.size = Sent(c)[m].n /\ s.frame_in_progress
  /\ s.pc \in {"batch", "ahead"} => s.got = <<>>
  /\ s.pc = "ahead" =>
       Len(s.ahead) = 2 /\ \A j \in 1 .. 2 : s.ahead[j] = Wire[c][Place(c)[m] - 1 + j]

Numbers(c, s) ==
  /\ DOMAIN s = Names
  /\ s.open \in BOOLEAN /\ s.overtaken \in BOOLEAN
  /\ s.partial_read \in BOOLEAN /\ s.frame_in_progress \in BOOLEAN
  /\ s.head \in Nat /\ s.tail \in Nat /\ s.received \in Nat /\ s.moved \in Nat
  /\ s.head <= s.tail /\ s.tail <= Capacity
  /\ s.moved <= s.received /\ s.received <= Len(Wire[c])
  /\ s.rows \in Seq(Seq(Byte)) /\ s.got \in Seq(Byte)

Waits(s) ==
  /\ s.wait \in {"no", "parked", "moved"}
  /\ s.wait # "moved" => s.moved = 0
  /\ s.wait # "no" => s.head = 0 /\ s.tail = 0 /\ s.pc \in Reading
  /\ ~s.open /\ (s.moved > 0 \/ s.pc = "ahead") => s.overtaken
  /\ s.pc = "batch" => s.open
  /\ ~Attached(s) => s.got = <<>>

\* The buffer of an open stream holds what the reader will be handed next.
Window(c, s, q) ==
  s.open =>
    /\ \A i \in 1 .. s.tail - s.head : q[s.head + i] = Wire[c][Stand(s) + i]
    /\ ~Large(s) => s.moved <= Capacity /\ \A i \in 1 .. s.moved : q[i] = Wire[c][Stand(s) + i]

OwnRows(c, s) ==
  \A i \in 1 .. Len(s.rows) : \A j \in 1 .. Len(s.rows[i]) : s.rows[i][j].of \in {c, None}

\* A reader that is not at work has ended or never begun, or was overtaken.
AtRest(c, s) ==
  ~Attached(s) /\ ~s.overtaken => s.rows = IF s.pc = "done" /\ s.open THEN RowsOf(c) ELSE <<>>

\* Where a reader stands that was stopped
StandsNear(c, s) ==
  /\ ~s.partial_read => Position(s) \in Starts(c) \cup {p + 2 : p \in Starts(c)}
  /\ ~Noticed(s) => Position(s) \in Starts(c)

CutStands(c, s) ==
  s.open /\ ~s.overtaken =>
    /\ s.pc \in {"cut", "late"} => StandsNear(c, s)
    /\ s.pc = "kept" => Position(s) \in Starts(c)

Fits(c, s, q) ==
  /\ Numbers(c, s) /\ Waits(s) /\ Window(c, s, q)
  /\ Attached(s) => \E m \in Nat : At(c, s, m)
  /\ OwnRows(c, s) /\ AtRest(c, s) /\ CutStands(c, s)

Memory(mem) == DOMAIN mem = Buffers /\ \A b \in Buffers : mem[b] \in Seq(Byte) /\ Len(mem[b]) = Capacity

RInv == Memory(content) /\ \A c \in Conns : Fits(c, stream[c], content[stream[c].buffer])
-----------------------------------------------------------------------------
(* Streams that are closed, and readers that have ended *)

\* The record of a stream that is not open and has received nothing
Blank(s) ==
  /\ DOMAIN s = Names /\ s.head = 0 /\ s.tail = 0 /\ s.received = 0 /\ s.rows = <<>>
  /\ s.got = <<>> /\ s.wait = "no" /\ s.moved = 0 /\ s.pc \notin {"ahead", "batch"}
  /\ ~s.open /\ s.open \in BOOLEAN /\ s.overtaken \in BOOLEAN
  /\ s.partial_read \in BOOLEAN /\ s.frame_in_progress \in BOOLEAN

LEMMA BlankFits ==
  ASSUME NEW c \in Conns, NEW s, NEW q, Blank(s) PROVE Fits(c, s, q)
<1>1. Len(Wire[c]) \in Nat /\ Capacity \in Nat
  BY WireIs, BufferedStreamAssumption
<1>2. Numbers(c, s)
  <2>1. s.rows \in Seq(Seq(Byte)) /\ s.got \in Seq(Byte)
    BY DEF Blank
  <2> QED BY <1>1, <2>1 DEF Numbers, Blank
<1>3. ~Attached(s)
  BY DEF Attached, Blank
<1>4. Waits(s)
  BY <1>3 DEF Waits, Blank
<1>5. Window(c, s, q) /\ OwnRows(c, s) /\ AtRest(c, s) /\ CutStands(c, s)
  BY DEF Window, OwnRows, AtRest, CutStands, Blank
<1> QED BY <1>2, <1>3, <1>4, <1>5 DEF Fits

LEMMA ClosedFits ==
  ASSUME NEW c \in Conns, NEW how \in {"done", "cut", "late", "kept", "failing", "failed"}, NEW q
  PROVE  /\ Fits(c, Closed(how), q)
         /\ Fits(c, [Closed(how) EXCEPT !.open = FALSE], q)
         /\ ~[Closed(how) EXCEPT !.open = FALSE].open
<1> DEFINE s == Closed(how)
           u == [s EXCEPT !.open = FALSE]
<1>1. DOMAIN NewStream = Names
  BY DEF NewStream, Names
<1>2. Blank(s)
  <2>1. DOMAIN s = Names
    BY <1>1 DEF Closed
  <2> QED BY <1>1, <2>1 DEF Closed, NewStream, Names, Blank
<1> HIDE DEF s
<1>3. Blank(u) /\ ~u.open
  <2>1. DOMAIN u = Names
    BY <1>2 DEF Blank
  <2>2. /\ u.head = 0 /\ u.tail = 0 /\ u.received = 0 /\ u.rows = <<>>
        /\ u.got = <<>> /\ u.wait = "no" /\ u.moved = 0 /\ u.pc \notin {"ahead", "batch"}
        /\ ~u.open /\ u.open \in BOOLEAN /\ u.overtaken \in BOOLEAN
        /\ u.partial_read \in BOOLEAN /\ u.frame_in_progress \in BOOLEAN
    BY <1>2 DEF Blank, Names
  <2> QED BY <2>1, <2>2 DEF Blank
<1> HIDE DEF u
<1>4. Fits(c, s, q) /\ Fits(c, u, q)
  BY <1>2, <1>3, BlankFits
<1> QED BY <1>3, <1>4 DEF s, u

\* A record that has ended and is open stands where it stood.
LEMMA EndedFits ==
  ASSUME NEW c \in Conns, NEW s, NEW q, Numbers(c, s), OwnRows(c, s),
         NEW how \in {"done", "cut", "late", "failing"},
         s.open => /\ \A i \in 1 .. s.tail - s.head : q[s.head + i] = Wire[c][Stand(s) + i]
                   /\ s.moved > 0 => s.head = 0 /\ s.tail = 0
                   /\ how = "done" => s.rows = RowsOf(c)
                   /\ how \in {"cut", "late"} /\ ~s.overtaken => StandsNear(c, s)
  PROVE  Fits(c, Ended(s, how), q)
<1>1. CASE ~s.open
  <2>1. Ended(s, how) = Closed(how)
    BY <1>1 DEF Ended
  <2> QED BY <2>1, ClosedFits
<1>2. CASE s.open
  <2> DEFINE u == Ended(s, how)
  <2>1. u = [s EXCEPT !.pc = how, !.wait = "no", !.got = <<>>, !.moved = 0, !.is = "none",
                      !.size = 0, !.ahead = <<>>, !.rows = IF how = "done" THEN @ ELSE <<>>]
    BY <1>2 DEF Ended
  <2>2. DOMAIN s = Names
    BY DEF Numbers
  <2> HIDE DEF u
  <2>3. DOMAIN u = Names
    BY <2>1, <2>2
  <2>4. /\ u.open = s.open /\ u.head = s.head /\ u.tail = s.tail /\ u.partial_read = s.partial_read
        /\ u.frame_in_progress = s.frame_in_progress /\ u.received = s.received
        /\ u.pc = how /\ u.rows = (IF how = "done" THEN s.rows ELSE <<>>) /\ u.got = <<>>
        /\ u.wait = "no" /\ u.moved = 0 /\ u.overtaken = s.overtaken
    BY <2>1, <2>2 DEF Names
  <2>5. Capacity \in Nat /\ Len(Wire[c]) \in Nat
    BY WireIs, BufferedStreamAssumption
  <2>6. Numbers(c, u)
    <3>1. u.rows \in Seq(Seq(Byte)) /\ u.got \in Seq(Byte)
      BY <2>4 DEF Numbers
    <3> QED BY <2>3, <2>4, <2>5, <3>1 DEF Numbers
  <2>7. ~Attached(u)
    BY <2>4 DEF Attached, Live, Reading
  <2>8. Waits(u)
    BY <1>2, <2>4, <2>7 DEF Waits
  <2>9. Window(c, u, q)
    <3>1. s.tail - s.head > 0 => Stand(u) = Stand(s)
      BY <1>2, <2>4 DEF Stand, Numbers
    <3>2. \A i \in 1 .. u.tail - u.head : q[u.head + i] = Wire[c][Stand(u) + i]
      <4>1. u.tail = s.tail /\ u.head = s.head /\ s.tail \in Nat /\ s.head \in Nat
        BY <2>4 DEF Numbers
      <4>2. ASSUME NEW i \in 1 .. s.tail - s.head PROVE q[s.head + i] = Wire[c][Stand(u) + i]
        <5>1. s.tail - s.head > 0
          BY <4>1
        <5> QED BY <1>2, <3>1, <5>1
      <4> QED BY <4>1, <4>2
    <3> QED BY <2>4, <3>2, <2>5 DEF Window
  <2>10. OwnRows(c, u)
    BY <2>4 DEF OwnRows
  <2>11. AtRest(c, u)
    BY <1>2, <2>4 DEF AtRest
  <2>12. CutStands(c, u)
    BY <1>2, <2>4 DEF CutStands, StandsNear, Noticed, Position
  <2>13. Fits(c, u, q)
    BY <2>6, <2>7, <2>8, <2>9, <2>10, <2>11, <2>12 DEF Fits
  <2> QED BY <2>13 DEF u
<1>3. s.open \in BOOLEAN
  BY DEF Numbers
<1> QED BY <1>1, <1>2, <1>3

\* A closed stream whose reader was overtaken holds rows of its own.
LEMMA LostFits ==
  ASSUME NEW c \in Conns, NEW u, NEW q, Numbers(c, u), OwnRows(c, u),
         ~u.open, u.overtaken, u.wait = "no", u.moved = 0, u.got = <<>>, u.pc # "batch"
  PROVE  Fits(c, u, q)
<1>1. ~Attached(u)
  BY DEF Attached
<1>2. Waits(u)
  BY <1>1 DEF Waits
<1>3. Window(c, u, q) /\ AtRest(c, u) /\ CutStands(c, u)
  BY DEF Window, AtRest, CutStands
<1> QED BY <1>1, <1>2, <1>3 DEF Fits

LEMMA DispatchLost ==
  ASSUME NEW c \in Conns, NEW s, NEW q, NEW header, Numbers(c, s), OwnRows(c, s),
         ~s.open, s.overtaken, s.wait = "no", s.moved = 0, s.got = <<>>, s.pc # "batch"
  PROVE  Fits(c, Dispatch(s, header), q)
<1> DEFINE t == [s EXCEPT !.frame_in_progress = TRUE, !.ahead = <<>>]
           z == [t EXCEPT !.frame_in_progress = FALSE]
           row == [t EXCEPT !.pc = "payload", !.is = header[1].is, !.size = header[2].n]
           padding == [t EXCEPT !.pc = "header", !.frame_in_progress = FALSE]
           other == [t EXCEPT !.pc = "failing"]
           Like(u) == /\ DOMAIN u = Names /\ u.open = s.open /\ u.head = s.head /\ u.tail = s.tail
                      /\ u.partial_read = s.partial_read /\ u.frame_in_progress \in BOOLEAN
                      /\ u.received = s.received /\ u.rows = s.rows /\ u.got = s.got
                      /\ u.wait = s.wait /\ u.moved = s.moved /\ u.overtaken = s.overtaken
                      /\ u.pc # "batch"
<1>1. DOMAIN s = Names
  BY DEF Numbers
<1>2. Like(t)
  BY <1>1 DEF Names
<1> HIDE DEF t
<1>3. Like(row) /\ Like(padding) /\ Like(other) /\ Like(z)
  <2>1. Like(row) BY <1>2 DEF Names
  <2>2. Like(padding) BY <1>2 DEF Names
  <2>3. Like(other) BY <1>2 DEF Names
  <2>4. Like(z) BY <1>2 DEF Names
  <2> QED BY <2>1, <2>2, <2>3, <2>4
<1> HIDE DEF z, row, padding, other
<1>4. ASSUME NEW u, Like(u) PROVE Fits(c, u, q)
  <2>1. Numbers(c, u) /\ OwnRows(c, u)
    BY <1>4 DEF Numbers, OwnRows
  <2>2. ~u.open /\ u.overtaken /\ u.wait = "no" /\ u.moved = 0 /\ u.got = <<>> /\ u.pc # "batch"
    BY <1>4
  <2> QED BY <2>1, <2>2, LostFits
<1>5. Fits(c, Ended(z, "done"), q)
  <2>1. Ended(z, "done") = Closed("done")
    BY <1>3 DEF Ended
  <2> QED BY <2>1, ClosedFits
<1>6. Dispatch(s, header) \in {Ended(z, "done"), row, padding, other}
  BY DEF Dispatch, t, z, row, padding, other
<1> HIDE DEF Like
<1> QED BY <1>3, <1>4, <1>5, <1>6

\* Whatever a read returns to it
LEMMA GoesLost ==
  ASSUME NEW c \in Conns, NEW s, NEW q, NEW bytes \in Seq(Byte), Numbers(c, s), OwnRows(c, s),
         ~s.open, s.overtaken, s.pc \in Reading,
         \A j \in 1 .. Len(bytes) : bytes[j].of \in {c, None},
         NEW u \in Goes(s, bytes)
  PROVE  Fits(c, u, q)
<1> DEFINE t == [s EXCEPT !.got = <<>>, !.wait = "no", !.moved = 0]
           row == [t EXCEPT !.rows = Append(@, bytes),
                            !.pc = IF s.is = "Y" THEN "next" ELSE "header",
                            !.frame_in_progress = FALSE]
           ahead == [t EXCEPT !.pc = "ahead", !.ahead = bytes]
<1>1. DOMAIN s = Names
  BY DEF Numbers
<1>2. /\ DOMAIN t = Names /\ t.open = s.open /\ t.head = s.head /\ t.tail = s.tail
      /\ t.partial_read = s.partial_read /\ t.frame_in_progress = s.frame_in_progress
      /\ t.received = s.received /\ t.rows = s.rows /\ t.got = <<>>
      /\ t.wait = "no" /\ t.moved = 0 /\ t.overtaken = s.overtaken /\ t.pc # "batch"
  BY <1>1 DEF Names, Reading
<1> HIDE DEF t
<1>3. Numbers(c, t) /\ OwnRows(c, t)
  <2>1. 0 <= s.received /\ <<>> \in Seq(Byte)
    BY DEF Numbers
  <2> QED BY <1>2, <2>1 DEF Numbers, OwnRows
<1>4. ~t.open /\ t.overtaken
  BY <1>2
<1>5. Fits(c, Dispatch(t, bytes), q)
  BY <1>2, <1>3, <1>4, DispatchLost
<1>6. Fits(c, ahead, q)
  <2>1. /\ DOMAIN ahead = Names /\ ahead.open = t.open /\ ahead.head = t.head /\ ahead.tail = t.tail
        /\ ahead.partial_read = t.partial_read /\ ahead.frame_in_progress = t.frame_in_progress
        /\ ahead.received = t.received /\ ahead.rows = t.rows /\ ahead.got = t.got
        /\ ahead.wait = t.wait /\ ahead.moved = t.moved /\ ahead.overtaken = t.overtaken
        /\ ahead.pc # "batch"
    BY <1>2 DEF Names
  <2> HIDE DEF ahead
  <2>2. Numbers(c, ahead) /\ OwnRows(c, ahead)
    BY <1>3, <2>1 DEF Numbers, OwnRows
  <2> QED BY <1>2, <1>4, <2>1, <2>2, LostFits
<1>7. Fits(c, row, q)
  <2>1. /\ DOMAIN row = Names /\ row.open = t.open /\ row.head = t.head /\ row.tail = t.tail
        /\ row.partial_read = t.partial_read /\ row.frame_in_progress \in BOOLEAN
        /\ row.received = t.received /\ row.rows = Append(t.rows, bytes) /\ row.got = t.got
        /\ row.wait = t.wait /\ row.moved = t.moved /\ row.overtaken = t.overtaken
        /\ row.pc # "batch"
    BY <1>2 DEF Names
  <2> HIDE DEF row
  <2>2. t.rows \in Seq(Seq(Byte)) /\ row.rows \in Seq(Seq(Byte))
    BY <1>3, <2>1 DEF Numbers
  <2>3. Numbers(c, row)
    BY <1>3, <2>1, <2>2 DEF Numbers
  <2>4. OwnRows(c, row)
    <3>1. ASSUME NEW i \in 1 .. Len(row.rows)
          PROVE  \A j \in 1 .. Len(row.rows[i]) : row.rows[i][j].of \in {c, None}
      <4>1. Len(row.rows) = Len(t.rows) + 1 /\ Len(t.rows) \in Nat
        BY <2>1, <2>2
      <4>2. CASE i = Len(t.rows) + 1
        <5>1. row.rows[i] = bytes
          BY <2>1, <2>2, <4>2
        <5> QED BY <5>1
      <4>3. CASE i # Len(t.rows) + 1
        <5>1. i \in 1 .. Len(t.rows) /\ row.rows[i] = t.rows[i]
          BY <2>1, <2>2, <4>1, <4>3
        <5> QED BY <1>3, <5>1 DEF OwnRows
      <4> QED BY <4>2, <4>3
    <3> QED BY <3>1 DEF OwnRows
  <2> QED BY <1>2, <1>4, <2>1, <2>3, <2>4, LostFits
<1> HIDE DEF row, ahead
<1>8. Goes(s, bytes) \subseteq {Dispatch(t, bytes), row, ahead}
  <2>1. CASE s.pc = "header"
    BY <2>1 DEF Goes, t
  <2>2. CASE s.pc = "payload"
    <3>1. ~(s.is = "Y" /\ s.open)
      OBVIOUS
    <3>2. Goes(s, bytes) = {row}
      BY <2>2, <3>1 DEF Goes, t, row
    <3> QED BY <3>2
  <2>3. CASE s.pc = "next"
    BY <2>3 DEF Goes, t, ahead
  <2> QED BY <2>1, <2>2, <2>3 DEF Reading
<1> QED BY <1>5, <1>6, <1>7, <1>8

-----------------------------------------------------------------------------
(* Readers that go on *)

\* What an open stream is like between two reads
Between(c, s, q) ==
  /\ Numbers(c, s) /\ s.open /\ s.wait = "no" /\ s.moved = 0 /\ s.got = <<>>
  /\ \A i \in 1 .. s.tail - s.head : q[s.head + i] = Wire[c][Stand(s) + i]

\* The rows before message m
Before(c, s, m) == Len(s.rows) = m - 1 /\ \A i \in 1 .. m - 1 : s.rows[i] = RowsOf(c)[i]

LEMMA Places ==
  ASSUME NEW c \in Conns, NEW i \in 1 .. Len(Sent(c))
  PROVE  /\ Place(c)[i] \in Nat \ {0} /\ Sent(c)[i].n \in Nat /\ Len(Wire[c]) \in Nat
         /\ Place(c)[i + 1] = Place(c)[i] + 2 + Sent(c)[i].n
         /\ Place(c)[i + 1] - 1 <= Len(Wire[c])
<1> DEFINE P == Place(c)
           N == Len(Sent(c))
<1>1. N \in Nat \ {0} /\ Sent(c)[i].n \in Nat
  BY SentNumbers
<1>2. P \in [1 .. N + 1 -> Nat \ {0}] /\ P[i + 1] = P[i] + 2 + Sent(c)[i].n
  BY PlaceIs
<1>3. P[i + 1] - 1 <= Len(Wire[c]) /\ Len(Wire[c]) \in Nat
  BY WireIs
<1> HIDE DEF P, N
<1>4. i \in 1 .. N + 1
  BY <1>1 DEF N
<1>5. P[i] \in Nat \ {0}
  BY <1>2, <1>4
<1> QED BY <1>1, <1>2, <1>3, <1>5 DEF P

LEMMA OwnPrefix ==
  ASSUME NEW c \in Conns, NEW s, NEW m \in 1 .. Len(Sent(c)), Before(c, s, m)
  PROVE  OwnRows(c, s)
<1>1. Len(Sent(c)) = Len(Frames[c]) + 1 /\ Len(Frames[c]) \in Nat
  BY SentIs
<1>2. ASSUME NEW i \in 1 .. m - 1, NEW j \in 1 .. Len(s.rows[i])
      PROVE  s.rows[i][j].of \in {c, None}
  <2>1. i \in 1 .. Len(Frames[c]) /\ i \in 1 .. Len(Sent(c)) /\ s.rows[i] = RowsOf(c)[i]
    BY <1>1 DEF Before
  <2> DEFINE n == Sent(c)[i].n
             x == Place(c)[i]
             y == Place(c)[i + 1]
             l == Len(Wire[c])
  <2>2. j \in 1 .. n /\ s.rows[i][j] = Wire[c][x + 1 + j]
    <3> DEFINE r == RowsOf(c)[i]
    <3>1. Len(r) = n /\ \A k \in 1 .. n : r[k] = Wire[c][x + 1 + k]
      BY <2>1, RowsAre
    <3>2. j \in 1 .. Len(r) /\ s.rows[i][j] = r[j]
      BY <2>1
    <3> HIDE DEF r, n, x
    <3> QED BY <3>1, <3>2
  <2>3. n \in Nat /\ x \in Nat \ {0} /\ y = x + 2 + n /\ y - 1 <= l /\ l \in Nat
    BY <2>1, Places
  <2> HIDE DEF n, x, y, l
  <2>4. x + 1 + j \in 1 .. l
    BY <2>2, <2>3
  <2>5. Wire[c][x + 1 + j].of = c
    BY <2>4, WireIs DEF l
  <2> QED BY <2>2, <2>5
<1> QED BY <1>2 DEF OwnRows, Before

\* An open reader that is at a message, and has nothing of it yet, fits.
LEMMA BetweenFits ==
  ASSUME NEW c \in Conns, NEW s, NEW q, Between(c, s, q), s.pc \in Live,
         NEW m \in 1 .. Len(Sent(c)), Before(c, s, m),
         Stand(s) = Base(c, s, m),
         s.pc = "payload" =>
           m # Len(Sent(c)) /\ s.is = Sent(c)[m].is /\ s.size = Sent(c)[m].n /\ s.frame_in_progress,
         s.pc = "ahead" =>
           Len(s.ahead) = 2 /\ \A j \in 1 .. 2 : s.ahead[j] = Wire[c][Place(c)[m] - 1 + j]
  PROVE  Fits(c, s, q)
<1>1. Want(s) \in Nat
  BY SentNumbers DEF Want
<1>2. Len(s.got) = 0 /\ s.got = <<>>
  BY DEF Between
<1>3. Base(c, s, m) \in Nat
  <2>1. Place(c)[m] \in Nat \ {0}
    BY Places
  <2> QED BY <2>1 DEF Base
<1>4. At(c, s, m)
  <2>1. /\ Stand(s) = Base(c, s, m) + Len(s.got) /\ Len(s.got) <= Want(s)
        /\ \A j \in 1 .. Len(s.got) : s.got[j] = Wire[c][Base(c, s, m) + j]
        /\ Len(s.got) + s.moved <= Want(s)
    BY <1>1, <1>2, <1>3 DEF Between
  <2> QED BY <1>2, <2>1 DEF At, Before
<1>5. Attached(s) /\ m \in Nat
  BY SentNumbers DEF Attached, Between
<1>6. Waits(s)
  BY <1>5 DEF Waits, Between
<1>7. Window(c, s, q)
  BY BufferedStreamAssumption DEF Window, Between
<1>8. AtRest(c, s) /\ CutStands(c, s)
  BY <1>5 DEF AtRest, CutStands, Live, Reading
<1> QED BY <1>4, <1>5, <1>6, <1>7, <1>8, OwnPrefix DEF Fits, Between

\* The header of message m decides what the reader does next.
LEMMA DispatchFits ==
  ASSUME NEW c \in Conns, NEW s, NEW q, NEW header, Between(c, s, q),
         NEW m \in 1 .. Len(Sent(c)), Before(c, s, m), Stand(s) = Place(c)[m] + 1,
         header[1].is = Sent(c)[m].is, header[2].n = Sent(c)[m].n
  PROVE  Fits(c, Dispatch(s, header), q)
<1> DEFINE t == [s EXCEPT !.frame_in_progress = TRUE, !.ahead = <<>>]
           z == [t EXCEPT !.frame_in_progress = FALSE]
           row == [t EXCEPT !.pc = "payload", !.is = header[1].is, !.size = header[2].n]
<1>1. DOMAIN s = Names
  BY DEF Between, Numbers
<1>2. /\ DOMAIN t = Names /\ t.open = s.open /\ t.head = s.head /\ t.tail = s.tail
      /\ t.partial_read = s.partial_read /\ t.frame_in_progress
      /\ t.frame_in_progress \in BOOLEAN
      /\ t.received = s.received /\ t.rows = s.rows /\ t.got = s.got
      /\ t.wait = s.wait /\ t.moved = s.moved /\ t.overtaken = s.overtaken
  BY <1>1 DEF Names
<1> HIDE DEF t
<1>3. Len(Sent(c)) = Len(Frames[c]) + 1 /\ Len(Frames[c]) \in Nat
  BY SentIs
<1>4. CASE m # Len(Sent(c))
  <2>1. header[1].is \in {"Y", "D"}
    BY <1>3, <1>4, SentIs
  <2>2. Dispatch(s, header) = row
    BY <2>1 DEF Dispatch, t, row
  <2>3. /\ DOMAIN row = Names /\ row.open = s.open /\ row.head = s.head /\ row.tail = s.tail
        /\ row.partial_read = s.partial_read /\ row.frame_in_progress
        /\ row.frame_in_progress \in BOOLEAN
        /\ row.received = s.received /\ row.rows = s.rows /\ row.got = s.got
        /\ row.wait = s.wait /\ row.moved = s.moved /\ row.overtaken = s.overtaken
        /\ row.pc = "payload" /\ row.is = header[1].is /\ row.size = header[2].n
    BY <1>2 DEF Names
  <2> HIDE DEF row
  <2>4. Stand(row) = Stand(s)
    BY <2>3 DEF Stand
  <2>5. Between(c, row, q)
    BY <2>3, <2>4 DEF Between, Numbers
  <2>6. Before(c, row, m)
    BY <2>3 DEF Before
  <2>7. Stand(row) = Base(c, row, m)
    BY <2>3, <2>4 DEF Base
  <2>8. row.pc \in Live
    BY <2>3 DEF Live, Reading
  <2>9. Fits(c, row, q)
    BY <1>4, <2>3, <2>5, <2>6, <2>7, <2>8, BetweenFits
  <2> QED BY <2>2, <2>9
<1>5. CASE m = Len(Sent(c))
  <2>1. header[1].is = "Z"
    BY <1>3, <1>5, SentIs
  <2>2. Dispatch(s, header) = Ended(z, "done")
    BY <2>1 DEF Dispatch, t, z
  <2>3. /\ DOMAIN z = Names /\ z.open = s.open /\ z.head = s.head /\ z.tail = s.tail
        /\ z.partial_read = s.partial_read /\ z.frame_in_progress \in BOOLEAN
        /\ z.received = s.received /\ z.rows = s.rows /\ z.got = s.got
        /\ z.wait = s.wait /\ z.moved = s.moved /\ z.overtaken = s.overtaken
    BY <1>2 DEF Names
  <2> HIDE DEF z
  <2>4. Stand(z) = Stand(s)
    BY <2>3 DEF Stand
  <2>5. Numbers(c, z) /\ OwnRows(c, z)
    <3>1. OwnRows(c, s)
      BY OwnPrefix
    <3> QED BY <2>3, <3>1 DEF Between, Numbers, OwnRows
  <2>6. z.rows = RowsOf(c)
    <3> DEFINE x == z.rows
               y == RowsOf(c)
    <3>1. x \in Seq(Seq(Byte)) /\ Len(x) = Len(Frames[c]) /\ \A i \in 1 .. Len(x) : x[i] = y[i]
      <4>1. x \in Seq(Seq(Byte)) /\ x = s.rows
        BY <2>3 DEF Between, Numbers
      <4>2. Len(s.rows) = m - 1 /\ \A i \in 1 .. m - 1 : s.rows[i] = y[i]
        BY DEF Before
      <4>3. m - 1 = Len(Frames[c])
        BY <1>3, <1>5
      <4> HIDE DEF x, y
      <4> QED BY <4>1, <4>2, <4>3
    <3>2. y \in Seq(Seq(Byte)) /\ Len(y) = Len(Frames[c])
      BY RowsAre
    <3> HIDE DEF x, y
    <3>3. x = y
      <4>1. x = [i \in 1 .. Len(Frames[c]) |-> x[i]] /\ y = [i \in 1 .. Len(Frames[c]) |-> y[i]]
        BY <3>1, <3>2
      <4>2. \A i \in 1 .. Len(Frames[c]) : x[i] = y[i]
        BY <3>1
      <4> QED BY <4>1, <4>2
    <3> QED BY <3>3 DEF x, y
  <2>7. \A i \in 1 .. z.tail - z.head : q[z.head + i] = Wire[c][Stand(z) + i]
    BY <2>3, <2>4 DEF Between
  <2>8. z.moved = 0
    BY <2>3 DEF Between
  <2>9. Fits(c, Ended(z, "done"), q)
    BY <2>5, <2>6, <2>7, <2>8, EndedFits
  <2> QED BY <2>2, <2>9
<1> QED BY <1>4, <1>5

LEMMA IsRow ==
  ASSUME NEW c \in Conns, NEW m \in 1 .. Len(Frames[c]), NEW bytes \in Seq(Byte),
         Len(bytes) = Sent(c)[m].n,
         \A j \in 1 .. Len(bytes) : bytes[j] = Wire[c][Place(c)[m] + 1 + j]
  PROVE  bytes = RowsOf(c)[m]
<1> DEFINE y == RowsOf(c)[m]
           n == Sent(c)[m].n
<1>1. y \in Seq(Byte) /\ Len(y) = n /\ \A j \in 1 .. n : y[j] = Wire[c][Place(c)[m] + 1 + j]
  BY RowsAre
<1>2. Len(bytes) = n /\ \A j \in 1 .. n : bytes[j] = y[j]
  BY <1>1
<1> HIDE DEF y, n
<1>3. bytes = [j \in 1 .. n |-> bytes[j]] /\ y = [j \in 1 .. n |-> y[j]]
  BY <1>1, <1>2
<1>4. bytes = y
  BY <1>2, <1>3
<1> QED BY <1>4 DEF y

LEMMA NextRow ==
  ASSUME NEW c \in Conns, NEW s, s.rows \in Seq(Seq(Byte)), NEW m \in 1 .. Len(Frames[c]),
         Before(c, s, m), NEW u, u.rows = Append(s.rows, RowsOf(c)[m])
  PROVE  Before(c, u, m + 1) /\ u.rows \in Seq(Seq(Byte))
<1> DEFINE x == s.rows
           r == RowsOf(c)
<1>1. r[m] \in Seq(Byte)
  BY RowsAre
<1>2. x \in Seq(Seq(Byte)) /\ Len(x) = m - 1 /\ \A i \in 1 .. m - 1 : x[i] = r[i]
  BY DEF Before
<1> HIDE DEF x, r
<1>3. Append(x, r[m]) \in Seq(Seq(Byte)) /\ Len(Append(x, r[m])) = m
  BY <1>1, <1>2
<1>4. \A i \in 1 .. m : Append(x, r[m])[i] = r[i]
  BY <1>1, <1>2
<1>5. (m + 1) - 1 = m
  BY SentIs
<1> QED BY <1>3, <1>4, <1>5 DEF Before, x, r

\* A read of an open stream that is complete, and what the reader does with it
LEMMA GoesFits ==
  ASSUME NEW c \in Conns, NEW s, NEW q, Fits(c, s, q), s.open, s.pc \in Reading, s.wait = "no",
         Len(s.got) = Want(s), NEW u \in Goes(s, s.got)
  PROVE  Fits(c, u, q)
<1> DEFINE t == [s EXCEPT !.got = <<>>, !.wait = "no", !.moved = 0]
           row == [t EXCEPT !.rows = Append(@, s.got),
                            !.pc = IF s.is = "Y" THEN "next" ELSE "header",
                            !.frame_in_progress = FALSE]
           batch == [row EXCEPT !.pc = "batch"]
           ahead == [t EXCEPT !.pc = "ahead", !.ahead = s.got]
<1>1. Numbers(c, s) /\ s.moved = 0 /\ DOMAIN s = Names
  BY DEF Fits, Numbers, Waits
<1>2. PICK m \in Nat : At(c, s, m)
  BY DEF Fits, Attached, Live
<1>3. m \in 1 .. Len(Sent(c))
  BY <1>2 DEF At
<1> DEFINE p == Place(c)[m]
           n == Sent(c)[m].n
<1>4. p \in Nat \ {0} /\ n \in Nat /\ Place(c)[m + 1] = p + 2 + n
  BY <1>3, Places
<1>5. Before(c, s, m)
  BY <1>2 DEF At, Before
<1>6. s.got \in Seq(Byte) /\ \A j \in 1 .. Len(s.got) : s.got[j] = Wire[c][Base(c, s, m) + j]
  BY <1>1, <1>2 DEF At, Numbers
<1>7. Stand(s) = Base(c, s, m) + Want(s)
  BY <1>2 DEF At
<1>8. \A i \in 1 .. s.tail - s.head : q[s.head + i] = Wire[c][Stand(s) + i]
  BY DEF Fits, Window
<1>9. /\ DOMAIN t = Names /\ t.open = s.open /\ t.head = s.head /\ t.tail = s.tail
      /\ t.partial_read = s.partial_read /\ t.frame_in_progress = s.frame_in_progress
      /\ t.received = s.received /\ t.rows = s.rows /\ t.got = <<>>
      /\ t.wait = "no" /\ t.moved = 0 /\ t.overtaken = s.overtaken
  BY <1>1 DEF Names
<1> HIDE DEF t, p, n
<1>10. Stand(t) = Stand(s)
  BY <1>1, <1>9 DEF Stand
<1>11. <<>> \in Seq(Byte)
  OBVIOUS
<1>12. Between(c, t, q)
  <2>1. Numbers(c, t)
    BY <1>1, <1>9, <1>11 DEF Numbers
  <2> QED BY <1>8, <1>9, <1>10, <2>1 DEF Between
<1>13. CASE s.pc = "header"
  <2>1. Base(c, s, m) = p - 1 /\ Want(s) = 2
    BY <1>13 DEF Base, Want, p
  <2>2. s.got[1] = Wire[c][p] /\ s.got[2] = Wire[c][p + 1]
    BY <1>4, <1>6, <2>1
  <2>3. s.got[1].is = Sent(c)[m].is /\ s.got[2].n = Sent(c)[m].n
    BY <1>3, <2>2, WireIs DEF p
  <2>4. Stand(t) = p + 1
    BY <1>4, <1>7, <1>10, <2>1
  <2>5. Before(c, t, m)
    BY <1>5, <1>9 DEF Before
  <2>6. Fits(c, Dispatch(t, s.got), q)
    BY <1>3, <1>12, <2>3, <2>4, <2>5, DispatchFits DEF p
  <2>7. Goes(s, s.got) = {Dispatch(t, s.got)}
    BY <1>13 DEF Goes, t
  <2> QED BY <2>6, <2>7
<1>14. CASE s.pc = "payload"
  <2>1. m # Len(Sent(c)) /\ s.size = n
    BY <1>2, <1>14 DEF At, n
  <2>2. m \in 1 .. Len(Frames[c]) /\ m + 1 \in 1 .. Len(Sent(c))
    BY <1>3, <2>1, SentIs
  <2>3. Base(c, s, m) = p + 1 /\ Want(s) = n
    BY <1>14, <2>1 DEF Base, Want, p
  <2>4. s.got = RowsOf(c)[m]
    BY <1>6, <2>2, <2>3, IsRow DEF n, p
  <2>5. Stand(s) = Place(c)[m + 1] - 1
    BY <1>4, <1>7, <2>3
  <2>6. ASSUME NEW v \in {row, batch} PROVE Fits(c, v, q)
    <3>1. DOMAIN row = Names
      BY <1>9
    <3>2. /\ DOMAIN v = Names /\ v.open = t.open /\ v.head = t.head /\ v.tail = t.tail
          /\ v.partial_read = t.partial_read /\ v.frame_in_progress \in BOOLEAN
          /\ v.received = t.received /\ v.rows = Append(t.rows, s.got) /\ v.got = t.got
          /\ v.wait = t.wait /\ v.moved = t.moved /\ v.overtaken = t.overtaken
          /\ v.pc \in {"header", "next", "batch"}
      <4>1. CASE v = row
        BY <1>9, <4>1 DEF Names
      <4>2. CASE v = batch
        BY <1>9, <3>1, <4>2 DEF Names
      <4> QED BY <2>6, <4>1, <4>2
    <3> HIDE DEF row, batch
    <3>3. Stand(v) = Stand(t)
      BY <3>2 DEF Stand
    <3>4. v.rows = Append(s.rows, RowsOf(c)[m])
      BY <1>9, <2>4, <3>2
    <3>5. Before(c, v, m + 1) /\ v.rows \in Seq(Seq(Byte))
      BY <1>1, <1>5, <2>2, <3>4, NextRow DEF Numbers
    <3>6. Between(c, v, q)
      <4>1. Numbers(c, v)
        BY <1>12, <3>2, <3>5 DEF Between, Numbers
      <4> QED BY <1>12, <3>2, <3>3, <4>1 DEF Between
    <3>7. Stand(v) = Base(c, v, m + 1)
      BY <1>10, <2>5, <3>2, <3>3 DEF Base
    <3>8. v.pc \in Live /\ v.pc # "payload" /\ v.pc # "ahead"
      BY <3>2 DEF Live, Reading
    <3> QED BY <2>2, <3>5, <3>6, <3>7, <3>8, BetweenFits
  <2> HIDE DEF row, batch
  <2>7. Goes(s, s.got) \subseteq {row, batch}
    BY <1>14 DEF Goes, t, row, batch
  <2> QED BY <2>6, <2>7
<1>15. CASE s.pc = "next"
  <2>1. Base(c, s, m) = p - 1 /\ Want(s) = 2
    BY <1>15 DEF Base, Want, p
  <2>2. /\ DOMAIN ahead = Names /\ ahead.open = t.open /\ ahead.head = t.head /\ ahead.tail = t.tail
        /\ ahead.partial_read = t.partial_read /\ ahead.frame_in_progress = t.frame_in_progress
        /\ ahead.received = t.received /\ ahead.rows = t.rows /\ ahead.got = t.got
        /\ ahead.wait = t.wait /\ ahead.moved = t.moved /\ ahead.overtaken = t.overtaken
        /\ ahead.pc = "ahead" /\ ahead.ahead = s.got
    BY <1>9 DEF Names
  <2> HIDE DEF ahead
  <2>3. Stand(ahead) = Stand(t)
    BY <2>2 DEF Stand
  <2>4. Between(c, ahead, q)
    BY <1>12, <2>2, <2>3 DEF Between, Numbers
  <2>5. Before(c, ahead, m)
    BY <1>5, <1>9, <2>2 DEF Before
  <2>6. Stand(ahead) = Base(c, ahead, m)
    BY <1>4, <1>7, <1>10, <2>1, <2>2, <2>3 DEF Base, p
  <2>7. Len(ahead.ahead) = 2 /\ \A j \in 1 .. 2 : ahead.ahead[j] = Wire[c][p - 1 + j]
    BY <1>6, <2>1, <2>2
  <2>8. ahead.pc \in Live /\ ahead.pc # "payload"
    BY <2>2 DEF Live
  <2>9. Fits(c, ahead, q)
    BY <1>3, <2>4, <2>5, <2>6, <2>7, <2>8, BetweenFits DEF p
  <2>10. Goes(s, s.got) = {ahead}
    BY <1>15 DEF Goes, t, ahead
  <2> QED BY <2>9, <2>10
<1> QED BY <1>13, <1>14, <1>15 DEF Reading

-----------------------------------------------------------------------------
(* What a step does to the reader of its stream *)

LEMMA Joined ==
  ASSUME NEW S, NEW a \in Seq(S), NEW b \in Seq(S)
  PROVE  /\ a \o b \in Seq(S) /\ Len(a \o b) = Len(a) + Len(b)
         /\ \A i \in 1 .. Len(a) : (a \o b)[i] = a[i]
         /\ \A i \in 1 .. Len(b) : (a \o b)[Len(a) + i] = b[i]
OBVIOUS

LEMMA Part ==
  ASSUME NEW S, NEW a \in Seq(S), NEW i \in Nat, NEW k \in Nat, i + k <= Len(a)
  PROVE  /\ SubSeq(a, i + 1, i + k) \in Seq(S) /\ Len(SubSeq(a, i + 1, i + k)) = k
         /\ \A j \in 1 .. k : SubSeq(a, i + 1, i + k)[j] = a[i + j]
<1> DEFINE b == i + k
<1>1. b \in Nat /\ b <= Len(a) /\ b - (i + 1) + 1 = k
  OBVIOUS
<1> HIDE DEF b
<1>2. /\ SubSeq(a, i + 1, b) \in Seq(S) /\ Len(SubSeq(a, i + 1, b)) = k
      /\ \A j \in 1 .. k : SubSeq(a, i + 1, b)[j] = a[i + 1 + j - 1]
  BY <1>1
<1>3. \A j \in 1 .. k : i + 1 + j - 1 = i + j
  OBVIOUS
<1> QED BY <1>2, <1>3 DEF b

\* More of the part that is being read, taken from where the reader stands
LEMMA MoreFits ==
  ASSUME NEW c \in Conns, NEW s, NEW q, Fits(c, s, q), Attached(s),
         NEW bytes \in Seq(Byte), \A j \in 1 .. Len(bytes) : bytes[j] = Wire[c][Stand(s) + j],
         Len(s.got) + Len(bytes) <= Want(s), s.pc \in Reading,
         NEW t, Numbers(c, t), t.got = s.got \o bytes, Stand(t) = Stand(s) + Len(bytes),
         t.rows = s.rows, t.pc = s.pc, t.is = s.is, t.size = s.size, t.moved = 0,
         s.frame_in_progress => t.frame_in_progress
  PROVE  \E m \in Nat : At(c, t, m)
<1>1. PICK m \in Nat : At(c, s, m)
  BY DEF Fits
<1>2. m \in 1 .. Len(Sent(c)) /\ s.got \in Seq(Byte)
  BY <1>1 DEF At, Fits, Numbers
<1> DEFINE b == Base(c, s, m)
           w == Want(s)
           l == Len(s.got)
           k == Len(bytes)
<1>3. b \in Nat /\ l \in Nat /\ k \in Nat
  <2>1. Place(c)[m] \in Nat \ {0}
    BY <1>2, Places
  <2>2. b \in Nat
    BY <2>1 DEF Base
  <2> QED BY <1>2, <2>2
<1>4. Base(c, t, m) = b /\ Want(t) = w
  BY DEF Base, Want
<1>5. Stand(s) = b + l /\ Stand(t) = b + l + k
  BY <1>1 DEF At
<1>6. /\ Len(t.got) = l + k /\ t.got \in Seq(Byte)
      /\ \A i \in 1 .. l : t.got[i] = s.got[i]
      /\ \A i \in 1 .. k : t.got[l + i] = bytes[i]
  BY <1>2, Joined
<1>7. /\ \A j \in 1 .. l : s.got[j] = Wire[c][b + j]
      /\ \A j \in 1 .. k : bytes[j] = Wire[c][b + l + j]
  BY <1>1, <1>5 DEF At
<1> HIDE DEF b, w, l, k
<1>8. ASSUME NEW j \in 1 .. l + k PROVE t.got[j] = Wire[c][b + j]
  <2>1. CASE j <= l
    <3>1. j \in 1 .. l
      BY <1>3, <2>1
    <3> QED BY <1>6, <1>7, <3>1
  <2>2. CASE ~(j <= l)
    <3>1. j - l \in 1 .. k /\ l + (j - l) = j /\ b + l + (j - l) = b + j
      BY <1>3, <2>2
    <3>2. t.got[l + (j - l)] = bytes[j - l] /\ bytes[j - l] = Wire[c][b + l + (j - l)]
      <4> DEFINE i == j - l
      <4>1. i \in 1 .. k
        BY <3>1
      <4> HIDE DEF i
      <4>2. t.got[l + i] = bytes[i] /\ bytes[i] = Wire[c][b + l + i]
        BY <1>6, <1>7, <4>1
      <4> QED BY <4>2 DEF i
    <3> QED BY <3>1, <3>2
  <2> QED BY <2>1, <2>2
<1>9. /\ Stand(t) = Base(c, t, m) + Len(t.got) /\ Len(t.got) <= Want(t)
      /\ \A j \in 1 .. Len(t.got) : t.got[j] = Wire[c][Base(c, t, m) + j]
  <2>1. l + k <= w
    BY DEF l, k, w
  <2>2. Stand(t) = b + (l + k)
    BY <1>3, <1>5
  <2> QED BY <1>4, <1>6, <1>8, <2>1, <2>2
<1>10. Large(t) => Len(t.got) + t.moved <= Want(t)
  BY <1>3, <1>6, <1>9
<1>11. s.pc \notin {"batch", "ahead"}
  BY DEF Reading
<1>12. At(c, t, m)
  BY <1>1, <1>9, <1>10, <1>11 DEF At
<1> QED BY <1>12

\* Two numbers
LEMMA MinIs ==
  ASSUME NEW a \in Nat, NEW b \in Nat
  PROVE  Min({a, b}) \in Nat /\ Min({a, b}) <= a /\ Min({a, b}) <= b /\ Min({a, b}) \in {a, b}
<1>1. \E x \in {a, b} : \A y \in {a, b} : x <= y
  <2>1. CASE a <= b BY <2>1
  <2>2. CASE ~(a <= b) BY <2>2
  <2> QED BY <2>1, <2>2
<1> QED BY <1>1 DEF Min

LEMMA ServeFits ==
  ASSUME NEW c \in Conns, NEW s, NEW q \in Seq(Byte), Len(q) = Capacity, Fits(c, s, q),
         s.open, s.pc \in Reading, s.wait = "no",
         NEW k \in Nat, k <= Want(s) - Len(s.got), k <= s.tail - s.head
  PROVE  Fits(c, [s EXCEPT !.got = @ \o SubSeq(q, s.head + 1, s.head + k), !.head = @ + k], q)
<1> DEFINE bytes == SubSeq(q, s.head + 1, s.head + k)
           t == [s EXCEPT !.got = @ \o bytes, !.head = @ + k]
<1>1. Numbers(c, s) /\ s.moved = 0 /\ DOMAIN s = Names /\ Attached(s)
  BY DEF Fits, Numbers, Waits, Attached, Live
<1>2. s.head \in Nat /\ s.tail \in Nat /\ s.tail <= Capacity /\ Capacity \in Nat /\ s.received \in Nat
      /\ s.got \in Seq(Byte) /\ Len(s.got) \in Nat
  BY <1>1, BufferedStreamAssumption DEF Numbers
<1>3. /\ bytes \in Seq(Byte) /\ Len(bytes) = k
      /\ \A j \in 1 .. k : bytes[j] = q[s.head + j]
  <2> DEFINE h == s.head
  <2>1. h \in Nat /\ h + k <= Len(q)
    BY <1>2
  <2> HIDE DEF h
  <2>2. /\ SubSeq(q, h + 1, h + k) \in Seq(Byte) /\ Len(SubSeq(q, h + 1, h + k)) = k
        /\ \A j \in 1 .. k : SubSeq(q, h + 1, h + k)[j] = q[h + j]
    BY <2>1, Part
  <2> QED BY <2>2 DEF h
<1>4. /\ DOMAIN t = Names /\ t.open = s.open /\ t.head = s.head + k /\ t.tail = s.tail
      /\ t.partial_read = s.partial_read /\ t.frame_in_progress = s.frame_in_progress
      /\ t.received = s.received /\ t.rows = s.rows /\ t.got = s.got \o bytes
      /\ t.wait = "no" /\ t.moved = 0 /\ t.overtaken = s.overtaken
      /\ t.pc = s.pc /\ t.is = s.is /\ t.size = s.size
  BY <1>1 DEF Names
<1> HIDE DEF bytes, t
<1>5. Stand(t) = Stand(s) + k
  BY <1>1, <1>2, <1>4 DEF Stand
<1>6. \A i \in 1 .. s.tail - s.head : q[s.head + i] = Wire[c][Stand(s) + i]
  BY DEF Fits, Window
<1>7. \A j \in 1 .. k : bytes[j] = Wire[c][Stand(s) + j]
  <2>1. \A j \in 1 .. k : j \in 1 .. s.tail - s.head
    BY <1>2
  <2> QED BY <1>3, <1>6, <2>1
<1>8. Numbers(c, t)
  <2>1. t.got \in Seq(Byte)
    BY <1>2, <1>3, <1>4, Joined
  <2>2. s.head + k \in Nat /\ s.head + k <= s.tail
    BY <1>2
  <2> QED BY <1>1, <1>4, <2>1, <2>2 DEF Numbers
<1>9. Want(s) \in Int
  <2>1. PICK m \in Nat : At(c, s, m)
    BY <1>1 DEF Fits
  <2> QED BY <2>1, SentNumbers DEF At, Want
<1>10. \E m \in Nat : At(c, t, m)
  <2>1. Len(s.got) + Len(bytes) <= Want(s)
    BY <1>2, <1>3, <1>9
  <2> QED BY <1>1, <1>3, <1>4, <1>5, <1>7, <1>8, <2>1, MoreFits
<1>11. Attached(t)
  BY <1>1, <1>4 DEF Attached
<1>12. Waits(t)
  BY <1>4, <1>11 DEF Waits, Reading
<1>13. Window(c, t, q)
  <2>1. ASSUME NEW i \in 1 .. t.tail - t.head PROVE q[t.head + i] = Wire[c][Stand(t) + i]
    <3>1. k + i \in 1 .. s.tail - s.head /\ t.head + i = s.head + (k + i)
      BY <1>2, <1>4
    <3>2. Stand(s) \in Int
      BY <1>1, <1>2 DEF Stand
    <3>3. Stand(t) + i = Stand(s) + (k + i)
      BY <1>5, <3>2
    <3> QED BY <1>6, <3>1, <3>3
  <2> QED BY <1>2, <1>4, <2>1 DEF Window
<1>14. OwnRows(c, t)
  BY <1>4 DEF Fits, OwnRows
<1>15. AtRest(c, t) /\ CutStands(c, t)
  BY <1>4, <1>11 DEF AtRest, CutStands, Reading
<1>16. Fits(c, t, q)
  BY <1>8, <1>10, <1>12, <1>13, <1>14, <1>15 DEF Fits
<1> QED BY <1>16 DEF t, bytes

\* Nothing is handed over, and the reader waits or waits no more.
LEMMA StayFits ==
  ASSUME NEW c \in Conns, NEW s, NEW q, Fits(c, s, q), Attached(s), s.pc \in Reading,
         NEW t, NEW r, Numbers(c, t), Stand(t) = Stand(s), Attached(t),
         t.got = s.got, t.rows = s.rows, t.pc = s.pc, t.is = s.is, t.size = s.size,
         t.frame_in_progress = s.frame_in_progress,
         Large(t) => Len(t.got) + t.moved <= Want(t),
         t.wait \in {"no", "parked", "moved"},
         t.wait # "moved" => t.moved = 0,
         t.wait # "no" => t.head = 0 /\ t.tail = 0,
         ~t.open /\ t.moved > 0 => t.overtaken,
         Window(c, t, r)
  PROVE  Fits(c, t, r)
<1>1. PICK m \in Nat : At(c, s, m)
  BY DEF Fits
<1>2. Base(c, t, m) = Base(c, s, m) /\ Want(t) = Want(s)
  BY DEF Base, Want
<1>3. t.pc \notin {"ahead", "batch", "cut", "late", "kept"}
  BY DEF Reading
<1>4. At(c, t, m)
  BY <1>1, <1>2, <1>3 DEF At
<1>5. Waits(t)
  BY <1>3 DEF Waits
<1>6. OwnRows(c, t)
  BY DEF Fits, OwnRows
<1>7. AtRest(c, t) /\ CutStands(c, t)
  BY <1>3 DEF AtRest, CutStands
<1> QED BY <1>4, <1>5, <1>6, <1>7 DEF Fits

Filled(c, s, k) == [i \in 1 .. Capacity |-> IF i <= k THEN Wire[c][s.received + i] ELSE Nul]

LEMMA SpaceIs ==
  ASSUME NEW c \in Conns, NEW s, NEW q, Fits(c, s, q), Attached(s)
  PROVE  Want(s) \in Nat /\ Len(s.got) \in Nat /\ Len(s.got) <= Want(s) /\ Space(s) \in Nat
<1>1. PICK m \in Nat : At(c, s, m)
  BY DEF Fits
<1>2. m \in 1 .. Len(Sent(c)) /\ Len(s.got) <= Want(s) /\ s.got \in Seq(Byte)
  BY <1>1 DEF At, Fits, Numbers
<1>3. Sent(c)[m].n \in Nat
  BY <1>2, SentNumbers
<1>4. Want(s) \in Nat
  BY <1>1, <1>3 DEF Want, At
<1>5. Len(s.got) \in Nat
  BY <1>2
<1> QED BY <1>2, <1>4, <1>5, BufferedStreamAssumption DEF Space

LEMMA FillFits ==
  ASSUME NEW c \in Conns, NEW s, NEW q, Fits(c, s, q), Filling(s),
         NEW k \in Nat, k <= Space(s), s.received + k <= Len(Wire[c]),
         NEW r, ~Large(s) => r = Filled(c, s, k)
  PROVE  Fits(c, [Counted(c, s, k) EXCEPT !.received = @ + k], r)
<1>1. /\ Numbers(c, s) /\ s.moved = 0 /\ DOMAIN s = Names /\ Attached(s) /\ s.open /\ s.wait = "no"
      /\ s.pc \in Reading /\ s.head = s.tail
  BY DEF Fits, Numbers, Waits, Attached, Live, Filling
<1>2. /\ s.head \in Nat /\ s.tail \in Nat /\ Capacity \in Nat /\ s.received \in Nat
      /\ s.got \in Seq(Byte) /\ Len(Wire[c]) \in Nat /\ Wire[c] \in Seq(Byte)
  BY <1>1, WireIs, BufferedStreamAssumption DEF Numbers
<1>3. Want(s) \in Nat /\ Len(s.got) \in Nat /\ Len(s.got) <= Want(s)
  BY <1>1, SpaceIs
<1>4. Stand(s) = s.received
  BY <1>1, <1>2 DEF Stand
<1>5. CASE Large(s)
  <2> DEFINE bytes == SubSeq(Wire[c], s.received + 1, s.received + k)
             t == [s EXCEPT !.got = @ \o bytes]
             u == [t EXCEPT !.received = @ + k]
  <2>1. Counted(c, s, k) = t
    BY <1>5 DEF Counted
  <2>2. /\ DOMAIN t = Names /\ t.open = s.open /\ t.head = s.head /\ t.tail = s.tail
        /\ t.partial_read = s.partial_read /\ t.frame_in_progress = s.frame_in_progress
        /\ t.received = s.received /\ t.rows = s.rows /\ t.got = s.got \o bytes
        /\ t.wait = s.wait /\ t.moved = s.moved /\ t.overtaken = s.overtaken
        /\ t.pc = s.pc /\ t.is = s.is /\ t.size = s.size
    BY <1>1 DEF Names
  <2> HIDE DEF t, bytes
  <2>3. /\ DOMAIN u = Names /\ u.open = s.open /\ u.head = s.head /\ u.tail = s.tail
        /\ u.partial_read = s.partial_read /\ u.frame_in_progress = s.frame_in_progress
        /\ u.received = s.received + k /\ u.rows = s.rows /\ u.got = s.got \o bytes
        /\ u.wait = s.wait /\ u.moved = s.moved /\ u.overtaken = s.overtaken
        /\ u.pc = s.pc /\ u.is = s.is /\ u.size = s.size
    BY <2>2 DEF Names
  <2> HIDE DEF u
  <2>4. /\ bytes \in Seq(Byte) /\ Len(bytes) = k
        /\ \A j \in 1 .. k : bytes[j] = Wire[c][s.received + j]
    <3> DEFINE h == s.received
    <3>1. h \in Nat /\ h + k <= Len(Wire[c])
      BY <1>2
    <3> HIDE DEF h
    <3>2. /\ SubSeq(Wire[c], h + 1, h + k) \in Seq(Byte) /\ Len(SubSeq(Wire[c], h + 1, h + k)) = k
          /\ \A j \in 1 .. k : SubSeq(Wire[c], h + 1, h + k)[j] = Wire[c][h + j]
      BY <1>2, <3>1, Part
    <3> QED BY <3>2 DEF h, bytes
  <2>5. Numbers(c, u)
    <3>1. u.got \in Seq(Byte)
      BY <1>2, <2>3, <2>4, Joined
    <3>2. s.received + k \in Nat /\ s.moved <= s.received + k
      BY <1>1, <1>2
    <3> QED BY <1>1, <2>3, <3>1, <3>2 DEF Numbers
  <2>6. Stand(u) = Stand(s) + k
    BY <1>1, <1>2, <2>3 DEF Stand
  <2>7. Len(s.got) + Len(bytes) <= Want(s)
    BY <1>3, <1>5, <2>4 DEF Space
  <2>8. \E m \in Nat : At(c, u, m)
    BY <1>1, <1>4, <2>3, <2>4, <2>5, <2>6, <2>7, MoreFits
  <2>9. Attached(u)
    BY <1>1, <2>3 DEF Attached
  <2>10. Waits(u)
    BY <1>1, <2>3, <2>9 DEF Waits, Reading
  <2>11. Window(c, u, r)
    <3>1. Large(u)
      BY <1>5, <2>3 DEF Large
    <3> QED BY <1>1, <1>2, <2>3, <3>1 DEF Window
  <2>12. OwnRows(c, u)
    BY <2>3 DEF Fits, OwnRows
  <2>13. AtRest(c, u) /\ CutStands(c, u)
    BY <1>1, <2>3, <2>9 DEF AtRest, CutStands, Reading
  <2>14. Fits(c, u, r)
    BY <2>5, <2>8, <2>10, <2>11, <2>12, <2>13 DEF Fits
  <2> QED BY <2>1, <2>14 DEF u
<1>6. CASE ~Large(s)
  <2> DEFINE t == [s EXCEPT !.head = 0, !.tail = k]
             u == [t EXCEPT !.received = @ + k]
  <2>1. Counted(c, s, k) = t
    BY <1>6 DEF Counted
  <2>2. /\ DOMAIN t = Names /\ t.open = s.open /\ t.head = 0 /\ t.tail = k
        /\ t.partial_read = s.partial_read /\ t.frame_in_progress = s.frame_in_progress
        /\ t.received = s.received /\ t.rows = s.rows /\ t.got = s.got
        /\ t.wait = s.wait /\ t.moved = s.moved /\ t.overtaken = s.overtaken
        /\ t.pc = s.pc /\ t.is = s.is /\ t.size = s.size
    BY <1>1 DEF Names
  <2> HIDE DEF t
  <2>3. /\ DOMAIN u = Names /\ u.open = s.open /\ u.head = 0 /\ u.tail = k
        /\ u.partial_read = s.partial_read /\ u.frame_in_progress = s.frame_in_progress
        /\ u.received = s.received + k /\ u.rows = s.rows /\ u.got = s.got
        /\ u.wait = s.wait /\ u.moved = s.moved /\ u.overtaken = s.overtaken
        /\ u.pc = s.pc /\ u.is = s.is /\ u.size = s.size
    BY <2>2 DEF Names
  <2> HIDE DEF u
  <2>4. k <= Capacity
    BY <1>6 DEF Space
  <2>5. Numbers(c, u)
    <3>1. s.received + k \in Nat /\ s.moved <= s.received + k
      BY <1>1, <1>2
    <3> QED BY <1>1, <2>3, <2>4, <3>1 DEF Numbers
  <2>6. Stand(u) = Stand(s)
    BY <1>1, <1>2, <2>3 DEF Stand
  <2>7. Attached(u) /\ Large(u) = Large(s)
    BY <1>1, <2>3 DEF Attached, Large
  <2>8. Window(c, u, r)
    <3>1. ASSUME NEW i \in 1 .. k PROVE r[0 + i] = Wire[c][s.received + i]
      <4>1. i \in 1 .. Capacity /\ i <= k /\ 0 + i = i
        BY <1>2, <2>4
      <4> QED BY <1>6, <4>1 DEF Filled
    <3>2. u.tail - u.head = k
      BY <2>3
    <3> QED BY <1>1, <1>2, <1>4, <2>3, <2>6, <3>1, <3>2 DEF Window
  <2>9. Fits(c, u, r)
    BY <1>1, <1>6, <2>3, <2>5, <2>6, <2>7, <2>8, StayFits
  <2> QED BY <2>1, <2>9 DEF u
<1> QED BY <1>5, <1>6

LEMMA ParkFits ==
  ASSUME NEW c \in Conns, NEW s, NEW q, Fits(c, s, q), Filling(s)
  PROVE  Fits(c, [s EXCEPT !.wait = "parked", !.head = 0, !.tail = 0], q)
<1>1. /\ Numbers(c, s) /\ s.moved = 0 /\ DOMAIN s = Names /\ Attached(s) /\ s.open
      /\ s.pc \in Reading /\ s.head = s.tail
  BY DEF Fits, Numbers, Waits, Attached, Live, Filling
<1>2. s.head \in Nat /\ s.tail \in Nat /\ Capacity \in Nat /\ s.received \in Nat
  BY <1>1, BufferedStreamAssumption DEF Numbers
<1>3. Want(s) \in Nat /\ Len(s.got) \in Nat /\ Len(s.got) <= Want(s)
  BY <1>1, SpaceIs
<1> DEFINE u == [s EXCEPT !.wait = "parked", !.head = 0, !.tail = 0]
<1>4. /\ DOMAIN u = Names /\ u.open = s.open /\ u.head = 0 /\ u.tail = 0
      /\ u.partial_read = s.partial_read /\ u.frame_in_progress = s.frame_in_progress
      /\ u.received = s.received /\ u.rows = s.rows /\ u.got = s.got
      /\ u.wait = "parked" /\ u.moved = s.moved /\ u.overtaken = s.overtaken
      /\ u.pc = s.pc /\ u.is = s.is /\ u.size = s.size
  BY <1>1 DEF Names
<1> HIDE DEF u
<1>5. Numbers(c, u)
  BY <1>1, <1>2, <1>4 DEF Numbers
<1>6. Stand(u) = Stand(s)
  BY <1>1, <1>2, <1>4 DEF Stand
<1>7. Attached(u) /\ Want(u) = Want(s)
  BY <1>1, <1>4 DEF Attached, Want, Live
<1>8. Window(c, u, q)
  BY <1>1, <1>2, <1>4 DEF Window
<1>9. Len(u.got) + u.moved <= Want(u)
  BY <1>1, <1>3, <1>4, <1>7
<1>10. Fits(c, u, q)
  BY <1>1, <1>4, <1>5, <1>6, <1>7, <1>8, <1>9, StayFits
<1> QED BY <1>10 DEF u

\* The kernel has put the bytes in their place, the reader does not know of them yet.
LEMMA ArriveFits ==
  ASSUME NEW c \in Conns, NEW s, NEW q, Fits(c, s, q), s.open, s.wait = "parked",
         NEW k \in Nat, k <= Space(s), s.received + k <= Len(Wire[c]),
         NEW r, ~Large(s) => r = Filled(c, s, k)
  PROVE  Fits(c, [[s EXCEPT !.wait = "moved", !.moved = k] EXCEPT !.received = @ + k], r)
<1>1. /\ Numbers(c, s) /\ s.moved = 0 /\ DOMAIN s = Names /\ s.head = 0 /\ s.tail = 0
      /\ s.pc \in Reading
  BY DEF Fits, Numbers, Waits
<1>2. Attached(s)
  BY <1>1 DEF Attached, Live
<1>3. Capacity \in Nat /\ s.received \in Nat
  BY <1>1, BufferedStreamAssumption DEF Numbers
<1>4. Want(s) \in Nat /\ Len(s.got) \in Nat /\ Len(s.got) <= Want(s)
  BY <1>2, SpaceIs
<1> DEFINE t == [s EXCEPT !.wait = "moved", !.moved = k]
           u == [t EXCEPT !.received = @ + k]
<1>5. /\ DOMAIN t = Names /\ t.open = s.open /\ t.head = s.head /\ t.tail = s.tail
      /\ t.partial_read = s.partial_read /\ t.frame_in_progress = s.frame_in_progress
      /\ t.received = s.received /\ t.rows = s.rows /\ t.got = s.got
      /\ t.wait = "moved" /\ t.moved = k /\ t.overtaken = s.overtaken
      /\ t.pc = s.pc /\ t.is = s.is /\ t.size = s.size
  BY <1>1 DEF Names
<1> HIDE DEF t
<1>6. /\ DOMAIN u = Names /\ u.open = s.open /\ u.head = s.head /\ u.tail = s.tail
      /\ u.partial_read = s.partial_read /\ u.frame_in_progress = s.frame_in_progress
      /\ u.received = s.received + k /\ u.rows = s.rows /\ u.got = s.got
      /\ u.wait = "moved" /\ u.moved = k /\ u.overtaken = s.overtaken
      /\ u.pc = s.pc /\ u.is = s.is /\ u.size = s.size
  BY <1>5 DEF Names
<1> HIDE DEF u
<1>7. Numbers(c, u)
  <2>1. s.received + k \in Nat /\ k <= s.received + k
    BY <1>3
  <2> QED BY <1>1, <1>6, <2>1 DEF Numbers
<1>8. Stand(u) = Stand(s) /\ Stand(s) = s.received
  BY <1>1, <1>3, <1>6 DEF Stand
<1>9. Attached(u) /\ Want(u) = Want(s) /\ Large(u) = Large(s)
  BY <1>2, <1>6 DEF Attached, Want, Large
<1>10. Large(u) => Len(u.got) + u.moved <= Want(u)
  BY <1>4, <1>6, <1>9 DEF Space
<1>11. Window(c, u, r)
  <2>1. ASSUME ~Large(s) PROVE u.moved <= Capacity /\ \A i \in 1 .. u.moved : r[i] = Wire[c][Stand(u) + i]
    <3>1. k <= Capacity
      BY <2>1 DEF Space
    <3>2. ASSUME NEW i \in 1 .. k PROVE r[i] = Wire[c][s.received + i]
      <4>1. i \in 1 .. Capacity /\ i <= k
        BY <1>3, <3>1
      <4> QED BY <2>1, <4>1 DEF Filled
    <3> QED BY <1>6, <1>8, <3>1, <3>2
  <2>2. u.tail - u.head = 0
    BY <1>1, <1>6
  <2> QED BY <1>9, <2>1, <2>2 DEF Window
<1>12. Fits(c, u, r)
  BY <1>1, <1>2, <1>6, <1>7, <1>8, <1>9, <1>10, <1>11, StayFits
<1> QED BY <1>12 DEF u, t

\* What Resume makes of a stream whose bytes have arrived
Known(c, s) ==
  [Counted(c, [s EXCEPT !.wait = "no", !.moved = 0, !.received = @ - s.moved], s.moved)
     EXCEPT !.received = s.received]

\* The bytes that have arrived, and what the reader is like when it knows them
Arrived(c, s) == SubSeq(Wire[c], s.received - s.moved + 1, s.received)

KnowsThem(c, s, u) ==
  /\ DOMAIN u = Names /\ u.open = s.open /\ u.partial_read = s.partial_read
  /\ u.frame_in_progress = s.frame_in_progress /\ u.received = s.received
  /\ u.rows = s.rows /\ u.wait = "no" /\ u.moved = 0 /\ u.overtaken = s.overtaken
  /\ u.pc = s.pc /\ u.is = s.is /\ u.size = s.size
  /\ Large(s) => u.got = s.got \o Arrived(c, s) /\ u.head = s.head /\ u.tail = s.tail
  /\ ~Large(s) => u.got = s.got /\ u.head = 0 /\ u.tail = s.moved
  /\ Arrived(c, s) \in Seq(Byte) /\ Len(Arrived(c, s)) = s.moved
  /\ \A j \in 1 .. s.moved : Arrived(c, s)[j] = Wire[c][s.received - s.moved + j]

LEMMA KnownIs ==
  ASSUME NEW c \in Conns, NEW s, NEW q, Fits(c, s, q), s.wait = "moved"
  PROVE  KnowsThem(c, s, Known(c, s))
<1>1. DOMAIN s = Names /\ Numbers(c, s)
  BY DEF Fits, Numbers
<1>2. Wire[c] \in Seq(Byte) /\ s.received \in Nat /\ s.moved \in Nat /\ s.moved <= s.received
      /\ s.received <= Len(Wire[c])
  BY <1>1, WireIs DEF Numbers
<1> DEFINE bytes == Arrived(c, s)
           w == [s EXCEPT !.wait = "no", !.moved = 0, !.received = @ - s.moved]
           l == [w EXCEPT !.got = @ \o SubSeq(Wire[c], w.received + 1, w.received + s.moved)]
           d == [w EXCEPT !.head = 0, !.tail = s.moved]
<1>3. /\ bytes \in Seq(Byte) /\ Len(bytes) = s.moved
      /\ \A j \in 1 .. s.moved : bytes[j] = Wire[c][s.received - s.moved + j]
  <2> DEFINE h == s.received - s.moved
             k == s.moved
  <2>1. h \in Nat /\ k \in Nat /\ h + k <= Len(Wire[c]) /\ s.received = h + k
    BY <1>2
  <2> HIDE DEF h, k
  <2>2. /\ SubSeq(Wire[c], h + 1, h + k) \in Seq(Byte) /\ Len(SubSeq(Wire[c], h + 1, h + k)) = k
        /\ \A j \in 1 .. k : SubSeq(Wire[c], h + 1, h + k)[j] = Wire[c][h + j]
    BY <1>2, <2>1, Part
  <2>3. bytes = SubSeq(Wire[c], h + 1, h + k)
    BY <2>1 DEF h, Arrived
  <2> HIDE DEF bytes
  <2> QED BY <2>2, <2>3 DEF h, k
<1>4. /\ DOMAIN w = Names /\ w.open = s.open /\ w.head = s.head /\ w.tail = s.tail
      /\ w.partial_read = s.partial_read /\ w.frame_in_progress = s.frame_in_progress
      /\ w.received = s.received - s.moved /\ w.rows = s.rows /\ w.got = s.got
      /\ w.wait = "no" /\ w.moved = 0 /\ w.overtaken = s.overtaken
      /\ w.pc = s.pc /\ w.is = s.is /\ w.size = s.size
  BY <1>1 DEF Names
<1> HIDE DEF w
<1>5. Large(w) = Large(s)
  BY <1>4 DEF Large
<1>6. w.received + 1 = s.received - s.moved + 1 /\ w.received + s.moved = s.received
  BY <1>2, <1>4
<1> HIDE DEF bytes
<1>7. CASE Large(s)
  <2>1. Known(c, s) = [l EXCEPT !.received = s.received]
    BY <1>5, <1>7 DEF Known, Counted, w
  <2>2. /\ DOMAIN l = Names /\ l.open = s.open /\ l.head = s.head /\ l.tail = s.tail
        /\ l.partial_read = s.partial_read /\ l.frame_in_progress = s.frame_in_progress
        /\ l.rows = s.rows /\ l.got = s.got \o bytes
        /\ l.wait = "no" /\ l.moved = 0 /\ l.overtaken = s.overtaken
        /\ l.pc = s.pc /\ l.is = s.is /\ l.size = s.size
    BY <1>4, <1>6 DEF Names, bytes, Arrived
  <2> HIDE DEF l
  <2>3. /\ DOMAIN Known(c, s) = Names /\ Known(c, s).open = s.open /\ Known(c, s).head = s.head
        /\ Known(c, s).tail = s.tail
        /\ Known(c, s).partial_read = s.partial_read
        /\ Known(c, s).frame_in_progress = s.frame_in_progress
        /\ Known(c, s).rows = s.rows /\ Known(c, s).got = s.got \o bytes
        /\ Known(c, s).received = s.received
        /\ Known(c, s).wait = "no" /\ Known(c, s).moved = 0 /\ Known(c, s).overtaken = s.overtaken
        /\ Known(c, s).pc = s.pc /\ Known(c, s).is = s.is /\ Known(c, s).size = s.size
    BY <2>1, <2>2 DEF Names
  <2> QED BY <1>3, <1>7, <2>3 DEF bytes, KnowsThem
<1>8. CASE ~Large(s)
  <2>1. Known(c, s) = [d EXCEPT !.received = s.received]
    BY <1>5, <1>8 DEF Known, Counted, w
  <2>2. /\ DOMAIN d = Names /\ d.open = s.open /\ d.head = 0 /\ d.tail = s.moved
        /\ d.partial_read = s.partial_read /\ d.frame_in_progress = s.frame_in_progress
        /\ d.rows = s.rows /\ d.got = s.got
        /\ d.wait = "no" /\ d.moved = 0 /\ d.overtaken = s.overtaken
        /\ d.pc = s.pc /\ d.is = s.is /\ d.size = s.size
    BY <1>4 DEF Names
  <2> HIDE DEF d
  <2>3. /\ DOMAIN Known(c, s) = Names /\ Known(c, s).open = s.open /\ Known(c, s).head = 0
        /\ Known(c, s).tail = s.moved
        /\ Known(c, s).partial_read = s.partial_read
        /\ Known(c, s).frame_in_progress = s.frame_in_progress
        /\ Known(c, s).rows = s.rows /\ Known(c, s).got = s.got
        /\ Known(c, s).received = s.received
        /\ Known(c, s).wait = "no" /\ Known(c, s).moved = 0 /\ Known(c, s).overtaken = s.overtaken
        /\ Known(c, s).pc = s.pc /\ Known(c, s).is = s.is /\ Known(c, s).size = s.size
    BY <2>1, <2>2 DEF Names
  <2> QED BY <1>3, <1>8, <2>3 DEF bytes, KnowsThem
<1> QED BY <1>7, <1>8

\* The reader of an open stream learns of them and goes on.
LEMMA KnownFits ==
  ASSUME NEW c \in Conns, NEW s, NEW q, Fits(c, s, q), s.wait = "moved", s.open
  PROVE  Fits(c, Known(c, s), q)
<1> DEFINE u == Known(c, s)
           bytes == Arrived(c, s)
<1>1. /\ Numbers(c, s) /\ s.head = 0 /\ s.tail = 0 /\ s.pc \in Reading /\ Window(c, s, q)
  BY DEF Fits, Numbers, Waits
<1>2. Attached(s)
  BY <1>1 DEF Attached, Live
<1>3. /\ Capacity \in Nat /\ s.received \in Nat /\ s.moved \in Nat /\ s.got \in Seq(Byte)
      /\ s.moved <= s.received
  BY <1>1, BufferedStreamAssumption DEF Numbers
<1>4. Stand(s) = s.received - s.moved
  BY <1>1, <1>3 DEF Stand
<1>5. /\ DOMAIN u = Names /\ u.open = s.open /\ u.partial_read = s.partial_read
      /\ u.frame_in_progress = s.frame_in_progress /\ u.received = s.received
      /\ u.rows = s.rows /\ u.wait = "no" /\ u.moved = 0 /\ u.overtaken = s.overtaken
      /\ u.pc = s.pc /\ u.is = s.is /\ u.size = s.size
      /\ Large(s) => u.got = s.got \o bytes /\ u.head = s.head /\ u.tail = s.tail
      /\ ~Large(s) => u.got = s.got /\ u.head = 0 /\ u.tail = s.moved
      /\ bytes \in Seq(Byte) /\ Len(bytes) = s.moved
      /\ \A j \in 1 .. s.moved : bytes[j] = Wire[c][s.received - s.moved + j]
  <2>1. KnowsThem(c, s, u)
    BY KnownIs
  <2> HIDE DEF u, bytes
  <2> QED BY <2>1 DEF KnowsThem, bytes
<1> HIDE DEF u, bytes
<1>6. Attached(u) /\ Want(u) = Want(s) /\ Large(u) = Large(s)
  BY <1>2, <1>5 DEF Attached, Want, Large
<1>7. Want(s) \in Nat /\ Len(s.got) \in Nat /\ Len(s.got) <= Want(s)
  BY <1>2, SpaceIs
<1>8. CASE Large(s)
  <2>1. Numbers(c, u)
    <3>1. u.got \in Seq(Byte)
      BY <1>3, <1>5, <1>8, Joined
    <3> QED BY <1>1, <1>3, <1>5, <1>8, <3>1 DEF Numbers
  <2>2. Stand(u) = Stand(s) + Len(bytes)
    BY <1>1, <1>3, <1>4, <1>5, <1>8 DEF Stand
  <2>3. Len(s.got) + Len(bytes) <= Want(s)
    <3>1. PICK m \in Nat : At(c, s, m)
      BY <1>2 DEF Fits
    <3> QED BY <1>5, <1>8, <3>1 DEF At
  <2>4. \E m \in Nat : At(c, u, m)
    <3>1. \A j \in 1 .. Len(bytes) : bytes[j] = Wire[c][Stand(s) + j]
      BY <1>4, <1>5
    <3>2. /\ u.got = s.got \o bytes /\ u.rows = s.rows /\ u.pc = s.pc /\ u.is = s.is
          /\ u.size = s.size /\ u.frame_in_progress = s.frame_in_progress /\ u.moved = 0
      BY <1>5, <1>8
    <3> QED BY <1>1, <1>2, <1>5, <2>1, <2>2, <2>3, <3>1, <3>2, MoreFits
  <2>5. Waits(u)
    BY <1>1, <1>5, <1>6 DEF Waits, Reading
  <2>6. Window(c, u, q)
    BY <1>1, <1>5, <1>6, <1>8 DEF Window
  <2>7. OwnRows(c, u)
    BY <1>5 DEF Fits, OwnRows
  <2>8. AtRest(c, u) /\ CutStands(c, u)
    BY <1>1, <1>5, <1>6 DEF AtRest, CutStands, Reading
  <2> QED BY <2>1, <2>4, <2>5, <2>6, <2>7, <2>8 DEF Fits, u
<1>9. CASE ~Large(s)
  <2>1. s.moved <= Capacity /\ \A i \in 1 .. s.moved : q[i] = Wire[c][Stand(s) + i]
    BY <1>1, <1>9 DEF Window
  <2>2. Numbers(c, u)
    BY <1>1, <1>3, <1>5, <1>9, <2>1 DEF Numbers
  <2>3. Stand(u) = Stand(s)
    BY <1>3, <1>4, <1>5, <1>9 DEF Stand
  <2>4. Window(c, u, q)
    <3>1. u.head = 0 /\ u.tail - u.head = s.moved
      BY <1>3, <1>5, <1>9
    <3>2. ASSUME NEW i \in 1 .. s.moved PROVE q[0 + i] = Wire[c][Stand(u) + i]
      BY <2>1, <2>3
    <3> QED BY <1>3, <1>5, <3>1, <3>2 DEF Window
  <2>5. Large(u) => Len(u.got) + u.moved <= Want(u)
    BY <1>6, <1>9
  <2>6. Fits(c, u, q)
    BY <1>1, <1>2, <1>5, <1>6, <1>9, <2>2, <2>3, <2>4, <2>5, StayFits
  <2> QED BY <2>6 DEF u
<1> QED BY <1>8, <1>9

-----------------------------------------------------------------------------
(* The other steps on one stream *)

\* A read that fails, is cancelled or timed out: the reader has ended.
LEMMA CutOrFails ==
  ASSUME NEW c \in Conns, NEW s, NEW q, Fits(c, s, q), s.wait # "no" \/ s.pc = "ahead",
         NEW how \in {"cut", "late", "failing"},
         NEW overtaken \in BOOLEAN,
         how # "failing" /\ (s.moved > 0 \/ s.pc = "ahead") => overtaken,
         NEW t, DOMAIN t = Names, t.open = s.open, t.head = s.head, t.tail = s.tail,
         t.partial_read \in BOOLEAN, s.got # <<>> => t.partial_read,
         t.frame_in_progress = s.frame_in_progress, t.received = s.received, t.rows = s.rows,
         t.got = s.got, t.wait = s.wait, t.moved = s.moved, t.overtaken = overtaken
  PROVE  Fits(c, Ended(t, how), q)
<1>1. Numbers(c, s) /\ OwnRows(c, s) /\ Window(c, s, q) /\ Waits(s)
  BY DEF Fits
<1>2. Numbers(c, t) /\ OwnRows(c, t)
  BY <1>1 DEF Numbers, OwnRows
<1>3. Stand(t) = Stand(s)
  BY DEF Stand
<1>4. ASSUME t.open
      PROVE  /\ \A i \in 1 .. t.tail - t.head : q[t.head + i] = Wire[c][Stand(t) + i]
             /\ t.moved > 0 => t.head = 0 /\ t.tail = 0
  BY <1>1, <1>3, <1>4 DEF Window, Waits
<1>5. ASSUME t.open, how # "failing", ~t.overtaken, ~t.partial_read
      PROVE  IF t.frame_in_progress
             THEN Position(t) \in Starts(c) \cup {p + 2 : p \in Starts(c)}
             ELSE Position(t) \in Starts(c)
  <2>1. s.got = <<>> /\ s.moved = 0 /\ s.pc # "ahead"
    <3>1. s.moved \in Nat
      BY <1>1 DEF Numbers
    <3> QED BY <1>5, <3>1
  <2>2. s.pc \in Reading
    BY <1>1, <2>1 DEF Waits
  <2>3. Attached(s)
    BY <1>5, <2>2 DEF Attached, Live
  <2>4. PICK m \in Nat : At(c, s, m)
    BY <2>3 DEF Fits
  <2>5. m \in 1 .. Len(Sent(c)) /\ (s.pc = "payload" => t.frame_in_progress)
    BY <2>4 DEF At
  <2>6. Place(c)[m] \in Nat \ {0}
    BY <2>5, Places
  <2>7. Stand(s) = IF s.pc = "payload" THEN Place(c)[m] + 1 ELSE Place(c)[m] - 1
    <3>1. Len(s.got) = 0
      BY <2>1
    <3> QED BY <2>1, <2>4, <2>6, <3>1 DEF At, Base
  <2>8. Position(t) = IF s.pc = "payload" THEN Place(c)[m] + 2 ELSE Place(c)[m]
    <3>1. s.received \in Nat /\ s.tail \in Nat /\ s.head \in Nat
      BY <1>1 DEF Numbers
    <3> DEFINE p == Place(c)[m]
               d == s.tail - s.head
               e == IF s.pc = "payload" THEN 2 ELSE 0
    <3>2. d \in Int /\ p \in Nat /\ e \in Nat
      BY <2>6, <3>1
    <3>3. Position(t) = s.received + 1 - d
      BY DEF Position
    <3>4. s.received - 0 - d = p - 1 + e
      BY <2>1, <2>6, <2>7 DEF Stand
    <3> HIDE DEF p, d, e
    <3>5. Position(t) = p + e
      BY <3>1, <3>2, <3>3, <3>4
    <3>6. p + 0 = p
      BY <3>2
    <3> QED BY <3>5, <3>6 DEF p, e
  <2>9. Place(c)[m] \in Starts(c)
    <3>1. m \in 1 .. Len(Sent(c)) + 1
      BY <2>5, SentNumbers
    <3>2. m \in DOMAIN Place(c)
      BY <3>1, PlaceIs
    <3> QED BY <3>2 DEF Starts
  <2> QED BY <2>5, <2>8, <2>9
<1>6. t.open /\ how \in {"cut", "late"} /\ ~t.overtaken => StandsNear(c, t)
  BY <1>2, <1>5 DEF StandsNear, Noticed, Numbers
<1> QED BY <1>2, <1>4, <1>6, EndedFits

LEMMA FailsFits ==
  ASSUME NEW c \in Conns, NEW s, NEW q, Fits(c, s, q), s.wait # "no"
  PROVE  Fits(c, Fails(s), q)
<1> DEFINE t == [s EXCEPT !.partial_read = @ \/ s.got # <<>>]
           o == s.overtaken
<1>1. DOMAIN s = Names /\ o \in BOOLEAN /\ s.partial_read \in BOOLEAN
  BY DEF Fits, Numbers
<1>2. /\ DOMAIN t = Names /\ t.open = s.open /\ t.head = s.head /\ t.tail = s.tail
      /\ t.partial_read = (s.partial_read \/ s.got # <<>>)
      /\ t.frame_in_progress = s.frame_in_progress /\ t.received = s.received /\ t.rows = s.rows
      /\ t.got = s.got /\ t.wait = s.wait /\ t.moved = s.moved /\ t.overtaken = o
  BY <1>1 DEF Names
<1>3. t.partial_read \in BOOLEAN /\ (s.got # <<>> => t.partial_read)
  BY <1>1, <1>2
<1> HIDE DEF t, o
<1>4. Fits(c, Ended(t, "failing"), q)
  BY <1>1, <1>2, <1>3, CutOrFails
<1> QED BY <1>4 DEF Fails, t

LEMMA StoppedFits ==
  ASSUME NEW c \in Conns, NEW s, NEW q, Fits(c, s, q), NEW how \in {"cut", "late"},
         Suspended(s) \/ s.pc = "late"
  PROVE  Fits(c, Stopped(s, how), q)
<1> DEFINE t == [s EXCEPT !.partial_read = @ \/ s.got # <<>>, !.overtaken = @ \/ Overtaken(s)]
           o == s.overtaken \/ Overtaken(s)
<1>1. DOMAIN s = Names /\ o \in BOOLEAN /\ s.partial_read \in BOOLEAN
  BY DEF Fits, Numbers
<1>2. /\ DOMAIN t = Names /\ t.open = s.open /\ t.head = s.head /\ t.tail = s.tail
      /\ t.partial_read = (s.partial_read \/ s.got # <<>>)
      /\ t.frame_in_progress = s.frame_in_progress /\ t.received = s.received /\ t.rows = s.rows
      /\ t.got = s.got /\ t.wait = s.wait /\ t.moved = s.moved /\ t.overtaken = o
  BY <1>1 DEF Names
<1>3. t.partial_read \in BOOLEAN /\ (s.got # <<>> => t.partial_read)
  BY <1>1, <1>2
<1>4. s.moved > 0 \/ s.pc = "ahead" => o
  BY DEF Overtaken
<1>5. s.open => (o <=> s.overtaken \/ s.moved > 0 \/ s.pc = "ahead")
  BY DEF Overtaken
<1> HIDE DEF t, o
<1>6. CASE Suspended(s)
  <2>1. s.wait # "no" \/ s.pc = "ahead"
    BY <1>6 DEF Suspended
  <2>2. Fits(c, Ended(t, how), q)
    BY <1>1, <1>2, <1>3, <1>4, <2>1, CutOrFails
  <2> QED BY <2>2 DEF Stopped, t
<1>7. CASE s.pc = "late"
  <2>1. Numbers(c, s) /\ OwnRows(c, s) /\ Window(c, s, q) /\ Waits(s) /\ CutStands(c, s)
    BY DEF Fits
  <2>2. s.got = <<>> /\ s.wait = "no" /\ s.moved = 0
    BY <1>7, <2>1 DEF Waits, Attached, Live, Reading
  <2>3. Numbers(c, t) /\ OwnRows(c, t)
    BY <1>1, <1>2, <1>3, <2>1 DEF Numbers, OwnRows
  <2>4. t.partial_read = s.partial_read
    BY <1>1, <1>2, <2>2
  <2>5. s.open => \A i \in 1 .. t.tail - t.head : q[t.head + i] = Wire[c][Stand(t) + i]
    BY <1>2, <2>1 DEF Window, Stand
  <2>6. t.open /\ ~t.overtaken => StandsNear(c, t)
    BY <1>2, <1>5, <1>7, <2>1, <2>4 DEF CutStands, StandsNear, Noticed, Position
  <2>7. ~(t.moved > 0)
    BY <1>2, <2>2
  <2>8. Fits(c, Ended(t, how), q)
    BY <1>2, <2>3, <2>5, <2>6, <2>7, EndedFits
  <2> QED BY <2>8 DEF Stopped, t
<1> QED BY <1>6, <1>7

\* A connection that is kept after the timeout stands where its reader stood.
LEMMA KeptFits ==
  ASSUME NEW c \in Conns, NEW s, NEW q, Fits(c, s, q), s.pc = "late", s.open, ~Noticed(s)
  PROVE  Fits(c, [s EXCEPT !.pc = "kept"], q)
<1> DEFINE u == [s EXCEPT !.pc = "kept"]
<1>1. Numbers(c, s) /\ OwnRows(c, s) /\ Window(c, s, q) /\ Waits(s) /\ CutStands(c, s)
      /\ AtRest(c, s)
  BY DEF Fits
<1>2. ~Attached(s) /\ s.wait = "no" /\ s.moved = 0 /\ s.got = <<>>
  BY <1>1 DEF Waits, Attached, Live, Reading
<1>3. /\ DOMAIN u = Names /\ u.open = s.open /\ u.head = s.head /\ u.tail = s.tail
      /\ u.partial_read = s.partial_read /\ u.frame_in_progress = s.frame_in_progress
      /\ u.received = s.received /\ u.rows = s.rows /\ u.got = s.got /\ u.wait = s.wait
      /\ u.moved = s.moved /\ u.overtaken = s.overtaken /\ u.pc = "kept"
  BY <1>1 DEF Numbers, Names
<1> HIDE DEF u
<1>4. Numbers(c, u) /\ OwnRows(c, u)
  BY <1>1, <1>3 DEF Numbers, OwnRows
<1>5. ~Attached(u)
  BY <1>3 DEF Attached, Live, Reading
<1>6. Waits(u)
  BY <1>1, <1>2, <1>3, <1>5 DEF Waits
<1>7. Window(c, u, q)
  <2>1. Stand(u) = Stand(s) /\ u.moved = 0
    BY <1>2, <1>3 DEF Stand
  <2>2. Capacity \in Nat
    BY BufferedStreamAssumption
  <2> QED BY <1>1, <1>3, <2>1, <2>2 DEF Window
<1>8. AtRest(c, u)
  BY <1>1, <1>2, <1>3 DEF AtRest
<1>9. CutStands(c, u)
  BY <1>1, <1>3 DEF CutStands, StandsNear, Position
<1>10. Fits(c, u, q)
  BY <1>4, <1>5, <1>6, <1>7, <1>8, <1>9 DEF Fits
<1> QED BY <1>10 DEF u

\* Closed by another task while its reader is suspended
LEMMA CloseFits ==
  ASSUME NEW c \in Conns, NEW s, NEW q, Fits(c, s, q), s.open, Suspended(s)
  PROVE  Fits(c, [[s EXCEPT !.overtaken = @ \/ Overtaken(s)] EXCEPT !.open = FALSE], q)
<1> DEFINE t == [s EXCEPT !.overtaken = @ \/ Overtaken(s)]
           o == s.overtaken \/ Overtaken(s)
           u == [t EXCEPT !.open = FALSE]
<1>1. DOMAIN s = Names /\ o \in BOOLEAN /\ Numbers(c, s) /\ OwnRows(c, s) /\ Waits(s)
  BY DEF Fits, Numbers
<1>2. DOMAIN t = Names
  BY <1>1
<1>3. /\ DOMAIN u = Names /\ u.open = FALSE /\ u.head = s.head /\ u.tail = s.tail
      /\ u.partial_read = s.partial_read /\ u.frame_in_progress = s.frame_in_progress
      /\ u.received = s.received /\ u.rows = s.rows /\ u.got = s.got /\ u.wait = s.wait
      /\ u.moved = s.moved /\ u.overtaken = o
      /\ u.pc = s.pc /\ u.is = s.is /\ u.size = s.size
  BY <1>1, <1>2 DEF Names
<1>4. ~u.open /\ u.open \in BOOLEAN
  BY <1>3
<1>5. s.moved > 0 \/ s.pc = "ahead" => o
  BY DEF Overtaken
<1> HIDE DEF u, o
<1>6. Numbers(c, u) /\ OwnRows(c, u)
  BY <1>1, <1>3, <1>4 DEF Numbers, OwnRows
<1>7. Window(c, u, q)
  BY <1>4 DEF Window
<1>8. CASE s.wait = "no"
  <2>1. s.pc = "ahead" /\ s.moved = 0
    BY <1>1, <1>8 DEF Suspended, Waits
  <2>2. s.got = <<>>
    <3>1. Attached(s)
      BY <2>1 DEF Attached, Live
    <3>2. PICK m \in Nat : At(c, s, m)
      BY <3>1 DEF Fits
    <3> QED BY <2>1, <3>2 DEF At
  <2>3. Fits(c, u, q)
    BY <1>3, <1>4, <1>5, <1>6, <1>8, <2>1, <2>2, LostFits
  <2> QED BY <2>3 DEF u
<1>9. CASE s.wait # "no"
  <2>1. s.pc \in Reading /\ s.head = 0 /\ s.tail = 0
    BY <1>1, <1>9 DEF Waits
  <2>2. Attached(s) /\ Attached(u)
    BY <1>3, <1>9, <2>1 DEF Attached, Live
  <2>3. Stand(u) = Stand(s)
    BY <1>3 DEF Stand
  <2>4. Large(u) => Len(u.got) + u.moved <= Want(u)
    <3>1. PICK m \in Nat : At(c, s, m)
      BY <2>2 DEF Fits
    <3>2. Large(u) = Large(s) /\ Want(u) = Want(s)
      BY <1>3 DEF Large, Want
    <3> QED BY <1>3, <3>1, <3>2 DEF At
  <2>5. /\ u.wait \in {"no", "parked", "moved"} /\ (u.wait # "moved" => u.moved = 0)
        /\ (u.wait # "no" => u.head = 0 /\ u.tail = 0)
    BY <1>1, <1>3 DEF Waits
  <2>6. ~u.open /\ u.moved > 0 => u.overtaken
    BY <1>3, <1>5
  <2>7. Fits(c, u, q)
    BY <1>3, <1>6, <1>7, <2>1, <2>2, <2>3, <2>4, <2>5, <2>6, StayFits
  <2> QED BY <2>7 DEF u
<1> QED BY <1>8, <1>9

InBuffer(s, q) == SubSeq(q, s.head + 1, s.tail)

\* The native decoder takes a row that is in the buffer, or stops.
LEMMA DecodeFits ==
  ASSUME NEW c \in Conns, NEW s, NEW q \in Seq(Byte), Len(q) = Capacity, Fits(c, s, q),
         s.pc = "batch"
  PROVE  LET view == InBuffer(s, q) IN
         /\ Fits(c, [s EXCEPT !.pc = "next"], q)
         /\ 2 <= Len(view) /\ view[1].is = "Y" /\ 2 + view[2].n <= Len(view) =>
              Fits(c, [s EXCEPT !.head = @ + 2 + view[2].n,
                                !.rows = Append(@, SubSeq(view, 3, 2 + view[2].n))], q)
<1> DEFINE view == InBuffer(s, q)
<1>1. /\ Numbers(c, s) /\ s.moved = 0 /\ DOMAIN s = Names /\ s.open /\ s.wait = "no"
      /\ Attached(s) /\ Window(c, s, q)
  BY DEF Fits, Numbers, Waits, Reading, Attached, Live
<1>2. PICK m \in Nat : At(c, s, m)
  BY <1>1 DEF Fits
<1> DEFINE p == Place(c)[m]
           n == Sent(c)[m].n
           h == s.head
           l == s.tail - s.head
<1>3. m \in 1 .. Len(Sent(c)) /\ s.got = <<>>
  BY <1>2 DEF At
<1>4. p \in Nat \ {0} /\ n \in Nat /\ Place(c)[m + 1] = p + 2 + n
  BY <1>3, Places
<1>5. Before(c, s, m) /\ Stand(s) = p - 1
  <2>1. Stand(s) = (p - 1) + 0
    BY <1>2, <1>3 DEF At, Base
  <2> QED BY <1>2, <1>4, <2>1 DEF At, Before
<1>6. h \in Nat /\ l \in Nat /\ h + l = s.tail /\ s.tail <= Capacity /\ s.received \in Nat
      /\ s.tail \in Nat /\ Capacity \in Nat
  BY <1>1, BufferedStreamAssumption DEF Numbers
<1>7. \A i \in 1 .. l : q[h + i] = Wire[c][p - 1 + i]
  BY <1>1, <1>5 DEF Window
<1>8. /\ view \in Seq(Byte) /\ Len(view) = l
      /\ \A j \in 1 .. l : view[j] = Wire[c][p - 1 + j]
  <2>1. view = SubSeq(q, h + 1, h + l)
    BY <1>6 DEF InBuffer
  <2> HIDE DEF h, l, view
  <2>2. h + l <= Len(q)
    BY <1>6
  <2>3. /\ SubSeq(q, h + 1, h + l) \in Seq(Byte) /\ Len(SubSeq(q, h + 1, h + l)) = l
        /\ \A j \in 1 .. l : SubSeq(q, h + 1, h + l)[j] = q[h + j]
    BY <1>6, <2>2, Part
  <2> QED BY <1>7, <2>1, <2>3
<1>9. Between(c, s, q)
  BY <1>1, <1>3 DEF Between, Window
<1> HIDE DEF p, n, h, l, view
<1>10. Fits(c, [s EXCEPT !.pc = "next"], q)
  <2> DEFINE u == [s EXCEPT !.pc = "next"]
  <2>1. /\ DOMAIN u = Names /\ u.open = s.open /\ u.head = s.head /\ u.tail = s.tail
        /\ u.partial_read = s.partial_read /\ u.frame_in_progress = s.frame_in_progress
        /\ u.received = s.received /\ u.rows = s.rows /\ u.got = s.got
        /\ u.wait = s.wait /\ u.moved = s.moved /\ u.overtaken = s.overtaken /\ u.pc = "next"
    BY <1>1 DEF Names
  <2> HIDE DEF u
  <2>2. Stand(u) = Stand(s)
    BY <2>1 DEF Stand
  <2>3. Between(c, u, q) /\ Before(c, u, m)
    BY <1>5, <1>9, <2>1, <2>2 DEF Between, Numbers, Before
  <2>4. Stand(u) = Base(c, u, m)
    BY <1>5, <2>1, <2>2 DEF Base, p
  <2>5. u.pc \in Live /\ u.pc # "payload" /\ u.pc # "ahead"
    BY <2>1 DEF Live, Reading
  <2>6. Fits(c, u, q)
    BY <1>3, <2>3, <2>4, <2>5, BetweenFits
  <2> QED BY <2>6 DEF u
<1>11. ASSUME 2 <= Len(view), view[1].is = "Y", 2 + view[2].n <= Len(view)
       PROVE  Fits(c, [s EXCEPT !.head = @ + 2 + view[2].n,
                                !.rows = Append(@, SubSeq(view, 3, 2 + view[2].n))], q)
  <2>1. 1 \in 1 .. l /\ 2 \in 1 .. l /\ p - 1 + 1 = p /\ p - 1 + 2 = p + 1
    BY <1>4, <1>6, <1>8, <1>11
  <2>2. view[1] = Wire[c][p] /\ view[2] = Wire[c][p + 1]
    BY <1>8, <2>1
  <2>3. Sent(c)[m].is = "Y" /\ view[2].n = n
    <3>1. Wire[c][p].is = Sent(c)[m].is /\ Wire[c][p + 1].n = n
      BY <1>3, WireIs DEF p, n
    <3> QED BY <1>11, <2>2, <3>1
  <2>4. m \in 1 .. Len(Frames[c]) /\ m + 1 \in 1 .. Len(Sent(c))
    <3>1. m # Len(Sent(c))
      BY <2>3, SentIs
    <3> QED BY <1>3, <3>1, SentIs
  <2> DEFINE row == SubSeq(view, 3, 2 + n)
             u == [s EXCEPT !.head = @ + 2 + n, !.rows = Append(@, row)]
  <2>5. row = RowsOf(c)[m]
    <3>1. 2 + n <= Len(view) /\ Len(view) = l
      BY <1>8, <1>11, <2>3
    <3>2. /\ SubSeq(view, 2 + 1, 2 + n) \in Seq(Byte) /\ Len(SubSeq(view, 2 + 1, 2 + n)) = n
          /\ \A j \in 1 .. n : SubSeq(view, 2 + 1, 2 + n)[j] = view[2 + j]
      BY <1>4, <1>8, <3>1, Part
    <3>3. 2 + 1 = 3
      OBVIOUS
    <3>4. row \in Seq(Byte) /\ Len(row) = n /\ \A j \in 1 .. n : row[j] = view[2 + j]
      BY <3>2, <3>3
    <3> HIDE DEF row
    <3>5. ASSUME NEW j \in 1 .. n PROVE row[j] = Wire[c][p + 1 + j]
      <4>1. 2 + j \in 1 .. l /\ p - 1 + (2 + j) = p + 1 + j
        BY <1>4, <1>6, <3>1
      <4> QED BY <1>8, <3>4, <4>1
    <3> QED BY <2>4, <3>4, <3>5, IsRow DEF p, n
  <2>6. /\ DOMAIN u = Names /\ u.open = s.open /\ u.head = s.head + 2 + n /\ u.tail = s.tail
        /\ u.partial_read = s.partial_read /\ u.frame_in_progress = s.frame_in_progress
        /\ u.received = s.received /\ u.rows = Append(s.rows, row) /\ u.got = s.got
        /\ u.wait = s.wait /\ u.moved = s.moved /\ u.overtaken = s.overtaken /\ u.pc = "batch"
    BY <1>1 DEF Names
  <2> HIDE DEF u, row
  <2>7. u.head \in Nat /\ u.head = h + (2 + n) /\ 2 + n <= l /\ u.head <= u.tail
    <3>1. 2 + n <= l
      BY <1>8, <1>11, <2>3
    <3>2. u.head = h + 2 + n /\ u.tail = h + l
      BY <1>6, <2>6 DEF h
    <3>3. h \in Nat /\ l \in Nat /\ n \in Nat
      BY <1>4, <1>6
    <3> QED BY <3>1, <3>2, <3>3
  <2>8. Stand(u) = Stand(s) + (2 + n)
    <3>1. Stand(u) = s.received - 0 - (s.tail - (h + (2 + n)))
      BY <1>1, <2>6, <2>7 DEF Stand
    <3>2. Stand(s) = s.received - 0 - (s.tail - h)
      BY <1>1 DEF Stand, h
    <3>3. \A r, t, a, b \in Int : r - 0 - (t - (a + b)) = (r - 0 - (t - a)) + b
      OBVIOUS
    <3>4. s.received \in Int /\ s.tail \in Int /\ h \in Int /\ 2 + n \in Int
      BY <1>4, <1>6
    <3> QED BY <3>1, <3>2, <3>3, <3>4
  <2>9. Before(c, u, m + 1) /\ u.rows \in Seq(Seq(Byte))
    BY <1>1, <1>5, <2>4, <2>5, <2>6, NextRow DEF Numbers
  <2>10. Numbers(c, u)
    BY <1>1, <2>6, <2>7, <2>9 DEF Numbers
  <2>11. \A i \in 1 .. u.tail - u.head : q[u.head + i] = Wire[c][Stand(u) + i]
    <3>1. ASSUME NEW i \in 1 .. u.tail - u.head
          PROVE  q[u.head + i] = Wire[c][Stand(u) + i]
      <4>1. 2 + n + i \in 1 .. l /\ u.head + i = h + (2 + n + i)
        BY <1>4, <1>6, <2>6, <2>7
      <4>2. Stand(u) + i = p - 1 + (2 + n + i)
        BY <1>4, <1>5, <2>8
      <4> QED BY <1>7, <4>1, <4>2
    <3> QED BY <3>1
  <2>12. Between(c, u, q)
    BY <1>9, <2>6, <2>10, <2>11 DEF Between
  <2>13. Stand(u) = Base(c, u, m + 1)
    BY <1>4, <1>5, <2>6, <2>8 DEF Base
  <2>14. u.pc \in Live /\ u.pc # "payload" /\ u.pc # "ahead"
    BY <2>6 DEF Live
  <2>15. Fits(c, u, q)
    BY <2>4, <2>9, <2>12, <2>13, <2>14, BetweenFits
  <2> QED BY <2>3, <2>15 DEF u, row
<1> QED BY <1>10, <1>11 DEF view

LEMMA ReadAheadFits ==
  ASSUME NEW c \in Conns, NEW s, NEW q, Fits(c, s, q), s.pc = "ahead",
         NEW header, s.open => header = s.ahead
  PROVE  Fits(c, Dispatch(s, header), q)
<1>1. /\ Numbers(c, s) /\ s.wait = "no" /\ s.moved = 0 /\ OwnRows(c, s) /\ Window(c, s, q)
      /\ (~s.open => s.overtaken) /\ s.open \in BOOLEAN
  BY DEF Fits, Waits, Reading, Numbers
<1>2. CASE s.open
  <2>1. Attached(s)
    BY <1>2 DEF Attached, Live
  <2>2. PICK m \in Nat : At(c, s, m)
    BY <2>1 DEF Fits
  <2>3. m \in 1 .. Len(Sent(c)) /\ s.got = <<>> /\ Before(c, s, m)
    BY <2>2 DEF At, Before
  <2> DEFINE p == Place(c)[m]
  <2>4. p \in Nat \ {0}
    BY <2>3, Places
  <2>5. Stand(s) = p + 1
    <3>1. Stand(s) = (p + 1) + 0
      BY <2>2, <2>3 DEF At, Base
    <3> QED BY <2>4, <3>1
  <2>6. header[1] = Wire[c][p - 1 + 1] /\ header[2] = Wire[c][p - 1 + 2]
    BY <1>2, <2>2 DEF At
  <2>7. header[1] = Wire[c][p] /\ header[2] = Wire[c][p + 1]
    BY <2>4, <2>6
  <2>8. header[1].is = Sent(c)[m].is /\ header[2].n = Sent(c)[m].n
    BY <2>3, <2>7, WireIs
  <2>9. Between(c, s, q)
    BY <1>1, <1>2, <2>3 DEF Between, Window
  <2> QED BY <2>3, <2>5, <2>8, <2>9, DispatchFits
<1>3. CASE ~s.open
  <2>1. s.got = <<>>
    BY <1>1, <1>3 DEF Fits, Waits, Attached
  <2> QED BY <1>1, <1>3, <2>1, DispatchLost
<1> QED BY <1>1, <1>2, <1>3

LEMMA OpenFits ==
  ASSUME NEW c \in Conns, NEW b, NEW f, NEW q
  PROVE  Fits(c, [NewStream EXCEPT !.open = TRUE, !.buffer = b, !.pc = "header", !.fd = f], q)
<1> DEFINE u == [NewStream EXCEPT !.open = TRUE, !.buffer = b, !.pc = "header", !.fd = f]
<1>1. DOMAIN NewStream = Names
  BY DEF NewStream, Names
<1>2. /\ DOMAIN u = Names /\ u.open = TRUE /\ u.head = 0 /\ u.tail = 0
      /\ u.received = 0 /\ u.rows = <<>> /\ u.got = <<>>
      /\ u.wait = "no" /\ u.moved = 0 /\ u.pc = "header"
  BY <1>1 DEF Names, NewStream
<1>3. /\ u.open /\ u.open \in BOOLEAN /\ u.partial_read \in BOOLEAN
      /\ u.frame_in_progress \in BOOLEAN /\ u.overtaken \in BOOLEAN
  BY <1>1 DEF Names, NewStream
<1> HIDE DEF u
<1>4. Capacity \in Nat /\ Len(Wire[c]) \in Nat
  BY WireIs, BufferedStreamAssumption
<1>5. Numbers(c, u)
  <2>1. u.rows \in Seq(Seq(Byte)) /\ u.got \in Seq(Byte)
    BY <1>2
  <2> QED BY <1>2, <1>3, <1>4, <2>1 DEF Numbers
<1>6. Stand(u) = 0
  BY <1>2 DEF Stand
<1>7. Between(c, u, q)
  BY <1>2, <1>3, <1>5 DEF Between
<1>8. 1 \in 1 .. Len(Sent(c)) /\ Place(c)[1] = 1
  BY SentNumbers, PlaceIs
<1>9. Before(c, u, 1)
  BY <1>2 DEF Before
<1>10. Stand(u) = Base(c, u, 1)
  BY <1>2, <1>6, <1>8 DEF Base
<1>11. u.pc \in Live /\ u.pc # "payload" /\ u.pc # "ahead"
  BY <1>2 DEF Live, Reading
<1>12. Fits(c, u, q)
  BY <1>7, <1>8, <1>9, <1>10, <1>11, BetweenFits
<1> QED BY <1>12 DEF u

\* A closed stream whose bytes had arrived: read_view() raises, read() hands over a result.
LEMMA LostResult ==
  ASSUME NEW c \in Conns, NEW s, NEW q, Fits(c, s, q), s.wait = "moved", s.moved > 0, ~s.open
  PROVE  /\ Large(s) => \A u \in Goes(Known(c, s), Known(c, s).got) : Fits(c, u, q)
         /\ \A u \in Goes(s, s.got \o [i \in 1 .. Want(s) - Len(s.got) |-> Nul]) : Fits(c, u, q)
<1>1. /\ Numbers(c, s) /\ OwnRows(c, s) /\ s.pc \in Reading /\ s.overtaken
      /\ s.head = 0 /\ s.tail = 0
  BY DEF Fits, Waits
<1>2. Attached(s)
  BY <1>1 DEF Attached, Live
<1>3. PICK m \in Nat : At(c, s, m)
  BY <1>2 DEF Fits
<1>4. /\ s.got \in Seq(Byte) /\ s.received \in Nat /\ s.moved \in Nat /\ s.moved <= s.received
      /\ s.received <= Len(Wire[c]) /\ Wire[c] \in Seq(Byte) /\ m \in 1 .. Len(Sent(c))
  BY <1>1, <1>3, WireIs DEF Numbers, At
<1>5. \A j \in 1 .. Len(s.got) : s.got[j].of = c
  <2> DEFINE b == Base(c, s, m)
             g == Len(s.got)
             l == Len(Wire[c])
  <2>1. b \in Nat /\ g \in Nat /\ l \in Nat
    <3>1. Place(c)[m] \in Nat \ {0}
      BY <1>4, Places
    <3>2. b \in Nat
      BY <3>1 DEF Base
    <3> QED BY <1>4, <3>2
  <2>2. s.received - s.moved = b + g
    BY <1>1, <1>3, <1>4 DEF At, Stand
  <2>3. ASSUME NEW j \in 1 .. g PROVE s.got[j].of = c
    <3>1. s.got[j] = Wire[c][b + j]
      BY <1>3 DEF At
    <3> HIDE DEF b, g, l
    <3>2. b + j \in 1 .. l
      BY <1>4, <2>1, <2>2 DEF l
    <3>3. Wire[c][b + j].of = c
      BY <3>2, WireIs DEF l
    <3> QED BY <3>1, <3>3
  <2> QED BY <2>3
<1>6. ASSUME Large(s) PROVE \A u \in Goes(Known(c, s), Known(c, s).got) : Fits(c, u, q)
  <2> DEFINE k == Known(c, s)
             a == Arrived(c, s)
  <2>1. KnowsThem(c, s, k)
    BY KnownIs
  <2> HIDE DEF k, a
  <2>2. /\ DOMAIN k = Names /\ k.open = s.open /\ k.partial_read = s.partial_read
        /\ k.frame_in_progress = s.frame_in_progress /\ k.received = s.received
        /\ k.rows = s.rows /\ k.wait = "no" /\ k.moved = 0 /\ k.overtaken = s.overtaken
        /\ k.pc = s.pc /\ k.got = s.got \o a /\ k.head = s.head /\ k.tail = s.tail
        /\ a \in Seq(Byte) /\ Len(a) = s.moved
        /\ \A j \in 1 .. s.moved : a[j] = Wire[c][s.received - s.moved + j]
    BY <1>6, <2>1 DEF KnowsThem, a
  <2>3. \A j \in 1 .. Len(a) : a[j].of = c
    <3>1. ASSUME NEW j \in 1 .. s.moved PROVE a[j].of = c
      <4>1. s.received - s.moved + j \in 1 .. Len(Wire[c])
        BY <1>4
      <4>2. \A i \in 1 .. Len(Wire[c]) : Wire[c][i].of = c
        BY WireIs
      <4>3. a[j] = Wire[c][s.received - s.moved + j]
        BY <2>2
      <4> QED BY <4>1, <4>2, <4>3
    <3> QED BY <2>2, <3>1
  <2>4. k.got \in Seq(Byte) /\ \A j \in 1 .. Len(k.got) : k.got[j].of = c
    <3>1. /\ k.got \in Seq(Byte) /\ Len(k.got) = Len(s.got) + Len(a)
          /\ \A i \in 1 .. Len(s.got) : k.got[i] = s.got[i]
          /\ \A i \in 1 .. Len(a) : k.got[Len(s.got) + i] = a[i]
      <4>1. s.got \in Seq(Byte) /\ a \in Seq(Byte) /\ k.got = s.got \o a
        BY <1>4, <2>2
      <4> QED BY <4>1, Joined
    <3>2. ASSUME NEW j \in 1 .. Len(k.got) PROVE k.got[j].of = c
      <4> DEFINE g == Len(s.got)
                 i == j - g
      <4>1. g \in Nat /\ Len(a) \in Nat /\ j \in 1 .. g + Len(a)
        <5>1. g \in Nat /\ Len(a) \in Nat
          BY <1>4, <2>2
        <5> QED BY <3>1, <5>1
      <4>2. /\ \A h \in 1 .. g : k.got[h] = s.got[h] /\ s.got[h].of = c
            /\ \A h \in 1 .. Len(a) : k.got[g + h] = a[h] /\ a[h].of = c
        BY <1>5, <2>3, <3>1
      <4> HIDE DEF g
      <4>3. CASE j <= g
        BY <4>1, <4>2, <4>3
      <4>4. CASE ~(j <= g)
        <5>1. i \in 1 .. Len(a) /\ g + i = j
          BY <4>1, <4>4
        <5> HIDE DEF i
        <5>2. k.got[g + i].of = c
          BY <4>2, <5>1
        <5> QED BY <5>1, <5>2
      <4> QED BY <4>3, <4>4
    <3> QED BY <3>1, <3>2
  <2>5. Numbers(c, k) /\ OwnRows(c, k)
    BY <1>1, <2>2, <2>4 DEF Numbers, OwnRows
  <2>6. ~k.open /\ k.overtaken /\ k.pc \in Reading
    BY <1>1, <2>2
  <2> QED BY <2>4, <2>5, <2>6, GoesLost DEF k
<1>7. \A u \in Goes(s, s.got \o [i \in 1 .. Want(s) - Len(s.got) |-> Nul]) : Fits(c, u, q)
  <2> DEFINE n == Want(s) - Len(s.got)
             zeros == [i \in 1 .. n |-> Nul]
             bytes == s.got \o zeros
  <2>1. n \in Nat
    BY <1>2, SpaceIs
  <2> HIDE DEF n
  <2>2. zeros \in Seq(Byte) /\ Len(zeros) = n /\ \A i \in 1 .. n : zeros[i].of = None
    <3>1. Nul \in Byte /\ Nul.of = None
      BY DEF Byte, Nul
    <3> QED BY <2>1, <3>1
  <2> HIDE DEF zeros
  <2>3. /\ bytes \in Seq(Byte) /\ Len(bytes) = Len(s.got) + Len(zeros)
        /\ \A i \in 1 .. Len(s.got) : bytes[i] = s.got[i]
        /\ \A i \in 1 .. Len(zeros) : bytes[Len(s.got) + i] = zeros[i]
    <3>1. s.got \in Seq(Byte) /\ zeros \in Seq(Byte)
      BY <1>4, <2>2
    <3> QED BY <3>1, Joined
  <2> HIDE DEF bytes
  <2>4. ASSUME NEW j \in 1 .. Len(bytes) PROVE bytes[j].of \in {c, None}
    <3>1. CASE j <= Len(s.got)
      BY <1>4, <1>5, <2>3, <3>1
    <3>2. CASE ~(j <= Len(s.got))
      <4>1. j - Len(s.got) \in 1 .. Len(zeros) /\ Len(s.got) + (j - Len(s.got)) = j
        BY <1>4, <2>1, <2>2, <2>3, <3>2
      <4> QED BY <2>2, <2>3, <4>1
    <3> QED BY <3>1, <3>2
  <2>5. \A u \in Goes(s, bytes) : Fits(c, u, q)
    BY <1>1, <2>3, <2>4, GoesLost
  <2> QED BY <2>5 DEF bytes, zeros, n
<1> QED BY <1>6, <1>7

-----------------------------------------------------------------------------
(* The steps of the system *)

\* A stream that changes, and perhaps its own buffer; the others keep what they have.
LEMMA StreamStep ==
  ASSUME IInv, RInv, NEW c \in Conns, NEW u, Becomes(c, u), Memory(content'),
         Fits(c, u, content'[u.buffer]),
         \/ UNCHANGED content
         \/ stream[c].open /\ \A b \in Buffers : b # stream[c].buffer => content'[b] = content[b]
  PROVE  RInv'
<1>1. stream'[c] = u /\ \A d \in Conns : d # c => stream'[d] = stream[d]
  BY DEF IInv, Shape, Becomes
<1>2. ASSUME NEW d \in Conns PROVE Fits(d, stream'[d], content'[stream'[d].buffer])
  <2>1. CASE d = c
    BY <1>1, <2>1
  <2>2. CASE d # c
    <3> DEFINE s == stream[d]
    <3>1. Fits(d, s, content[s.buffer]) /\ stream'[d] = s
      BY <1>1, <2>2 DEF RInv
    <3>2. s.open => content'[s.buffer] = content[s.buffer]
      BY <2>2 DEF IInv, Shape, BuffersExclusive
    <3> HIDE DEF s
    <3>3. Window(d, s, content'[s.buffer])
      BY <3>1, <3>2 DEF Fits, Window
    <3>4. Fits(d, s, content'[s.buffer])
      BY <3>1, <3>3 DEF Fits
    <3> QED BY <3>1, <3>4
  <2> QED BY <2>1, <2>2
<1> QED BY <1>2 DEF RInv

\* The same where the memory stays, and the stream its buffer
LEMMA QuietStep ==
  ASSUME IInv, RInv, NEW c \in Conns, NEW u, Becomes(c, u), UNCHANGED content,
         u.open => u.buffer = stream[c].buffer, Fits(c, u, content[stream[c].buffer])
  PROVE  RInv'
<1>1. Memory(content')
  BY DEF RInv
<1>2. Window(c, u, content[u.buffer])
  <2>1. CASE u.open
    BY <2>1 DEF Fits
  <2>2. CASE ~u.open
    BY <2>2 DEF Window
  <2> QED BY <2>1, <2>2
<1>3. Fits(c, u, content'[u.buffer])
  BY <1>2 DEF Fits
<1> QED BY <1>1, <1>3, StreamStep

LEMMA StreamFits ==
  ASSUME IInv, RInv, NEW c \in Conns
  PROVE  /\ Fits(c, stream[c], content[stream[c].buffer])
         /\ stream[c].open => /\ stream[c].buffer \in Buffers
                              /\ content[stream[c].buffer] \in Seq(Byte)
                              /\ Len(content[stream[c].buffer]) = Capacity
         /\ Good(stream[c])
BY DEF IInv, RInv, Shape, Memory

LEMMA OpenReads ==
  ASSUME IInv, RInv, NEW c \in Conns, Open(c) PROVE RInv'
<1>1. PICK b, f : Becomes(c, [NewStream EXCEPT !.open = TRUE, !.buffer = b, !.pc = "header",
                                               !.fd = f])
  BY DEF Open
<1> DEFINE u == [NewStream EXCEPT !.open = TRUE, !.buffer = b, !.pc = "header", !.fd = f]
<1>2. Fits(c, u, content[u.buffer])
  BY OpenFits
<1>3. UNCHANGED content
  BY DEF Open
<1> HIDE DEF u
<1>4. Memory(content')
  BY <1>3 DEF RInv
<1> QED BY <1>1, <1>2, <1>3, <1>4, StreamStep DEF u

LEMMA ServeReads ==
  ASSUME IInv, RInv, NEW c \in Conns, Serve(c) PROVE RInv'
<1> DEFINE s == stream[c]
           q == content[s.buffer]
           k == Min({Want(s) - Len(s.got), s.tail - s.head})
           t == [s EXCEPT !.got = @ \o SubSeq(q, s.head + 1, s.head + k), !.head = @ + k]
<1>1. /\ s.open /\ s.pc \in Reading /\ s.wait = "no" /\ UNCHANGED content /\ Good(s)
      /\ Fits(c, s, q) /\ q \in Seq(Byte) /\ Len(q) = Capacity
  BY StreamFits DEF Serve
<1>2. IF Len(t.got) = Want(s) THEN \E u \in Goes(t, t.got) : Becomes(c, u) ELSE Becomes(c, t)
  BY DEF Serve
<1>3. DOMAIN s = Names /\ Numbers(c, s) /\ Attached(s)
  BY <1>1 DEF Fits, Numbers, Attached, Live
<1>4. /\ t.open = s.open /\ t.buffer = s.buffer /\ t.pc = s.pc /\ t.wait = s.wait
      /\ t.size = s.size /\ DOMAIN t = DOMAIN s
  BY <1>3 DEF Names
<1>5. /\ k \in Nat /\ k <= Want(s) - Len(s.got) /\ k <= s.tail - s.head
  <2> DEFINE a == Want(s) - Len(s.got)
             b == s.tail - s.head
  <2>1. a \in Nat
    BY <1>1, <1>3, SpaceIs
  <2>2. b \in Nat
    BY <1>3 DEF Numbers
  <2> HIDE DEF a, b
  <2>3. Min({a, b}) \in Nat /\ Min({a, b}) <= a /\ Min({a, b}) <= b
    BY <2>1, <2>2, MinIs
  <2> QED BY <2>3 DEF a, b
<1> HIDE DEF k
<1>6. Fits(c, t, q)
  BY <1>1, <1>5, ServeFits
<1> HIDE DEF t
<1>7. Want(t) = Want(s)
  BY <1>4 DEF Want
<1>8. Keeps(s, t)
  BY <1>1, <1>4, SameHands
<1>9. CASE Len(t.got) = Want(s)
  <2>1. PICK u \in Goes(t, t.got) : Becomes(c, u)
    BY <1>2, <1>9
  <2>2. Fits(c, u, q)
    BY <1>1, <1>4, <1>6, <1>7, <1>9, GoesFits
  <2>3. u.open = s.open /\ (s.open => u.buffer = s.buffer)
    BY <1>1, <1>4, <1>8, GoesKeeps DEF Keeps
  <2> QED BY <1>1, <2>1, <2>2, <2>3, QuietStep
<1>10. CASE Len(t.got) # Want(s)
  <2>1. Becomes(c, t)
    BY <1>2, <1>10
  <2> QED BY <1>1, <1>4, <1>6, <2>1, QuietStep
<1> QED BY <1>9, <1>10

LEMMA ChunkIs ==
  ASSUME NEW c \in Conns, NEW q, Fits(c, stream[c], q), Attached(stream[c]), NEW k \in Chunks(c)
  PROVE  k \in Nat /\ k <= Space(stream[c]) /\ stream[c].received + k <= Len(Wire[c])
<1> DEFINE s == stream[c]
           a == Space(s)
           b == Len(Wire[c]) - s.received
           r == Min({a, b})
<1>1. s.received \in Nat /\ Len(Wire[c]) \in Nat /\ s.received <= Len(Wire[c])
  BY WireIs DEF Fits, Numbers
<1>2. a \in Nat
  BY SpaceIs
<1>3. b \in Nat
  BY <1>1
<1>4. k \in {1, r} /\ k > 0 /\ k <= r
  BY DEF Chunks, Room
<1> HIDE DEF a, b
<1>5. r \in Nat /\ r <= a /\ r <= b
  BY <1>2, <1>3, MinIs
<1> HIDE DEF r
<1>6. k \in Nat /\ k <= a /\ k <= b
  BY <1>2, <1>3, <1>4, <1>5
<1>7. s.received + k <= Len(Wire[c])
  BY <1>1, <1>6 DEF b
<1> QED BY <1>6, <1>7 DEF a

\* The memory after a receive
LEMMA ReceivedIs ==
  ASSUME IInv, RInv, NEW c \in Conns, stream[c].open, NEW k \in Nat, NEW s,
         s.buffer = stream[c].buffer, s.received = stream[c].received,
         Large(s) = Large(stream[c]), Received(c, k, s),
         s.received + k <= Len(Wire[c]), k <= Space(stream[c])
  PROVE  /\ Memory(content')
         /\ ~Large(stream[c]) => content'[s.buffer] = Filled(c, stream[c], k)
         /\ \A b \in Buffers : b # stream[c].buffer => content'[b] = content[b]
<1>1. s.buffer \in Buffers /\ Memory(content) /\ Wire[c] \in Seq(Byte) /\ s.received \in Nat
  BY StreamFits, WireIs DEF RInv, Fits, Numbers
<1> DEFINE f == [i \in 1 .. Capacity |-> IF i <= k THEN Wire[c][s.received + i] ELSE Nul]
<1>2. CASE Large(s)
  <2>1. content' = content
    BY <1>2 DEF Received
  <2> QED BY <1>1, <1>2, <2>1
<1>3. CASE ~Large(s)
  <2>1. content' = [content EXCEPT ![s.buffer] = f]
    BY <1>3 DEF Received
  <2>2. f = Filled(c, stream[c], k)
    BY DEF Filled
  <2>3. f \in Seq(Byte) /\ Len(f) = Capacity
    <3>1. Nul \in Byte
      BY DEF Byte
    <3>2. Capacity \in Nat
      BY BufferedStreamAssumption
    <3>3. \A i \in 1 .. k : Wire[c][s.received + i] \in Byte
      BY <1>1
    <3>4. \A i \in 1 .. Capacity : (IF i <= k THEN Wire[c][s.received + i] ELSE Nul) \in Byte
      BY <3>1, <3>2, <3>3
    <3> QED BY <3>2, <3>4
  <2> HIDE DEF f
  <2>4. DOMAIN content' = Buffers /\ content'[s.buffer] = f
        /\ \A b \in Buffers : b # s.buffer => content'[b] = content[b]
    BY <1>1, <2>1 DEF Memory
  <2> QED BY <1>1, <2>2, <2>3, <2>4 DEF Memory
<1> QED BY <1>2, <1>3

LEMMA CountedIs ==
  ASSUME NEW c, NEW s, DOMAIN s = Names, NEW k
  PROVE  LET t == Counted(c, s, k) IN
         /\ DOMAIN t = Names /\ t.buffer = s.buffer /\ t.received = s.received
         /\ t.pc = s.pc /\ t.is = s.is /\ t.size = s.size /\ t.open = s.open /\ t.wait = s.wait
BY DEF Counted, Names

LEMMA FillReads ==
  ASSUME IInv, RInv, NEW c \in Conns, FillNow(c) PROVE RInv'
<1> DEFINE s == stream[c]
<1>1. Filling(s) /\ s.open /\ Good(s) /\ Fits(c, s, content[s.buffer])
  BY StreamFits DEF FillNow, Filling
<1>2. PICK k \in Chunks(c) : Received(c, k, Counted(c, s, k))
  BY DEF FillNow
<1> DEFINE t == Counted(c, s, k)
           u == [t EXCEPT !.received = @ + k]
<1>3. DOMAIN s = Names /\ Attached(s)
  BY <1>1 DEF Fits, Numbers, Attached, Filling, Live
<1>4. /\ DOMAIN t = Names /\ t.buffer = s.buffer /\ t.received = s.received
      /\ t.pc = s.pc /\ t.is = s.is /\ t.size = s.size
  BY <1>3, CountedIs
<1>5. k \in Nat /\ k <= Space(s) /\ s.received + k <= Len(Wire[c])
  BY <1>1, <1>3, ChunkIs
<1>6. Becomes(c, u)
  BY <1>2 DEF Received
<1> HIDE DEF t
<1>7. u.buffer = s.buffer
  BY <1>4 DEF Names
<1>8. Large(t) = Large(s) /\ Received(c, k, t)
  BY <1>2, <1>4 DEF Large, t
<1>9. /\ Memory(content') /\ (~Large(s) => content'[s.buffer] = Filled(c, s, k))
      /\ \A b \in Buffers : b # s.buffer => content'[b] = content[b]
  BY <1>1, <1>4, <1>5, <1>8, ReceivedIs
<1>10. Fits(c, u, content'[u.buffer])
  BY <1>1, <1>5, <1>7, <1>9, FillFits DEF t
<1> HIDE DEF u
<1> QED BY <1>1, <1>6, <1>9, <1>10, StreamStep

LEMMA ArriveReads ==
  ASSUME IInv, RInv, NEW c \in Conns, Arrive(c) PROVE RInv'
<1> DEFINE s == stream[c]
<1>1. s.wait = "parked" /\ s.open /\ Good(s) /\ Fits(c, s, content[s.buffer])
  BY StreamFits DEF Arrive
<1>2. PICK k \in Chunks(c) \cup {0} : Received(c, k, [s EXCEPT !.wait = "moved", !.moved = k])
  BY DEF Arrive
<1> DEFINE t == [s EXCEPT !.wait = "moved", !.moved = k]
           u == [t EXCEPT !.received = @ + k]
<1>3. DOMAIN s = Names /\ Attached(s) /\ s.received \in Nat /\ s.received <= Len(Wire[c])
  BY <1>1 DEF Fits, Numbers, Waits, Attached, Live
<1>4. /\ DOMAIN t = Names /\ t.buffer = s.buffer /\ t.received = s.received
      /\ t.pc = s.pc /\ t.is = s.is /\ t.size = s.size
  BY <1>3 DEF Names
<1>5. k \in Nat /\ k <= Space(s) /\ s.received + k <= Len(Wire[c])
  <2>1. CASE k \in Chunks(c)
    BY <1>1, <1>3, <2>1, ChunkIs
  <2>2. CASE k = 0
    <3>1. Space(s) \in Nat
      BY <1>1, <1>3, SpaceIs
    <3> QED BY <1>3, <2>2, <3>1
  <2> QED BY <2>1, <2>2
<1>6. Becomes(c, u)
  BY <1>2 DEF Received
<1> HIDE DEF t
<1>7. u.buffer = s.buffer
  BY <1>4 DEF Names
<1>8. Large(t) = Large(s) /\ Received(c, k, t)
  BY <1>2, <1>4 DEF Large, t
<1>9. /\ Memory(content') /\ (~Large(s) => content'[s.buffer] = Filled(c, s, k))
      /\ \A b \in Buffers : b # s.buffer => content'[b] = content[b]
  BY <1>1, <1>4, <1>5, <1>8, ReceivedIs
<1>10. Fits(c, u, content'[u.buffer])
  BY <1>1, <1>5, <1>7, <1>9, ArriveFits DEF t
<1> HIDE DEF u
<1> QED BY <1>1, <1>6, <1>9, <1>10, StreamStep

LEMMA ParkReads ==
  ASSUME IInv, RInv, NEW c \in Conns, Park(c) PROVE RInv'
<1> DEFINE s == stream[c]
           u == [s EXCEPT !.wait = "parked", !.head = 0, !.tail = 0]
<1>1. Filling(s) /\ Fits(c, s, content[s.buffer]) /\ Becomes(c, u) /\ UNCHANGED content
  BY StreamFits DEF Park
<1>2. u.buffer = s.buffer
  BY <1>1 DEF Fits, Numbers, Names
<1>3. Fits(c, u, content[s.buffer])
  BY <1>1, ParkFits
<1> HIDE DEF u
<1> QED BY <1>1, <1>2, <1>3, QuietStep

LEMMA ResumeReads ==
  ASSUME IInv, RInv, NEW c \in Conns, Resume(c) PROVE RInv'
<1> DEFINE s == stream[c]
           q == content[s.buffer]
           w == [s EXCEPT !.wait = "no", !.moved = 0, !.received = @ - s.moved]
           t == Counted(c, w, s.moved)
           known == [t EXCEPT !.received = s.received]
           zeros == [i \in 1 .. Want(s) - Len(s.got) |-> Nul]
<1>1. Good(s) /\ UNCHANGED content /\ s.pc \in Reading /\ s.wait = "moved" /\ Fits(c, s, q)
  BY StreamFits DEF Resume, Good
<1>2. /\ DOMAIN s = Names /\ s.moved \in Nat /\ s.open \in BOOLEAN
  BY <1>1 DEF Fits, Numbers
<1>3. PICK u : /\ Becomes(c, u)
               /\ \/ u = Fails(s)
                  \/ s.open /\ u = known
                  \/ s.moved > 0 /\ ~s.open /\ Large(s) /\ u \in Goes(known, t.got)
                  \/ s.moved > 0 /\ ~s.open /\ u \in Goes(s, s.got \o zeros)
  BY DEF Resume
<1>4. known = Known(c, s)
  BY DEF Known
<1>5. /\ DOMAIN w = Names /\ w.open = s.open /\ w.buffer = s.buffer
      /\ w.wait = "no" /\ w.pc = s.pc
  BY <1>2 DEF Names
<1> HIDE DEF w
<1>6. DOMAIN t = Names /\ t.open = s.open /\ t.buffer = s.buffer /\ t.wait = "no" /\ t.pc = s.pc
  BY <1>5 DEF Counted, Names
<1> HIDE DEF t
<1>7. /\ DOMAIN known = Names /\ known.open = s.open /\ known.buffer = s.buffer
      /\ known.wait = "no" /\ known.pc = s.pc /\ known.got = t.got
  BY <1>6 DEF Names
<1> HIDE DEF known, zeros
<1>8. Keeps(s, known)
  BY <1>1, <1>2, <1>7, SameHands
<1>9. Fits(c, u, q) /\ Keeps(s, u)
  <2>1. CASE u = Fails(s)
    BY <1>1, <2>1, FailsFits, FailsKeeps
  <2>2. CASE s.open /\ u = known
    BY <1>1, <1>4, <1>8, <2>2, KnownFits
  <2>3. CASE s.moved > 0 /\ ~s.open /\ Large(s) /\ u \in Goes(known, t.got)
    <3>1. Fits(c, u, q)
      BY <1>1, <1>4, <1>7, <2>3, LostResult
    <3>2. Keeps(known, u)
      BY <1>1, <1>7, <1>8, <2>3, GoesKeeps DEF Keeps
    <3> QED BY <1>8, <3>1, <3>2 DEF Keeps
  <2>4. CASE s.moved > 0 /\ ~s.open /\ u \in Goes(s, s.got \o zeros)
    <3>1. Fits(c, u, q)
      BY <1>1, <2>4, LostResult DEF zeros
    <3>2. Keeps(s, u)
      BY <1>1, <2>4, GoesKeeps
    <3> QED BY <3>1, <3>2
  <2> QED BY <1>3, <2>1, <2>2, <2>3, <2>4
<1>10. u.open => u.buffer = s.buffer
  BY <1>9 DEF Keeps
<1> QED BY <1>1, <1>3, <1>9, <1>10, QuietStep

LEMMA DecodeReads ==
  ASSUME IInv, RInv, NEW c \in Conns, Decode(c) PROVE RInv'
<1> DEFINE s == stream[c]
           q == content[s.buffer]
           view == SubSeq(q, s.head + 1, s.tail)
           complete == 2 <= Len(view) /\ view[1].is = "Y" /\ 2 + view[2].n <= Len(view)
           taken == [s EXCEPT !.head = @ + 2 + view[2].n,
                              !.rows = Append(@, SubSeq(view, 3, 2 + view[2].n))]
           left == [s EXCEPT !.pc = "next"]
<1>1. Fits(c, s, q) /\ s.pc = "batch" /\ UNCHANGED content
  BY StreamFits DEF Decode
<1>2. s.open /\ DOMAIN s = Names
  BY <1>1 DEF Fits, Waits, Numbers
<1>3. q \in Seq(Byte) /\ Len(q) = Capacity
  BY <1>2, StreamFits
<1>4. view = InBuffer(s, q)
  BY DEF InBuffer
<1>5. Becomes(c, IF complete THEN taken ELSE left)
  BY DEF Decode
<1>6. taken.buffer = s.buffer /\ left.buffer = s.buffer
  BY <1>2 DEF Names
<1>7. Fits(c, left, q) /\ (complete => Fits(c, taken, q))
  BY <1>1, <1>3, <1>4, DecodeFits
<1> HIDE DEF s, q, view, complete, taken, left
<1>8. CASE complete
  <2>1. Becomes(c, taken) /\ Fits(c, taken, q)
    BY <1>5, <1>7, <1>8
  <2> QED BY <1>1, <1>6, <2>1, QuietStep DEF s, q
<1>9. CASE ~complete
  <2>1. Becomes(c, left)
    BY <1>5, <1>9
  <2> QED BY <1>1, <1>6, <1>7, <2>1, QuietStep DEF s, q
<1> QED BY <1>8, <1>9

LEMMA ReadAheadReads ==
  ASSUME IInv, RInv, NEW c \in Conns, ReadAhead(c) PROVE RInv'
<1> DEFINE s == stream[c]
<1>1. PICK header \in Seen(s) : Becomes(c, Dispatch(s, header))
  BY DEF ReadAhead
<1>2. Good(s) /\ s.pc = "ahead" /\ UNCHANGED content /\ Fits(c, s, content[s.buffer])
  BY StreamFits DEF ReadAhead
<1>3. s.wait = "no"
  BY <1>2 DEF Good, Reading
<1>4. s.open => header = s.ahead
  BY <1>1 DEF Seen
<1>5. Fits(c, Dispatch(s, header), content[s.buffer])
  BY <1>2, <1>4, ReadAheadFits
<1>6. Keeps(s, Dispatch(s, header))
  BY <1>2, <1>3, DispatchKeeps
<1> QED BY <1>1, <1>2, <1>5, <1>6, QuietStep DEF Keeps

LEMMA StopReads ==
  ASSUME IInv, RInv, NEW c \in Conns, Cancel(c) \/ Timeout(c) PROVE RInv'
<1> DEFINE s == stream[c]
           t == [s EXCEPT !.partial_read = @ \/ s.got # <<>>, !.overtaken = @ \/ Overtaken(s)]
<1>1. PICK how \in {"cut", "late"} : Becomes(c, Stopped(s, how))
  BY DEF Cancel, Timeout, Stops
<1> DEFINE u == Stopped(s, how)
<1>2. /\ Suspended(s) \/ s.pc = "late"
      /\ UNCHANGED content /\ Good(s) /\ Fits(c, s, content[s.buffer])
  BY StreamFits DEF Cancel, Timeout, Stops
<1>3. Fits(c, u, content[s.buffer])
  BY <1>2, StoppedFits
<1>4. Fields(t) /\ t.open = s.open /\ t.buffer = s.buffer
  BY <1>2 DEF Good, Fields
<1>5. u = Ended(t, how)
  BY DEF Stopped
<1> HIDE DEF t
<1>6. Keeps(t, u)
  BY <1>2, <1>4, <1>5, EndedKeeps DEF Good
<1> HIDE DEF u
<1>7. u.open => u.buffer = s.buffer
  BY <1>4, <1>6 DEF Keeps
<1> QED BY <1>1, <1>2, <1>3, <1>7, QuietStep DEF u

\* By its own reader, or by another task
LEMMA CloseReads ==
  ASSUME IInv, RInv, NEW c \in Conns, Close(c) \/ Fail(c) \/ Retire(c) PROVE RInv'
<1> DEFINE s == stream[c]
           q == content[s.buffer]
           t == [s EXCEPT !.overtaken = @ \/ Overtaken(s)]
           u == [t EXCEPT !.open = FALSE]
           gone(how) == [Closed(how) EXCEPT !.open = FALSE]
<1>1. Fits(c, s, q) /\ UNCHANGED content
  BY StreamFits DEF Close, Fail, Retire
<1>2. ASSUME s.open, Suspended(s), Becomes(c, u) PROVE RInv'
  <2>1. Fits(c, u, q)
    BY <1>1, <1>2, CloseFits
  <2>2. DOMAIN t = Names
    BY <1>1 DEF Fits, Numbers
  <2>3. ~u.open
    BY <2>2 DEF Names
  <2> HIDE DEF u
  <2> QED BY <1>1, <1>2, <2>1, <2>3, QuietStep
<1>3. ASSUME NEW how \in {"done", "cut", "late", "kept", "failed"}, Becomes(c, gone(how)) PROVE RInv'
  <2>1. Fits(c, gone(how), q) /\ ~gone(how).open
    BY ClosedFits
  <2> HIDE DEF gone
  <2> QED BY <1>1, <1>3, <2>1, QuietStep
<1>4. CASE Close(c)
  <2>1. CASE Suspended(s)
    BY <1>2, <1>4, <2>1 DEF Close, Closes
  <2>2. CASE ~Suspended(s)
    BY <1>3, <1>4, <2>2 DEF Close, Closes
  <2> QED BY <2>1, <2>2
<1>5. CASE Fail(c)
  BY <1>3, <1>5 DEF Fail, Closes
<1>6. CASE Retire(c)
  <2> DEFINE k == [s EXCEPT !.pc = "kept"]
  <2>1. CASE Closes(c, Closed("failed"))
    BY <1>3, <2>1 DEF Closes
  <2>2. CASE s.open /\ ~Noticed(s) /\ Becomes(c, k)
    <3>1. Fits(c, k, q)
      BY <1>1, <1>6, <2>2, KeptFits DEF Retire
    <3>2. DOMAIN s = Names
      BY <1>1 DEF Fits, Numbers
    <3>3. k.buffer = s.buffer
      BY <3>2 DEF Names
    <3> HIDE DEF k
    <3> QED BY <1>1, <2>2, <3>1, <3>3, QuietStep
  <2> QED BY <1>6, <2>1, <2>2 DEF Retire
<1> QED BY <1>4, <1>5, <1>6

-----------------------------------------------------------------------------

LEMMA ReadsInitially == ASSUME Init PROVE RInv
<1>1. Memory(content)
  <2> DEFINE f == [i \in 1 .. Capacity |-> Nul]
  <2>1. f \in Seq(Byte) /\ Len(f) = Capacity
    <3>1. Nul \in Byte /\ Capacity \in Nat
      BY BufferedStreamAssumption DEF Byte
    <3> QED BY <3>1
  <2> HIDE DEF f
  <2>2. content = [b \in Buffers |-> f]
    BY DEF Init, f
  <2> QED BY <2>1, <2>2 DEF Memory
<1>2. ASSUME NEW c \in Conns, NEW q PROVE Fits(c, NewStream, q)
  <2>1. Blank(NewStream)
    BY DEF NewStream, Names, Blank
  <2> QED BY <2>1, BlankFits
<1> QED BY <1>1, <1>2 DEF Init, RInv

LEMMA ReadsInductive ==
  ASSUME IInv, RInv, [Next]_vars PROVE RInv'
<1>1. CASE UNCHANGED vars
  BY <1>1 DEF vars, RInv
<1>2. ASSUME NEW c \in Conns, Open(c) \/ Reader(c) \/ Cancel(c) \/ Timeout(c) \/ Close(c) PROVE RInv'
  BY <1>2, OpenReads, ServeReads, FillReads, ParkReads, ArriveReads, ResumeReads, DecodeReads,
     ReadAheadReads, StopReads, CloseReads
  DEF Reader
<1> QED BY <1>1, <1>2 DEF Next

LEMMA RowsFollow == ASSUME RInv PROVE RowsInOrder
<1>1. SUFFICES ASSUME NEW c \in Conns
               PROVE  LET s == stream[c] IN
                      /\ ~s.overtaken => /\ IsPrefix(s.rows, RowsOf(c))
                                         /\ s.pc = "done" /\ s.open => s.rows = RowsOf(c)
                      /\ \A i \in DOMAIN s.rows : \A j \in DOMAIN s.rows[i] :
                           s.rows[i][j].of \in {c, None}
  BY DEF RowsInOrder
<1> DEFINE s == stream[c]
           x == s.rows
           y == RowsOf(c)
<1>2. Fits(c, s, content[s.buffer])
  BY DEF RInv
<1> HIDE DEF s
<1>3. x \in Seq(Seq(Byte)) /\ y \in Seq(Seq(Byte)) /\ Len(y) = Len(Frames[c])
  BY <1>2, RowsAre DEF Fits, Numbers
<1>4. \A i \in DOMAIN x : \A j \in DOMAIN x[i] : x[i][j].of \in {c, None}
  <2>1. \A i \in 1 .. Len(x) : \A j \in 1 .. Len(x[i]) : x[i][j].of \in {c, None}
    BY <1>2 DEF Fits, OwnRows
  <2>2. \A i \in DOMAIN x : i \in 1 .. Len(x) /\ DOMAIN x[i] = 1 .. Len(x[i])
    BY <1>3
  <2> QED BY <2>1, <2>2
<1>5. ASSUME ~s.overtaken, s.pc = "done", s.open PROVE x = y
  BY <1>2, <1>5 DEF Fits, AtRest, Attached, Live, Reading
<1>6. ASSUME ~s.overtaken PROVE Len(x) <= Len(y) /\ \A i \in 1 .. Len(x) : x[i] = y[i]
  <2>1. CASE Attached(s)
    <3>1. PICK m \in Nat : At(c, s, m)
      BY <1>2, <2>1 DEF Fits
    <3>2. m \in 1 .. Len(Sent(c)) /\ Len(x) = m - 1 /\ \A i \in 1 .. m - 1 : x[i] = y[i]
      BY <3>1 DEF At
    <3>3. m - 1 <= Len(y)
      BY <1>3, <3>2, SentIs
    <3> QED BY <3>2, <3>3
  <2>2. CASE ~Attached(s)
    <3>1. x = y \/ x = <<>>
      BY <1>2, <1>6, <2>2 DEF Fits, AtRest
    <3>2. Len(y) \in Nat
      BY <1>3
    <3> QED BY <3>1, <3>2
  <2> QED BY <2>1, <2>2
<1> HIDE DEF x, y
<1>7. ASSUME ~s.overtaken PROVE IsPrefix(x, y)
  BY <1>3, <1>6, <1>7 DEF IsPrefix
<1> QED BY <1>4, <1>5, <1>7 DEF s, x, y

\* However many connections share the loop, whatever they are sent, however large their
\* buffers are and however the bytes come: what a reader hands out is the rows of its own
\* backend in their order, all of them when the result ends.
THEOREM RowsAreTheBackends == Spec => []RowsInOrder
<1>1. RInv => RowsInOrder
  BY RowsFollow
<1> QED BY <1>1, Initially, Inductive, ReadsInitially, ReadsInductive, PTL DEF Spec

\* After the cursor's own timeout that found its task waiting for bytes, a connection that
\* is not closed stands at the beginning of a message.  After a cancellation from without,
\* one that the driver takes for usable (partial_read is not set) stands there or directly
\* behind a header.
THEOREM KeptWhereAMessageBegins == Spec => []CutIsNoticed
<1>1. RInv => CutIsNoticed
  BY DEF RInv, Fits, CutStands, StandsNear, CutIsNoticed
<1> QED BY <1>1, Initially, Inductive, ReadsInitially, ReadsInductive, PTL DEF Spec

=============================================================================
