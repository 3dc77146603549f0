--------------------------- MODULE BufferedStream ---------------------------
(***************************************************************************)
(* The receiving side of connections that share one event loop: the reader *)
(* of a result (_protocol.py), NzBufferedStream under it, the BufferPool    *)
(* its buffer comes from, and the loop's table of waiting descriptors.      *)
(*                                                                         *)
(* A byte knows whose stream it is from and its place there.  A message is  *)
(* a header of two bytes, its code and its size, and a payload.  One step   *)
(* is what a task does between two awaits or a part of it; only a task that *)
(* is suspended can be cancelled, or have its connection closed by another. *)
(***************************************************************************)
EXTENDS Naturals, Sequences, SequencesExt

CONSTANTS
  Conns,        \* connections, each opened at most once
  Buffers,      \* identities of receive buffers
  Capacity,     \* buffer_size = max_size
  PoolLimit,    \* BufferPool.max_cached_buffers
  Frames,       \* the rows each backend sends: [Conns -> Seq([is, n])]
  None

ASSUME BufferedStreamAssumption ==
  Capacity \in Nat \ {0} /\ Frames \in [Conns -> Seq([is : {"Y", "D"}, n : Nat])]

VARIABLES
  stream,   \* [Conns -> NzBufferedStream and the reader that uses it]
  content,  \* [Buffers -> what is in them]
  pooled,   \* BufferPool._pool
  dead      \* [descriptor -> whose waiting read the loop remembers though the
            \*  descriptor it was for has been closed]

vars == <<stream, content, pooled, dead>>

-----------------------------------------------------------------------------
(* Bytes *)

Nul == [of |-> None, at |-> 0, is |-> "nul", n |-> 0]

\* The messages of a result: "Y" is a row of the binary protocol, "D" one of the text
\* protocol, "Z" ReadyForQuery.
Sent(c) == Append(Frames[c], [is |-> "Z", n |-> 0])

\* Where they begin, and where the next one would
Place(c) ==
  LET place[i \in 1 .. Len(Sent(c)) + 1] ==
        IF i = 1 THEN 1 ELSE place[i - 1] + 2 + Sent(c)[i - 1].n
  IN  place

Layout(c, p) ==
  LET i == CHOOSE j \in DOMAIN Sent(c) : Place(c)[j] <= p /\ p < Place(c)[j + 1]
      as(is, n) == [of |-> c, at |-> p, is |-> is, n |-> n]
  IN  IF p = Place(c)[i] THEN as(Sent(c)[i].is, 0)
      ELSE IF p = Place(c)[i] + 1 THEN as("size", Sent(c)[i].n)
      ELSE as("data", 0)

Wire == [c \in Conns |-> [p \in 1 .. Place(c)[Len(Sent(c)) + 1] - 1 |-> Layout(c, p)]]

Starts(c) == {Place(c)[i] : i \in DOMAIN Place(c)}

RowsOf(c) ==
  [i \in DOMAIN Frames[c] |-> SubSeq(Wire[c], Place(c)[i] + 2, Place(c)[i + 1] - 1)]

-----------------------------------------------------------------------------

NewStream == [open |-> FALSE, buffer |-> None, head |-> 0, tail |-> 0, partial_read |-> FALSE,
              frame_in_progress |-> FALSE, fd |-> 0, received |-> 0,
              pc |-> "new", is |-> "none", size |-> 0, ahead |-> <<>>, rows |-> <<>>,
              got |-> <<>>, wait |-> "no", moved |-> 0, overtaken |-> FALSE]

Init ==
  /\ stream = [c \in Conns |-> NewStream]
  /\ content = [b \in Buffers |-> [i \in 1 .. Capacity |-> Nul]]
  /\ pooled = <<>>
  /\ dead = [f \in 1 .. Len(SetToSeq(Conns)) |-> None]

Becomes(c, s) == stream' = [stream EXCEPT ![c] = s]

\* One loop runs all tasks: until the one that runs is suspended no other one moves.
Reading == {"header", "payload", "next"}
Runs(c) == stream[c].wait = "no" /\ stream[c].pc \in Reading \cup {"batch", "failing"}
Quiet == \A c \in Conns : ~Runs(c)

\* NzBufferedStream.__init__() with BufferPool.acquire(), on the lowest free descriptor
InUse == {stream[c].buffer : c \in {d \in Conns : stream[d].open}}
Descriptors == {stream[c].fd : c \in {d \in Conns : stream[d].open}}

Open(c) ==
  /\ Quiet /\ stream[c].pc = "new"
  /\ \E b \in Buffers :
       /\ IF pooled # <<>>
          THEN b = Last(pooled) /\ pooled' = Front(pooled)
          ELSE b \notin InUse /\ UNCHANGED pooled
       /\ Becomes(c, [NewStream EXCEPT
            !.open = TRUE, !.buffer = b, !.pc = "header",
            !.fd = CHOOSE f \in DOMAIN dead \ Descriptors :
                     \A g \in DOMAIN dead \ Descriptors : f <= g])
  /\ UNCHANGED <<content, dead>>

\* Connection.close() and NzBufferedStream.close(): the descriptor is free, and so is the
\* buffer unless the pool is full.
\* Mutant: the stream keeps its buffer, and a second close() returns it again.
ReturnedTwice(b) == IF Len(pooled) < PoolLimit THEN pooled \o <<b, b>> ELSE pooled
Returned(b) == IF Len(pooled) < PoolLimit THEN Append(pooled, b) ELSE pooled

Closes(c, s) ==
  /\ pooled' = IF stream[c].open THEN Returned(stream[c].buffer) ELSE pooled
  /\ Becomes(c, [s EXCEPT !.open = FALSE])

-----------------------------------------------------------------------------
(* The reader: ProtocolHandler._read_result_frames() *)

Want(s) == IF s.pc = "payload" THEN s.size ELSE 2

\* What read() may not put into the buffer it receives into directly.
Large(s) == s.pc = "payload" /\ s.is = "D" /\ s.size > Capacity

\* What is left of a reader that has ended, and of a stream that has been closed
Closed(how) == [NewStream EXCEPT !.pc = how]

Ended(s, how) ==
  IF ~s.open THEN Closed(how)
  ELSE [s EXCEPT !.pc = how, !.wait = "no", !.got = <<>>, !.moved = 0, !.is = "none", !.size = 0,
                 !.ahead = <<>>, !.rows = IF how = "done" THEN @ ELSE <<>>]

\* At the head of the loop, with a header
Dispatch(s, header) ==
  LET t == [s EXCEPT !.frame_in_progress = TRUE, !.ahead = <<>>] IN
  CASE header[1].is \in {"Y", "D"} ->
         [t EXCEPT !.pc = "payload", !.is = header[1].is, !.size = header[2].n]
    [] header[1].is = "Z" -> Ended([t EXCEPT !.frame_in_progress = FALSE], "done")
    [] header[1].is = "nul" -> [t EXCEPT !.pc = "header", !.frame_in_progress = FALSE]
    [] OTHER -> [t EXCEPT !.pc = "failing"]

\* The read that is in progress returns these bytes, and the reader goes on.
Goes(s, bytes) ==
  LET t == [s EXCEPT !.got = <<>>, !.wait = "no", !.moved = 0]
      row == [t EXCEPT !.rows = Append(@, bytes), !.pc = IF s.is = "Y" THEN "next" ELSE "header",
                       !.frame_in_progress = FALSE]
  IN  CASE s.pc = "header" -> {Dispatch(t, bytes)}
        [] s.pc = "payload" ->
             {row} \cup (IF s.is = "Y" /\ s.open THEN {[row EXCEPT !.pc = "batch"]} ELSE {})
        [] s.pc = "next" -> {[t EXCEPT !.pc = "ahead", !.ahead = bytes]}

\* Mutant: the rows are decoded, the head is not advanced.
DecodeNotAdvanced(c) ==
  LET s == stream[c]
      view == SubSeq(content[s.buffer], s.head + 1, s.tail)
      complete == 2 <= Len(view) /\ view[1].is = "Y" /\ 2 + view[2].n <= Len(view)
      row == SubSeq(view, 3, 2 + view[2].n)
  IN  /\ s.pc = "batch"
      /\ Becomes(c, [s EXCEPT !.pc = "next", !.rows = IF complete THEN Append(@, row) ELSE @])
      /\ UNCHANGED <<content, pooled, dead>>

\* After a row of the binary protocol the native decoder takes the complete rows that are
\* in the buffer already, or none of them; one at a time here.
Decode(c) ==
  LET s == stream[c]
      view == SubSeq(content[s.buffer], s.head + 1, s.tail)
      complete == 2 <= Len(view) /\ view[1].is = "Y" /\ 2 + view[2].n <= Len(view)
  IN  /\ s.pc = "batch"
      /\ Becomes(c, IF complete
                    THEN [s EXCEPT !.head = @ + 2 + view[2].n,
                                   !.rows = Append(@, SubSeq(view, 3, 2 + view[2].n))]
                    ELSE [s EXCEPT !.pc = "next"])
      /\ UNCHANGED <<content, pooled, dead>>

\* The header that was read ahead may be a view of the buffer still, while the reader yields
\* to the loop: once the buffer belongs to another connection it shows that one's bytes.
Seen(s) ==
  IF s.open \/ s.buffer \notin InUse THEN {s.ahead}
  ELSE {s.ahead} \cup {SubSeq(content[s.buffer], i, i + 1) : i \in 1 .. Capacity - 1}

ReadAhead(c) ==
  /\ Quiet /\ stream[c].pc = "ahead"
  /\ \E header \in Seen(stream[c]) : Becomes(c, Dispatch(stream[c], header))
  /\ UNCHANGED <<content, pooled, dead>>

-----------------------------------------------------------------------------
(* read(), read_view() and read_view_sync() *)

\* What the buffer holds is handed over.
Serve(c) ==
  LET s == stream[c]
      k == Min({Want(s) - Len(s.got), s.tail - s.head})
      t == [s EXCEPT !.got = @ \o SubSeq(content[s.buffer], s.head + 1, s.head + k),
                     !.head = @ + k]
  IN  /\ s.pc \in Reading /\ s.wait = "no" /\ s.open
      /\ k > 0 \/ Want(s) = Len(s.got)
      /\ IF Len(t.got) = Want(s)
         THEN \E u \in Goes(t, t.got) : Becomes(c, u)
         ELSE Becomes(c, t)
      /\ UNCHANGED <<content, pooled, dead>>

\* _fill_buffer(), or a receive straight into the result; the buffer is empty here.  What
\* arrives, and when, is up to the backend and the network.
Space(s) == IF Large(s) THEN Want(s) - Len(s.got) ELSE Capacity
Room(c) == Min({Space(stream[c]), Len(Wire[c]) - stream[c].received})
Chunks(c) == {k \in {1, Room(c)} : k > 0 /\ k <= Room(c)}   \* bound: not every size between
Filling(s) ==
  s.pc \in Reading /\ s.wait = "no" /\ s.open /\ s.head = s.tail /\ Len(s.got) < Want(s)

\* The kernel puts k bytes in their place; what lies behind them, nobody reads.
Received(c, k, s) ==
  /\ Becomes(c, [s EXCEPT !.received = @ + k])
  /\ IF Large(s) THEN UNCHANGED content
     ELSE content' = [content EXCEPT ![s.buffer] =
            [i \in 1 .. Capacity |-> IF i <= k THEN Wire[c][s.received + i] ELSE Nul]]

\* The reader learns how many.
Counted(c, s, k) ==
  IF Large(s) THEN [s EXCEPT !.got = @ \o SubSeq(Wire[c], s.received + 1, s.received + k)]
  ELSE [s EXCEPT !.head = 0, !.tail = k]

FillNow(c) ==
  /\ Filling(stream[c])
  /\ \E k \in Chunks(c) : Received(c, k, Counted(c, stream[c], k))
  /\ UNCHANGED <<pooled, dead>>

\* loop.sock_recv_into() finds nothing: the loop remembers who waits on the descriptor.
\* Where it still remembers a waiter of a descriptor that was closed, the new one takes
\* its entry, and the selector is never told.
Park(c) ==
  LET s == stream[c] IN
  /\ Filling(s)
  /\ Becomes(c, [s EXCEPT !.wait = "parked", !.head = 0, !.tail = 0])
  /\ dead' = [dead EXCEPT ![s.fd] = IF @ = None THEN None ELSE c]
  /\ UNCHANGED <<content, pooled>>

Deaf(c) == dead[stream[c].fd] = c

\* The loop sees that bytes, or the end of the stream, have arrived, and receives them.
\* The task itself runs later.
Arrive(c) ==
  LET s == stream[c] IN
  /\ Quiet /\ s.wait = "parked" /\ s.open /\ ~Deaf(c)
  /\ \E k \in Chunks(c) \cup {0} : Received(c, k, [s EXCEPT !.wait = "moved", !.moved = k])
  /\ UNCHANGED <<pooled, dead>>

\* At the end of the stream, or when the stream was closed meanwhile, read_view() raises;
\* read() hands over its whole result, whatever it holds.
Fails(s) == Ended([s EXCEPT !.partial_read = @ \/ s.got # <<>>], "failing")

\* Mutant: the end of the stream is not looked at.
ResumeAfterEof(c) ==
  LET s == stream[c]
      t == Counted(c, [s EXCEPT !.wait = "no", !.moved = 0, !.received = @ - s.moved], s.moved)
      known == [t EXCEPT !.received = s.received]
      zeros == [i \in 1 .. Want(s) - Len(s.got) |-> Nul]
  IN  /\ Quiet /\ s.wait = "moved"
      /\ \E u \in CASE s.open -> {known}
                  [] ~s.open /\ Large(s) /\ Len(t.got) = Want(s) -> Goes(known, t.got)
                  [] ~s.open /\ ~Large(s) /\ ~(s.pc = "payload" /\ s.is = "Y") ->
                       Goes(s, s.got \o zeros)
                  [] OTHER -> {Fails(s)} :
           Becomes(c, u)
      /\ UNCHANGED <<content, pooled, dead>>

Resume(c) ==
  LET s == stream[c]
      t == Counted(c, [s EXCEPT !.wait = "no", !.moved = 0, !.received = @ - s.moved], s.moved)
      known == [t EXCEPT !.received = s.received]
      zeros == [i \in 1 .. Want(s) - Len(s.got) |-> Nul]
  IN  /\ Quiet /\ s.wait = "moved"
      /\ \E u \in CASE s.moved = 0 -> {Fails(s)}
                  [] s.moved > 0 /\ s.open -> {known}
                  [] s.moved > 0 /\ ~s.open /\ Large(s) /\ Len(t.got) = Want(s) ->
                       Goes(known, t.got)
                  [] s.moved > 0 /\ ~s.open /\ ~Large(s) /\ ~(s.pc = "payload" /\ s.is = "Y") ->
                       Goes(s, s.got \o zeros)
                  [] OTHER -> {Fails(s)} :
           Becomes(c, u)
      /\ UNCHANGED <<content, pooled, dead>>

\* InterfaceError or OperationalError: the connection is closed by its own reader.
Fail(c) ==
  LET s == stream[c] IN
  /\ s.pc = "failing" \/ (s.pc \in Reading /\ s.wait = "no" /\ ~s.open)
  /\ Closes(c, Closed("failed"))
  /\ UNCHANGED <<content, dead>>

-----------------------------------------------------------------------------
(* What others do *)

\* A reader waits for bytes or yields to the loop.
Suspended(s) == s.wait # "no" \/ s.pc = "ahead"
Overtaken(s) == s.moved > 0 \/ s.pc = "ahead"

\* What a cancellation leaves of a read.  One that finds the bytes received and the task not
\* yet resumed loses them; one that finds a header read ahead loses the header.
Stopped(s, how) ==
  Ended([s EXCEPT !.partial_read = @ \/ s.got # <<>>, !.overtaken = @ \/ Overtaken(s)], how)

Stops(c, how) ==
  LET s == stream[c] IN
  /\ Becomes(c, Stopped(s, how))
  /\ dead' = [dead EXCEPT ![s.fd] = IF s.wait = "parked" /\ @ = c THEN None ELSE @]
  /\ UNCHANGED <<content, pooled>>

\* The task is cancelled from without, be it in the cancel() that follows a timeout: nobody
\* looks at the connection.
Cancel(c) ==
  /\ Quiet /\ (Suspended(stream[c]) \/ stream[c].pc = "late")
  /\ Stops(c, "cut")

\* The cursor's own timeout: wait_for() cancels the read, and the task sends a cancel request.
Timeout(c) ==
  /\ Quiet /\ Suspended(stream[c])
  /\ Stops(c, "late")

\* What _retire_if_desynced() goes by; _execute() and _is_reusable() see partial_read only.
PartialOnly(s) == s.partial_read                                     \* mutant
Noticed(s) == s.partial_read \/ s.frame_in_progress

\* When the request has been sent, or failed: _retire_if_desynced() and OperationalError
Retire(c) ==
  LET s == stream[c] IN
  /\ Quiet /\ s.pc = "late"
  /\ IF Noticed(s) \/ ~s.open THEN Closes(c, Closed("failed"))
     ELSE Becomes(c, [s EXCEPT !.pc = "kept"]) /\ UNCHANGED pooled
  /\ UNCHANGED <<content, dead>>

\* Connection.close() does not tell the loop about a read that waits.
Close(c) ==
  LET s == stream[c] IN
  /\ Quiet /\ s.open /\ (Suspended(s) \/ s.pc \in {"late", "done", "cut", "kept"})
  /\ Closes(c, IF Suspended(s) THEN [s EXCEPT !.overtaken = @ \/ Overtaken(s)]
                ELSE Closed(s.pc))
  /\ dead' = [dead EXCEPT ![s.fd] = IF s.wait = "parked" THEN c ELSE @]
  /\ UNCHANGED <<content>>

-----------------------------------------------------------------------------

Reader(c) ==
  \/ Serve(c) \/ FillNow(c) \/ Park(c) \/ Arrive(c) \/ Resume(c)
  \/ Decode(c) \/ ReadAhead(c) \/ Retire(c) \/ Fail(c)

Next ==
  \/ \E c \in Conns :
       Open(c) \/ Reader(c) \/ Cancel(c) \/ Timeout(c) \/ Close(c)
  \/ UNCHANGED vars                     \* nobody need do anything more

Spec == Init /\ [][Next]_vars

-----------------------------------------------------------------------------
(* Safety *)

\* However the bytes come, through whatever buffer, in batches or one by one, what is handed
\* out is the rows of the backend in order, and a result that ends has all of them; after
\* an interruption the reader did not notice it is not those of another connection either.
RowsInOrder ==
  \A c \in Conns :
    LET s == stream[c] IN
    /\ ~s.overtaken => IsPrefix(s.rows, RowsOf(c)) /\ (s.pc = "done" /\ s.open => s.rows = RowsOf(c))
    /\ \A i \in DOMAIN s.rows : \A j \in DOMAIN s.rows[i] : s.rows[i][j].of \in {c, None}

\* A receive buffer belongs to one open connection, or waits once in the pool.
BuffersExclusive ==
  /\ \A c, d \in Conns :
       c # d /\ stream[c].open /\ stream[d].open => stream[c].buffer # stream[d].buffer
  /\ \A i, j \in DOMAIN pooled : i # j => pooled[i] # pooled[j]
  /\ \A i \in DOMAIN pooled : pooled[i] \notin InUse

\* Where the next read would begin
Position(s) == s.received + 1 - (s.tail - s.head)

\* "A read cancelled or timed out mid-frame now retires the connection" (CHANGELOG.md):
\* a connection that is kept after either stands at the beginning of a message.
EveryCutIsNoticed ==
  \A c \in Conns : LET s == stream[c] IN
    s.open /\ ~s.partial_read /\ s.pc \in {"cut", "kept"} => Position(s) \in Starts(c)

\* Where the interruption finds the task waiting for bytes it is so after the cursor's own
\* timeout.  After a cancellation from without nobody looks at _frame_in_progress: the
\* connection that is kept may stand behind a header, but nowhere else within a message.
CutIsNoticed ==
  \A c \in Conns : LET s == stream[c] IN
    s.open /\ ~s.overtaken =>
      /\ s.pc = "kept" => Position(s) \in Starts(c)
      /\ s.pc = "cut" /\ ~s.partial_read =>
           Position(s) \in Starts(c) \cup {p + 2 : p \in Starts(c)}

-----------------------------------------------------------------------------
(* Liveness: the loop runs its tasks, a backend sends all or goes away, and a cancel       *)
(* request is answered or fails.                                                          *)

Fairness == \A c \in Conns : WF_vars(Reader(c))

FairSpec == Spec /\ Fairness

\* Its connection was closed by another task, or its descriptor was once closed like that.
Stranded(c) == stream[c].wait = "parked" /\ (~stream[c].open \/ Deaf(c))

\* Every result ends, by its last message, a cancellation, a timeout or an error.
ResultsEnd ==
  \A c \in Conns : stream[c].open ~> stream[c].pc \in {"done", "cut", "kept", "failed"} \/ Stranded(c)

=============================================================================
