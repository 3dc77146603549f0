----------------------------- MODULE ResultSets -----------------------------
(***************************************************************************)
(* The cursors of one connection and the result of a statement of several  *)
(* SELECTs: Cursor.execute, fetchone, fetchall, nextset and close          *)
(* (cursor.py), the states the reader yields (_protocol.py) and what       *)
(* _execute does to the cursor it takes the connection from (core.py).     *)
(* fetchmany() and iteration are fetchone() repeated.                      *)
(*                                                                         *)
(* The whole response has arrived; Session is about the time it takes.     *)
(* One step of a call handles one message.                                 *)
(***************************************************************************)
EXTENDS Naturals, Sequences

CONSTANTS
  Cursors,
  Responses,      \* what the backend may answer to a statement
  Calls,          \* the fetch methods the application uses
  MaxExecutes,    \* bound: statements executed
  NoCursor

ASSUME ResultSetsAssumption ==
  /\ NoCursor \notin Cursors
  /\ Calls \subseteq {"one", "all", "next", "close"}
  /\ MaxExecutes \in Nat

VARIABLES
  wire,        \* what the reader has still to read
  active,      \* _active_cursor
  reading,     \* _active_generator is set
  deferred,    \* _deferred_decode_error
  cached,      \* Cursor.cached_rows
  generator,   \* Cursor.generator is set; it has ended unless the cursor is active
  columns,     \* Cursor.ps describes columns
  discarded,   \* Cursor._discarded
  pc, who,     \* the call in progress and its cursor
  rows,        \* what fetchall() has collected
  executes,
  \* history
  asked,       \* the response to the cursor's statement
  told,        \* the result set the application must take the cursor to be in
  over,        \* it was told the end of that result set
  manner,      \* how it fetched so far, see Manner
  finished,    \* what it got when the response ended
  lost,        \* rows of the cursor were dropped for another statement
  out,         \* the rows it was given
  ret          \* what the last call gave it

conn == <<wire, active, reading, deferred>>
cursor == <<cached, generator, columns, discarded>>
call == <<pc, who, rows>>
statement == <<executes, asked, lost>>
progress == <<told, over, finished, out>>
vars == <<conn, cursor, call, statement, manner, progress, ret>>

Result(c, what, of) == [by |-> c, what |-> what, rows |-> of]

Init ==
  /\ wire = <<>> /\ active = NoCursor /\ reading = FALSE /\ deferred = FALSE
  /\ cached = [c \in Cursors |-> <<>>]
  /\ generator = [c \in Cursors |-> FALSE]
  /\ columns = [c \in Cursors |-> FALSE]
  /\ discarded = [c \in Cursors |-> FALSE]
  /\ pc = "idle" /\ who = NoCursor /\ rows = <<>> /\ executes = 0
  /\ asked = [c \in Cursors |-> <<>>]
  /\ told = [c \in Cursors |-> 0]
  /\ over = [c \in Cursors |-> FALSE]
  /\ manner = [c \in Cursors |-> "all"]
  /\ finished = [c \in Cursors |-> "no"]
  /\ lost = [c \in Cursors |-> FALSE]
  /\ out = [c \in Cursors |-> <<>>]
  /\ ret = Result(NoCursor, "none", <<>>)

-----------------------------------------------------------------------------
(* The backend's messages: T describes columns, X a table's columns, then its *)
(* rows and C; E is an error and Z ends the response.                         *)

Message(tag, set, n) == [tag |-> tag, set |-> set, n |-> n]

\* Result set i; good[k] tells whether its k-th row can be decoded.  A SELECT from
\* a table has the dbos format, one from constants the text format.
ResultSet(format, i, good) ==
  <<Message("T", i, 0)>>
  \o (IF format = "dbos" THEN <<Message("X", i, 0)>> ELSE <<>>)
  \o [k \in DOMAIN good |-> Message(IF good[k] THEN "row" ELSE "bad", i, 10 * i + k)]
  \o <<Message("C", i, 0)>>

Modified == <<Message("C", 0, 0)>>
Finished == <<Message("Z", 0, 0)>>
Failed == <<Message("E", 0, 0)>> \o Finished

IsRow(m) == m.tag = "row"
Has(tag, messages) == \E i \in DOMAIN messages : messages[i].tag = tag
Elements(s) == {s[k] : k \in DOMAIN s}
RowsOf(i, messages) == {m \in Elements(messages) : IsRow(m) /\ m.set = i}
Ids(messages) == [k \in DOMAIN messages |-> messages[k].n]

Messages == [tag : {"T", "X", "row", "bad", "C", "E", "Z"}, set : Nat, n : Nat]

\* Two messages of one response, the one before the other: result sets come one
\* after the other, and the rows as they are numbered.
InOrder(m, later) ==
  /\ {m.tag, later.tag} \subseteq {"T", "X", "row"} => m.set <= later.set
  /\ m.tag \in {"T", "X", "row"} /\ later.tag = "T" => m.set < later.set
  /\ IsRow(m) /\ IsRow(later) => m.n < later.n

\* A response ends with its only ReadyForQuery; rows come behind a description and
\* a table's columns right behind it.
WellFormed(response) ==
  /\ response \in Seq(Messages) /\ response # <<>>
  /\ \A i \in DOMAIN response :
       LET m == response[i] IN
       /\ m.tag = "Z" <=> i = Len(response)
       /\ m.tag = "T" => m.set >= 1
       /\ m.tag = "X" => i > 1 /\ response[i - 1].tag = "T" /\ response[i - 1].set = m.set
       /\ m.tag \in {"X", "row", "bad"} => \E j \in 1 .. i - 1 : response[j].tag = "T"
       /\ \A j \in i + 1 .. Len(response) : InOrder(m, response[j])

ASSUME ResponsesAssumption == \A response \in Responses : WellFormed(response)

-----------------------------------------------------------------------------
(* Connection._execute() *)

Set(f, c, value) == f' = [f EXCEPT ![c] = value]

\* clear() drains the cursor's own generator, and _active_generator is unset even
\* when that generator had ended and another cursor's is the active one.
\* Mutant: only rows that were read already count.
LoserCachedOnly(c) == {d \in Cursors \ {c} : d = active /\ cached[d] # <<>>}
Loser(c) ==
  {d \in Cursors \ {c} : d = active /\ ((reading /\ ~generator[c]) \/ cached[d] # <<>>)}

\* What is left of the response before is dropped, with its deferred error.
Forget == deferred' = FALSE

Execute(c, response) ==
  /\ pc = "idle" /\ executes < MaxExecutes
  /\ executes' = executes + 1
  /\ Forget
  /\ wire' = response /\ active' = c /\ reading' = TRUE
  /\ cached' = [d \in Cursors |-> IF d \in {active, c} THEN <<>> ELSE cached[d]]
  /\ generator' = [d \in Cursors |-> d = c \/ (generator[d] /\ d # active)]
  /\ discarded' = [d \in Cursors |-> d # c /\ (discarded[d] \/ d \in Loser(c))]
  /\ Set(columns, c, FALSE)
  /\ pc' = "executing" /\ who' = c /\ rows' = <<>>
  /\ lost' = [d \in Cursors |->
                d # c /\ (lost[d] \/ (d = active /\ (Has("row", wire) \/ cached[d] # <<>>)))]
  /\ Set(asked, c, response) /\ Set(told, c, 1) /\ Set(over, c, FALSE)
  /\ Set(manner, c, "all") /\ Set(finished, c, "no") /\ Set(out, c, <<>>)
  /\ ret' = Result(c, "none", <<>>)

-----------------------------------------------------------------------------
(* The fetch methods, up to their loop over the generator *)

\* History: "strayed" once the application fetches after the end of a result set,
\* calls nextset() before it, or calls fetchall() first thing in a later result
\* set when fetchone() told it the end of one before.
Manner(c, method) ==
  IF \/ manner[c] = "strayed"
     \/ over[c] # (method = "next")
     \/ method = "all" /\ manner[c] = "one" /\ told[c] > 1
  THEN "strayed"
  ELSE IF method = "one" THEN "one" ELSE manner[c]

\* _anext_internal(): a row that was read before
FetchCached(c) ==
  /\ pc = "idle" /\ ~discarded[c] /\ cached[c] # <<>>
  /\ Set(manner, c, Manner(c, "one"))
  /\ Set(cached, c, Tail(cached[c]))
  /\ Set(out, c, Append(out[c], Head(cached[c]).n))
  /\ ret' = Result(c, "row", <<Head(cached[c])>>)
  /\ UNCHANGED <<conn, generator, columns, discarded, call, statement, told, over, finished>>

\* The loop begins; with an ended generator the call is FetchNothing.
Begin(c, where) ==
  /\ pc = "idle" /\ ~discarded[c] /\ generator[c] /\ active = c
  /\ Set(manner, c, Manner(c, where))
  /\ pc' = where /\ who' = c
  /\ ret' = Result(c, "none", <<>>)
  /\ UNCHANGED <<conn, generator, columns, discarded, statement, progress>>

FetchOne(c) ==
  \/ FetchCached(c)
  \/ cached[c] = <<>> /\ Begin(c, "one") /\ UNCHANGED <<rows, cached>>

\* Mutant: the rows read before stay in the cache.
FetchAllKeepsCache(c) == Begin(c, "all") /\ rows' = cached[c] /\ UNCHANGED cached
\* Mutant: and are not given.
FetchAllSkipsCache(c) == Begin(c, "all") /\ rows' = <<>> /\ UNCHANGED cached
FetchAll(c) == Begin(c, "all") /\ rows' = cached[c] /\ Set(cached, c, <<>>)

NextSet(c) == Begin(c, "next") /\ Set(cached, c, <<>>) /\ UNCHANGED rows

\* _ensure_results()
FetchDiscarded(c) ==
  /\ pc = "idle" /\ discarded[c]
  /\ ret' = Result(c, "discarded", <<>>)
  /\ UNCHANGED <<conn, cursor, call, statement, manner, progress>>

\* Without a generator, or with one that has ended, there is nothing to read; a
\* cursor without columns raises, others are at the end.
FetchNothing(c, method) ==
  /\ pc = "idle" /\ ~discarded[c] /\ cached[c] = <<>>
  /\ ~generator[c] \/ active # c
  /\ Set(generator, c, FALSE)
  /\ ret' = Result(c, IF ~generator[c] /\ method # "next" /\ ~columns[c]
                      THEN "no result" ELSE "end", <<>>)
  /\ UNCHANGED <<conn, cached, columns, discarded, call, statement, manner, progress>>

\* Cursor.close() reads and drops the rest of its result, and unsets
\* _active_generator if the cursor has a generator at all.  The application then
\* takes a new cursor, which is called c again.
CloseCursor(c) ==
  /\ pc = "idle"
  /\ IF active = c
     THEN /\ wire' = <<>> /\ active' = NoCursor
          /\ deferred' = (deferred \/ Has("bad", wire))
     ELSE UNCHANGED <<wire, active, deferred>>
  /\ reading' = (reading /\ ~generator[c])
  /\ Set(generator, c, FALSE) /\ Set(cached, c, <<>>) /\ Set(columns, c, FALSE)
  /\ Set(discarded, c, FALSE) /\ Set(lost, c, FALSE) /\ Set(asked, c, <<>>)
  /\ Set(told, c, 0) /\ Set(over, c, FALSE) /\ Set(manner, c, "all")
  /\ Set(finished, c, "no") /\ Set(out, c, <<>>)
  /\ ret' = Result(c, "none", <<>>)
  /\ UNCHANGED <<call, executes>>

-----------------------------------------------------------------------------
(* The loops, one message at a time *)

msg == Head(wire)

\* What the reader does with a message before it yields
Handled ==
  /\ wire' = Tail(wire)
  /\ deferred' = (deferred \/ msg.tag = "bad")
  /\ IF msg.tag \in {"T", "X"} THEN Set(columns, who, TRUE) ELSE UNCHANGED columns
  /\ UNCHANGED <<active, reading>>

Cache == IF IsRow(msg) THEN Set(cached, who, Append(cached[who], msg)) ELSE UNCHANGED cached
Stays == UNCHANGED <<pc, who, ret, progress>>
Gives(what, of) == pc' = "idle" /\ who' = NoCursor /\ ret' = Result(who, what, of)
GivesRows(of) ==
  /\ Gives("rows", of)
  /\ Set(out, who, out[who] \o Ids(of))

\* The rest of the response is drained and the server's error raised.
\* Mutant: the rest is left on the wire.
RaisesUndrained ==
  /\ msg.tag = "E"
  /\ wire' = Tail(wire) /\ active' = NoCursor /\ reading' = FALSE
  /\ Set(generator, who, FALSE) /\ Set(finished, who, "server error")
  /\ Gives("server error", <<>>)
  /\ UNCHANGED <<deferred, columns, cached, rows, told, over, out>>
Raises ==
  /\ msg.tag = "E"
  /\ wire' = <<>> /\ active' = NoCursor /\ reading' = FALSE
  /\ Set(generator, who, FALSE) /\ Set(finished, who, "server error")
  /\ Gives("server error", <<>>)
  /\ UNCHANGED <<deferred, columns, cached, rows, told, over, out>>

\* ReadyForQuery: a value error that was put off is raised now.
EndOfResponse ==
  /\ msg.tag = "Z"
  /\ wire' = Tail(wire) /\ active' = NoCursor /\ reading' = FALSE
  /\ deferred' = FALSE
  /\ Set(over, who, TRUE)
  /\ UNCHANGED <<columns, cached, rows, told>>

\* Mutant: the call that reads the end drops the error.
EndsSilently(what) ==
  /\ EndOfResponse
  /\ Gives(what, <<>>) /\ Set(finished, who, "end")
  /\ UNCHANGED out
Ends(what) ==
  /\ EndOfResponse
  /\ Gives(IF deferred THEN "value error" ELSE what, <<>>)
  /\ Set(finished, who, IF deferred THEN "value error" ELSE "end")
  /\ UNCHANGED out

\* execute() stops at the first row, or at a table's columns.
ExecuteReads ==
  /\ pc = "executing"
  /\ \/ Raises
     \/ Ends("none") /\ UNCHANGED generator
     \/ /\ msg.tag \in {"X", "row", "bad"} /\ Handled /\ Cache
        /\ Gives("none", <<>>)
        /\ UNCHANGED <<generator, rows, progress>>
     \/ /\ msg.tag \in {"T", "C"} /\ Handled
        /\ Stays /\ UNCHANGED <<generator, rows, cached>>

\* What fetchone() reads over: descriptions, and a row that cannot be decoded.
PassedOver == {"bad", "T", "X"}

FetchOneReads ==
  /\ pc = "one" /\ UNCHANGED rows
  /\ \/ Raises
     \/ Ends("end") /\ Set(generator, who, FALSE)
     \/ /\ IsRow(msg) /\ Handled
        /\ Gives("row", <<msg>>) /\ Set(out, who, Append(out[who], msg.n))
        /\ UNCHANGED <<generator, cached, told, over, finished>>
     \/ /\ msg.tag = "C" /\ Handled
        /\ Gives("end", <<>>) /\ Set(over, who, TRUE)
        /\ UNCHANGED <<generator, cached, told, out, finished>>
     \/ /\ msg.tag \in PassedOver /\ Handled
        /\ Stays /\ UNCHANGED <<generator, cached>>

\* fetchall() stops at the next description.
FetchAllReads ==
  /\ pc = "all" /\ UNCHANGED cached
  /\ \/ Raises
     \/ deferred /\ Ends("rows") /\ Set(generator, who, FALSE)
     \/ /\ ~deferred /\ EndOfResponse /\ GivesRows(rows)
        /\ Set(finished, who, "end") /\ Set(generator, who, FALSE)
     \/ /\ msg.tag \in {"row", "bad", "C"} /\ Handled
        /\ rows' = IF IsRow(msg) THEN Append(rows, msg) ELSE rows
        /\ Stays /\ UNCHANGED generator
     \/ /\ msg.tag \in {"T", "X"} /\ Handled
        /\ GivesRows(rows) /\ Set(over, who, TRUE)
        /\ UNCHANGED <<generator, rows, told, finished>>

\* nextset() stops at a description or a row.
NextSetReads ==
  /\ pc = "next"
  /\ \/ Raises
     \/ Ends("end") /\ Set(generator, who, FALSE)
     \/ /\ msg.tag \in {"T", "X", "row", "bad"} /\ Handled /\ Cache
        /\ Gives("true", <<>>) /\ Set(told, who, told[who] + 1) /\ Set(over, who, FALSE)
        /\ UNCHANGED <<generator, rows, out, finished>>
     \/ /\ msg.tag = "C" /\ Handled
        /\ Stays /\ UNCHANGED <<generator, cached, rows>>

Reads ==
  /\ ExecuteReads \/ FetchOneReads \/ FetchAllReads \/ NextSetReads
  /\ UNCHANGED <<discarded, statement, manner>>

-----------------------------------------------------------------------------

Fetch(c) ==
  \/ "one" \in Calls /\ FetchOne(c)
  \/ "all" \in Calls /\ FetchAll(c)
  \/ "next" \in Calls /\ NextSet(c)
  \/ "close" \in Calls /\ CloseCursor(c)
  \/ FetchDiscarded(c)
  \/ \E method \in Calls \ {"close"} : FetchNothing(c, method)

Next ==
  \/ \E c \in Cursors, response \in Responses : Execute(c, response)
  \/ \E c \in Cursors : Fetch(c)
  \/ Reads

Spec == Init /\ [][Next]_vars

-----------------------------------------------------------------------------
(* Properties *)

\* The type invariant; and every unread message belongs to the active cursor's
\* statement, which has a generator to read it.
TypeOK ==
  /\ wire # <<>> <=> active # NoCursor
  /\ active # NoCursor => generator[active]
  /\ reading => active # NoCursor
  /\ pc = "idle" <=> who = NoCursor
  /\ wire \in Seq(Messages) /\ rows \in Seq(Messages)
  /\ active \in Cursors \cup {NoCursor} /\ who \in Cursors \cup {NoCursor}
  /\ reading \in BOOLEAN /\ deferred \in BOOLEAN
  /\ cached \in [Cursors -> Seq(Messages)] /\ asked \in [Cursors -> Seq(Messages)]
  /\ generator \in [Cursors -> BOOLEAN] /\ columns \in [Cursors -> BOOLEAN]
  /\ discarded \in [Cursors -> BOOLEAN] /\ lost \in [Cursors -> BOOLEAN]
  /\ pc \in {"idle", "executing", "one", "all", "next"}
  /\ executes \in 0..MaxExecutes
  /\ told \in [Cursors -> Nat] /\ over \in [Cursors -> BOOLEAN]
  /\ manner \in [Cursors -> {"all", "one", "strayed"}]
  /\ finished \in [Cursors -> {"no", "end", "value error", "server error"}]
  /\ out \in [Cursors -> Seq(Nat)]
  /\ ret \in [by : Cursors \cup {NoCursor}, rows : Seq(Messages),
              what : {"none", "row", "rows", "end", "true", "discarded", "no result",
                      "server error", "value error"}]

\* Whatever the calls and their order, no row is given twice or out of order.
RowsInOrder ==
  \A c \in Cursors : \A i, j \in DOMAIN out[c] : i < j => out[c][i] < out[c][j]

\* A cursor that lost rows to another statement never answers a fetch as if it
\* had come to the end: it raises until it is executed again.
DiscardIsLoud == ret.what \in {"row", "rows", "end", "true"} => ~lost[ret.by]

\* The application never reads to the end of a response from which a row is
\* missing without an error, and an error concerns the statement the cursor
\* executed, not one before.
ValueErrorsAreExact ==
  /\ \A c \in Cursors : finished[c] = "end" => ~Has("bad", asked[c])
  /\ ret.what = "value error" => Has("bad", asked[ret.by])

\* When fetchall() returns to an application that fetches each result set to its
\* end and then calls nextset(), it has been given every row of the set.
FetchAllIsComplete ==
  ret.what = "rows" /\ manner[ret.by] # "strayed" =>
    \A m \in RowsOf(told[ret.by], asked[ret.by]) : m.n \in Elements(out[ret.by])

=============================================================================
