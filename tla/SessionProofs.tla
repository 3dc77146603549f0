--------------------------- MODULE SessionProofs ---------------------------
(***************************************************************************)
(* Proofs about Session for any statements and any number of them, any     *)
(* calls of cancel(), with and without timeouts, cancelled tasks, implicit *)
(* transactions and a backend that may die.                                *)
(*                                                                         *)
(* Three properties share one invariant.  At most one statement is on its  *)
(* way, the last one that was sent; the end of its response is the end of  *)
(* what is on the wire; a message that was cut ends the connection; and    *)
(* the one outcome that is on the wire, if there is one, is what the       *)
(* connection has yet to learn of the transaction.  What a history was     *)
(* lost for (see Safety in Session) the invariant does not speak of.       *)
(***************************************************************************)
EXTENDS Session, TLAPS

-----------------------------------------------------------------------------
(* The invariant                                                               *)

Kinds == {"query", "begin", "commit", "rollback"}
Verdicts == {"error", "ABORT", "BEGIN", "COMMIT", "ROLLBACK"}
Tags == {"desc", "row", "DONE", "ready", Debris} \cup Verdicts
Message == [tag : Tags, of : Nat]
Requests == [what : Kinds \cup {Fragment}, of : Nat]

\* A call at these places has a statement to run.
Working == {"preparing", "draining", "starting", "padding", "writing", "reading", "returned"}

Typed ==
  /\ wire \in Seq(Message) /\ inbox \in Seq(Requests)
  /\ running \in [what : Kinds \cup {"nothing"}, of : Nat, sent : BOOLEAN]
  /\ command_generation \in Nat
  /\ todo \in Seq(Kinds)
  /\ transaction \in {"none", "open", "failed"}

Called ==
  /\ pc \in Working => todo # <<>>
  /\ pc \in {"idle", "fetching", "fetching all"} => todo = <<>>
  /\ pc = "clearing" => Len(todo) <= 1
  /\ Len(todo) <= 2
  /\ pc = "awaiting cancel" => exec_gen = command_generation
  /\ running # Nothing => running.what \in Kinds

Empty == wire = <<>> /\ running = Nothing /\ inbox = <<>>

\* One statement at most is on its way, and it is the last one that was sent.
OneStatement ==
  /\ \A i \in DOMAIN wire : wire[i].of = command_generation
  /\ \A i \in DOMAIN wire : wire[i].tag = "ready" =>
       i = Len(wire) /\ running = Nothing /\ inbox = <<>>
  /\ running # Nothing => running.of = command_generation /\ inbox = <<>>
  /\ inbox # <<>> =>
       /\ running = Nothing /\ wire = <<>>
       /\ Len(inbox) = 1 /\ Head(inbox).of = command_generation

\* A response is owed unless nothing is on its way.
Owed ==
  /\ ~dirty_socket => Empty
  /\ pc \in {"starting", "padding"} => ~dirty_socket
  /\ pc = "writing" => dirty_socket /\ Empty

Retiring == {"cancelling", "awaiting cancel", "retiring"}

\* A message that was cut ends the connection.
CutsEnd ==
  HasDebris(wire) =>
    \/ pc \in Retiring /\ (frame_in_progress \/ partial_read)
    \/ pc = "idle" /\ closed

\* What a message makes of the connection's view of the transaction
InAfter(tag) == tag \in {"BEGIN", "ABORT"} \/ (in_transaction /\ tag \notin {"COMMIT", "ROLLBACK"})
FailedAfter(tag) ==
  \/ tag = "ABORT"
  \/ tag = "error" /\ in_transaction
  \/ transaction_failed /\ tag \notin {"BEGIN", "COMMIT", "ROLLBACK"}

\* Once the connection has read this, its view is the backend's.
Told(tag) ==
  (InAfter(tag) <=> transaction # "none") /\ (FailedAfter(tag) <=> transaction = "failed")

Tracked ==
  up /\ "outcome" \notin lost /\ ~HasDebris(wire) =>
    /\ \A i \in DOMAIN wire : wire[i].tag \in Verdicts =>
         /\ i = Len(wire) - 1 /\ wire[Len(wire)].tag = "ready"
         /\ Told(wire[i].tag)
    /\ (\A i \in DOMAIN wire : wire[i].tag \notin Verdicts) => Told("row")

\* The answer to the implicit BEGIN: it returns only where the backend has begun a
\* transaction.
BeginAnswered ==
  /\ \A i \in DOMAIN inbox : inbox[i].what = "begin"
  /\ running # Nothing => running.what = "begin"
  /\ \A i \in DOMAIN wire : wire[i].tag \in {"BEGIN", "ABORT", "error", "ready"}
  /\ wire # <<>> /\ Head(wire).tag = "ready" => in_transaction

Begun ==
  Len(todo) > 1 =>
    /\ Head(todo) = "begin"
    /\ pc = "reading" => BeginAnswered
    /\ pc = "returned" => in_transaction

InOrder == OneStatement /\ Owed /\ CutsEnd /\ Tracked /\ Begun

\* A cancel request that is under way is awaited.
Awaited ==
  \A g \in cancels : g = Nobody \/ (pc = "awaiting cancel" /\ g = command_generation)

IInv ==
  /\ Typed /\ Called
  /\ "frame" \notin lost => InOrder
  /\ "cancel" \notin lost => Awaited
-----------------------------------------------------------------------------
(* Messages and sequences                                                      *)

\* Reading takes the first message.
LEMMA Shorter ==
  ASSUME NEW S, NEW s \in Seq(S), s # <<>>
  PROVE  /\ Tail(s) \in Seq(S) /\ Head(s) \in S /\ Len(s) \in Nat /\ Len(s) >= 1
         /\ Len(Tail(s)) = Len(s) - 1
         /\ \A i \in DOMAIN Tail(s) : i + 1 \in DOMAIN s /\ Tail(s)[i] = s[i + 1]
         /\ 1 \in DOMAIN s /\ Head(s) = s[1]
OBVIOUS

\* A backend that dies leaves a prefix.
LEMMA Prefix ==
  ASSUME NEW S, NEW s \in Seq(S), NEW n \in 0 .. Len(s)
  PROVE  /\ SubSeq(s, 1, n) \in Seq(S) /\ Len(SubSeq(s, 1, n)) = n
         /\ \A i \in DOMAIN SubSeq(s, 1, n) : i \in DOMAIN s /\ SubSeq(s, 1, n)[i] = s[i]
OBVIOUS

LEMMA Joined ==
  ASSUME NEW s \in Seq(Message), NEW t \in Seq(Message)
  PROVE  /\ s \o t \in Seq(Message) /\ Len(s \o t) = Len(s) + Len(t)
         /\ DOMAIN s = 1 .. Len(s) /\ DOMAIN (s \o t) = 1 .. Len(s) + Len(t)
         /\ Len(s) \in Nat /\ Len(t) \in Nat
         /\ \A i \in 1 .. Len(s) : (s \o t)[i] = s[i]
         /\ \A i \in 1 .. Len(t) : (s \o t)[Len(s) + i] = t[i]
OBVIOUS

LEMMA OneMessage ==
  ASSUME NEW a, NEW of
  PROVE  /\ Messages(<<a>>, of) = <<[tag |-> a, of |-> of]>>
BY DEF Messages

LEMMA TwoMessages ==
  ASSUME NEW a, NEW b, NEW of
  PROVE  Messages(<<a, b>>, of) = <<[tag |-> a, of |-> of], [tag |-> b, of |-> of]>>
BY DEF Messages

LEMMA Pushed ==
  ASSUME NEW w \in Seq(Message), NEW m \in Message, NEW n \in Message
  PROVE  /\ w \o <<m, n>> \in Seq(Message) /\ Len(w \o <<m, n>>) = Len(w) + 2
         /\ DOMAIN (w \o <<m, n>>) = 1 .. Len(w) + 2 /\ DOMAIN w = 1 .. Len(w)
         /\ \A i \in 1 .. Len(w) : (w \o <<m, n>>)[i] = w[i]
         /\ (w \o <<m, n>>)[Len(w) + 1] = m /\ (w \o <<m, n>>)[Len(w) + 2] = n
<1>1. <<m, n>> \in Seq(Message) /\ Len(<<m, n>>) = 2 /\ <<m, n>>[1] = m /\ <<m, n>>[2] = n
  OBVIOUS
<1>2. PICK t \in Seq(Message) : t = <<m, n>> BY <1>1
<1>3. Len(t) = 2 /\ t[1] = m /\ t[2] = n BY <1>1, <1>2
<1>4. /\ w \o t \in Seq(Message) /\ Len(w \o t) = Len(w) + Len(t)
      /\ DOMAIN (w \o t) = 1 .. Len(w) + Len(t) /\ DOMAIN w = 1 .. Len(w) /\ Len(w) \in Nat
      /\ \A i \in 1 .. Len(w) : (w \o t)[i] = w[i]
      /\ \A i \in 1 .. Len(t) : (w \o t)[Len(w) + i] = t[i]
  BY Joined, Zenon
<1>5. 1 \in 1 .. Len(t) /\ 2 \in 1 .. Len(t) BY <1>3
<1>6. QED BY <1>2, <1>3, <1>4, <1>5

LEMMA Ahead ==
  ASSUME NEW t \in Seq(Message), NEW m \in Message
  PROVE  /\ <<m>> \o t \in Seq(Message) /\ Len(<<m>> \o t) = 1 + Len(t)
         /\ DOMAIN (<<m>> \o t) = 1 .. 1 + Len(t)
         /\ 1 \in DOMAIN (<<m>> \o t) /\ (<<m>> \o t)[1] = m
         /\ \A i \in 1 .. Len(t) : (<<m>> \o t)[1 + i] = t[i]
<1>1. <<m>> \in Seq(Message) /\ Len(<<m>>) = 1 /\ <<m>>[1] = m OBVIOUS
<1>2. PICK s \in Seq(Message) : s = <<m>> BY <1>1
<1>3. Len(s) = 1 /\ s[1] = m /\ Len(t) \in Nat BY <1>1, <1>2
<1>4. /\ s \o t \in Seq(Message) /\ Len(s \o t) = Len(s) + Len(t)
      /\ DOMAIN (s \o t) = 1 .. Len(s) + Len(t)
      /\ \A i \in 1 .. Len(s) : (s \o t)[i] = s[i]
      /\ \A i \in 1 .. Len(t) : (s \o t)[Len(s) + i] = t[i]
  BY Joined, Zenon
<1>5. 1 \in 1 .. Len(s) /\ 1 \in 1 .. Len(s) + Len(t) BY <1>3
<1>6. QED BY <1>2, <1>3, <1>4, <1>5

Followed(w, a, b, of) == w \o Messages(<<a, b>>, of)
Cropped(w) == Messages(<<Debris>>, Head(w).of) \o Tail(w)

\* The backend sends two messages for one statement.
TwoMore(w2, w, a, b, of) ==
  /\ w2 \in Seq(Message) /\ Len(w2) = Len(w) + 2
  /\ \A i \in DOMAIN w : w2[i] = w[i]
  /\ DOMAIN w2 = 1 .. Len(w) + 2 /\ DOMAIN w = 1 .. Len(w)
  /\ w2[Len(w) + 1] = [tag |-> a, of |-> of]
  /\ w2[Len(w) + 2] = [tag |-> b, of |-> of]

LEMMA Sent ==
  ASSUME NEW w \in Seq(Message), NEW a \in Tags, NEW b \in Tags, NEW of \in Nat,
         NEW w2, w2 = Followed(w, a, b, of)
  PROVE  TwoMore(w2, w, a, b, of)
<1> DEFINE m == [tag |-> a, of |-> of]
           n == [tag |-> b, of |-> of]
<1>1. m \in Message /\ n \in Message BY DEF Message
<1>2. w2 = w \o <<m, n>> BY TwoMessages DEF Followed
<1> HIDE DEF m, n
<1>3. /\ w2 \in Seq(Message) /\ Len(w2) = Len(w) + 2
      /\ \A i \in DOMAIN w : w2[i] = w[i]
      /\ DOMAIN w2 = 1 .. Len(w) + 2 /\ DOMAIN w = 1 .. Len(w)
      /\ w2[Len(w) + 1] = m /\ w2[Len(w) + 2] = n
  <2>1. /\ w \o <<m, n>> \in Seq(Message) /\ Len(w \o <<m, n>>) = Len(w) + 2
        /\ DOMAIN (w \o <<m, n>>) = 1 .. Len(w) + 2 /\ DOMAIN w = 1 .. Len(w)
        /\ \A i \in 1 .. Len(w) : (w \o <<m, n>>)[i] = w[i]
        /\ (w \o <<m, n>>)[Len(w) + 1] = m /\ (w \o <<m, n>>)[Len(w) + 2] = n
    BY <1>1, Pushed
  <2>2. QED BY <2>1, <1>2, Zenon
<1>4. QED BY <1>3 DEF m, n, TwoMore

\* The first message of the wire was cut.
LEMMA CutFirst ==
  ASSUME NEW w \in Seq(Message), w # <<>>,
         NEW w2, w2 = Cropped(w)
  PROVE  /\ w2 \in Seq(Message) /\ Len(w2) = Len(w) /\ HasDebris(w2)
         /\ DOMAIN w2 = 1 .. Len(w) /\ DOMAIN w = 1 .. Len(w)
         /\ w2[1] = [tag |-> Debris, of |-> w[1].of]
         /\ \A i \in 2 .. Len(w) : w2[i] = w[i]
<1> DEFINE m == [tag |-> Debris, of |-> w[1].of]
<1>1. w[1] \in Message /\ Head(w) = w[1] OBVIOUS
<1>2. w[1].of \in Nat BY <1>1 DEF Message
<1>3. m \in Message /\ m.tag = Debris BY <1>2 DEF Message, Tags
<1>4. w2 = <<m>> \o Tail(w) BY <1>1, OneMessage DEF Cropped
<1> HIDE DEF m
<1>5. /\ Tail(w) \in Seq(Message) /\ Len(Tail(w)) = Len(w) - 1 /\ Len(w) \in Nat /\ Len(w) >= 1
      /\ DOMAIN w = 1 .. Len(w) /\ \A i \in 1 .. Len(Tail(w)) : Tail(w)[i] = w[i + 1]
  OBVIOUS
<1>6. PICK t \in Seq(Message) : t = Tail(w) BY <1>5
<1>7. /\ w2 \in Seq(Message) /\ Len(w2) = 1 + Len(t) /\ DOMAIN w2 = 1 .. 1 + Len(t)
      /\ 1 \in DOMAIN w2 /\ w2[1] = m /\ \A i \in 1 .. Len(t) : w2[1 + i] = t[i]
  <2>1. /\ <<m>> \o t \in Seq(Message) /\ Len(<<m>> \o t) = 1 + Len(t)
        /\ DOMAIN (<<m>> \o t) = 1 .. 1 + Len(t)
        /\ 1 \in DOMAIN (<<m>> \o t) /\ (<<m>> \o t)[1] = m
        /\ \A i \in 1 .. Len(t) : (<<m>> \o t)[1 + i] = t[i]
    BY <1>3, Ahead, Zenon
  <2>2. w2 = <<m>> \o t BY <1>4, <1>6
  <2>3. QED BY <2>1, <2>2, Zenon
<1>8. 1 + Len(t) = Len(w) BY <1>5, <1>6
<1>9. ASSUME NEW i \in 2 .. Len(w) PROVE w2[i] = w[i]
  <2>1. i - 1 \in 1 .. Len(t) /\ 1 + (i - 1) = i /\ (i - 1) + 1 = i BY <1>5, <1>6
  <2>2. QED BY <2>1, <1>5, <1>6, <1>7
<1>10. HasDebris(w2) BY <1>3, <1>7 DEF HasDebris
<1>11. QED BY <1>5, <1>7, <1>8, <1>9, <1>10 DEF m

\* The second one was, behind a header that nobody looked at.
LEMMA CutSecond ==
  ASSUME NEW w \in Seq(Message), Len(w) > 1,
         NEW w2, w2 = Messages(<<Debris>>, w[2].of) \o SubSeq(w, 3, Len(w))
  PROVE  w2 \in Seq(Message) /\ HasDebris(w2)
<1> DEFINE m == [tag |-> Debris, of |-> w[2].of]
<1>1. w[2] \in Message OBVIOUS
<1>2. w[2].of \in Nat BY <1>1 DEF Message
<1>3. m \in Message /\ m.tag = Debris BY <1>2 DEF Message, Tags
<1>4. w2 = <<m>> \o SubSeq(w, 3, Len(w)) BY OneMessage
<1> HIDE DEF m
<1>5. SubSeq(w, 3, Len(w)) \in Seq(Message) OBVIOUS
<1>6. w2 \in Seq(Message) /\ 1 \in DOMAIN w2 /\ w2[1] = m
  <2>1. /\ <<m>> \o SubSeq(w, 3, Len(w)) \in Seq(Message)
        /\ 1 \in DOMAIN (<<m>> \o SubSeq(w, 3, Len(w)))
        /\ (<<m>> \o SubSeq(w, 3, Len(w)))[1] = m
    BY <1>3, <1>5, Ahead, Zenon
  <2>2. QED BY <2>1, <1>4, Zenon
<1>7. QED BY <1>3, <1>6 DEF HasDebris

-----------------------------------------------------------------------------
(* Types                                                                       *)

\* What the arms of Outcome, ServerFinish and Apply say, one by one
LEMMA Outcomes ==
  ASSUME NEW what \in Kinds
  PROVE  /\ Outcome(what) \in {"DONE", "BEGIN", "COMMIT", "ROLLBACK"}
         /\ what = "query" => Outcome(what) = "DONE"
         /\ what = "begin" => Outcome(what) = "BEGIN"
         /\ what = "commit" => Outcome(what) = "COMMIT"
         /\ what = "rollback" => Outcome(what) = "ROLLBACK"
BY Zenon DEF Outcome, Kinds

\* What a statement that ends makes of the transaction
LEMMA Finished ==
  ASSUME ServerFinish
  PROVE  /\ running.what = "begin" /\ transaction = "none" => transaction' = "open"
         /\ running.what \in {"commit", "rollback"} => transaction' = "none"
         /\ (running.what \notin {"begin", "commit", "rollback"}
               \/ (running.what = "begin" /\ transaction # "none")) =>
              transaction' = transaction
BY Zenon DEF ServerFinish

LEMMA Applied ==
  ASSUME NEW tag, Apply(tag)
  PROVE  /\ tag \in {"BEGIN", "ABORT"} => in_transaction' = TRUE
         /\ tag \in {"COMMIT", "ROLLBACK"} => in_transaction' = FALSE
         /\ tag \notin {"BEGIN", "ABORT", "COMMIT", "ROLLBACK"} =>
              in_transaction' = in_transaction
         /\ tag = "ABORT" => transaction_failed' = TRUE
         /\ tag \in {"BEGIN", "COMMIT", "ROLLBACK"} => transaction_failed' = FALSE
         /\ tag = "error" => transaction_failed' = (transaction_failed \/ in_transaction)
         /\ tag \notin {"ABORT", "BEGIN", "COMMIT", "ROLLBACK", "error"} =>
              transaction_failed' = transaction_failed
         /\ dirty_socket' = (dirty_socket /\ tag # "ready")
         /\ frame_in_progress' = (tag # "ready")
         /\ live' = (tag # "ready")
BY Zenon DEF Apply

LEMMA TypedAtFirst == ASSUME Init PROVE Typed
BY DEF Init, Typed, Nothing, Kinds, Message, Requests

\* Wire, inbox and statements keep their types.
LEMMA TypedStep ==
  ASSUME Typed, Called, [Next]_vars
  PROVE  Typed'
<1>1. ASSUME NEW s \in Statements, Execute(s) PROVE Typed'
  <2>1. s \in Kinds BY SessionAssumption DEF Kinds
  <2>2. <<s>> \in Seq(Kinds) BY <2>1
  <2>3. QED BY <1>1, <2>2 DEF Execute, Typed, connVars, serverVars
<1>2. ASSUME Decide PROVE Typed'
  <2>1. <<"begin">> \in Seq(Kinds) BY DEF Kinds
  <2>2. <<"begin">> \o todo \in Seq(Kinds) /\ todo \in Seq(Kinds) BY <2>1 DEF Typed
  <2>4. todo' \in Seq(Kinds) BY <1>2, <2>2 DEF Decide
  <2>3. QED BY <1>2, <2>4 DEF Decide, Typed, connVars, serverVars
<1>3. ASSUME Commit \/ Rollback PROVE Typed'
  <2>1. <<"commit">> \in Seq(Kinds) /\ <<"rollback">> \in Seq(Kinds) BY DEF Kinds
  <2>2. QED BY <1>3, <2>1 DEF Commit, Rollback, Typed, connVars, serverVars
<1>4. ASSUME Fetch \/ CursorClosed \/ SendCancel \/ SkipCancel \/ Cancelled PROVE Typed'
  BY <1>4 DEF Fetch, CursorClosed, SendCancel, SkipCancel, Cancelled, Typed, connVars, serverVars
<1>5. ASSUME Prepare \/ DrainGivesUp \/ WriteFails \/ Raise \/ Retire \/ Eof \/ FindClosed
      PROVE  Typed'
  <2>1. <<>> \in Seq(Kinds) OBVIOUS
  <2>2. todo' \in {todo, <<>>} /\ UNCHANGED <<command_generation, serverVars>>
    BY <1>5 DEF Prepare, DrainGivesUp, WriteFails, Raise, Retire, Eof, FindClosed, Ends, connVars
  <2>3. QED BY <2>1, <2>2 DEF Typed, serverVars
<1>6. ASSUME Drain \/ DrainDebris \/ ReadMessage PROVE Typed'
  <2>1. /\ wire # <<>> /\ wire' = Tail(wire)
        /\ UNCHANGED <<inbox, running, command_generation, todo, transaction>>
    BY <1>6 DEF Drain, DrainDebris, ReadMessage
  <2>2. wire' \in Seq(Message) BY <2>1 DEF Typed
  <2>3. QED BY <2>1, <2>2 DEF Typed
<1>7. ASSUME Start \/ Submit PROVE Typed'
  BY <1>7 DEF Start, Submit, Typed, serverVars
<1>8. Request \in Requests \/ pc # "writing"
  <2>1. ASSUME pc = "writing" PROVE Head(todo) \in Kinds
    BY <2>1 DEF Typed, Called, Working
  <2>2. QED BY <2>1 DEF Request, Requests, Typed
<1>9. ASSUME Written PROVE Typed'
  <2>1. inbox' \in Seq(Requests) BY <1>8, <1>9 DEF Written, Typed
  <2>2. QED BY <1>9, <2>1 DEF Written, Typed
<1>10. ASSUME Return PROVE Typed'
  <2>1. todo # <<>> BY <1>10 DEF Return, Called, Working
  <2>2. <<>> \in Seq(Kinds) /\ Tail(todo) \in Seq(Kinds) BY <2>1 DEF Typed
  <2>3. todo' \in Seq(Kinds) BY <1>10, <2>2 DEF Return, Ends
  <2>4. QED BY <1>10, <2>3 DEF Return, Typed, serverVars
<1>11. ASSUME Cut \/ CutYield PROVE wire' \in Seq(Message) /\ inbox' \in Seq(Requests)
  <2>1. ASSUME CutRead PROVE wire' \in Seq(Message) /\ inbox' \in Seq(Requests)
    BY <2>1, CutFirst DEF CutRead, Cropped, Typed
  <2>2. ASSUME CutYield PROVE wire' \in Seq(Message) /\ inbox' \in Seq(Requests)
    BY <2>2, CutSecond DEF CutYield, Typed
  <2>3. ASSUME CutDrain \/ CutPadding \/ CutOff
        PROVE wire' \in Seq(Message) /\ inbox' \in Seq(Requests)
    BY <2>3 DEF CutDrain, CutPadding, CutOff, Typed
  <2>4. ASSUME CutWrite PROVE wire' \in Seq(Message) /\ inbox' \in Seq(Requests)
    <3>1. Request \in Requests BY <2>4, <1>8 DEF CutWrite
    <3>2. [Request EXCEPT !.what = Fragment] \in Requests BY <3>1 DEF Requests
    <3>3. /\ inbox \in Seq(Requests) /\ Append(inbox, Request) \in Seq(Requests)
          /\ Append(inbox, [Request EXCEPT !.what = Fragment]) \in Seq(Requests)
      BY <3>1, <3>2 DEF Typed
    <3>4. QED BY <2>4, <3>3 DEF CutWrite, Typed
  <2>5. QED BY <1>11, <2>1, <2>2, <2>3, <2>4 DEF Cut
<1>12. ASSUME Timeout PROVE Typed'
  <2>1. wire' \in Seq(Message) /\ inbox' \in Seq(Requests) BY <1>11, <1>12 DEF Timeout
  <2>2. QED BY <1>12, <2>1 DEF Timeout, Typed
<1>13. ASSUME TaskCancel PROVE Typed'
  <2>1. wire' \in Seq(Message) /\ inbox' \in Seq(Requests)
    BY <1>11, <1>13 DEF TaskCancel, Typed
  <2>2. <<>> \in Seq(Kinds) OBVIOUS
  <2>3. QED BY <1>13, <2>1, <2>2 DEF TaskCancel, Typed, Ends
<1>14. ASSUME ServerTake PROVE Typed'
  <2>1. Head(inbox) \in Requests /\ Tail(inbox) \in Seq(Requests) /\ Head(inbox).what # Fragment
    BY <1>14 DEF ServerTake, Typed
  <2>2. Head(inbox).what \in Kinds /\ Head(inbox).of \in Nat BY <2>1 DEF Requests
  <2>3. running' \in [what : Kinds \cup {"nothing"}, of : Nat, sent : BOOLEAN]
    BY <1>14, <2>2 DEF ServerTake
  <2>4. QED BY <1>14, <2>1, <2>3 DEF ServerTake, Typed, connVars, callVars
<1>15. running.of \in Nat BY DEF Typed
<1>16. Nothing \in [what : Kinds \cup {"nothing"}, of : Nat, sent : BOOLEAN] BY DEF Nothing
<1>17. ASSUME NEW a \in Tags, NEW b \in Tags, Send(<<a, b>>) PROVE wire' \in Seq(Message)
  <2>1. wire \in Seq(Message) /\ wire' = Followed(wire, a, b, running.of)
    BY <1>17 DEF Send, Followed, Typed
  <2>2. TwoMore(wire', wire, a, b, running.of) BY <1>15, <2>1, Sent
  <2>3. QED BY <2>2 DEF TwoMore
<1>18. ASSUME ServerStream PROVE Typed'
  <2>1. wire' \in Seq(Message) BY <1>17, <1>18 DEF ServerStream, Tags
  <2>2. running' \in [what : Kinds \cup {"nothing"}, of : Nat, sent : BOOLEAN]
    BY <1>18 DEF ServerStream, Typed
  <2>3. QED BY <1>18, <2>1, <2>2 DEF ServerStream, Typed, connVars, callVars
<1>19. ASSUME ServerFinish PROVE Typed'
  <2>1. running.what \in Kinds BY <1>19 DEF ServerFinish, Called
  <2>2. Outcome(running.what) \in Tags BY <2>1, Outcomes DEF Tags, Verdicts
  <2>3. "ABORT" \in Tags /\ "ready" \in Tags BY DEF Tags, Verdicts
  <2>4. wire' \in Seq(Message) BY <1>17, <1>19, <2>2, <2>3 DEF ServerFinish
  <2>5. transaction' \in {"none", "open", "failed"} BY <1>19, <2>1, Finished DEF Kinds, Typed
  <2>6. /\ running' = Nothing /\ UNCHANGED <<inbox, command_generation, todo>>
    BY <1>19 DEF ServerFinish, connVars, callVars
  <2>7. QED BY <1>16, <2>4, <2>5, <2>6 DEF Typed
<1>20. ASSUME ServerFail PROVE Typed'
  <2>1. "error" \in Tags /\ "ready" \in Tags BY DEF Tags, Verdicts
  <2>2. wire' \in Seq(Message) BY <1>17, <1>20, <2>1 DEF ServerFail
  <2>3. QED BY <1>16, <1>20, <2>2 DEF ServerFail, Typed, connVars, callVars
<1>21. ASSUME NEW g \in cancels, CancelArrives(g) PROVE Typed'
  <2>1. CASE UNCHANGED <<wire, running, transaction>>
    BY <1>21, <2>1 DEF CancelArrives, Typed, connVars, callVars
  <2>2. CASE /\ Send(<<"error", "ready">>) /\ running' = Nothing
             /\ transaction' = IF transaction = "none" THEN "none" ELSE "failed"
    <3>1. "error" \in Tags /\ "ready" \in Tags BY DEF Tags, Verdicts
    <3>2. wire' \in Seq(Message) BY <1>17, <2>2, <3>1
    <3>3. QED BY <1>16, <1>21, <2>2, <3>2 DEF CancelArrives, Typed, connVars, callVars
  <2>3. QED BY <1>21, <2>1, <2>2 DEF CancelArrives
<1>22. ASSUME ServerDies PROVE Typed'
  <2>1. PICK n \in 0 .. Len(wire) : wire' = SubSeq(wire, 1, n) BY <1>22 DEF ServerDies
  <2>2. wire' \in Seq(Message) BY <2>1 DEF Typed
  <2>3. <<>> \in Seq(Requests) OBVIOUS
  <2>4. QED BY <1>16, <1>22, <2>2, <2>3 DEF ServerDies, Typed, connVars, callVars
<1>23. ASSUME ManualCancel \/ Close PROVE Typed'
  BY <1>23 DEF ManualCancel, Close, Typed, connVars, callVars, serverVars
<1>24. ASSUME UNCHANGED vars PROVE Typed'
  BY <1>24 DEF vars, connVars, callVars, serverVars, Typed
<1>25. QED
  BY <1>1, <1>2, <1>3, <1>4, <1>5, <1>6, <1>7, <1>9, <1>10, <1>12, <1>13, <1>14, <1>18, <1>19,
     <1>20, <1>21, <1>22, <1>23, <1>24
     DEF Next, Client, Server

-----------------------------------------------------------------------------
(* The calls                                                                   *)

\* Where a message takes a call
LEMMA Afters ==
  ASSUME NEW tag
  PROVE  /\ After(tag) \in {pc, "returned", "erring", "raising", "idle", "clearing"}
         /\ After(tag) = "returned" => pc \in {"reading", "returned"}
         /\ After(tag) = "idle" => pc \in {"fetching", "fetching all", "idle"}
         /\ After(tag) = "clearing" => pc \in {"fetching all", "clearing"}
         /\ After(tag) # pc /\ pc = "reading" => After(tag) \in {"returned", "erring"}
<1>1. CASE pc = "reading" /\ tag = "desc" BY <1>1, Zenon DEF After
<1>2. CASE pc = "reading" /\ tag # "desc" /\ IsError(tag) BY <1>2 DEF After
<1>3. CASE pc = "reading" /\ tag # "desc" /\ ~IsError(tag) BY <1>3 DEF After
<1>4. CASE pc = "erring" BY <1>4 DEF After
<1>5. CASE pc = "fetching" BY <1>5 DEF After
<1>6. CASE pc = "fetching all" BY <1>6 DEF After
<1>7. CASE pc \notin {"reading", "erring", "fetching", "fetching all"} BY <1>7 DEF After
<1>8. QED BY <1>1, <1>2, <1>3, <1>4, <1>5, <1>6, <1>7

LEMMA Lengths ==
  ASSUME NEW s
  PROVE  /\ s = <<>> => Len(s) <= 1 /\ Len(s) <= 2
         /\ s \in {<<"commit">>, <<"rollback">>} => Len(s) <= 2 /\ s # <<>>
<1>1. Len(<<>>) = 0 /\ Len(<<"commit">>) = 1 /\ Len(<<"rollback">>) = 1
      /\ <<"commit">> # <<>> /\ <<"rollback">> # <<>>
  OBVIOUS
<1>2. 0 <= 1 /\ 0 <= 2 /\ 1 <= 2 OBVIOUS
<1>3. QED BY <1>1, <1>2, Zenon

LEMMA Halved ==
  ASSUME NEW s \in Seq(Kinds), Len(s) > 1, Len(s) <= 2
  PROVE  Len(Tail(s)) = 1 /\ Tail(s) # <<>>
<1>1. PICK n \in Nat : n = Len(s) OBVIOUS
<1>2. n = 2 BY <1>1
<1>3. Len(<<>>) = 0 /\ 0 # 1 /\ 0 # 2 OBVIOUS
<1>4. s # <<>> BY <1>1, <1>2, <1>3, Zenon
<1>5. Len(Tail(s)) = 1
  <2>1. Len(Tail(s)) = Len(s) - 1 BY <1>4, Shorter
  <2>2. Len(Tail(s)) = n - 1 BY <2>1, <1>1
  <2>3. QED BY <2>2, <1>2
<1>6. QED BY <1>3, <1>5, Zenon

LEMMA CalledAtFirst == ASSUME Init PROVE Called /\ Awaited
BY DEF Init, Called, Awaited, Working

\* A call has the statements to run that its place in execute() speaks of, two at most.
LEMMA CalledStep ==
  ASSUME Typed, Called, [Next]_vars
  PROVE  Called'
<1> DEFINE Calls == /\ pc \in Working => todo # <<>>
                    /\ pc \in {"idle", "fetching", "fetching all"} => todo = <<>>
                    /\ pc = "clearing" => Len(todo) <= 1
                    /\ Len(todo) <= 2
                    /\ pc = "awaiting cancel" => exec_gen = command_generation
           Runs == running # Nothing => running.what \in Kinds
<1>1. Called <=> Calls /\ Runs BY DEF Called
<1>2. Called' <=> Calls' /\ Runs' BY DEF Called
<1>3. Runs'
  <2>1. UNCHANGED running => Runs' BY <1>1
  <2>2. running' = Nothing => Runs' OBVIOUS
  <2>3. ASSUME ServerTake PROVE Runs'
    <3>1. Head(inbox) \in Requests /\ Head(inbox).what # Fragment
      BY <2>3 DEF ServerTake, Typed
    <3>2. QED BY <2>3, <3>1 DEF ServerTake, Requests
  <2>4. ASSUME ServerStream PROVE Runs'
    BY <2>4 DEF ServerStream, Typed, Kinds
  <2>5. ASSUME ServerFinish \/ ServerFail \/ ServerDies PROVE running' = Nothing
    BY <2>5 DEF ServerFinish, ServerFail, ServerDies
  <2>6. ASSUME NEW g \in cancels, CancelArrives(g) PROVE running' = Nothing \/ UNCHANGED running
    BY <2>6 DEF CancelArrives
  <2>7. ASSUME Client \/ Timeout \/ TaskCancel \/ Commit \/ Rollback \/ Fetch \/ ManualCancel
               \/ Close \/ FindClosed \/ UNCHANGED vars
        PROVE  UNCHANGED running
    BY <2>7 DEF Client, Timeout, TaskCancel, Commit, Rollback, Fetch, ManualCancel, Close,
         FindClosed, Decide, CursorClosed, Prepare, Drain, DrainDebris, DrainGivesUp, Start,
         Submit, Written, WriteFails, ReadMessage, Return, Raise, SendCancel, SkipCancel,
         Cancelled, Retire, Eof, vars, serverVars
  <2>8. ASSUME NEW s \in Statements, Execute(s) PROVE UNCHANGED running
    BY <2>8 DEF Execute, serverVars
  <2>9. QED BY <2>1, <2>2, <2>3, <2>4, <2>5, <2>6, <2>7, <2>8 DEF Next, Server
<1>4. Calls'
  <2>0. (todo' = <<>> => Len(todo') <= 2) /\ (todo = <<>> => Len(todo) <= 1) BY Lengths
  <2>1. ASSUME NEW s \in Statements, Execute(s) PROVE Calls'
    BY <2>1 DEF Execute, At, Working
  <2>2. ASSUME Decide PROVE Calls'
    <3>1. Len(todo) = 1 /\ Len(<<"begin">> \o todo) = 2 /\ <<"begin">> \o todo # <<>>
      BY <2>2, <1>1 DEF Decide, Typed
    <3>2. todo' \in {todo, <<"begin">> \o todo} /\ pc' = "preparing" BY <2>2 DEF Decide, At
    <3>3. todo' # <<>> /\ Len(todo') <= 2
      <4>1. CASE todo' = todo BY <4>1, <3>1, <2>2 DEF Decide
      <4>2. CASE todo' = <<"begin">> \o todo BY <4>2, <3>1
      <4>3. QED BY <3>2, <4>1, <4>2
    <3>4. QED BY <3>2, <3>3 DEF Working
  <2>3. ASSUME Commit \/ Rollback PROVE Calls'
    <3>1. todo' \in {<<"commit">>, <<"rollback">>} /\ pc' = "preparing"
      BY <2>3 DEF Commit, Rollback, At
    <3>2. QED BY <3>1, Lengths
  <2>4. ASSUME Fetch PROVE Calls'
    BY <2>0, <2>4, <1>1 DEF Fetch, At, Working
  <2>5. ASSUME CursorClosed PROVE Calls'
    BY <2>5, <1>1 DEF CursorClosed, At, Working
  <2>6. ASSUME Prepare PROVE Calls'
    BY <2>0, <2>6, <1>1 DEF Prepare, Ends, At, Working
  <2>7. ASSUME Drain \/ DrainDebris PROVE Calls'
    BY <2>7, <1>1 DEF Drain, DrainDebris, At, Working
  <2>8. ASSUME DrainGivesUp \/ WriteFails \/ Raise \/ Retire \/ Eof \/ FindClosed PROVE Calls'
    BY <2>0, <2>8 DEF DrainGivesUp, WriteFails, Raise, Retire, Eof, FindClosed, Ends, Working
  <2>9. ASSUME Start \/ Submit \/ Written PROVE Calls'
    BY <2>9, <1>1 DEF Start, Submit, Written, At, Working
  <2>10. ASSUME ReadMessage PROVE Calls'
    <3>1. pc' = After(Head(wire).tag) /\ UNCHANGED <<todo, exec_gen, command_generation>>
      BY <2>10 DEF ReadMessage, At
    <3>2. pc \in {"clearing", "preparing", "reading", "erring", "fetching", "fetching all"}
      BY <2>10 DEF ReadMessage
    <3>3. /\ pc' \in {pc, "returned", "erring", "raising", "idle", "clearing"}
          /\ pc' = "returned" => pc = "reading"
          /\ pc' = "idle" => pc \in {"fetching", "fetching all"}
          /\ pc' = "clearing" => pc \in {"fetching all", "clearing"}
      BY <3>1, <3>2, Afters
    <3>4. pc' = "clearing" => Len(todo) <= 1 BY <1>1, <2>0, <3>3
    <3>5. QED BY <1>1, <3>1, <3>2, <3>3, <3>4 DEF Working
  <2>11. ASSUME Return PROVE Calls'
    <3>1. CASE Len(todo) > 1
      <4>0. todo \in Seq(Kinds) /\ Len(todo) \in Nat BY DEF Typed
      <4>1. Len(Tail(todo)) = 1 /\ Tail(todo) # <<>> BY <1>1, <3>1, <4>0, Halved
      <4>2. QED BY <2>11, <3>1, <4>1 DEF Return, At, Working
    <3>2. CASE ~(Len(todo) > 1) BY <2>11, <3>2 DEF Return, Ends, Working
    <3>3. QED BY <3>1, <3>2
  <2>12. ASSUME Timeout \/ SendCancel \/ SkipCancel \/ Cancelled PROVE Calls'
    BY <2>12, <1>1 DEF Timeout, SendCancel, SkipCancel, Cancelled, At, connVars, Working
  <2>13. ASSUME TaskCancel PROVE Calls'
    BY <2>0, <2>13 DEF TaskCancel, Ends, Working
  <2>14. ASSUME UNCHANGED <<pc, todo, exec_gen, command_generation>> PROVE Calls'
    BY <2>14, <1>1
  <2>15. ASSUME Server \/ ServerStream \/ ServerDies \/ ManualCancel \/ Close \/ UNCHANGED vars
         PROVE  UNCHANGED <<pc, todo, exec_gen, command_generation>>
    BY <2>15 DEF Server, ServerTake, ServerFinish, ServerFail, ServerStream, ServerDies,
         ManualCancel, Close, vars, connVars, callVars
  <2>16. ASSUME NEW g \in cancels, CancelArrives(g)
         PROVE  UNCHANGED <<pc, todo, exec_gen, command_generation>>
    BY <2>16 DEF CancelArrives, connVars, callVars
  <2>17. QED
    BY <2>1, <2>2, <2>3, <2>4, <2>5, <2>6, <2>7, <2>8, <2>9, <2>10, <2>11, <2>12, <2>13, <2>14,
       <2>15, <2>16
       DEF Next, Client
<1>5. QED BY <1>2, <1>3, <1>4

\* The calls of cancel() name no statement, and a timeout waits for its own.
LEMMA AwaitedStep ==
  ASSUME Called, Awaited, "cancel" \notin lost', [Next]_vars
  PROVE  Awaited'
<1> DEFINE Kept == UNCHANGED <<pc, command_generation>> /\ cancels' \subseteq cancels
           Gone == UNCHANGED cancels /\ pc # "awaiting cancel"
<1>1. Kept => Awaited' BY DEF Awaited
<1>2. Gone => Awaited' BY DEF Awaited
<1>3. ASSUME NEW s \in Statements, Execute(s) PROVE Gone BY <1>3 DEF Execute, serverVars
<1>4. ASSUME Decide \/ Commit \/ Rollback \/ Fetch \/ CursorClosed \/ Prepare \/ Drain
             \/ DrainDebris \/ DrainGivesUp \/ Start \/ Submit \/ Written \/ WriteFails
             \/ ReadMessage \/ Return \/ Raise \/ SkipCancel \/ Retire \/ Eof \/ FindClosed
      PROVE  Gone
  BY <1>4 DEF Decide, Commit, Rollback, Fetch, CursorClosed, Prepare, Drain, DrainDebris,
       DrainGivesUp, Start, Submit, Written, WriteFails, ReadMessage, Return, Raise, SkipCancel,
       Retire, Eof, FindClosed, Reading, serverVars
<1>5. ASSUME Timeout PROVE Gone
  BY <1>5 DEF Timeout, Bounded
<1>6. ASSUME SendCancel PROVE Awaited'
  BY <1>6 DEF SendCancel, At, Awaited, connVars
<1>7. ASSUME Cancelled PROVE Awaited'
  BY <1>7 DEF Cancelled, Called, Awaited, serverVars
<1>8. ASSUME TaskCancel PROVE Gone
  BY <1>8 DEF TaskCancel
<1>9. ASSUME Server \/ ServerStream \/ ServerDies \/ Close \/ UNCHANGED vars PROVE Kept
  BY <1>9 DEF Server, ServerTake, ServerFinish, ServerFail, ServerStream, ServerDies, Close, vars,
       connVars, callVars, serverVars
<1>10. ASSUME NEW g \in cancels, CancelArrives(g) PROVE Kept
  BY <1>10 DEF CancelArrives, connVars, callVars
<1>11. ASSUME ManualCancel PROVE Awaited'
  BY <1>11 DEF ManualCancel, Awaited, connVars, callVars
<1>12. QED
  BY <1>1, <1>2, <1>3, <1>4, <1>5, <1>6, <1>7, <1>8, <1>9, <1>10, <1>11 DEF Next, Client

-----------------------------------------------------------------------------
(* The traffic                                                                 *)

\* The steps that send, receive and lose nothing
QuietStep ==
  \/ \E s \in Statements : Execute(s)
  \/ Decide \/ Commit \/ Rollback \/ Fetch \/ CursorClosed \/ Prepare \/ DrainGivesUp \/ Submit
  \/ WriteFails \/ Return \/ Raise \/ SendCancel \/ SkipCancel \/ Cancelled \/ Retire \/ Eof
  \/ ManualCancel \/ Close \/ FindClosed \/ UNCHANGED vars

Quiet ==
  UNCHANGED <<wire, inbox, running, command_generation, transaction, up, transaction_failed, lost>>

LEMMA Quietly == ASSUME QuietStep PROVE Quiet
<1>1. ASSUME NEW s \in Statements, Execute(s) PROVE Quiet
  BY <1>1 DEF Execute, Quiet, connVars, serverVars
<1>2. ASSUME Decide \/ Commit \/ Rollback \/ Fetch \/ CursorClosed \/ Prepare \/ DrainGivesUp
             \/ Submit \/ WriteFails \/ Return \/ Raise
      PROVE  Quiet
  BY <1>2 DEF Decide, Commit, Rollback, Fetch, CursorClosed, Prepare, DrainGivesUp, Submit,
       WriteFails, Return, Raise, Quiet, connVars, serverVars
<1>3. ASSUME SendCancel \/ SkipCancel \/ Cancelled \/ Retire \/ Eof \/ ManualCancel \/ Close
             \/ FindClosed \/ UNCHANGED vars
      PROVE  Quiet
  BY <1>3 DEF SendCancel, SkipCancel, Cancelled, Retire, Eof, ManualCancel, Close, FindClosed, vars,
       Quiet, connVars, callVars, serverVars
<1>4. QED BY <1>1, <1>2, <1>3 DEF QuietStep

\* The steps of the backend that answer: two messages, of the running statement
Answers(a, b) ==
  /\ running # Nothing /\ Send(<<a, b>>)
  /\ UNCHANGED <<connVars, callVars, inbox, up, lost>>

Streams == Answers("desc", "row") /\ running' # Nothing /\ running'.of = running.of
           /\ running'.what = running.what /\ running.what = "query" /\ UNCHANGED transaction

\* What it says of the transaction at the end of a statement is so.
Tells(v) ==
  /\ v = "ABORT" => transaction = "failed" /\ transaction' = "failed"
  /\ v = "DONE" => transaction # "failed" /\ transaction' = transaction
  /\ v = "BEGIN" => transaction' = "open"
  /\ v \in {"COMMIT", "ROLLBACK"} => transaction' = "none"
  /\ v = "error" => transaction' = IF transaction = "none" THEN "none" ELSE "failed"

Ended(v) ==
  /\ v \in Verdicts \cup {"DONE"} /\ Answers(v, "ready") /\ running' = Nothing
  /\ Tells(v)
  /\ running.what = "begin" => v \in {"BEGIN", "ABORT", "error"}

LEMMA Streaming == ASSUME ServerStream PROVE Streams
BY DEF ServerStream, Streams, Answers, Nothing

\* A statement ends by one verdict, or DONE, and ReadyForQuery.
LEMMA Ending ==
  ASSUME Typed, Called,
         ServerFinish \/ ServerFail \/ (\E g \in cancels : CancelArrives(g) /\ ~UNCHANGED running)
  PROVE  \E v \in Verdicts \cup {"DONE"} : Ended(v)
<1>1. ASSUME ServerFinish PROVE \E v \in Verdicts \cup {"DONE"} : Ended(v)
  <2>1. running # Nothing /\ running.what \in Kinds /\ running' = Nothing
        /\ UNCHANGED <<connVars, callVars, inbox, up, lost>>
        /\ Send(IF Aborted THEN <<"ABORT", "ready">> ELSE <<Outcome(running.what), "ready">>)
    BY <1>1 DEF ServerFinish, Called
  <2>2. transaction \in {"none", "open", "failed"} BY DEF Typed
  <2>3. CASE Aborted
    <3>1. Answers("ABORT", "ready") BY <2>1, <2>3 DEF Answers
    <3>2. transaction = "failed" /\ running.what \in {"query", "begin"}
      BY <2>1, <2>3 DEF Aborted, Kinds
    <3>3. transaction' = "failed" BY <1>1, <3>2, Finished
    <3>4. Tells("ABORT") BY <3>2, <3>3 DEF Tells
    <3>5. Ended("ABORT") BY <2>1, <3>1, <3>4 DEF Ended, Verdicts
    <3>6. QED BY <3>5 DEF Verdicts
  <2>4. CASE ~Aborted
    <3>1. transaction # "failed" \/ running.what \in {"commit", "rollback"}
      BY <2>4 DEF Aborted
    <3>2. Answers(Outcome(running.what), "ready") BY <2>1, <2>4 DEF Answers
    <3>3. CASE running.what = "query"
      <4>1. transaction' = transaction /\ transaction # "failed" BY <1>1, <3>1, <3>3, Finished
      <4>2. Answers("DONE", "ready") BY <2>1, <3>2, <3>3, Outcomes
      <4>3. Ended("DONE") BY <2>1, <3>3, <4>1, <4>2 DEF Ended, Tells
      <4>4. QED BY <4>3
    <3>4. CASE running.what = "begin"
      <4>1. transaction' = "open" BY <1>1, <2>2, <3>1, <3>4, Finished
      <4>2. Answers("BEGIN", "ready") BY <2>1, <3>2, <3>4, Outcomes
      <4>3. Ended("BEGIN") BY <2>1, <4>1, <4>2 DEF Ended, Tells, Verdicts
      <4>4. QED BY <4>3 DEF Verdicts
    <3>5. CASE running.what = "commit"
      <4>1. transaction' = "none" BY <1>1, <3>5, Finished
      <4>2. Answers("COMMIT", "ready") BY <2>1, <3>2, <3>5, Outcomes
      <4>3. Ended("COMMIT") BY <2>1, <3>5, <4>1, <4>2 DEF Ended, Tells, Verdicts
      <4>4. QED BY <4>3 DEF Verdicts
    <3>6. CASE running.what = "rollback"
      <4>1. transaction' = "none" BY <1>1, <3>6, Finished
      <4>2. Answers("ROLLBACK", "ready") BY <2>1, <3>2, <3>6, Outcomes
      <4>3. Ended("ROLLBACK") BY <2>1, <3>6, <4>1, <4>2 DEF Ended, Tells, Verdicts
      <4>4. QED BY <4>3 DEF Verdicts
    <3>7. QED BY <2>1, <3>3, <3>4, <3>5, <3>6 DEF Kinds
  <2>5. QED BY <2>3, <2>4
<1>2. ASSUME ServerFail PROVE Ended("error")
  BY <1>2 DEF ServerFail, Ended, Answers, Tells, Verdicts, Nothing
<1>3. ASSUME NEW g \in cancels, CancelArrives(g), ~UNCHANGED running PROVE Ended("error")
  BY <1>3 DEF CancelArrives, Ended, Answers, Tells, Verdicts
<1>4. QED BY <1>1, <1>2, <1>3 DEF Verdicts

\* An interruption leaves the traffic as it was, unless it cuts a message off, which
\* the call has seen, or had part of the query written.
CutMessage ==
  /\ wire # <<>> /\ wire' = Cropped(wire)
  /\ pc' = "cancelling" /\ (frame_in_progress' \/ partial_read')
  /\ UNCHANGED inbox

CutRequest ==
  /\ pc = "writing" /\ UNCHANGED wire
  /\ inbox' \in {Append(inbox, [Request EXCEPT !.what = Fragment]), Append(inbox, Request)}

LEMMA Interrupted ==
  ASSUME Typed, Timeout \/ TaskCancel, "frame" \notin lost'
  PROVE  /\ UNCHANGED <<wire, inbox>> \/ CutMessage \/ CutRequest
         /\ UNCHANGED <<running, command_generation, dirty_socket, in_transaction,
                        transaction_failed, transaction, up>>
         /\ "frame" \notin lost /\ ("outcome" \in lost => "outcome" \in lost')
         /\ pc' \in {"cancelling", "idle"}
         /\ todo' \in {todo, <<>>}
         /\ pc \notin {"idle", "retiring"}
         /\ pc \in {"cancelling", "awaiting cancel"} =>
              UNCHANGED <<wire, inbox, closed, frame_in_progress, partial_read>> /\ ~HasDebris(wire')
<1>1. ASSUME Cut
      PROVE  /\ \/ UNCHANGED <<wire, inbox>> \/ CutRequest
                \/ /\ wire # <<>> /\ wire' = Cropped(wire)
                   /\ frame_in_progress' \/ partial_read'
                   /\ UNCHANGED inbox
             /\ pc \notin {"idle", "retiring", "cancelling", "awaiting cancel"}
  BY <1>1 DEF Cut, CutRead, CutDrain, CutPadding, CutWrite, CutOff, CutRequest, Reading, Cropped
<1>2. ASSUME Timeout
      PROVE  Cut /\ UNCHANGED lost
             /\ pc' = "cancelling" /\ UNCHANGED todo
             /\ UNCHANGED <<running, command_generation, dirty_socket, in_transaction,
                            transaction_failed, transaction, up>>
  BY <1>2 DEF Timeout, At, CutYield
<1>3. ASSUME TaskCancel
      PROVE  /\ ~HasDebris(wire') /\ "frame" \notin lost /\ ("outcome" \in lost => "outcome" \in lost')
             /\ pc' = "idle" /\ todo' = <<>>
             /\ UNCHANGED <<running, command_generation, dirty_socket, in_transaction,
                            transaction_failed, transaction, up>>
             /\ \/ Cut \/ CutYield
                \/ /\ pc \in {"cancelling", "awaiting cancel"}
                   /\ UNCHANGED <<wire, inbox, closed, frame_in_progress, partial_read>>
  BY <1>3 DEF TaskCancel, Ends
<1>4. CASE Timeout
  BY <1>1, <1>2, <1>4 DEF CutMessage
<1>5. ASSUME CutYield PROVE HasDebris(wire') BY <1>5, CutSecond DEF CutYield, Typed
<1>6. ASSUME wire # <<>>, wire' = Cropped(wire)
      PROVE  HasDebris(wire')
  BY <1>6, CutFirst DEF Typed
<1>7. CASE TaskCancel
  BY <1>1, <1>3, <1>5, <1>6, <1>7
<1>8. QED BY <1>4, <1>7

Received ==
  wire # <<>> /\ wire' = Tail(wire) /\ UNCHANGED <<inbox, running, command_generation, transaction, up>>

LEMMA Receiving == ASSUME Drain \/ DrainDebris \/ ReadMessage PROVE Received
BY DEF Drain, DrainDebris, ReadMessage, Received

\* A cancel request that finds nothing to cancel
Shrugged == UNCHANGED <<connVars, callVars, inbox, wire, running, transaction, up, lost>>

\* The steps by what they do to the traffic
LEMMA Steps ==
  ASSUME Typed, Called, [Next]_vars
  PROVE  \/ QuietStep \/ Start \/ Drain \/ DrainDebris \/ Written \/ ReadMessage
         \/ Timeout \/ TaskCancel \/ ServerTake \/ Streams \/ ServerDies \/ Shrugged
         \/ \E v \in Verdicts \cup {"DONE"} : Ended(v)
<1>1. ASSUME NEW g \in cancels, CancelArrives(g), UNCHANGED running PROVE Shrugged
  BY <1>1 DEF CancelArrives, Shrugged
<1>2. ASSUME NEW g \in cancels, CancelArrives(g)
      PROVE  Shrugged \/ \E v \in Verdicts \cup {"DONE"} : Ended(v)
  BY <1>1, <1>2, Ending
<1>3. ASSUME Server
      PROVE  ServerTake \/ \E v \in Verdicts \cup {"DONE"} : Ended(v)
  BY <1>3, Ending DEF Server
<1>4. ASSUME Client \/ Commit \/ Rollback \/ Fetch \/ ManualCancel \/ Close \/ FindClosed
             \/ UNCHANGED vars \/ \E s \in Statements : Execute(s)
      PROVE  QuietStep \/ Start \/ Drain \/ DrainDebris \/ Written \/ ReadMessage
  BY <1>4 DEF Client, QuietStep
<1>5. QED BY <1>2, <1>3, <1>4, Streaming DEF Next

\* A statement is sent only where nothing is on the way: Start finds no response owed.
LEMMA OneStatementStep ==
  ASSUME Typed, Called, InOrder, [Next]_vars, "frame" \notin lost'
  PROVE  OneStatement'
<1> USE DEF InOrder
<1>1. ASSUME UNCHANGED <<wire, inbox, running, command_generation>> PROVE OneStatement'
  BY <1>1 DEF OneStatement
<1>2. ASSUME Start PROVE OneStatement'
  <2>1. wire' = <<>> /\ running' = Nothing /\ inbox' = <<>>
    BY <1>2 DEF Start, Owed, Empty, serverVars
  <2>2. QED BY <2>1 DEF OneStatement
<1>3. ASSUME Received PROVE OneStatement'
  <2>1. /\ Len(wire) \in Nat /\ Len(wire') = Len(wire) - 1
        /\ \A i \in DOMAIN wire' : i + 1 \in DOMAIN wire /\ wire'[i] = wire[i + 1] /\ i \in Nat
    BY <1>3, Shorter DEF Received, Typed
  <2>2. ASSUME NEW i \in DOMAIN wire'
        PROVE  /\ wire'[i].of = command_generation
               /\ wire'[i].tag = "ready" => i = Len(wire') /\ running = Nothing /\ inbox = <<>>
    BY <2>1 DEF OneStatement
  <2>3. QED BY <1>3, <2>2 DEF Received, OneStatement
<1>4. ASSUME UNCHANGED <<wire, running, command_generation>>, Empty, NEW r, r.of = command_generation,
             inbox' = Append(inbox, r)
      PROVE  OneStatement'
  <2>1. inbox' = <<r>> BY <1>4 DEF Empty
  <2>2. inbox' # <<>> /\ Len(inbox') = 1 /\ Head(inbox') = r BY <2>1
  <2>3. QED BY <1>4, <2>2 DEF OneStatement, Empty
<1>5. ASSUME Written PROVE OneStatement'
  <2>1. Request.of = command_generation BY DEF Request
  <2>2. Empty BY <1>5 DEF Written, Owed
  <2>3. QED BY <1>1, <1>4, <1>5, <2>1, <2>2 DEF Written
<1>6. ASSUME Timeout \/ TaskCancel PROVE OneStatement'
  <2>1. UNCHANGED <<running, command_generation>> BY <1>6, Interrupted
  <2>2. CASE CutMessage
    <3>1. /\ Len(wire') = Len(wire) /\ DOMAIN wire' = 1 .. Len(wire) /\ DOMAIN wire = 1 .. Len(wire)
          /\ wire'[1] = [tag |-> Debris, of |-> wire[1].of]
          /\ \A i \in 2 .. Len(wire) : wire'[i] = wire[i]
          /\ Len(wire) \in Nat
      <4>1. wire \in Seq(Message) /\ wire # <<>> /\ Len(wire) \in Nat
            /\ wire' = Cropped(wire)
        BY <2>2 DEF CutMessage, Typed
      <4>2. QED BY <4>1, CutFirst
    <3>2. ASSUME NEW i \in DOMAIN wire'
          PROVE  /\ wire'[i].of = command_generation
                 /\ wire'[i].tag = "ready" => i = Len(wire') /\ running = Nothing /\ inbox = <<>>
      <4>1. CASE i = 1 BY <3>1, <3>2, <4>1 DEF OneStatement, Debris
      <4>2. CASE i # 1 BY <3>1, <3>2, <4>2 DEF OneStatement
      <4>3. QED BY <4>1, <4>2
    <3>3. wire # <<>> /\ inbox' = inbox BY <2>2 DEF CutMessage
    <3>4. QED BY <2>1, <3>2, <3>3 DEF OneStatement
  <2>3. CASE CutRequest
    <3>1. Empty BY <2>3 DEF CutRequest, Owed
    <3>2. Request.of = command_generation
          /\ [Request EXCEPT !.what = Fragment].of = command_generation
      BY DEF Request
    <3>3. QED BY <1>4, <2>1, <2>3, <3>1, <3>2 DEF CutRequest
  <2>4. QED BY <1>1, <1>6, <2>1, <2>2, <2>3, Interrupted
<1>7. ASSUME ServerTake PROVE OneStatement'
  <2>1. /\ inbox # <<>> /\ running'.of = command_generation /\ inbox' = Tail(inbox)
        /\ wire' = <<>> /\ UNCHANGED command_generation /\ Len(inbox) = 1
    BY <1>7 DEF ServerTake, OneStatement, connVars
  <2>2. inbox' = <<>> BY <2>1 DEF Typed
  <2>3. QED BY <2>1, <2>2 DEF OneStatement
<1>8. ASSUME NEW a \in Tags, NEW b \in Tags, Answers(a, b), a # "ready",
             b # "ready" \/ running' = Nothing, running' = Nothing \/ running'.of = running.of
      PROVE  OneStatement'
  <2>1. /\ running # Nothing /\ running.of = command_generation /\ inbox' = <<>>
        /\ UNCHANGED command_generation
    BY <1>8 DEF Answers, OneStatement, connVars
  <2>2. running.of \in Nat /\ Len(wire) \in Nat BY DEF Typed
  <2>3. /\ Len(wire') = Len(wire) + 2
        /\ \A i \in DOMAIN wire : wire'[i] = wire[i]
        /\ DOMAIN wire' = 1 .. Len(wire) + 2 /\ DOMAIN wire = 1 .. Len(wire)
        /\ wire'[Len(wire) + 1] = [tag |-> a, of |-> command_generation]
        /\ wire'[Len(wire) + 2] = [tag |-> b, of |-> command_generation]
    <3>1. wire \in Seq(Message) /\ wire' = Followed(wire, a, b, running.of)
      BY <1>8 DEF Answers, Send, Followed, Typed
    <3>2. wire' = Followed(wire, a, b, command_generation) /\ command_generation \in Nat
      BY <2>1, <2>2, <3>1
    <3>3. TwoMore(wire', wire, a, b, command_generation) BY <3>1, <3>2, Sent
    <3>4. QED BY <3>3 DEF TwoMore
  <2>4. ASSUME NEW i \in DOMAIN wire'
        PROVE  /\ wire'[i].of = command_generation
               /\ wire'[i].tag = "ready" => i = Len(wire') /\ b = "ready"
    <3>1. CASE i \in DOMAIN wire BY <2>1, <2>3, <3>1 DEF OneStatement
    <3>2. CASE i = Len(wire) + 1 BY <1>8, <2>3, <3>2
    <3>3. CASE i = Len(wire) + 2 BY <1>8, <2>3, <3>3
    <3>4. QED BY <2>2, <2>3, <2>4, <3>1, <3>2, <3>3
  <2>5. QED BY <1>8, <2>1, <2>4 DEF OneStatement
<1>9. ASSUME Streams PROVE OneStatement'
  BY <1>8, <1>9 DEF Streams, Tags
<1>10. ASSUME NEW v \in Verdicts \cup {"DONE"}, Ended(v) PROVE OneStatement'
  <2>1. v \in Tags /\ "ready" \in Tags /\ v # "ready" BY DEF Tags, Verdicts
  <2>2. QED BY <1>8, <1>10, <2>1 DEF Ended
<1>11. ASSUME ServerDies PROVE OneStatement'
  <2>1. PICK n \in 0 .. Len(wire) : wire' = SubSeq(wire, 1, n) BY <1>11 DEF ServerDies
  <2>2. /\ Len(wire) \in Nat /\ DOMAIN wire = 1 .. Len(wire) /\ Len(wire') = n
        /\ \A i \in DOMAIN wire' : i \in 1 .. n /\ wire'[i] = wire[i]
    BY <2>1 DEF Typed
  <2>3. running' = Nothing /\ inbox' = <<>> /\ UNCHANGED command_generation
    BY <1>11 DEF ServerDies, connVars
  <2>4. ASSUME NEW i \in DOMAIN wire'
        PROVE  /\ wire'[i].of = command_generation
               /\ wire'[i].tag = "ready" => i = Len(wire')
    BY <2>2 DEF OneStatement
  <2>5. QED BY <2>3, <2>4 DEF OneStatement
<1>12. QED
  BY <1>1, <1>2, <1>3, <1>5, <1>6, <1>7, <1>9, <1>10, <1>11, Steps, Quietly, Receiving
     DEF Quiet, Shrugged, connVars

\* The backend does nothing for a connection nothing is on the way of.
LEMMA OwedStep ==
  ASSUME Typed, Called, InOrder, [Next]_vars, "frame" \notin lost'
  PROVE  Owed'
<1> USE DEF InOrder
<1>1. ASSUME UNCHANGED <<wire, inbox, running>>,
             dirty_socket' <=> dirty_socket,
             pc' \in {"starting", "padding"} => ~dirty_socket,
             pc' = "writing" => pc = "writing"
      PROVE  Owed'
  BY <1>1 DEF Owed, Empty
<1>2. ASSUME QuietStep PROVE Owed'
  <2>1. UNCHANGED <<wire, inbox, running>> BY <1>2, Quietly DEF Quiet
  <2>2. CASE Submit
    BY <2>1, <2>2 DEF Submit, At, Owed, Empty
  <2>3. CASE Prepare
    <3>1. UNCHANGED dirty_socket BY <2>3 DEF Prepare
    <3>2. pc' \in {"idle", "draining"} \/ (pc' = "starting" /\ ~dirty_socket)
      BY <2>3 DEF Prepare, Ends, At
    <3>3. QED BY <1>1, <2>1, <3>1, <3>2
  <2>4. ASSUME NEW s \in Statements, Execute(s) PROVE Owed'
    BY <1>1, <2>1, <2>4 DEF Execute, At, connVars
  <2>5. CASE Decide \/ Commit \/ Rollback \/ Fetch \/ CursorClosed \/ DrainGivesUp \/ WriteFails
             \/ Return \/ Raise
    <3>1. UNCHANGED dirty_socket
      BY <2>5 DEF Decide, Commit, Rollback, Fetch, CursorClosed, DrainGivesUp, WriteFails, Return,
           Raise, connVars
    <3>2. pc' \notin {"starting", "padding", "writing"}
      BY <2>5 DEF Decide, Commit, Rollback, Fetch, CursorClosed, DrainGivesUp, WriteFails, Return,
           Raise, At, Ends
    <3>3. QED BY <1>1, <2>1, <3>1, <3>2
  <2>6. CASE SendCancel \/ SkipCancel \/ Cancelled \/ Retire \/ Eof \/ FindClosed
    <3>1. UNCHANGED dirty_socket
      BY <2>6 DEF SendCancel, SkipCancel, Cancelled, Retire, Eof, FindClosed, connVars
    <3>2. pc' \notin {"starting", "padding", "writing"}
      BY <2>6 DEF SendCancel, SkipCancel, Cancelled, Retire, Eof, FindClosed, At, Ends
    <3>3. QED BY <1>1, <2>1, <3>1, <3>2
  <2>7. CASE ManualCancel \/ Close \/ UNCHANGED vars
    <3>1. UNCHANGED <<dirty_socket, pc>>
      BY <2>7 DEF ManualCancel, Close, vars, connVars, callVars
    <3>2. QED BY <1>1, <2>1, <3>1 DEF Owed
  <2>8. QED BY <1>2, <2>2, <2>3, <2>4, <2>5, <2>6, <2>7 DEF QuietStep
<1>3. ASSUME Start PROVE Owed'
  BY <1>3 DEF Start, At, serverVars, Owed, Empty
<1>4. ASSUME Received, Head(wire).tag = "ready" PROVE Empty'
  <2>1. Head(wire) = wire[1] /\ 1 \in DOMAIN wire BY <1>4 DEF Received, Typed
  <2>2. Len(wire) = 1 /\ running = Nothing /\ inbox = <<>>
    BY <1>4, <2>1 DEF OneStatement
  <2>3. wire' = <<>> BY <1>4, <2>2 DEF Received, Typed
  <2>4. QED BY <1>4, <2>2, <2>3 DEF Received, Empty
<1>5. ASSUME Drain PROVE Owed'
  <2>1. Received BY <1>5, Receiving
  <2>2. CASE Head(wire).tag = "ready"
    <3>1. pc' = "starting" /\ dirty_socket' = FALSE BY <1>5, <2>2 DEF Drain, At
    <3>2. QED BY <1>4, <2>1, <2>2, <3>1 DEF Owed
  <2>3. CASE Head(wire).tag # "ready"
    <3>1. pc' = "draining" /\ UNCHANGED dirty_socket /\ wire # <<>> BY <1>5, <2>3 DEF Drain
    <3>2. dirty_socket' BY <3>1 DEF Owed, Empty
    <3>3. QED BY <3>1, <3>2 DEF Owed
  <2>4. QED BY <2>2, <2>3
<1>6. ASSUME DrainDebris PROVE FALSE
  <2>1. Head(wire) = wire[1] /\ 1 \in DOMAIN wire BY <1>6 DEF DrainDebris, Typed
  <2>2. HasDebris(wire) BY <1>6, <2>1 DEF DrainDebris, HasDebris
  <2>3. QED BY <1>6, <2>2 DEF DrainDebris, CutsEnd, Retiring
<1>7. ASSUME Written PROVE Owed'
  BY <1>7 DEF Written, At, Owed
<1>8. ASSUME ReadMessage PROVE Owed'
  <2>1. Received BY <1>8, Receiving
  <2>2. pc' \notin {"starting", "padding", "writing"}
    BY <1>8, Afters DEF ReadMessage, At
  <2>3. dirty_socket' = (dirty_socket /\ Head(wire).tag # "ready")
    BY <1>8, Applied DEF ReadMessage
  <2>4. CASE Head(wire).tag = "ready" BY <1>4, <2>1, <2>2, <2>4 DEF Owed
  <2>5. CASE Head(wire).tag # "ready"
    <3>1. dirty_socket BY <2>1 DEF Received, Owed, Empty
    <3>2. QED BY <2>2, <2>3, <2>5, <3>1 DEF Owed
  <2>6. QED BY <2>4, <2>5
<1>9. ASSUME Timeout \/ TaskCancel PROVE Owed'
  <2>1. pc' \in {"cancelling", "idle"} /\ UNCHANGED <<dirty_socket, running>> BY <1>9, Interrupted
  <2>2. CASE UNCHANGED <<wire, inbox>> BY <1>1, <2>1, <2>2
  <2>3. CASE CutMessage
    <3>1. dirty_socket BY <2>3 DEF CutMessage, Owed, Empty
    <3>2. QED BY <2>1, <3>1 DEF Owed
  <2>4. CASE CutRequest
    <3>1. dirty_socket BY <2>4 DEF CutRequest, Owed
    <3>2. QED BY <2>1, <3>1 DEF Owed
  <2>5. QED BY <1>9, <2>2, <2>3, <2>4, Interrupted
<1>10. ASSUME ~Empty, UNCHANGED <<pc, dirty_socket>> PROVE Owed'
  BY <1>10 DEF Owed
<1>11. ASSUME Empty, Empty', UNCHANGED <<pc, dirty_socket>> PROVE Owed'
  BY <1>11 DEF Owed
<1>12. ASSUME ServerTake \/ Streams \/ \E v \in Verdicts \cup {"DONE"} : Ended(v)
       PROVE  ~Empty /\ UNCHANGED <<pc, dirty_socket>>
  BY <1>12 DEF ServerTake, Streams, Ended, Answers, Empty, connVars, callVars
<1>13. ASSUME ServerDies PROVE UNCHANGED <<pc, dirty_socket>> /\ (Empty => Empty')
  <2>1. ASSUME wire = <<>> PROVE wire' = <<>>
    <3>1. PICK n \in 0 .. Len(wire) : wire' = SubSeq(wire, 1, n) BY <1>13 DEF ServerDies
    <3>2. QED BY <2>1, <3>1
  <2>2. QED BY <1>13, <2>1 DEF ServerDies, Empty, connVars, callVars
<1>14. ASSUME Shrugged PROVE Owed'
  BY <1>1, <1>14 DEF Shrugged, connVars, callVars, Owed
<1>15. QED
  BY <1>2, <1>3, <1>5, <1>6, <1>7, <1>8, <1>9, <1>10, <1>11, <1>12, <1>13, <1>14, Steps

\* Who cuts a message goes to retire the connection: the flags say so until it is closed.
LEMMA CutsEndStep ==
  ASSUME Typed, Called, InOrder, [Next]_vars, "frame" \notin lost'
  PROVE  CutsEnd'
<1> DEFINE Ends1 == \/ pc \in Retiring /\ (frame_in_progress \/ partial_read)
                    \/ pc = "idle" /\ closed
<1>1. HasDebris(wire) => Ends1 BY DEF InOrder, CutsEnd
<1>2. SUFFICES ASSUME HasDebris(wire') PROVE Ends1'
  BY DEF CutsEnd, Retiring
<1>3. ASSUME HasDebris(wire), UNCHANGED <<pc, frame_in_progress, partial_read>>, closed => closed'
      PROVE  Ends1'
  BY <1>1, <1>3
<1>4. ASSUME QuietStep PROVE Ends1'
  <2>1. HasDebris(wire) /\ Ends1 BY <1>1, <1>2, <1>4, Quietly DEF Quiet
  <2>2. ASSUME NEW s \in Statements, Execute(s) PROVE FALSE
    BY <2>1, <2>2 DEF Execute, Retiring
  <2>3. ASSUME Decide \/ Commit \/ Rollback \/ Fetch \/ CursorClosed \/ Prepare \/ DrainGivesUp
               \/ Submit \/ WriteFails \/ Return \/ Raise \/ Eof \/ FindClosed
        PROVE  FALSE
    BY <2>1, <2>3 DEF Decide, Commit, Rollback, Fetch, CursorClosed, Prepare, DrainGivesUp, Submit,
         WriteFails, Return, Raise, Eof, FindClosed, Reading, Retiring
  <2>4. ASSUME SendCancel \/ SkipCancel \/ Cancelled PROVE Ends1'
    BY <2>1, <2>4 DEF SendCancel, SkipCancel, Cancelled, At, Retiring, connVars
  <2>5. ASSUME Retire PROVE Ends1'
    BY <2>1, <2>5 DEF Retire, Ends, Retiring
  <2>6. ASSUME ManualCancel \/ Close \/ UNCHANGED vars PROVE Ends1'
    BY <1>3, <2>1, <2>6 DEF ManualCancel, Close, vars, connVars, callVars
  <2>7. QED BY <1>4, <2>2, <2>3, <2>4, <2>5, <2>6 DEF QuietStep
<1>5. ASSUME Received PROVE HasDebris(wire)
  <2>1. \A i \in DOMAIN wire' : i + 1 \in DOMAIN wire /\ wire'[i] = wire[i + 1]
    BY <1>5, Shorter DEF Received, Typed
  <2>2. QED BY <1>2, <2>1 DEF HasDebris
<1>6. ASSUME Start \/ Drain \/ DrainDebris \/ Written \/ ReadMessage PROVE FALSE
  <2>1. HasDebris(wire)
    BY <1>2, <1>5, <1>6, Receiving DEF Start, Written, serverVars
  <2>2. QED BY <1>1, <1>6, <2>1 DEF Start, Drain, DrainDebris, Written, ReadMessage, Retiring
<1>7. ASSUME Timeout \/ TaskCancel PROVE Ends1'
  <2>1. CASE CutMessage BY <2>1 DEF CutMessage, Retiring
  <2>2. CASE ~CutMessage
    <3>1. UNCHANGED wire BY <1>7, <2>2, Interrupted DEF CutRequest
    <3>2. Ends1 BY <1>1, <1>2, <3>1
    <3>3. pc \in {"cancelling", "awaiting cancel"} BY <1>7, <3>2, Interrupted DEF Retiring
    <3>4. QED BY <1>2, <1>7, <3>3, Interrupted
  <2>3. QED BY <2>1, <2>2
<1>8. ASSUME NEW a \in Tags, NEW b \in Tags, Answers(a, b), a # Debris, b # Debris PROVE Ends1'
  <2>1. running.of \in Nat /\ Len(wire) \in Nat BY DEF Typed
  <2>2. wire \in Seq(Message) /\ wire' = Followed(wire, a, b, running.of)
    BY <1>8 DEF Answers, Send, Followed, Typed
  <2>3. /\ \A i \in DOMAIN wire : wire'[i] = wire[i]
        /\ DOMAIN wire' = 1 .. Len(wire) + 2 /\ DOMAIN wire = 1 .. Len(wire)
        /\ wire'[Len(wire) + 1] = [tag |-> a, of |-> running.of]
        /\ wire'[Len(wire) + 2] = [tag |-> b, of |-> running.of]
    <3>1. TwoMore(wire', wire, a, b, running.of) BY <2>1, <2>2, Sent
    <3>2. QED BY <3>1 DEF TwoMore
  <2>4. PICK i \in DOMAIN wire' : wire'[i].tag = Debris BY <1>2 DEF HasDebris
  <2>5. i \in DOMAIN wire BY <1>8, <2>1, <2>3, <2>4
  <2>6. HasDebris(wire) BY <2>3, <2>4, <2>5 DEF HasDebris
  <2>7. QED BY <1>3, <1>8, <2>6 DEF Answers, connVars, callVars
<1>9. ASSUME Streams PROVE Ends1'
  BY <1>8, <1>9 DEF Streams, Tags, Debris
<1>10. ASSUME NEW v \in Verdicts \cup {"DONE"}, Ended(v) PROVE Ends1'
  <2>1. v \in Tags /\ "ready" \in Tags /\ v # Debris /\ "ready" # Debris
    BY DEF Tags, Verdicts, Debris
  <2>2. QED BY <1>8, <1>10, <2>1 DEF Ended
<1>11. ASSUME ServerDies PROVE Ends1'
  <2>1. PICK n \in 0 .. Len(wire) : wire' = SubSeq(wire, 1, n) BY <1>11 DEF ServerDies
  <2>2. \A i \in DOMAIN wire' : i \in DOMAIN wire /\ wire'[i] = wire[i] BY <2>1, Prefix DEF Typed
  <2>3. HasDebris(wire) BY <1>2, <2>2 DEF HasDebris
  <2>4. QED BY <1>3, <1>11, <2>3 DEF ServerDies, connVars, callVars
<1>12. ASSUME ServerTake \/ Shrugged PROVE Ends1'
  BY <1>2, <1>3, <1>12 DEF ServerTake, Shrugged, connVars, callVars
<1>13. QED
  BY <1>4, <1>6, <1>7, <1>9, <1>10, <1>11, <1>12, Steps

\* While the backend works on a statement, no outcome is on the way.
LEMMA Unsaid ==
  ASSUME OneStatement, Tracked, running # Nothing, up, "outcome" \notin lost, ~HasDebris(wire), Typed
  PROVE  (\A i \in DOMAIN wire : wire[i].tag \notin Verdicts) /\ Told("row")
<1>1. Len(wire) \in Nat /\ DOMAIN wire = 1 .. Len(wire) BY DEF Typed
<1>2. ASSUME NEW i \in DOMAIN wire, wire[i].tag \in Verdicts PROVE FALSE
  <2>1. i = Len(wire) - 1 /\ wire[Len(wire)].tag = "ready" BY <1>2 DEF Tracked
  <2>2. Len(wire) \in DOMAIN wire BY <1>1, <2>1
  <2>3. QED BY <2>1, <2>2 DEF OneStatement
<1>3. QED BY <1>2 DEF Tracked

\* What the connection reads of the transaction is what the backend did to it.
LEMMA TrackedStep ==
  ASSUME Typed, Called, InOrder, [Next]_vars, "frame" \notin lost'
  PROVE  Tracked'
<1> USE DEF InOrder
<1>1. SUFFICES ASSUME up', "outcome" \notin lost', ~HasDebris(wire') PROVE Tracked'
  BY DEF Tracked
<1>2. ASSUME in_transaction' <=> in_transaction, transaction_failed' <=> transaction_failed,
             UNCHANGED transaction
      PROVE  \A t : Told(t)' <=> Told(t)
  BY <1>2 DEF Told, InAfter, FailedAfter
<1>3. ASSUME UNCHANGED <<wire, up>>, "outcome" \notin lost,
             in_transaction' <=> in_transaction, transaction_failed' <=> transaction_failed,
             UNCHANGED transaction
      PROVE  Tracked'
  <2>1. \A t : Told(t)' <=> Told(t) BY <1>2, <1>3
  <2>2. /\ \A i \in DOMAIN wire : wire[i].tag \in Verdicts =>
             i = Len(wire) - 1 /\ wire[Len(wire)].tag = "ready" /\ Told(wire[i].tag)
        /\ (\A i \in DOMAIN wire : wire[i].tag \notin Verdicts) => Told("row")
    BY <1>1, <1>3 DEF Tracked
  <2>3. /\ \A i \in DOMAIN wire' : wire'[i].tag \in Verdicts =>
             i = Len(wire') - 1 /\ wire'[Len(wire')].tag = "ready"
        /\ (\A i \in DOMAIN wire' : wire'[i].tag \notin Verdicts) => Told("row")'
    BY <1>3, <2>1, <2>2
  <2>4. ASSUME NEW i \in DOMAIN wire', wire'[i].tag \in Verdicts PROVE Told(wire[i].tag)'
    <3>1. PICK t : t = wire[i].tag OBVIOUS
    <3>2. Told(t) BY <1>3, <2>2, <2>4, <3>1
    <3>3. Told(t)' /\ t = wire'[i].tag BY <1>3, <2>1, <3>1, <3>2
    <3>4. QED BY <3>3 DEF Told, InAfter, FailedAfter
  <2>5. QED BY <2>3, <2>4 DEF Tracked
<1>4. ASSUME QuietStep PROVE Tracked'
  <2>1. UNCHANGED <<wire, up, transaction, transaction_failed, lost>> BY <1>4, Quietly DEF Quiet
  <2>2. in_transaction' <=> in_transaction
    <3>1. ASSUME NEW s \in Statements, Execute(s) PROVE UNCHANGED in_transaction
      BY <3>1 DEF Execute, connVars
    <3>2. CASE Return
      BY <3>2 DEF Return, Begun
    <3>3. ASSUME Decide \/ Commit \/ Rollback \/ Fetch \/ CursorClosed \/ Prepare \/ DrainGivesUp
                 \/ Submit \/ WriteFails \/ Raise
          PROVE  UNCHANGED in_transaction
      BY <3>3 DEF Decide, Commit, Rollback, Fetch, CursorClosed, Prepare, DrainGivesUp, Submit,
           WriteFails, Raise, connVars
    <3>4. ASSUME SendCancel \/ SkipCancel \/ Cancelled \/ Retire \/ Eof \/ ManualCancel \/ Close
                 \/ FindClosed \/ UNCHANGED vars
          PROVE  UNCHANGED in_transaction
      BY <3>4 DEF SendCancel, SkipCancel, Cancelled, Retire, Eof, ManualCancel, Close, FindClosed,
           vars, connVars
    <3>5. QED BY <1>4, <3>1, <3>2, <3>3, <3>4 DEF QuietStep
  <2>3. QED BY <1>1, <1>3, <2>1, <2>2
<1>5. ASSUME Start \/ Written \/ ServerTake \/ Shrugged PROVE Tracked'
  <2>1. UNCHANGED <<wire, up, transaction, transaction_failed, in_transaction, lost>>
    BY <1>5 DEF Start, Written, ServerTake, Shrugged, serverVars, connVars
  <2>2. QED BY <1>1, <1>3, <2>1
<1>6. ASSUME Timeout \/ TaskCancel PROVE Tracked'
  <2>1. /\ UNCHANGED <<in_transaction, transaction_failed, transaction, up>>
        /\ "outcome" \notin lost
    BY <1>1, <1>6, Interrupted
  <2>2. ~CutMessage BY <1>1, CutFirst DEF CutMessage, Typed
  <2>3. UNCHANGED wire BY <1>6, <2>2, Interrupted DEF CutRequest
  <2>4. QED BY <1>3, <2>1, <2>3
<1>7. ASSUME Received, up, "outcome" \notin lost, ~HasDebris(wire),
             Head(wire).tag \notin Verdicts,
             in_transaction' <=> in_transaction, transaction_failed' <=> transaction_failed
      PROVE  Tracked'
  <2>1. \A t : Told(t)' <=> Told(t) BY <1>2, <1>7 DEF Received
  <2>2. /\ Len(wire) \in Nat /\ Len(wire') = Len(wire) - 1 /\ Head(wire) = wire[1]
        /\ DOMAIN wire = 1 .. Len(wire) /\ DOMAIN wire' = 1 .. Len(wire')
        /\ \A i \in DOMAIN wire' : i + 1 \in DOMAIN wire /\ wire'[i] = wire[i + 1]
    <3>1. wire # <<>> /\ wire' = Tail(wire) /\ wire \in Seq(Message)
      BY <1>7 DEF Received, Typed
    <3>2. Tail(wire) \in Seq(Message) BY <3>1
    <3>3. QED BY <3>1, <3>2, Shorter
  <2>3. /\ \A i \in DOMAIN wire : wire[i].tag \in Verdicts =>
             i = Len(wire) - 1 /\ wire[Len(wire)].tag = "ready" /\ Told(wire[i].tag)
        /\ (\A i \in DOMAIN wire : wire[i].tag \notin Verdicts) => Told("row")
    BY <1>7 DEF Tracked
  <2>4. ASSUME NEW i \in DOMAIN wire', wire'[i].tag \in Verdicts
        PROVE  i = Len(wire') - 1 /\ wire'[Len(wire')].tag = "ready" /\ Told(wire[i].tag)'
    <3>1. PICK j \in DOMAIN wire : j = i + 1 BY <2>2
    <3>2. wire'[i] = wire[j] BY <2>2, <3>1
    <3>3. PICK t : t = wire[j].tag OBVIOUS
    <3>4. j = Len(wire) - 1 /\ wire[Len(wire)].tag = "ready" /\ Told(t)
      BY <2>3, <2>4, <3>2, <3>3
    <3>5. i \in Nat /\ i = Len(wire') - 1 /\ Len(wire') \in DOMAIN wire' /\ Len(wire') + 1 = Len(wire)
      BY <2>2, <3>1, <3>4
    <3>6. wire'[Len(wire')].tag = "ready" BY <2>2, <3>4, <3>5
    <3>7. Told(t)' /\ t = wire'[i].tag BY <2>1, <3>2, <3>3, <3>4
    <3>8. Told(wire[i].tag)' BY <3>7 DEF Told, InAfter, FailedAfter
    <3>9. QED BY <3>5, <3>6, <3>8
  <2>5. ASSUME \A i \in DOMAIN wire' : wire'[i].tag \notin Verdicts PROVE Told("row")'
    <3>1. ASSUME NEW i \in DOMAIN wire PROVE wire[i].tag \notin Verdicts
      <4>1. CASE i = 1 BY <1>7, <2>2, <4>1
      <4>2. CASE i # 1
        <5>1. PICK k \in Nat : i = k + 1 /\ k \in DOMAIN wire' BY <2>2, <4>2
        <5>2. wire'[k] = wire[i] BY <2>2, <5>1
        <5>3. QED BY <2>5, <5>1, <5>2
      <4>3. QED BY <4>1, <4>2
    <3>2. QED BY <2>1, <2>3, <3>1
  <2>6. QED BY <2>4, <2>5 DEF Tracked
<1>8. ASSUME Received, "outcome" \notin lost PROVE up /\ (~HasDebris(wire) \/ Head(wire).tag = Debris)
  <2>1. wire # <<>> /\ wire' = Tail(wire) /\ wire \in Seq(Message) /\ up
    BY <1>1, <1>8 DEF Received, Typed
  <2>2. ASSUME NEW i \in DOMAIN wire, wire[i].tag = Debris PROVE Head(wire).tag = Debris
    <3>1. CASE i = 1 BY <2>1, <2>2, <3>1
    <3>2. CASE i # 1
      <4>0. /\ Len(wire) \in Nat /\ Len(Tail(wire)) = Len(wire) - 1
            /\ DOMAIN wire = 1 .. Len(wire) /\ DOMAIN Tail(wire) = 1 .. Len(Tail(wire))
        BY <2>1
      <4>1. PICK n \in Nat : n = Len(wire) BY <4>0
      <4>2. i \in 2 .. n BY <2>2, <3>2, <4>0, <4>1
      <4>3. i - 1 \in Nat /\ i = (i - 1) + 1 /\ i - 1 \in 1 .. n - 1 BY <4>1, <4>2
      <4>4. i - 1 \in DOMAIN Tail(wire) BY <4>0, <4>1, <4>3
      <4>5. wire'[i - 1] = wire[i] BY <2>1, <4>3, <4>4, Shorter
      <4>6. QED BY <1>1, <2>1, <2>2, <4>4, <4>5 DEF HasDebris
    <3>3. QED BY <3>1, <3>2
  <2>3. QED BY <2>1, <2>2 DEF HasDebris
<1>9. ASSUME Drain PROVE Tracked'
  <2>1. /\ Received /\ Head(wire).tag # Debris
        /\ UNCHANGED <<in_transaction, transaction_failed>>
        /\ Head(wire).tag \in {"desc", "row", "DONE", "ready"} /\ "outcome" \notin lost
    BY <1>1, <1>9, Receiving DEF Drain
  <2>2. Head(wire).tag \notin Verdicts BY <2>1 DEF Verdicts
  <2>3. QED BY <1>7, <1>8, <2>1, <2>2
<1>10. ASSUME DrainDebris PROVE FALSE
  BY <1>1, <1>10 DEF DrainDebris
<1>11. ASSUME ReadMessage PROVE Tracked'
  <2>1. Received /\ "outcome" \notin lost BY <1>1, <1>11, Receiving DEF ReadMessage
  <2>2. ~HasDebris(wire) BY <1>11 DEF ReadMessage, CutsEnd, Retiring
  <2>3. PICK t : t = Head(wire).tag OBVIOUS
  <2>4. Apply(t) BY <1>11, <2>3 DEF ReadMessage
  <2>5. up BY <1>1, <2>1 DEF Received
  <2>6. CASE t \notin Verdicts
    <3>1. UNCHANGED <<in_transaction, transaction_failed>>
      BY <2>4, <2>6, Applied DEF Verdicts
    <3>2. QED BY <1>7, <2>1, <2>2, <2>3, <2>5, <2>6, <3>1
  <2>7. CASE t \in Verdicts
    <3>1. wire # <<>> /\ wire' = Tail(wire) /\ wire \in Seq(Message)
      BY <2>1 DEF Received, Typed
    <3>2. Head(wire) = wire[1] /\ 1 \in DOMAIN wire /\ Len(wire) \in Nat BY <3>1
    <3>3. wire[1].tag = t BY <2>3, <3>2
    <3>4. /\ 1 = Len(wire) - 1 /\ wire[Len(wire)].tag = "ready" /\ Told(wire[1].tag)
      BY <2>1, <2>2, <2>5, <2>7, <3>2, <3>3 DEF Tracked
    <3>5. Told(t) /\ Len(wire) = 2 /\ wire[2].tag = "ready"
      <4>1. Told(t) BY <3>3, <3>4, Zenon
      <4>2. Len(wire) = 2 BY <3>2, <3>4
      <4>3. QED BY <3>4, <4>1, <4>2, Zenon
    <3>6. Len(wire') = 1 /\ wire' \in Seq(Message) /\ wire'[1] = wire[2]
      BY <3>1, <3>5
    <3>7. DOMAIN wire' = {1} BY <3>6
    <3>8. (in_transaction' <=> InAfter(t)) /\ (transaction_failed' <=> FailedAfter(t))
      BY <2>4, <2>7, Applied DEF InAfter, FailedAfter, Verdicts
    <3>9. Told("row")' BY <2>1, <3>5, <3>8 DEF Told, InAfter, FailedAfter, Received
    <3>10. \A i \in DOMAIN wire' : wire'[i].tag \notin Verdicts
      BY <3>5, <3>6, <3>7 DEF Verdicts
    <3>11. QED BY <3>9, <3>10 DEF Tracked
  <2>8. QED BY <2>6, <2>7
<1>12. ASSUME NEW a \in Tags, NEW b \in Tags, Answers(a, b), "outcome" \notin lost
       PROVE  /\ Told("row") /\ Len(wire) \in Nat /\ Len(wire') = Len(wire) + 2
              /\ DOMAIN wire' = 1 .. Len(wire) + 2
              /\ \A i \in 1 .. Len(wire) : wire'[i].tag \notin Verdicts
              /\ wire'[Len(wire) + 1].tag = a /\ wire'[Len(wire) + 2].tag = b
              /\ UNCHANGED <<in_transaction, transaction_failed>>
  <2>1. running.of \in Nat /\ Len(wire) \in Nat BY DEF Typed
  <2>2. wire \in Seq(Message) /\ wire' = Followed(wire, a, b, running.of) /\ running # Nothing
        /\ UNCHANGED <<in_transaction, transaction_failed, up, lost>>
    BY <1>12 DEF Answers, Send, Followed, Typed, connVars
  <2>3. /\ \A i \in DOMAIN wire : wire'[i] = wire[i]
        /\ DOMAIN wire' = 1 .. Len(wire) + 2 /\ DOMAIN wire = 1 .. Len(wire)
        /\ Len(wire') = Len(wire) + 2
        /\ wire'[Len(wire) + 1] = [tag |-> a, of |-> running.of]
        /\ wire'[Len(wire) + 2] = [tag |-> b, of |-> running.of]
    <3>1. TwoMore(wire', wire, a, b, running.of) BY <2>1, <2>2, Sent
    <3>2. QED BY <3>1 DEF TwoMore
  <2>4. ~HasDebris(wire)
    <3>1. ASSUME NEW i \in DOMAIN wire PROVE wire[i].tag # Debris
      BY <1>1, <2>1, <2>3 DEF HasDebris
    <3>2. QED BY <3>1 DEF HasDebris
  <2>5. up BY <1>1, <2>2
  <2>6. (\A i \in DOMAIN wire : wire[i].tag \notin Verdicts) /\ Told("row")
    BY <1>12, <2>2, <2>4, <2>5, Unsaid
  <2>7. QED BY <2>1, <2>2, <2>3, <2>6
<1>13. ASSUME Streams PROVE Tracked'
  <2>1. /\ Answers("desc", "row") /\ UNCHANGED <<transaction, lost>>
        /\ "desc" \in Tags /\ "row" \in Tags
    BY <1>13 DEF Streams, Answers, Tags
  <2>2. /\ Told("row") /\ Len(wire) \in Nat /\ DOMAIN wire' = 1 .. Len(wire) + 2
        /\ \A i \in 1 .. Len(wire) : wire'[i].tag \notin Verdicts
        /\ wire'[Len(wire) + 1].tag = "desc" /\ wire'[Len(wire) + 2].tag = "row"
        /\ UNCHANGED <<in_transaction, transaction_failed>>
    BY <1>1, <1>12, <2>1
  <2>3. ASSUME NEW i \in DOMAIN wire' PROVE wire'[i].tag \notin Verdicts
    <3>1. i \in 1 .. Len(wire) \/ i = Len(wire) + 1 \/ i = Len(wire) + 2 BY <2>2
    <3>2. QED BY <2>2, <3>1 DEF Verdicts
  <2>4. Told("row")' BY <1>2, <2>1, <2>2
  <2>5. QED BY <2>3, <2>4 DEF Tracked
<1>14. ASSUME NEW v \in Verdicts \cup {"DONE"}, Ended(v) PROVE Tracked'
  <2>1. Answers(v, "ready") /\ UNCHANGED lost /\ Tells(v) /\ v \in Tags /\ "ready" \in Tags
    BY <1>14 DEF Ended, Answers, Tags, Verdicts
  <2>2. /\ Told("row") /\ Len(wire) \in Nat /\ DOMAIN wire' = 1 .. Len(wire) + 2
        /\ Len(wire') = Len(wire) + 2
        /\ \A i \in 1 .. Len(wire) : wire'[i].tag \notin Verdicts
        /\ wire'[Len(wire) + 1].tag = v /\ wire'[Len(wire) + 2].tag = "ready"
        /\ UNCHANGED <<in_transaction, transaction_failed>>
    BY <1>1, <1>12, <2>1
  <2>3. transaction \in {"none", "open", "failed"} BY DEF Typed
  <2>4. v # "DONE" => Told(v)'
    <3>1. /\ in_transaction <=> transaction # "none"
          /\ transaction_failed <=> transaction = "failed"
      BY <2>2 DEF Told, InAfter, FailedAfter
    <3>2. CASE v = "ABORT" BY <2>1, <2>2, <3>1, <3>2 DEF Tells, Told, InAfter, FailedAfter
    <3>3. CASE v = "BEGIN" BY <2>1, <2>2, <3>1, <3>3 DEF Tells, Told, InAfter, FailedAfter
    <3>4. CASE v \in {"COMMIT", "ROLLBACK"}
      BY <2>1, <2>2, <3>1, <3>4 DEF Tells, Told, InAfter, FailedAfter
    <3>5. CASE v = "error" BY <2>1, <2>2, <2>3, <3>1, <3>5 DEF Tells, Told, InAfter, FailedAfter
    <3>6. QED BY <3>2, <3>3, <3>4, <3>5 DEF Verdicts
  <2>5. v = "DONE" => Told("row")' BY <1>2, <2>1, <2>2 DEF Tells
  <2>6. ASSUME NEW i \in DOMAIN wire', wire'[i].tag \in Verdicts
        PROVE  i = Len(wire') - 1 /\ wire'[Len(wire')].tag = "ready" /\ Told(wire[i].tag)'
    <3>1. i \in 1 .. Len(wire) \/ i = Len(wire) + 1 \/ i = Len(wire) + 2 BY <2>2
    <3>2. i = Len(wire) + 1 /\ v # "DONE" BY <2>2, <2>6, <3>1 DEF Verdicts
    <3>3. i = Len(wire') - 1 /\ wire'[Len(wire')].tag = "ready" BY <2>2, <3>2
    <3>4. wire'[i].tag = v /\ Told(v)' BY <2>2, <2>4, <3>2
    <3>5. Told(wire[i].tag)' BY <3>4 DEF Told, InAfter, FailedAfter
    <3>6. QED BY <3>3, <3>5
  <2>7. ASSUME \A i \in DOMAIN wire' : wire'[i].tag \notin Verdicts PROVE Told("row")'
    <3>1. Len(wire) + 1 \in DOMAIN wire' BY <2>2
    <3>2. v \notin Verdicts BY <2>2, <2>7, <3>1
    <3>3. QED BY <2>5, <3>2
  <2>8. QED BY <2>6, <2>7 DEF Tracked
<1>15. ASSUME ServerDies PROVE FALSE
  BY <1>1, <1>15 DEF ServerDies
<1>16. QED
  BY <1>4, <1>5, <1>6, <1>9, <1>10, <1>11, <1>13, <1>14, <1>15, Steps

\* The implicit BEGIN returns to a caller that is in a transaction.
LEMMA BegunStep ==
  ASSUME Typed, Called, InOrder, [Next]_vars, "frame" \notin lost', Typed'
  PROVE  Begun'
<1> USE DEF InOrder
<1>1. SUFFICES ASSUME Len(todo') > 1
               PROVE  /\ Head(todo') = "begin"
                      /\ pc' = "reading" => BeginAnswered'
                      /\ pc' = "returned" => in_transaction'
  BY DEF Begun
<1> DEFINE Goal == /\ Head(todo') = "begin"
                   /\ pc' = "reading" => BeginAnswered'
                   /\ pc' = "returned" => in_transaction'
<1>2. ~(Len(todo') <= 1) /\ todo' # <<>>
  <2>1. Len(todo') \in Nat BY DEF Typed
  <2>2. ~(Len(todo') <= 1) BY <1>1, <2>1
  <2>3. QED BY <2>2, Lengths
<1>3. ASSUME UNCHANGED todo
      PROVE  /\ Head(todo') = "begin" /\ Len(todo) > 1 /\ todo # <<>>
             /\ pc = "reading" => BeginAnswered
             /\ pc = "returned" => in_transaction
  BY <1>1, <1>2, <1>3 DEF Begun
<1>4. ASSUME UNCHANGED <<todo, pc, wire, inbox, running, in_transaction>> PROVE Goal
  BY <1>3, <1>4 DEF BeginAnswered
<1>5. ASSUME UNCHANGED todo, pc' \notin {"reading", "returned"} PROVE Goal
  BY <1>3, <1>5
<1>6. ASSUME QuietStep PROVE Goal
  <2>1. ASSUME NEW s \in Statements, Execute(s) PROVE FALSE
    <3>1. todo' = <<s>> BY <2>1 DEF Execute
    <3>2. Len(<<s>>) = 1 OBVIOUS
    <3>3. QED BY <1>2, <3>1, <3>2
  <2>2. ASSUME Commit \/ Rollback PROVE FALSE
    <3>1. todo' = <<"commit">> \/ todo' = <<"rollback">> BY <2>2 DEF Commit, Rollback
    <3>2. Len(<<"commit">>) = 1 /\ Len(<<"rollback">>) = 1 OBVIOUS
    <3>3. QED BY <1>2, <3>1, <3>2
  <2>3. CASE Decide
    <3>1. Len(todo) <= 1 BY <2>3 DEF Decide, Called
    <3>2. todo' = <<"begin">> \o todo /\ pc' = "preparing" BY <1>2, <2>3, <3>1 DEF Decide, At
    <3>3. Head(<<"begin">> \o todo) = "begin"
      <4>1. todo \in Seq(Kinds) BY DEF Typed
      <4>2. QED BY <4>1
    <3>4. QED BY <3>2, <3>3
  <2>4. ASSUME Fetch \/ CursorClosed PROVE FALSE
    <3>1. UNCHANGED todo /\ todo = <<>> BY <2>4 DEF Fetch, CursorClosed, Called
    <3>2. QED BY <1>2, <3>1
  <2>5. CASE Prepare \/ Submit \/ SendCancel \/ SkipCancel \/ Cancelled
    <3>1. UNCHANGED todo /\ pc' \notin {"reading", "returned"}
      BY <1>2, <2>5 DEF Prepare, Submit, SendCancel, SkipCancel, Cancelled, At, Ends
    <3>2. QED BY <1>5, <3>1
  <2>6. ASSUME DrainGivesUp \/ WriteFails \/ Raise \/ Retire \/ Eof \/ FindClosed PROVE FALSE
    BY <1>2, <2>6 DEF DrainGivesUp, WriteFails, Raise, Retire, Eof, FindClosed, Ends
  <2>7. ASSUME Return PROVE FALSE
    <3>1. Len(todo) > 1 /\ todo' = Tail(todo) BY <1>2, <2>7 DEF Return, Ends
    <3>2. Len(Tail(todo)) = 1 BY <3>1, Halved DEF Typed, Called
    <3>3. QED BY <1>2, <3>1, <3>2
  <2>8. CASE ManualCancel \/ Close \/ UNCHANGED vars
    <3>1. UNCHANGED <<todo, pc, wire, inbox, running, in_transaction>>
      BY <2>8 DEF ManualCancel, Close, vars, connVars, callVars, serverVars
    <3>2. QED BY <1>4, <3>1
  <2>9. QED BY <1>6, <2>1, <2>2, <2>3, <2>4, <2>5, <2>6, <2>7, <2>8 DEF QuietStep
<1>7. ASSUME Start \/ Drain \/ DrainDebris PROVE Goal
  <2>1. UNCHANGED todo /\ pc' \notin {"reading", "returned"}
    BY <1>7 DEF Start, Drain, DrainDebris, At
  <2>2. QED BY <1>5, <2>1
<1>8. ASSUME Written PROVE Goal
  <2>1. UNCHANGED <<todo, wire, running>> /\ pc' = "reading" /\ inbox' \in {inbox, Append(inbox, Request)}
    BY <1>8 DEF Written, At
  <2>2. Empty BY <1>8 DEF Written, Owed
  <2>3. Head(todo) = "begin" BY <1>3, <2>1
  <2>4. Request.what = "begin" BY <2>3 DEF Request
  <2>5. \A i \in DOMAIN inbox' : inbox'[i].what = "begin"
    <3>1. inbox' = <<>> \/ inbox' = <<Request>> BY <2>1, <2>2 DEF Empty
    <3>2. QED BY <2>4, <3>1
  <2>6. BeginAnswered'
    <3>1. wire' = <<>> /\ running' = Nothing BY <2>1, <2>2 DEF Empty
    <3>2. QED BY <2>5, <3>1 DEF BeginAnswered
  <2>7. QED BY <1>3, <2>1, <2>6
<1>9. ASSUME ReadMessage PROVE Goal
  <2>1. PICK t : t = Head(wire).tag OBVIOUS
  <2>2. /\ pc' = After(t) /\ Apply(t) /\ wire # <<>> /\ wire' = Tail(wire)
        /\ UNCHANGED <<todo, inbox, running>> /\ pc # "returned"
    BY <1>9, <2>1 DEF ReadMessage, At
  <2>3. CASE pc # "reading"
    <3>1. pc' \notin {"reading", "returned"} BY <2>2, <2>3, Afters
    <3>2. QED BY <1>5, <2>2, <3>1
  <2>4. CASE pc = "reading"
    <3>1. BeginAnswered /\ Head(todo') = "begin" BY <1>3, <2>2, <2>4
    <3>2. Head(wire) = wire[1] /\ 1 \in DOMAIN wire BY <2>2 DEF Typed
    <3>3. t \in {"BEGIN", "ABORT", "error", "ready"} BY <2>1, <3>1, <3>2 DEF BeginAnswered
    <3>4. t \in {"ABORT", "error"} => pc' = "erring"
      BY <2>2, <2>4 DEF After, IsError
    <3>5. CASE t = "ready"
      <4>1. in_transaction BY <2>1, <2>2, <3>1, <3>5 DEF BeginAnswered
      <4>2. in_transaction' BY <2>2, <3>5, <4>1, Applied
      <4>3. ~IsError(t) BY <3>5 DEF IsError
      <4>4. pc' = "returned" BY <2>2, <2>4, <3>5, <4>3 DEF After
      <4>5. QED BY <3>1, <4>2, <4>4
    <3>6. CASE t = "BEGIN"
      <4>1. in_transaction' BY <2>2, <3>6, Applied
      <4>2. \A i \in DOMAIN wire' : i + 1 \in DOMAIN wire /\ wire'[i] = wire[i + 1]
        BY <2>2, Shorter DEF Typed
      <4>3. \A i \in DOMAIN wire' : wire'[i].tag \in {"BEGIN", "ABORT", "error", "ready"}
        BY <3>1, <4>2 DEF BeginAnswered
      <4>4. BeginAnswered' BY <2>2, <3>1, <4>1, <4>3 DEF BeginAnswered
      <4>5. QED BY <3>1, <4>1, <4>4
    <3>7. QED BY <3>1, <3>3, <3>4, <3>5, <3>6
  <2>5. QED BY <2>3, <2>4
<1>10. ASSUME Timeout \/ TaskCancel PROVE Goal
  <2>1. pc' \notin {"reading", "returned"} /\ todo' \in {todo, <<>>} BY <1>10, Interrupted
  <2>2. UNCHANGED todo BY <1>2, <2>1
  <2>3. QED BY <1>5, <2>1, <2>2
<1>11. ASSUME UNCHANGED <<todo, pc, in_transaction>>,
              pc = "reading" /\ BeginAnswered => BeginAnswered'
       PROVE  Goal
  BY <1>3, <1>11
<1>12. ASSUME ServerTake PROVE Goal
  <2>1. UNCHANGED <<todo, pc, in_transaction, wire>> BY <1>12 DEF ServerTake, connVars, callVars
  <2>2. ASSUME BeginAnswered PROVE BeginAnswered'
    <3>1. Head(inbox) = inbox[1] /\ 1 \in DOMAIN inbox BY <1>12 DEF ServerTake, Typed
    <3>2. running'.what = "begin" BY <1>12, <2>2, <3>1 DEF ServerTake, BeginAnswered
    <3>3. inbox # <<>> /\ inbox' = Tail(inbox) BY <1>12 DEF ServerTake
    <3>4. \A i \in DOMAIN inbox' : i + 1 \in DOMAIN inbox /\ inbox'[i] = inbox[i + 1]
      BY <3>3, Shorter DEF Typed
    <3>5. QED BY <2>1, <2>2, <3>2, <3>4 DEF BeginAnswered
  <2>3. QED BY <1>11, <2>1, <2>2
<1>13. ASSUME Streams PROVE Goal
  <2>1. UNCHANGED <<todo, pc, in_transaction>> /\ running.what = "query" /\ running # Nothing
    BY <1>13 DEF Streams, Answers, connVars, callVars
  <2>2. ~BeginAnswered BY <2>1 DEF BeginAnswered
  <2>3. QED BY <1>11, <2>1, <2>2
<1>14. ASSUME NEW v \in Verdicts \cup {"DONE"}, Ended(v) PROVE Goal
  <2>1. /\ UNCHANGED <<todo, pc, in_transaction, inbox>> /\ running # Nothing /\ running' = Nothing
        /\ running.what = "begin" => v \in {"BEGIN", "ABORT", "error"}
    BY <1>14 DEF Ended, Answers, connVars, callVars
  <2>2. ASSUME BeginAnswered PROVE BeginAnswered'
    <3>1. v \in {"BEGIN", "ABORT", "error"} BY <2>1, <2>2 DEF BeginAnswered
    <3>2. v \in Tags /\ "ready" \in Tags /\ running.of \in Nat /\ Len(wire) \in Nat
      BY DEF Tags, Verdicts, Typed
    <3>3. wire \in Seq(Message) /\ wire' = Followed(wire, v, "ready", running.of)
      BY <1>14 DEF Ended, Answers, Send, Followed, Typed
    <3>4. /\ \A i \in DOMAIN wire : wire'[i] = wire[i]
          /\ DOMAIN wire' = 1 .. Len(wire) + 2 /\ DOMAIN wire = 1 .. Len(wire)
          /\ Len(wire') = Len(wire) + 2
          /\ wire'[Len(wire) + 1] = [tag |-> v, of |-> running.of]
          /\ wire'[Len(wire) + 2] = [tag |-> "ready", of |-> running.of]
      <4>1. TwoMore(wire', wire, v, "ready", running.of) BY <3>2, <3>3, Sent
      <4>2. QED BY <4>1 DEF TwoMore
    <3>5. ASSUME NEW i \in DOMAIN wire'
          PROVE  wire'[i].tag \in {"BEGIN", "ABORT", "error", "ready"}
      <4>1. i \in DOMAIN wire \/ i = Len(wire) + 1 \/ i = Len(wire) + 2 BY <3>2, <3>4
      <4>2. QED BY <2>2, <3>1, <3>4, <4>1 DEF BeginAnswered
    <3>6. ASSUME Head(wire').tag = "ready" PROVE in_transaction
      <4>1. Head(wire') = wire'[1]
        <5>1. wire' \in Seq(Message) BY DEF Typed
        <5>2. QED BY <5>1, <3>2, <3>4
      <4>2. CASE wire = <<>>
        <5>1. Len(wire) = 0 BY <4>2
        <5>2. wire'[1].tag = v BY <3>4, <5>1
        <5>3. QED BY <3>1, <3>6, <4>1, <5>2
      <4>3. CASE wire # <<>>
        <5>1. 1 \in DOMAIN wire /\ Head(wire) = wire[1] BY <3>3, <4>3
        <5>2. Head(wire).tag = "ready" BY <3>4, <3>6, <4>1, <5>1
        <5>3. QED BY <2>2, <4>3, <5>2 DEF BeginAnswered
      <4>4. QED BY <4>2, <4>3
    <3>7. QED BY <2>1, <2>2, <3>5, <3>6 DEF BeginAnswered
  <2>3. QED BY <1>11, <2>1, <2>2
<1>15. ASSUME ServerDies PROVE Goal
  <2>1. UNCHANGED <<todo, pc, in_transaction>> /\ running' = Nothing /\ inbox' = <<>>
    BY <1>15 DEF ServerDies, connVars, callVars
  <2>2. PICK n \in 0 .. Len(wire) : wire' = SubSeq(wire, 1, n) BY <1>15 DEF ServerDies
  <2>3. /\ wire' \in Seq(Message)
        /\ \A i \in DOMAIN wire' : i \in DOMAIN wire /\ wire'[i] = wire[i]
    BY <2>2, Prefix DEF Typed
  <2>4. ASSUME BeginAnswered PROVE BeginAnswered'
    <3>1. ASSUME wire' # <<>> PROVE wire # <<>> /\ Head(wire') = Head(wire)
      <4>1. 1 \in DOMAIN wire' /\ Head(wire') = wire'[1] BY <2>3, <3>1
      <4>2. 1 \in DOMAIN wire /\ wire'[1] = wire[1] BY <2>3, <4>1
      <4>3. wire \in Seq(Message) BY DEF Typed
      <4>4. wire # <<>> /\ Head(wire) = wire[1] BY <4>2, <4>3
      <4>5. QED BY <4>1, <4>2, <4>4
    <3>2. QED BY <2>1, <2>3, <2>4, <3>1 DEF BeginAnswered
  <2>5. QED BY <1>11, <2>1, <2>4
<1>16. ASSUME Shrugged PROVE Goal
  BY <1>4, <1>16 DEF Shrugged, connVars, callVars
<1>17. QED
  BY <1>6, <1>7, <1>8, <1>9, <1>10, <1>12, <1>13, <1>14, <1>15, <1>16, Steps

-----------------------------------------------------------------------------
(* The theorems                                                                *)

LEMMA InvariantHolds == Spec => []IInv
<1>1. ASSUME Init PROVE IInv
  <2>1. Typed /\ Called /\ Awaited BY <1>1, TypedAtFirst, CalledAtFirst
  <2>2. wire = <<>> /\ inbox = <<>> /\ running = Nothing /\ todo = <<>> BY <1>1 DEF Init
  <2>3. OneStatement /\ Owed /\ CutsEnd /\ Begun
    <3>1. OneStatement BY <2>2 DEF OneStatement
    <3>2. Owed BY <1>1, <2>2 DEF Init, Owed, Empty
    <3>3. CutsEnd BY <2>2 DEF CutsEnd, HasDebris
    <3>4. Begun
      <4>1. Len(todo) <= 1 /\ Len(todo) \in Nat BY <2>1, <2>2, Lengths DEF Typed
      <4>2. QED BY <4>1 DEF Begun
    <3>5. QED BY <3>1, <3>2, <3>3, <3>4
  <2>4. Tracked
    <3>1. Told("row") BY <1>1 DEF Init, Told, InAfter, FailedAfter
    <3>2. QED BY <2>2, <3>1 DEF Tracked
  <2>5. QED BY <2>1, <2>3, <2>4 DEF IInv, InOrder
<1>2. ASSUME IInv, [Next]_vars PROVE IInv'
  <2>1. Typed /\ Called BY <1>2 DEF IInv
  <2>2. Typed' /\ Called' BY <1>2, <2>1, TypedStep, CalledStep
  <2>3. ("frame" \in lost => "frame" \in lost') /\ ("cancel" \in lost => "cancel" \in lost')
    <3>1. UNCHANGED lost \/ Drain \/ DrainDebris \/ Timeout \/ TaskCancel
      <4>1. QuietStep => UNCHANGED lost BY Quietly DEF Quiet
      <4>2. Start \/ Written \/ ReadMessage => UNCHANGED lost BY DEF Start, Written, ReadMessage
      <4>3. ServerTake \/ Streams \/ ServerDies \/ Shrugged => UNCHANGED lost
        BY DEF ServerTake, Streams, ServerDies, Shrugged, Answers
      <4>4. (\E v \in Verdicts \cup {"DONE"} : Ended(v)) => UNCHANGED lost BY DEF Ended, Answers
      <4>5. QED BY <1>2, <2>1, <4>1, <4>2, <4>3, <4>4, Steps
    <3>2. QED BY <3>1 DEF Drain, DrainDebris, Timeout, TaskCancel
  <2>4. ASSUME "cancel" \notin lost' PROVE Awaited'
    BY <1>2, <2>3, <2>4, AwaitedStep DEF IInv
  <2>5. ASSUME "frame" \notin lost' PROVE InOrder'
    <3>1. InOrder BY <1>2, <2>3, <2>5 DEF IInv
    <3>2. OneStatement' /\ Owed' BY <1>2, <2>1, <2>5, <3>1, OneStatementStep, OwedStep
    <3>3. CutsEnd' /\ Tracked' BY <1>2, <2>1, <2>5, <3>1, CutsEndStep, TrackedStep
    <3>4. Begun' BY <1>2, <2>1, <2>2, <2>5, <3>1, BegunStep
    <3>5. QED BY <3>2, <3>3, <3>4 DEF InOrder
  <2>6. QED BY <2>2, <2>4, <2>5 DEF IInv
<1>3. QED BY <1>1, <1>2, PTL DEF Spec

\* Whatever was interrupted before, a statement reads its own messages only, and the
\* drain never takes the rest of a cut message for one (_drain_socket(), _retire_if_desynced()).
THEOREM ReadsItsOwn == Spec => []OwnMessagesOnly
<1>1. ASSUME IInv PROVE OwnMessagesOnly
  <2>1. SUFFICES ASSUME ~closed, "frame" \notin lost
                 PROVE  /\ live => \A i \in DOMAIN wire : wire[i].of = command_generation
                        /\ pc = "draining" /\ wire # <<>> => Head(wire).tag # Debris
    BY DEF OwnMessagesOnly
  <2>2. OneStatement /\ CutsEnd /\ Typed BY <1>1, <2>1 DEF IInv, InOrder
  <2>3. ASSUME pc = "draining", wire # <<>>, Head(wire).tag = Debris PROVE FALSE
    <3>1. 1 \in DOMAIN wire /\ Head(wire) = wire[1] BY <2>2, <2>3 DEF Typed
    <3>2. HasDebris(wire) BY <2>3, <3>1 DEF HasDebris
    <3>3. QED BY <2>2, <2>3, <3>2 DEF CutsEnd, Retiring
  <2>4. QED BY <2>2, <2>3 DEF OneStatement
<1>2. QED BY <1>1, InvariantHolds, PTL

\* When nothing is owed, in_transaction and transaction_failed are what the backend's
\* transaction is, unless a drain dropped an outcome or a frame was lost.
THEOREM ViewIsTheBackends == Spec => []TransactionTracked
<1>1. ASSUME IInv PROVE TransactionTracked
  <2>1. SUFFICES ASSUME Settled, "outcome" \notin lost, "frame" \notin lost
                 PROVE  /\ in_transaction <=> transaction # "none"
                        /\ transaction_failed <=> transaction = "failed"
    BY DEF TransactionTracked
  <2>2. Owed /\ Tracked BY <1>1, <2>1 DEF IInv, InOrder
  <2>3. wire = <<>> /\ up BY <2>1, <2>2 DEF Settled, Owed, Empty
  <2>4. Told("row") BY <2>1, <2>2, <2>3 DEF Tracked, HasDebris
  <2>5. QED BY <2>4 DEF Told, InAfter, FailedAfter
<1>2. QED BY <1>1, InvariantHolds, PTL

\* A cancel request interrupts the statement it was sent for, or none, unless the call
\* that waits for it was cancelled itself (Cursor.execute(), Connection.cancel()).
THEOREM CancelsItsOwn == Spec => CancelStrikesItsStatement
<1> DEFINE Strikes ==
             \A g \in cancels :
               CancelArrives(g) /\ running' # running /\ lost \cap {"frame", "cancel"} = {} =>
                 g \in {Nobody, running.of}
<1>1. ASSUME IInv PROVE Strikes
  <2>1. SUFFICES ASSUME NEW g \in cancels, CancelArrives(g), running' # running,
                        "frame" \notin lost, "cancel" \notin lost
                 PROVE  g \in {Nobody, running.of}
    OBVIOUS
  <2>2. OneStatement /\ Awaited BY <1>1, <2>1 DEF IInv, InOrder
  <2>3. running # Nothing BY <2>1 DEF CancelArrives
  <2>4. QED BY <2>1, <2>2, <2>3 DEF OneStatement, Awaited
<1>2. IInv => [Strikes]_vars BY <1>1
<1>3. QED BY <1>2, InvariantHolds, PTL DEF CancelStrikesItsStatement
=============================================================================
