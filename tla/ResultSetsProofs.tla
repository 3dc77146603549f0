-------------------------- MODULE ResultSetsProofs --------------------------
EXTENDS ResultSets, TLAPS

-----------------------------------------------------------------------------
(* The invariant                                                               *)

\* What is left of a response
Proper(w) ==
  \A i \in DOMAIN w :
    /\ w[i].tag = "Z" <=> i = Len(w)
    /\ w[i].tag = "T" => w[i].set >= 1
    /\ w[i].tag = "X" /\ i > 1 => w[i - 1].tag = "T" /\ w[i - 1].set = w[i].set
    /\ \A j \in i + 1 .. Len(w) : InOrder(w[i], w[j])

\* A call reads for the active cursor, which has no rows read before.
Calling ==
  pc # "idle" => /\ who = active /\ active # NoCursor
                 /\ ~discarded[who] /\ cached[who] = <<>> /\ ret.what = "none"

Base == TypeOK /\ Proper(wire) /\ Calling

\* execute() returns before the end of the response when it meets one of these.
Shows(messages) == \E m \in Elements(messages) : m.tag \in {"X", "row", "bad", "E"}

\* Only the active cursor has a generator, so execute() on another cursor is sure to
\* mark it: what a cursor has lost is marked.
Losses ==
  /\ active # NoCursor => reading
  /\ \A c \in Cursors : generator[c] => c = active
  /\ \A c \in Cursors : lost[c] => discarded[c]
  /\ pc = "executing" => Shows(wire)
  /\ DiscardIsLoud

Ascending(ids) == \A i, j \in DOMAIN ids : i < j => ids[i] < ids[j]
Rising(messages) == \A i, j \in DOMAIN messages : i < j => messages[i].n < messages[j].n
OnlyRows(messages) == \A m \in Elements(messages) : IsRow(m)

\* The rows with these numbers, or in this sequence, come before those of another.
Below(ids, messages) ==
  \A n \in Elements(ids), m \in Elements(messages) : IsRow(m) => n < m.n
Precede(messages, later) ==
  \A m \in Elements(messages), next \in Elements(later) : IsRow(next) => m.n < next.n

\* A row is given, or kept to be given, before the rows behind it are read.
Line(c) ==
  Ascending(out[c]) /\ OnlyRows(cached[c]) /\ Rising(cached[c]) /\ Below(out[c], cached[c])
Ordered ==
  /\ \A c \in Cursors : Line(c)
  /\ active # NoCursor => Below(out[active], wire) /\ Precede(cached[active], wire)
  /\ pc = "all" => OnlyRows(rows) /\ Rising(rows) /\ Below(out[who], rows) /\ Precede(rows, wire)

Erred ==
  /\ active # NoCursor => (Has("bad", asked[active]) <=> deferred \/ Has("bad", wire))
  /\ ValueErrorsAreExact

\* Row m of the cursor's statement is still to be read or was kept.
Kept(m, c) ==
  \/ m \in Elements(wire)
  \/ m.n \in Elements(out[c])
  \/ m \in Elements(cached[c])
  \/ pc = "all" /\ m \in Elements(rows)

\* Every row of the statement, unless the application left a set before its end.
NothingDropped ==
  active # NoCursor /\ manner[active] # "strayed" =>
    \A m \in Elements(asked[active]) : IsRow(m) => Kept(m, active)

\* Nobody has read a description yet.
Undescribed(w) ==
  \A i \in DOMAIN w : w[i].tag \in {"X", "row", "bad"} => \E j \in 1 .. i - 1 : w[j].tag = "T"

\* The descriptions to come are those of the sets behind set n.
Beyond(n) == \A m \in Elements(wire) : m.tag = "T" => m.set > n
Upcoming(n) == Beyond(n) /\ (Head(wire).tag = "X" => Head(wire).set > n)

\* An application that fetches all of one set and then calls nextset()
Straight(c) == manner[c] # "strayed" /\ (manner[c] = "all" \/ told[c] = 1)

\* Where the reader is when the application takes the cursor to be in set told[c]
Place ==
  /\ active # NoCursor =>
       /\ told[active] >= 1
       /\ over[active] => cached[active] = <<>>
       /\ Straight(active) /\ ~over[active] /\ pc # "executing" => Upcoming(told[active])
       /\ manner[active] = "all" /\ over[active] => Beyond(told[active] + 1)
  /\ pc = "executing" => /\ told[who] = 1 /\ manner[who] = "all" /\ ~over[who]
                         /\ Undescribed(wire) \/ Beyond(1)
  /\ pc = "all" /\ manner[who] # "strayed" => Straight(who) /\ ~over[who]
  /\ pc = "next" /\ manner[who] # "strayed" => over[who]
  /\ pc = "one" /\ manner[who] # "strayed" => manner[who] = "one" /\ ~over[who]

Complete == NothingDropped /\ Place /\ FetchAllIsComplete
-----------------------------------------------------------------------------
(* Messages and sequences                                                      *)

\* Reading takes the first message.
LEMMA Shorter ==
  ASSUME NEW S, NEW s \in Seq(S), s # <<>>
  PROVE  /\ Tail(s) \in Seq(S) /\ Head(s) \in S /\ Len(s) \in Nat /\ Len(s) >= 1
         /\ Len(Tail(s)) = Len(s) - 1
         /\ \A i \in DOMAIN Tail(s) : i + 1 \in DOMAIN s /\ Tail(s)[i] = s[i + 1]
         /\ 1 \in DOMAIN s /\ Head(s) = s[1]
OBVIOUS

LEMMA Joined ==
  ASSUME NEW S, NEW s \in Seq(S), NEW t \in Seq(S)
  PROVE  /\ s \o t \in Seq(S) /\ Len(s \o t) = Len(s) + Len(t)
         /\ DOMAIN s = 1 .. Len(s) /\ DOMAIN t = 1 .. Len(t)
         /\ DOMAIN (s \o t) = 1 .. Len(s) + Len(t)
         /\ Len(s) \in Nat /\ Len(t) \in Nat
         /\ \A i \in 1 .. Len(s) : (s \o t)[i] = s[i]
         /\ \A i \in 1 .. Len(t) : (s \o t)[Len(s) + i] = t[i]
OBVIOUS

LEMMA Longer ==
  ASSUME NEW S, NEW s \in Seq(S), NEW e \in S
  PROVE  /\ Append(s, e) \in Seq(S) /\ Len(Append(s, e)) = Len(s) + 1
         /\ Len(s) \in Nat
         /\ DOMAIN s = 1 .. Len(s) /\ DOMAIN Append(s, e) = 1 .. Len(s) + 1
         /\ \A i \in 1 .. Len(s) : Append(s, e)[i] = s[i]
         /\ Append(s, e)[Len(s) + 1] = e
OBVIOUS

\* A sequence that is not empty is its first element and the rest.
LEMMA FirstOrRest ==
  ASSUME NEW S, NEW s \in Seq(S), s # <<>>, NEW i \in DOMAIN s
  PROVE  i = 1 \/ (i \in Nat /\ i - 1 \in DOMAIN Tail(s) /\ s[i] = Tail(s)[i - 1])
OBVIOUS

LEMMA ElementsOf ==
  ASSUME NEW S, NEW s \in Seq(S), s # <<>>
  PROVE  Elements(s) = {Head(s)} \cup Elements(Tail(s))
<1>1. ASSUME NEW i \in DOMAIN s PROVE s[i] \in {Head(s)} \cup Elements(Tail(s))
  <2>1. CASE i = 1
    BY <2>1, Shorter
  <2>2. CASE i - 1 \in DOMAIN Tail(s) /\ s[i] = Tail(s)[i - 1]
    BY <2>2 DEF Elements
  <2> QED BY <2>1, <2>2, FirstOrRest
<1>2. ASSUME NEW i \in DOMAIN Tail(s) PROVE Tail(s)[i] \in Elements(s)
  BY Shorter DEF Elements
<1>3. Head(s) \in Elements(s)
  BY Shorter DEF Elements
<1> QED BY <1>1, <1>2, <1>3 DEF Elements

LEMMA ElementsGrow ==
  ASSUME NEW S, NEW s \in Seq(S), NEW e \in S
  PROVE  Elements(Append(s, e)) = Elements(s) \cup {e}
<1>1. PICK t \in Seq(S) : t = Append(s, e)
  BY Longer
<1>2. Elements(t) = Elements(s) \cup {e}
  <2>1. /\ Len(s) \in Nat /\ DOMAIN s = 1 .. Len(s) /\ DOMAIN t = 1 .. Len(s) + 1
        /\ \A i \in 1 .. Len(s) : t[i] = s[i]
        /\ t[Len(s) + 1] = e
    BY <1>1, Longer
  <2>2. ASSUME NEW i \in DOMAIN t PROVE t[i] \in Elements(s) \cup {e}
    <3>1. CASE i = Len(s) + 1 BY <3>1, <2>1
    <3>2. CASE i \in 1 .. Len(s) BY <3>2, <2>1 DEF Elements
    <3> QED BY <3>1, <3>2, <2>1
  <2>3. ASSUME NEW i \in DOMAIN s PROVE s[i] \in Elements(t)
    <3>1. i \in DOMAIN t /\ t[i] = s[i]
      BY <2>1
    <3> QED BY <3>1 DEF Elements
  <2>4. e \in Elements(t)
    <3>1. Len(s) + 1 \in DOMAIN t
      BY <2>1
    <3> QED BY <3>1, <2>1 DEF Elements
  <2> QED BY <2>2, <2>3, <2>4 DEF Elements
<1> QED BY <1>1, <1>2

LEMMA ElementsOfBoth ==
  ASSUME NEW S, NEW s \in Seq(S), NEW t \in Seq(S)
  PROVE  Elements(s \o t) = Elements(s) \cup Elements(t)
<1>1. PICK u \in Seq(S) : u = s \o t
  BY Joined
<1>2. Elements(u) = Elements(s) \cup Elements(t)
  <2>1. /\ Len(s) \in Nat /\ Len(t) \in Nat /\ DOMAIN s = 1 .. Len(s) /\ DOMAIN t = 1 .. Len(t)
        /\ DOMAIN u = 1 .. Len(s) + Len(t)
        /\ \A i \in 1 .. Len(s) : u[i] = s[i]
        /\ \A i \in 1 .. Len(t) : u[Len(s) + i] = t[i]
    BY <1>1
  <2>2. ASSUME NEW i \in DOMAIN u PROVE u[i] \in Elements(s) \cup Elements(t)
    <3>1. CASE i \in 1 .. Len(s) BY <3>1, <2>1 DEF Elements
    <3>2. CASE i > Len(s)
      <4>1. PICK j \in 1 .. Len(t) : i = Len(s) + j
        <5>1. i - Len(s) \in 1 .. Len(t) /\ i = Len(s) + (i - Len(s))
          BY <3>2, <2>1
        <5> QED BY <5>1
      <4> QED BY <4>1, <2>1 DEF Elements
    <3> QED BY <3>1, <3>2, <2>1
  <2>3. ASSUME NEW i \in DOMAIN s PROVE s[i] \in Elements(u)
    <3>1. i \in DOMAIN u /\ u[i] = s[i]
      BY <2>1
    <3> QED BY <3>1 DEF Elements
  <2>4. ASSUME NEW i \in DOMAIN t PROVE t[i] \in Elements(u)
    <3>1. Len(s) + i \in DOMAIN u /\ u[Len(s) + i] = t[i]
      BY <2>1
    <3> QED BY <3>1 DEF Elements
  <2> QED BY <2>2, <2>3, <2>4 DEF Elements
<1> QED BY <1>1, <1>2

LEMMA EmptyHasNone == Elements(<<>>) = {} /\ \A tag : ~Has(tag, <<>>)
BY DEF Has, Elements

LEMMA HasInElements ==
  ASSUME NEW tag, NEW s
  PROVE  Has(tag, s) <=> \E m \in Elements(s) : m.tag = tag
BY DEF Has, Elements

LEMMA IdsGrow ==
  ASSUME NEW ids \in Seq(Nat), NEW n \in Nat
  PROVE  Append(ids, n) \in Seq(Nat) /\ Elements(Append(ids, n)) = Elements(ids) \cup {n}
BY Longer, ElementsGrow

LEMMA MessagesGrow ==
  ASSUME NEW s \in Seq(Messages), NEW m \in Messages
  PROVE  Append(s, m) \in Seq(Messages) /\ Elements(Append(s, m)) = Elements(s) \cup {m}
BY Longer, ElementsGrow

\* The numbers of the rows of a call
LEMMA IdsOf ==
  ASSUME NEW s \in Seq(Messages)
  PROVE  /\ Ids(s) \in Seq(Nat) /\ Len(Ids(s)) = Len(s) /\ DOMAIN Ids(s) = DOMAIN s
         /\ \A k \in DOMAIN s : Ids(s)[k] = s[k].n
<1>1. \A k \in DOMAIN s : s[k] \in Messages
  OBVIOUS
<1>2. \A k \in DOMAIN s : s[k].n \in Nat
  BY <1>1 DEF Messages
<1>3. DOMAIN s = 1 .. Len(s) /\ Len(s) \in Nat
  OBVIOUS
<1> QED BY <1>2, <1>3 DEF Ids

LEMMA IdsInElements ==
  ASSUME NEW s \in Seq(Messages), NEW m \in Elements(s)
  PROVE  m.n \in Elements(Ids(s))
BY IdsOf DEF Elements

LEMMA NoneOrSome ==
  ASSUME NEW S, NEW s \in Seq(S)
  PROVE  /\ Len(s) \in Nat /\ DOMAIN s = 1 .. Len(s)
         /\ \A i \in DOMAIN s : s[i] \in S
         /\ s = <<>> <=> Len(s) = 0
OBVIOUS

-----------------------------------------------------------------------------
(* Responses                                                                   *)

\* What is left when a message was read
LEMMA RestIsProper ==
  ASSUME NEW w \in Seq(Messages), w # <<>>, Proper(w)
  PROVE  /\ Proper(Tail(w))
         /\ Head(w).tag = "Z" <=> Tail(w) = <<>>
         /\ \A j \in DOMAIN Tail(w) : InOrder(Head(w), Tail(w)[j])
         /\ Tail(w) # <<>> /\ Head(Tail(w)).tag = "X" =>
              Head(w).tag = "T" /\ Head(w).set = Head(Tail(w)).set
<1>1. PICK t \in Seq(Messages) : t = Tail(w)
  BY Shorter
<1>2. /\ Len(w) \in Nat /\ Len(w) >= 1 /\ Len(t) = Len(w) - 1
      /\ DOMAIN w = 1 .. Len(w) /\ DOMAIN t = 1 .. Len(t)
      /\ \A i \in DOMAIN t : i + 1 \in DOMAIN w /\ t[i] = w[i + 1]
      /\ Head(w) = w[1] /\ 1 \in DOMAIN w
      /\ t = <<>> <=> Len(t) = 0
  BY <1>1, Shorter, NoneOrSome
<1>3. ASSUME NEW i \in DOMAIN t
      PROVE  /\ t[i].tag = "Z" <=> i = Len(t)
             /\ t[i].tag = "T" => t[i].set >= 1
             /\ t[i].tag = "X" /\ i > 1 => t[i - 1].tag = "T" /\ t[i - 1].set = t[i].set
             /\ \A j \in i + 1 .. Len(t) : InOrder(t[i], t[j])
  <2>1. /\ w[i + 1].tag = "Z" <=> i + 1 = Len(w)
        /\ w[i + 1].tag = "T" => w[i + 1].set >= 1
        /\ w[i + 1].tag = "X" /\ i + 1 > 1 =>
             w[i + 1 - 1].tag = "T" /\ w[i + 1 - 1].set = w[i + 1].set
        /\ \A j \in i + 1 + 1 .. Len(w) : InOrder(w[i + 1], w[j])
    BY <1>2 DEF Proper
  <2>2. i \in Nat /\ i >= 1 /\ i + 1 - 1 = i /\ t[i] = w[i + 1]
    BY <1>2
  <2>3. i > 1 => t[i - 1] = w[i]
    <3>1. i > 1 => i - 1 \in DOMAIN t /\ (i - 1) + 1 = i
      BY <1>2
    <3> QED BY <3>1, <1>2
  <2>4. ASSUME NEW j \in i + 1 .. Len(t) PROVE InOrder(t[i], t[j])
    <3>1. j + 1 \in i + 1 + 1 .. Len(w) /\ j \in DOMAIN t
      BY <1>2, <2>2
    <3>2. InOrder(w[i + 1], w[j + 1]) /\ t[j] = w[j + 1]
      BY <3>1, <2>1, <1>2
    <3> QED BY <3>2, <2>2
  <2> QED BY <2>1, <2>2, <2>3, <2>4, <1>2
<1>4. Proper(t)
  BY <1>3 DEF Proper
<1>5. Head(w).tag = "Z" <=> t = <<>>
  BY <1>2 DEF Proper
<1>6. ASSUME NEW j \in DOMAIN t PROVE InOrder(Head(w), t[j])
  <2>1. j + 1 \in 1 + 1 .. Len(w)
    BY <1>2
  <2> QED BY <2>1, <1>2 DEF Proper
<1>7. ASSUME t # <<>>, Head(t).tag = "X"
      PROVE  Head(w).tag = "T" /\ Head(w).set = Head(t).set
  <2>1. 1 \in DOMAIN t /\ Head(t) = t[1] /\ t[1] = w[2] /\ 2 \in DOMAIN w
    BY <1>7, <1>2
  <2>2. w[2 - 1].tag = "T" /\ w[2 - 1].set = w[2].set
    BY <2>1, <1>7 DEF Proper
  <2> QED BY <2>1, <2>2, <1>2
<1> QED BY <1>1, <1>4, <1>5, <1>6, <1>7

LEMMA ResponseIsProper ==
  ASSUME NEW response \in Responses
  PROVE  response \in Seq(Messages) /\ response # <<>> /\ Proper(response)
<1>1. WellFormed(response)
  BY ResponsesAssumption
<1> QED BY <1>1 DEF WellFormed, Proper

LEMMA EmptyIsProper == Proper(<<>>) /\ <<>> \in Seq(Messages) /\ <<>> \in Seq(Nat)
BY DEF Proper

-----------------------------------------------------------------------------
(* Types, and whose the call is                                                *)

LEMMA ReadingFacts ==
  ASSUME Base, pc # "idle"
  PROVE  /\ who \in Cursors /\ who = active /\ who # NoCursor /\ active # NoCursor
         /\ cached[who] = <<>> /\ ~discarded[who] /\ generator[who]
         /\ wire # <<>> /\ wire \in Seq(Messages) /\ msg \in Messages /\ msg.n \in Nat
         /\ Tail(wire) \in Seq(Messages) /\ Proper(Tail(wire))
         /\ msg.tag = "Z" <=> Tail(wire) = <<>>
<1>1. /\ who \in Cursors /\ who = active /\ who # NoCursor /\ active # NoCursor
      /\ cached[who] = <<>> /\ ~discarded[who] /\ generator[who]
      /\ wire # <<>> /\ wire \in Seq(Messages) /\ Proper(wire)
  BY ResultSetsAssumption DEF Base, Calling, TypeOK
<1>2. msg \in Messages /\ Tail(wire) \in Seq(Messages)
  BY <1>1, Shorter DEF msg
<1>3. msg.n \in Nat
  BY <1>2 DEF Messages
<1> QED BY <1>1, <1>2, <1>3, RestIsProper DEF msg

LEMMA ExecuteTypes ==
  ASSUME Base, NEW c \in Cursors, NEW response \in Responses, Execute(c, response)
  PROVE  Base'
<1> USE ResultSetsAssumption DEF Base
<1>1. response \in Seq(Messages) /\ response # <<>> /\ Proper(response)
  BY ResponseIsProper
<1>2. Proper(wire)'
  BY <1>1 DEF Execute
<1>3. Calling'
  BY DEF Execute, Calling, TypeOK, Set, Forget, Result
<1>4. /\ cached' \in [Cursors -> Seq(Messages)] /\ asked' \in [Cursors -> Seq(Messages)]
      /\ out' \in [Cursors -> Seq(Nat)]
  BY <1>1, EmptyIsProper DEF Execute, TypeOK, Set
<1>5. generator' \in [Cursors -> BOOLEAN] /\ discarded' \in [Cursors -> BOOLEAN]
  BY DEF Execute
<1>6. lost' \in [Cursors -> BOOLEAN]
  BY DEF Execute
<1>7. generator'[c] /\ ret' \in [by : Cursors \cup {NoCursor}, rows : Seq(Messages), what : {"none"}]
  BY EmptyIsProper DEF Execute, Result
<1>8. TypeOK'
  <2>1. /\ wire' # <<>> /\ active' = c /\ c # NoCursor /\ reading' = TRUE /\ deferred' = FALSE
        /\ wire' \in Seq(Messages) /\ pc' = "executing" /\ who' = c /\ rows' = <<>>
    BY <1>1 DEF Execute, Forget
  <2>2. executes' \in 0 .. MaxExecutes
    <3>1. executes \in 0 .. MaxExecutes
      BY DEF TypeOK
    <3>2. executes < MaxExecutes /\ executes' = executes + 1
      BY DEF Execute
    <3>3. MaxExecutes \in Nat
      BY ResultSetsAssumption
    <3> QED BY <3>1, <3>2, <3>3
  <2>3. /\ columns' \in [Cursors -> BOOLEAN]
        /\ told' \in [Cursors -> Nat] /\ over' \in [Cursors -> BOOLEAN]
    BY DEF Execute, TypeOK, Set
  <2>4. /\ manner' \in [Cursors -> {"all", "one", "strayed"}]
        /\ finished' \in [Cursors -> {"no", "end", "value error", "server error"}]
    BY DEF Execute, TypeOK, Set
  <2> QED BY <1>4, <1>5, <1>6, <1>7, <2>1, <2>2, <2>3, <2>4, EmptyIsProper DEF TypeOK
<1> QED BY <1>2, <1>3, <1>8

LEMMA FetchCachedTypes ==
  ASSUME Base, NEW c \in Cursors, FetchCached(c)
  PROVE  Base'
<1> USE ResultSetsAssumption DEF Base
<1>1. cached[c] \in Seq(Messages) /\ out[c] \in Seq(Nat)
  BY DEF TypeOK
<1>2. Head(cached[c]) \in Messages /\ Tail(cached[c]) \in Seq(Messages)
  BY <1>1, Shorter DEF FetchCached
<1>3. Head(cached[c]).n \in Nat
  BY <1>2 DEF Messages
<1>4. Append(out[c], Head(cached[c]).n) \in Seq(Nat) /\ <<Head(cached[c])>> \in Seq(Messages)
  BY <1>1, <1>2, <1>3
<1>5. Proper(wire)'
  BY DEF FetchCached, conn
<1>6. Calling'
  BY DEF FetchCached, Calling, TypeOK, Set, conn, call
<1>7. manner' \in [Cursors -> {"all", "one", "strayed"}]
  BY DEF FetchCached, TypeOK, Set, Manner
<1>8. TypeOK'
  BY <1>2, <1>4, <1>7 DEF FetchCached, TypeOK, Set, Result, conn, call, statement
<1> QED BY <1>5, <1>6, <1>8

LEMMA BeginTypes ==
  ASSUME Base, NEW c \in Cursors, NEW where \in {"one", "all", "next"}, Begin(c, where),
         rows' \in Seq(Messages),
         cached' = cached \/ cached' = [cached EXCEPT ![c] = <<>>],
         cached'[c] = <<>>
  PROVE  Base'
<1> USE ResultSetsAssumption DEF Base
<1>1. Proper(wire)'
  BY DEF Begin, conn
<1>2. Calling'
  BY DEF Begin, Calling, TypeOK, Set, conn, Result
<1>3. manner' \in [Cursors -> {"all", "one", "strayed"}]
  BY DEF Begin, TypeOK, Set, Manner
<1>4. cached' \in [Cursors -> Seq(Messages)]
  BY EmptyIsProper DEF TypeOK
<1>5. TypeOK'
  BY <1>3, <1>4, EmptyIsProper DEF Begin, TypeOK, Set, Result, conn, statement, progress
<1> QED BY <1>1, <1>2, <1>5

LEMMA FetchNothingTypes ==
  ASSUME Base, NEW c \in Cursors, NEW method, FetchNothing(c, method)
  PROVE  Base'
<1> USE ResultSetsAssumption DEF Base
<1>1. Proper(wire)'
  BY DEF FetchNothing, conn
<1>2. Calling'
  BY DEF FetchNothing, Calling, TypeOK, Set, conn, call
<1>3. TypeOK'
  BY EmptyIsProper DEF FetchNothing, TypeOK, Set, Result, conn, call, statement, progress
<1> QED BY <1>1, <1>2, <1>3

LEMMA FetchDiscardedTypes ==
  ASSUME Base, NEW c \in Cursors, FetchDiscarded(c)
  PROVE  Base'
<1> USE ResultSetsAssumption DEF Base
<1>1. Proper(wire)'
  BY DEF FetchDiscarded, conn
<1>2. Calling'
  BY DEF FetchDiscarded, Calling, TypeOK, Set, conn, call, cursor
<1>3. TypeOK'
  BY EmptyIsProper DEF FetchDiscarded, TypeOK, Set, Result, conn, call, statement, progress, cursor
<1> QED BY <1>1, <1>2, <1>3

LEMMA CloseTypes ==
  ASSUME Base, NEW c \in Cursors, CloseCursor(c)
  PROVE  Base'
<1> USE ResultSetsAssumption DEF Base
<1>1. Proper(wire)'
  BY EmptyIsProper DEF CloseCursor
<1>2. Calling'
  BY DEF CloseCursor, Calling, call
<1>3. (wire # <<>> <=> active # NoCursor)'
  BY DEF CloseCursor, TypeOK
<1>4. (active # NoCursor => generator[active])' /\ (reading => active # NoCursor)'
  <2>1. CASE active = c
    BY <2>1 DEF CloseCursor, TypeOK
  <2>2. CASE active # c
    <3>1. active' = active /\ generator' = [generator EXCEPT ![c] = FALSE]
      BY <2>2 DEF CloseCursor, Set
    <3>2. active # NoCursor => active \in Cursors /\ generator[active]
      BY DEF TypeOK
    <3>3. reading' => reading
      BY DEF CloseCursor
    <3> QED BY <3>1, <3>2, <3>3, <2>2 DEF TypeOK
  <2> QED BY <2>1, <2>2
<1>5. /\ wire' \in Seq(Messages) /\ active' \in Cursors \cup {NoCursor}
      /\ reading' \in BOOLEAN /\ deferred' \in BOOLEAN
  BY EmptyIsProper DEF CloseCursor, TypeOK
<1>6. TypeOK'
  BY <1>3, <1>4, <1>5, EmptyIsProper DEF CloseCursor, TypeOK, Set, Result, call
<1> QED BY <1>1, <1>2, <1>6

LEMMA RaisesTypes ==
  ASSUME Base, pc # "idle", Raises, UNCHANGED <<discarded, statement, manner>>
  PROVE  Base'
<1> USE ResultSetsAssumption DEF Base
<1>1. who \in Cursors
  BY ReadingFacts
<1>2. Proper(wire)'
  BY EmptyIsProper DEF Raises
<1>3. Calling'
  BY DEF Raises, Calling, Gives
<1>4. TypeOK'
  BY <1>1, EmptyIsProper DEF Raises, TypeOK, Set, Result, Gives, statement
<1> QED BY <1>2, <1>3, <1>4

\* The end of the response, whatever the call answers
LEMMA EndTypes ==
  ASSUME Base, pc # "idle", EndOfResponse, UNCHANGED <<discarded, statement, manner>>,
         NEW what \in {"none", "end", "rows", "value error"}, NEW of \in Seq(Messages),
         Gives(what, of),
         NEW verdict \in {"end", "value error"}, Set(finished, who, verdict),
         out' \in [Cursors -> Seq(Nat)],
         generator' \in [Cursors -> BOOLEAN]
  PROVE  Base'
<1> USE ResultSetsAssumption DEF Base
<1>1. who \in Cursors /\ Tail(wire) = <<>>
  BY ReadingFacts DEF EndOfResponse
<1>2. Proper(wire)'
  BY <1>1, EmptyIsProper DEF EndOfResponse
<1>3. Calling'
  BY DEF Calling, Gives
<1>4. TypeOK'
  BY <1>1, EmptyIsProper DEF EndOfResponse, TypeOK, Set, Result, Gives, statement
<1> QED BY <1>2, <1>3, <1>4

\* A message of the response, whatever becomes of it
LEMMA HandledTypes ==
  ASSUME Base, pc # "idle", Handled, msg.tag # "Z", UNCHANGED <<discarded, statement, manner>>,
         UNCHANGED <<generator, finished>>,
         told' \in [Cursors -> Nat], over' \in [Cursors -> BOOLEAN],
         out' \in [Cursors -> Seq(Nat)],
         rows' \in Seq(Messages),
         cached' \in [Cursors -> Seq(Messages)],
         \/ UNCHANGED <<pc, who, ret, cached>>
         \/ \E what \in {"none", "row", "rows", "end", "true"}, of \in Seq(Messages) :
              Gives(what, of)
  PROVE  Base'
<1> USE ResultSetsAssumption DEF Base
<1>1. /\ who \in Cursors /\ Tail(wire) # <<>> /\ Tail(wire) \in Seq(Messages)
      /\ Proper(Tail(wire))
  BY ReadingFacts
<1>2. Proper(wire)'
  BY <1>1 DEF Handled
<1>3. Calling'
  BY DEF Calling, Gives, Handled
<1>4. columns' \in [Cursors -> BOOLEAN]
  BY DEF Handled, TypeOK, Set
<1>5. /\ ret' \in [by : Cursors \cup {NoCursor}, rows : Seq(Messages),
              what : {"none", "row", "rows", "end", "true", "discarded", "no result",
                      "server error", "value error"}]
      /\ pc' \in {"idle", "executing", "one", "all", "next"}
      /\ who' \in Cursors \cup {NoCursor} /\ (pc' = "idle" <=> who' = NoCursor)
  <2>1. CASE UNCHANGED <<pc, who, ret, cached>>
    BY <2>1 DEF TypeOK
  <2>2. ASSUME NEW what \in {"none", "row", "rows", "end", "true"}, NEW of \in Seq(Messages),
               Gives(what, of)
        PROVE  /\ ret' \in [by : Cursors \cup {NoCursor}, rows : Seq(Messages),
                    what : {"none", "row", "rows", "end", "true", "discarded", "no result",
                            "server error", "value error"}]
               /\ pc' \in {"idle", "executing", "one", "all", "next"}
               /\ who' \in Cursors \cup {NoCursor} /\ (pc' = "idle" <=> who' = NoCursor)
    <3>1. ret' = [by |-> who, what |-> what, rows |-> of] /\ pc' = "idle" /\ who' = NoCursor
      BY <2>2 DEF Gives, Result
    <3> QED BY <3>1, <1>1
  <2> QED BY <2>1, <2>2
<1>6. deferred' \in BOOLEAN
  BY DEF Handled, TypeOK
<1>7. TypeOK'
  <2>1. wire' # <<>> /\ active' # NoCursor /\ generator'[active'] /\ (reading' => active' # NoCursor)
    BY <1>1, ReadingFacts DEF Handled
  <2>2. /\ wire' \in Seq(Messages) /\ active' \in Cursors \cup {NoCursor}
        /\ reading' \in BOOLEAN
    BY <1>1 DEF Handled, TypeOK
  <2>3. /\ generator' \in [Cursors -> BOOLEAN] /\ discarded' \in [Cursors -> BOOLEAN]
        /\ lost' \in [Cursors -> BOOLEAN] /\ asked' \in [Cursors -> Seq(Messages)]
        /\ executes' \in 0 .. MaxExecutes
        /\ manner' \in [Cursors -> {"all", "one", "strayed"}]
        /\ finished' \in [Cursors -> {"no", "end", "value error", "server error"}]
    BY DEF TypeOK, statement
  <2> QED BY <2>1, <2>2, <2>3, <1>4, <1>5, <1>6 DEF TypeOK
<1> QED BY <1>2, <1>3, <1>7

LEMMA TailTypes ==
  ASSUME NEW s \in Seq(Messages), NEW m \in Messages
  PROVE  Append(s, m) \in Seq(Messages) /\ <<m>> \in Seq(Messages)
OBVIOUS

LEMMA OutTypes ==
  ASSUME Base, NEW c \in Cursors, NEW of \in Seq(Messages), Set(out, c, out[c] \o Ids(of))
  PROVE  out' \in [Cursors -> Seq(Nat)]
<1>1. out[c] \in Seq(Nat) /\ out \in [Cursors -> Seq(Nat)]
  BY DEF Base, TypeOK
<1>2. out[c] \o Ids(of) \in Seq(Nat)
  BY <1>1, IdsOf, Joined
<1> QED BY <1>1, <1>2 DEF Set

LEMMA ExecuteReadsTypes ==
  ASSUME Base, ExecuteReads, UNCHANGED <<discarded, statement, manner>>
  PROVE  Base'
<1> USE DEF ExecuteReads
<1>1. /\ pc # "idle" /\ who \in Cursors /\ msg \in Messages /\ told \in [Cursors -> Nat]
      /\ over \in [Cursors -> BOOLEAN] /\ out \in [Cursors -> Seq(Nat)] /\ rows \in Seq(Messages)
      /\ generator \in [Cursors -> BOOLEAN] /\ cached \in [Cursors -> Seq(Messages)]
      /\ <<>> \in Seq(Messages)
  BY ReadingFacts, EmptyIsProper DEF Base, TypeOK
<1>2. CASE Raises
  BY <1>1, <1>2, RaisesTypes
<1>3. CASE Ends("none") /\ UNCHANGED generator
  BY <1>1, <1>3, EndTypes DEF Ends
<1>4. CASE /\ msg.tag \in {"X", "row", "bad"} /\ Handled /\ Cache
           /\ Gives("none", <<>>)
           /\ UNCHANGED <<generator, rows, progress>>
  <2>1. cached' \in [Cursors -> Seq(Messages)]
    <3>1. cached[who] \in Seq(Messages)
      BY <1>1
    <3>2. Append(cached[who], msg) \in Seq(Messages)
      BY <3>1, <1>1, TailTypes
    <3>3. cached' = cached \/ cached' = [cached EXCEPT ![who] = Append(cached[who], msg)]
      BY <1>4 DEF Cache, Set
    <3> QED BY <1>1, <3>2, <3>3
  <2> QED BY <1>1, <1>4, <2>1, HandledTypes DEF progress
<1>5. CASE /\ msg.tag \in {"T", "C"} /\ Handled
           /\ Stays /\ UNCHANGED <<generator, rows, cached>>
  BY <1>1, <1>5, HandledTypes DEF Stays, progress
<1> QED BY <1>2, <1>3, <1>4, <1>5

LEMMA FetchOneReadsTypes ==
  ASSUME Base, FetchOneReads, UNCHANGED <<discarded, statement, manner>>
  PROVE  Base'
<1> USE DEF FetchOneReads
<1>1. /\ pc # "idle" /\ who \in Cursors /\ msg \in Messages /\ told \in [Cursors -> Nat]
      /\ over \in [Cursors -> BOOLEAN] /\ out \in [Cursors -> Seq(Nat)] /\ rows \in Seq(Messages)
      /\ generator \in [Cursors -> BOOLEAN] /\ cached \in [Cursors -> Seq(Messages)]
      /\ msg.n \in Nat /\ <<>> \in Seq(Messages)
  BY ReadingFacts, EmptyIsProper DEF Base, TypeOK
<1>2. CASE Raises
  BY <1>1, <1>2, RaisesTypes
<1>3. CASE Ends("end") /\ Set(generator, who, FALSE)
  <2>1. generator' \in [Cursors -> BOOLEAN]
    BY <1>1, <1>3 DEF Set
  <2> QED BY <1>1, <1>3, <2>1, EndTypes DEF Ends
<1>4. CASE /\ IsRow(msg) /\ Handled
           /\ Gives("row", <<msg>>) /\ Set(out, who, Append(out[who], msg.n))
           /\ UNCHANGED <<generator, cached, told, over, finished>>
  <2>1. out' \in [Cursors -> Seq(Nat)]
    BY <1>1, <1>4 DEF Set
  <2>2. <<msg>> \in Seq(Messages) /\ msg.tag # "Z"
    BY <1>1, <1>4, TailTypes DEF IsRow
  <2> QED BY <1>1, <1>4, <2>1, <2>2, HandledTypes
<1>5. CASE /\ msg.tag = "C" /\ Handled
           /\ Gives("end", <<>>) /\ Set(over, who, TRUE)
           /\ UNCHANGED <<generator, cached, told, out, finished>>
  <2>1. over' \in [Cursors -> BOOLEAN]
    BY <1>1, <1>5 DEF Set
  <2> QED BY <1>1, <1>5, <2>1, HandledTypes
<1>6. CASE /\ msg.tag \in PassedOver /\ Handled
           /\ Stays /\ UNCHANGED <<generator, cached>>
  BY <1>1, <1>6, HandledTypes DEF Stays, progress, PassedOver
<1> QED BY <1>2, <1>3, <1>4, <1>5, <1>6

LEMMA FetchAllReadsTypes ==
  ASSUME Base, FetchAllReads, UNCHANGED <<discarded, statement, manner>>
  PROVE  Base'
<1> USE DEF FetchAllReads
<1>1. /\ pc # "idle" /\ who \in Cursors /\ msg \in Messages /\ told \in [Cursors -> Nat]
      /\ over \in [Cursors -> BOOLEAN] /\ out \in [Cursors -> Seq(Nat)] /\ rows \in Seq(Messages)
      /\ generator \in [Cursors -> BOOLEAN] /\ cached \in [Cursors -> Seq(Messages)]
      /\ <<>> \in Seq(Messages)
  BY ReadingFacts, EmptyIsProper DEF Base, TypeOK
<1>2. CASE Raises
  BY <1>1, <1>2, RaisesTypes
<1>3. CASE deferred /\ Ends("rows") /\ Set(generator, who, FALSE)
  <2>1. generator' \in [Cursors -> BOOLEAN]
    BY <1>1, <1>3 DEF Set
  <2> QED BY <1>1, <1>3, <2>1, EndTypes DEF Ends
<1>4. CASE /\ ~deferred /\ EndOfResponse /\ GivesRows(rows)
           /\ Set(finished, who, "end") /\ Set(generator, who, FALSE)
  <2>1. generator' \in [Cursors -> BOOLEAN]
    BY <1>1, <1>4 DEF Set
  <2>2. out' \in [Cursors -> Seq(Nat)]
    BY <1>1, <1>4, OutTypes DEF GivesRows
  <2> QED BY <1>1, <1>4, <2>1, <2>2, EndTypes DEF GivesRows
<1>5. CASE /\ msg.tag \in {"row", "bad", "C"} /\ Handled
           /\ rows' = (IF IsRow(msg) THEN Append(rows, msg) ELSE rows)
           /\ Stays /\ UNCHANGED generator
  <2>1. rows' \in Seq(Messages)
    BY <1>1, <1>5, TailTypes
  <2> QED BY <1>1, <1>5, <2>1, HandledTypes DEF Stays, progress
<1>6. CASE /\ msg.tag \in {"T", "X"} /\ Handled
           /\ GivesRows(rows) /\ Set(over, who, TRUE)
           /\ UNCHANGED <<generator, rows, told, finished>>
  <2>1. over' \in [Cursors -> BOOLEAN]
    BY <1>1, <1>6 DEF Set
  <2>2. out' \in [Cursors -> Seq(Nat)]
    BY <1>1, <1>6, OutTypes DEF GivesRows
  <2> QED BY <1>1, <1>6, <2>1, <2>2, HandledTypes DEF GivesRows
<1> QED BY <1>2, <1>3, <1>4, <1>5, <1>6

LEMMA NextSetReadsTypes ==
  ASSUME Base, NextSetReads, UNCHANGED <<discarded, statement, manner>>
  PROVE  Base'
<1> USE DEF NextSetReads
<1>1. /\ pc # "idle" /\ who \in Cursors /\ msg \in Messages /\ told \in [Cursors -> Nat]
      /\ over \in [Cursors -> BOOLEAN] /\ out \in [Cursors -> Seq(Nat)] /\ rows \in Seq(Messages)
      /\ generator \in [Cursors -> BOOLEAN] /\ cached \in [Cursors -> Seq(Messages)]
      /\ <<>> \in Seq(Messages)
  BY ReadingFacts, EmptyIsProper DEF Base, TypeOK
<1>2. CASE Raises
  BY <1>1, <1>2, RaisesTypes
<1>3. CASE Ends("end") /\ Set(generator, who, FALSE)
  <2>1. generator' \in [Cursors -> BOOLEAN]
    BY <1>1, <1>3 DEF Set
  <2> QED BY <1>1, <1>3, <2>1, EndTypes DEF Ends
<1>4. CASE /\ msg.tag \in {"T", "X", "row", "bad"} /\ Handled /\ Cache
           /\ Gives("true", <<>>) /\ Set(told, who, told[who] + 1) /\ Set(over, who, FALSE)
           /\ UNCHANGED <<generator, rows, out, finished>>
  <2>1. cached' \in [Cursors -> Seq(Messages)]
    <3>1. cached[who] \in Seq(Messages)
      BY <1>1
    <3>2. Append(cached[who], msg) \in Seq(Messages)
      BY <3>1, <1>1, TailTypes
    <3>3. cached' = cached \/ cached' = [cached EXCEPT ![who] = Append(cached[who], msg)]
      BY <1>4 DEF Cache, Set
    <3> QED BY <1>1, <3>2, <3>3
  <2>2. told' \in [Cursors -> Nat] /\ over' \in [Cursors -> BOOLEAN]
    BY <1>1, <1>4 DEF Set
  <2> QED BY <1>1, <1>4, <2>1, <2>2, HandledTypes
<1>5. CASE /\ msg.tag = "C" /\ Handled
           /\ Stays /\ UNCHANGED <<generator, cached, rows>>
  BY <1>1, <1>5, HandledTypes DEF Stays, progress
<1> QED BY <1>2, <1>3, <1>4, <1>5

LEMMA BaseStep ==
  ASSUME Base, [Next]_vars
  PROVE  Base'
<1>1. ASSUME NEW c \in Cursors, NEW response \in Responses, Execute(c, response) PROVE Base'
  BY <1>1, ExecuteTypes
<1>2. ASSUME NEW c \in Cursors, Fetch(c) PROVE Base'
  <2>1. rows \in Seq(Messages) /\ cached[c] \in Seq(Messages) /\ cached \in [Cursors -> Seq(Messages)]
    BY DEF Base, TypeOK
  <2>2. CASE FetchOne(c)
    <3>1. CASE FetchCached(c)
      BY <3>1, FetchCachedTypes
    <3>2. CASE cached[c] = <<>> /\ Begin(c, "one") /\ UNCHANGED <<rows, cached>>
      BY <3>2, <2>1, BeginTypes
    <3> QED BY <2>2, <3>1, <3>2 DEF FetchOne
  <2>3. CASE FetchAll(c)
    BY <2>3, <2>1, BeginTypes DEF FetchAll, Set
  <2>4. CASE NextSet(c)
    BY <2>4, <2>1, BeginTypes DEF NextSet, Set
  <2>5. CASE CloseCursor(c)
    BY <2>5, CloseTypes
  <2>6. CASE FetchDiscarded(c)
    BY <2>6, FetchDiscardedTypes
  <2>7. ASSUME NEW method, FetchNothing(c, method) PROVE Base'
    BY <2>7, FetchNothingTypes
  <2> QED BY <1>2, <2>2, <2>3, <2>4, <2>5, <2>6, <2>7 DEF Fetch
<1>3. CASE Reads
  BY <1>3, ExecuteReadsTypes, FetchOneReadsTypes, FetchAllReadsTypes, NextSetReadsTypes DEF Reads
<1>4. CASE UNCHANGED vars
  <2>1. UNCHANGED <<conn, cursor, call, statement, progress, manner, ret>>
    BY <1>4 DEF vars
  <2> QED BY <2>1 DEF Base, TypeOK, Proper, Calling, conn, cursor, call, statement, progress
<1> QED BY <1>1, <1>2, <1>3, <1>4 DEF Next

LEMMA BaseInit == ASSUME Init PROVE Base
<1>1. TypeOK
  <2>1. /\ wire = <<>> /\ active = NoCursor /\ reading = FALSE /\ pc = "idle" /\ who = NoCursor
        /\ wire \in Seq(Messages) /\ rows \in Seq(Messages) /\ deferred \in BOOLEAN
        /\ executes = 0
    BY EmptyIsProper DEF Init
  <2>2. /\ cached \in [Cursors -> Seq(Messages)] /\ asked \in [Cursors -> Seq(Messages)]
        /\ out \in [Cursors -> Seq(Nat)]
    BY EmptyIsProper DEF Init
  <2>3. /\ generator \in [Cursors -> BOOLEAN] /\ columns \in [Cursors -> BOOLEAN]
        /\ discarded \in [Cursors -> BOOLEAN] /\ lost \in [Cursors -> BOOLEAN]
        /\ told \in [Cursors -> Nat] /\ over \in [Cursors -> BOOLEAN]
    BY DEF Init
  <2>4. /\ manner \in [Cursors -> {"all", "one", "strayed"}]
        /\ finished \in [Cursors -> {"no", "end", "value error", "server error"}]
    BY DEF Init
  <2>5. ret \in [by : Cursors \cup {NoCursor}, rows : Seq(Messages), what : {"none"}]
    BY EmptyIsProper DEF Init, Result
  <2>6. executes \in 0 .. MaxExecutes
    <3>1. MaxExecutes \in Nat
      BY ResultSetsAssumption
    <3> QED BY <2>1, <3>1
  <2> QED BY <2>1, <2>2, <2>3, <2>4, <2>5, <2>6 DEF TypeOK
<1> QED BY <1>1, EmptyIsProper DEF Base, Init, Calling

\* The state keeps its type whatever the backend answers, and every unread message
\* belongs to the active cursor's statement, which has a generator to read it.
THEOREM TypeCorrect == Spec => []TypeOK
<1>1. Init => Base
  BY BaseInit
<1>2. Base /\ [Next]_vars => Base'
  BY BaseStep
<1>3. Base => TypeOK
  BY DEF Base
<1> QED BY <1>1, <1>2, <1>3, PTL DEF Spec

-----------------------------------------------------------------------------
(* What is lost is marked                                                      *)

LEMMA ExecuteLosses ==
  ASSUME Base, Losses, NEW c \in Cursors, NEW response \in Responses, Execute(c, response),
         Shows(response)
  PROVE  Losses'
<1>1. c # NoCursor /\ generator \in [Cursors -> BOOLEAN]
  BY ResultSetsAssumption DEF Base, TypeOK
<1>2. \A d \in Cursors : generator'[d] => d = active'
  BY DEF Execute, Losses
<1>3. ASSUME NEW d \in Cursors, lost'[d] PROVE discarded'[d]
  <2>1. d # c /\ (lost[d] \/ d = active)
    BY <1>3 DEF Execute
  <2>2. CASE lost[d]
    <3>1. discarded[d]
      BY <2>2 DEF Losses
    <3> QED BY <3>1, <2>1 DEF Execute
  <2>3. CASE d = active
    <3>1. reading /\ ~generator[c]
      BY <2>1, <2>3, ResultSetsAssumption DEF Losses
    <3>2. d \in Loser(c)
      BY <3>1, <2>1, <2>3 DEF Loser
    <3> QED BY <3>2, <2>1 DEF Execute
  <2> QED BY <2>1, <2>2, <2>3
<1>4. Shows(wire)' /\ active' = c /\ reading' = TRUE /\ ret'.what = "none"
  BY DEF Execute, Shows, Result
<1> QED BY <1>2, <1>3, <1>4 DEF Losses, DiscardIsLoud

LEMMA FetchLosses ==
  ASSUME Base, Losses, NEW c \in Cursors, Fetch(c)
  PROVE  Losses'
<1>1. /\ c # NoCursor /\ generator \in [Cursors -> BOOLEAN] /\ lost \in [Cursors -> BOOLEAN]
      /\ ~discarded[c] => ~lost[c]
  BY ResultSetsAssumption DEF Base, TypeOK, Losses
<1>2. ASSUME UNCHANGED <<active, reading, discarded, lost>>, ~lost[c], ret'.by = c,
             pc' = "executing" => pc' = pc /\ wire' = wire,
             generator' = generator \/ generator' = [generator EXCEPT ![c] = FALSE]
      PROVE  Losses'
  BY <1>1, <1>2 DEF Losses, Shows, DiscardIsLoud
<1>3. ASSUME NEW where \in {"one", "all", "next"}, Begin(c, where) PROVE Losses'
  BY <1>1, <1>2, <1>3 DEF Begin, conn, statement, Result
<1>4. CASE FetchOne(c)
  <2>1. CASE FetchCached(c)
    BY <1>1, <1>2, <2>1 DEF FetchCached, conn, call, statement, Result
  <2> QED BY <2>1, <1>3, <1>4 DEF FetchOne
<1>5. CASE FetchAll(c)
  BY <1>3, <1>5 DEF FetchAll
<1>6. CASE NextSet(c)
  BY <1>3, <1>6 DEF NextSet
<1>7. CASE CloseCursor(c)
  <2>1. ret'.what = "none" /\ pc' = pc /\ pc = "idle"
    BY <1>7 DEF CloseCursor, Result, call
  <2>2. \A d \in Cursors : lost'[d] => discarded'[d]
    BY <1>7 DEF CloseCursor, Set, Losses, Base, TypeOK
  <2>3. CASE active = c
    <3>1. active' = NoCursor /\ generator' = [generator EXCEPT ![c] = FALSE]
      BY <1>7, <2>3 DEF CloseCursor, Set
    <3>2. \A d \in Cursors : ~generator'[d]
      BY <3>1, <2>3, <1>1 DEF Losses
    <3> QED BY <2>1, <2>2, <3>1, <3>2 DEF Losses, DiscardIsLoud
  <2>4. CASE active # c
    <3>1. active' = active /\ generator' = [generator EXCEPT ![c] = FALSE] /\ ~generator[c]
      BY <1>7, <2>4 DEF CloseCursor, Set, Losses
    <3>2. reading' = reading
      BY <1>7, <3>1 DEF CloseCursor, Base, TypeOK
    <3>3. \A d \in Cursors : generator'[d] => d = active'
      BY <3>1, <1>1 DEF Losses
    <3> QED BY <2>1, <2>2, <3>1, <3>2, <3>3 DEF Losses, DiscardIsLoud
  <2> QED BY <2>3, <2>4
<1>8. CASE FetchDiscarded(c)
  <2>1. /\ UNCHANGED <<active, reading, discarded, lost, generator, pc, wire>>
        /\ ret'.what = "discarded"
    BY <1>8 DEF FetchDiscarded, conn, cursor, call, statement, Result
  <2> QED BY <2>1 DEF Losses, Shows, DiscardIsLoud
<1>9. ASSUME NEW method, FetchNothing(c, method) PROVE Losses'
  BY <1>1, <1>2, <1>9 DEF FetchNothing, conn, call, statement, Result, Set
<1> QED BY <1>4, <1>5, <1>6, <1>7, <1>8, <1>9 DEF Fetch

LEMMA RaisesLosses ==
  ASSUME Base, Losses, pc # "idle", Raises, UNCHANGED <<discarded, statement, manner>>
  PROVE  Losses'
<1>1. who \in Cursors /\ who = active /\ generator \in [Cursors -> BOOLEAN]
  BY ReadingFacts DEF Base, TypeOK
<1>2. \A d \in Cursors : ~generator'[d]
  BY <1>1 DEF Raises, Set, Losses
<1>3. active' = NoCursor /\ ret'.what = "server error" /\ pc' = "idle"
  BY DEF Raises, Gives, Result
<1> QED BY <1>2, <1>3 DEF Losses, DiscardIsLoud, statement

\* What the call answers, it answers for its cursor.
LEMMA AnswersLosses ==
  ASSUME Base, Losses, pc # "idle", UNCHANGED <<discarded, statement, manner>>,
         NEW what, NEW of, Gives(what, of)
  PROVE  DiscardIsLoud' /\ pc' = "idle" /\ \A c \in Cursors : lost'[c] => discarded'[c]
<1>1. who \in Cursors /\ ~discarded[who]
  BY ReadingFacts
<1>2. ~lost[who]
  BY <1>1 DEF Losses
<1> QED BY <1>2 DEF Gives, Result, DiscardIsLoud, statement, Losses

LEMMA EndLosses ==
  ASSUME Base, Losses, pc # "idle", EndOfResponse, UNCHANGED <<discarded, statement, manner>>,
         NEW what, NEW of, Gives(what, of),
         pc = "executing" \/ Set(generator, who, FALSE)
  PROVE  Losses'
<1>1. /\ who \in Cursors /\ who = active /\ generator \in [Cursors -> BOOLEAN]
      /\ Elements(wire) = {msg}
  <2>1. wire # <<>> /\ wire \in Seq(Messages) /\ Tail(wire) = <<>>
    BY ReadingFacts DEF EndOfResponse
  <2>2. Elements(wire) = {msg} \cup Elements(Tail(wire))
    BY <2>1, ElementsOf DEF msg
  <2>3. Elements(Tail(wire)) = {}
    BY <2>1, EmptyHasNone
  <2> QED BY <2>2, <2>3, ReadingFacts DEF Base, TypeOK
<1>2. pc # "executing"
  BY <1>1 DEF Losses, Shows, EndOfResponse
<1>3. \A d \in Cursors : ~generator'[d]
  BY <1>1, <1>2 DEF Set, Losses
<1> QED BY <1>3, AnswersLosses DEF Losses, EndOfResponse

LEMMA HandledLosses ==
  ASSUME Base, Losses, pc # "idle", Handled, UNCHANGED <<discarded, statement, manner>>,
         UNCHANGED generator,
         \/ UNCHANGED <<pc, ret>> /\ (pc = "executing" => msg.tag \in {"T", "C"})
         \/ \E what \in {"none", "row", "rows", "end", "true"}, of \in Seq(Messages) :
              Gives(what, of)
  PROVE  Losses'
<1>1. UNCHANGED <<active, reading, generator, discarded, lost>>
  BY DEF Handled, statement
<1>2. CASE UNCHANGED <<pc, ret>> /\ (pc = "executing" => msg.tag \in {"T", "C"})
  <2>1. Elements(wire) = {msg} \cup Elements(wire')
    BY ReadingFacts, ElementsOf DEF Handled, msg
  <2>2. pc' = "executing" => Shows(wire)'
    BY <1>2, <2>1 DEF Losses, Shows
  <2> QED BY <1>1, <1>2, <2>2 DEF Losses, DiscardIsLoud
<1>3. ASSUME NEW what, NEW of, Gives(what, of) PROVE Losses'
  BY <1>1, <1>3, AnswersLosses DEF Losses
<1> QED BY <1>2, <1>3

LEMMA ReadsLosses ==
  ASSUME Base, Losses, Reads
  PROVE  Losses'
<1>1. UNCHANGED <<discarded, statement, manner>> /\ rows \in Seq(Messages) /\ <<>> \in Seq(Messages)
  BY EmptyIsProper DEF Reads, Base, TypeOK
<1>2. CASE ExecuteReads
  <2>1. pc # "idle" /\ pc = "executing" BY <1>2 DEF ExecuteReads
  <2>2. CASE Raises BY <1>1, <2>1, <2>2, RaisesLosses
  <2>3. CASE Ends("none") BY <1>1, <2>1, <2>3, EndLosses DEF Ends
  <2>4. CASE /\ Handled /\ Gives("none", <<>>) /\ UNCHANGED generator
    BY <1>1, <2>1, <2>4, HandledLosses
  <2>5. CASE msg.tag \in {"T", "C"} /\ Handled /\ Stays /\ UNCHANGED generator
    BY <1>1, <2>1, <2>5, HandledLosses DEF Stays
  <2> QED BY <1>2, <2>2, <2>3, <2>4, <2>5 DEF ExecuteReads
<1>3. CASE FetchOneReads
  <2>1. pc # "idle" /\ pc # "executing" BY <1>3 DEF FetchOneReads
  <2>2. CASE Raises BY <1>1, <2>1, <2>2, RaisesLosses
  <2>3. CASE Ends("end") /\ Set(generator, who, FALSE)
    BY <1>1, <2>1, <2>3, EndLosses DEF Ends
  <2>4. CASE IsRow(msg) /\ Handled /\ Gives("row", <<msg>>) /\ UNCHANGED generator
    <3>1. <<msg>> \in Seq(Messages)
      BY <2>1, ReadingFacts, TailTypes
    <3> QED BY <1>1, <2>1, <2>4, <3>1, HandledLosses
  <2>5. CASE Handled /\ Gives("end", <<>>) /\ UNCHANGED generator
    BY <1>1, <2>1, <2>5, HandledLosses
  <2>6. CASE Handled /\ Stays /\ UNCHANGED generator
    BY <1>1, <2>1, <2>6, HandledLosses DEF Stays
  <2> QED BY <1>3, <2>2, <2>3, <2>4, <2>5, <2>6 DEF FetchOneReads
<1>4. CASE FetchAllReads
  <2>1. pc # "idle" /\ pc # "executing" BY <1>4 DEF FetchAllReads
  <2>2. CASE Raises BY <1>1, <2>1, <2>2, RaisesLosses
  <2>3. CASE Ends("rows") /\ Set(generator, who, FALSE)
    BY <1>1, <2>1, <2>3, EndLosses DEF Ends
  <2>4. CASE EndOfResponse /\ GivesRows(rows) /\ Set(generator, who, FALSE)
    BY <1>1, <2>1, <2>4, EndLosses DEF GivesRows
  <2>5. CASE Handled /\ Stays /\ UNCHANGED generator
    BY <1>1, <2>1, <2>5, HandledLosses DEF Stays
  <2>6. CASE Handled /\ GivesRows(rows) /\ UNCHANGED generator
    BY <1>1, <2>1, <2>6, HandledLosses DEF GivesRows
  <2> QED BY <1>4, <2>2, <2>3, <2>4, <2>5, <2>6 DEF FetchAllReads
<1>5. CASE NextSetReads
  <2>1. pc # "idle" /\ pc # "executing" BY <1>5 DEF NextSetReads
  <2>2. CASE Raises BY <1>1, <2>1, <2>2, RaisesLosses
  <2>3. CASE Ends("end") /\ Set(generator, who, FALSE)
    BY <1>1, <2>1, <2>3, EndLosses DEF Ends
  <2>4. CASE Handled /\ Gives("true", <<>>) /\ UNCHANGED generator
    BY <1>1, <2>1, <2>4, HandledLosses
  <2>5. CASE Handled /\ Stays /\ UNCHANGED generator
    BY <1>1, <2>1, <2>5, HandledLosses DEF Stays
  <2> QED BY <1>5, <2>2, <2>3, <2>4, <2>5 DEF NextSetReads
<1> QED BY <1>2, <1>3, <1>4, <1>5 DEF Reads

\* A cursor that lost rows to another statement raises until it is executed again,
\* where every statement shows execute() a row, the columns of a table or an error.
\* A statement of which it shows none leaves the cursor with a generator that has
\* ended, and execute() on another cursor then takes the connection for its own.
THEOREM LossIsLoud ==
  ASSUME \A response \in Responses : Shows(response)
  PROVE  Spec => []DiscardIsLoud
<1>1. ASSUME Init PROVE Base /\ Losses
  <2>1. /\ active = NoCursor /\ pc = "idle" /\ ret.what = "none"
        /\ generator = [c \in Cursors |-> FALSE] /\ lost = [c \in Cursors |-> FALSE]
    BY <1>1 DEF Init, Result
  <2> QED BY <1>1, <2>1, BaseInit DEF Losses, DiscardIsLoud
<1>2. ASSUME Base, Losses, [Next]_vars PROVE Losses'
  <2>1. CASE Next
    BY <2>1, <1>2, ExecuteLosses, FetchLosses, ReadsLosses DEF Next
  <2>2. CASE UNCHANGED vars
    BY <2>2, <1>2 DEF Losses, Shows, DiscardIsLoud, vars, conn, cursor, call, statement
  <2> QED BY <1>2, <2>1, <2>2
<1>3. Base /\ Losses /\ [Next]_vars => (Base /\ Losses)'
  BY <1>2, BaseStep
<1>4. Losses => DiscardIsLoud
  BY DEF Losses
<1> QED BY <1>1, <1>3, <1>4, PTL DEF Spec

-----------------------------------------------------------------------------
(* Rows are given in order                                                     *)

LEMMA EmptyInLine ==
  /\ Ascending(<<>>) /\ Rising(<<>>) /\ OnlyRows(<<>>)
  /\ \A s : Below(<<>>, s) /\ Precede(<<>>, s) /\ Below(s, <<>>)
BY DEF Ascending, Rising, OnlyRows, Below, Precede, Elements

LEMMA AscendingGrows ==
  ASSUME NEW ids \in Seq(Nat), Ascending(ids), NEW n \in Nat, \A k \in Elements(ids) : k < n
  PROVE  Ascending(Append(ids, n))
<1>1. PICK t \in Seq(Nat) : t = Append(ids, n)
  BY Longer
<1>2. /\ Len(ids) \in Nat /\ DOMAIN ids = 1 .. Len(ids) /\ DOMAIN t = 1 .. Len(ids) + 1
      /\ \A i \in 1 .. Len(ids) : t[i] = ids[i]
      /\ t[Len(ids) + 1] = n
  BY <1>1, Longer
<1>3. \A i \in 1 .. Len(ids) : ids[i] < n
  BY <1>2 DEF Elements
<1>4. ASSUME NEW i \in DOMAIN t, NEW j \in DOMAIN t, i < j PROVE t[i] < t[j]
  <2>1. i \in 1 .. Len(ids) /\ t[i] = ids[i]
    BY <1>2, <1>4
  <2>2. CASE j = Len(ids) + 1
    BY <2>1, <2>2, <1>2, <1>3
  <2>3. CASE j \in 1 .. Len(ids)
    BY <2>1, <2>3, <1>2, <1>4 DEF Ascending
  <2> QED BY <2>2, <2>3, <1>2
<1>5. Ascending(t)
  BY <1>4 DEF Ascending
<1> QED BY <1>1, <1>5

LEMMA RisingGrows ==
  ASSUME NEW s \in Seq(Messages), Rising(s), NEW m \in Messages, \A k \in Elements(s) : k.n < m.n
  PROVE  Rising(Append(s, m))
<1>1. PICK t \in Seq(Messages) : t = Append(s, m)
  BY Longer
<1>2. /\ Len(s) \in Nat /\ DOMAIN s = 1 .. Len(s) /\ DOMAIN t = 1 .. Len(s) + 1
      /\ \A i \in 1 .. Len(s) : t[i] = s[i]
      /\ t[Len(s) + 1] = m
  BY <1>1, Longer
<1>3. \A i \in 1 .. Len(s) : s[i].n < m.n
  BY <1>2 DEF Elements
<1>4. Rising(t)
  BY <1>2, <1>3 DEF Rising
<1> QED BY <1>1, <1>4

LEMMA RisingTail ==
  ASSUME NEW s \in Seq(Messages), s # <<>>, Rising(s)
  PROVE  Rising(Tail(s)) /\ \A m \in Elements(Tail(s)) : Head(s).n < m.n
<1>1. PICK t \in Seq(Messages) : t = Tail(s)
  BY Shorter
<1>2. /\ Len(s) \in Nat /\ Len(s) >= 1 /\ Len(t) = Len(s) - 1 /\ DOMAIN t = 1 .. Len(t)
      /\ DOMAIN s = 1 .. Len(s)
      /\ \A i \in DOMAIN t : i + 1 \in DOMAIN s /\ t[i] = s[i + 1]
      /\ 1 \in DOMAIN s /\ Head(s) = s[1]
  BY <1>1, Shorter, NoneOrSome
<1>3. Rising(t)
  BY <1>2 DEF Rising
<1>4. \A i \in DOMAIN t : Head(s).n < t[i].n
  BY <1>2 DEF Rising
<1> QED BY <1>1, <1>3, <1>4 DEF Elements

LEMMA Offset ==
  ASSUME NEW a \in Nat, NEW b \in Nat, NEW j \in 1 .. a + b, j > a
  PROVE  j - a \in 1 .. b /\ j = a + (j - a)
OBVIOUS

LEMMA AscendingBoth ==
  ASSUME NEW ids \in Seq(Nat), NEW s \in Seq(Messages), Ascending(ids), OnlyRows(s), Rising(s),
         Below(ids, s)
  PROVE  Ascending(ids \o Ids(s))
<1>1. PICK r \in Seq(Nat) : r = Ids(s)
  BY IdsOf
<1>2. PICK t \in Seq(Nat) : t = ids \o r
  BY Joined
<1>3. /\ Len(ids) \in Nat /\ Len(r) \in Nat /\ DOMAIN ids = 1 .. Len(ids)
      /\ DOMAIN r = 1 .. Len(r) /\ DOMAIN t = 1 .. Len(ids) + Len(r)
      /\ \A i \in 1 .. Len(ids) : t[i] = ids[i]
      /\ \A i \in 1 .. Len(r) : t[Len(ids) + i] = r[i]
  BY <1>2
<1>4. DOMAIN s = DOMAIN r /\ \A k \in DOMAIN s : r[k] = s[k].n
  BY <1>1, IdsOf
<1>5. \A i \in 1 .. Len(ids), j \in 1 .. Len(r) : ids[i] < r[j]
  <2>1. \A j \in DOMAIN s : IsRow(s[j]) /\ s[j] \in Elements(s)
    BY DEF OnlyRows, Elements
  <2>2. \A i \in DOMAIN ids : ids[i] \in Elements(ids)
    BY DEF Elements
  <2> QED BY <2>1, <2>2, <1>3, <1>4 DEF Below
<1>6. \A i, j \in 1 .. Len(r) : i < j => r[i] < r[j]
  <2>1. \A i, j \in DOMAIN s : i < j => s[i].n < s[j].n
    BY DEF Rising
  <2>2. \A i \in 1 .. Len(r) : i \in DOMAIN s /\ r[i] = s[i].n
    BY <1>3, <1>4
  <2> QED BY <2>1, <2>2
<1>7. ASSUME NEW i \in DOMAIN t, NEW j \in DOMAIN t, i < j PROVE t[i] < t[j]
  <2>4. /\ Len(ids) \in Nat /\ Len(r) \in Nat
        /\ i \in 1 .. Len(ids) + Len(r) /\ j \in 1 .. Len(ids) + Len(r)
    BY <1>3
  <2>1. CASE j \in 1 .. Len(ids)
    <3>1. i \in 1 .. Len(ids)
      BY <2>1, <2>4, <1>7
    <3> QED BY <2>1, <3>1, <1>3, <1>7 DEF Ascending
  <2>2. CASE i \in 1 .. Len(ids) /\ j > Len(ids)
    <3>1. PICK k \in 1 .. Len(r) : j = Len(ids) + k
      <4>1. j - Len(ids) \in 1 .. Len(r) /\ j = Len(ids) + (j - Len(ids))
        BY <2>2, <2>4, Offset
      <4> QED BY <4>1
    <3> QED BY <2>2, <3>1, <1>3, <1>5
  <2>3. CASE i > Len(ids)
    <3>1. PICK k \in 1 .. Len(r) : j = Len(ids) + k
      <4>1. j > Len(ids)
        BY <2>3, <2>4, <1>7
      <4>2. j - Len(ids) \in 1 .. Len(r) /\ j = Len(ids) + (j - Len(ids))
        BY <2>4, <4>1, Offset
      <4> QED BY <4>2
    <3>2. PICK l \in 1 .. Len(r) : i = Len(ids) + l
      <4>1. i - Len(ids) \in 1 .. Len(r) /\ i = Len(ids) + (i - Len(ids))
        BY <2>3, <2>4, Offset
      <4> QED BY <4>1
    <3>3. l < k
      BY <3>1, <3>2, <2>4, <1>7
    <3>4. t[j] = r[k] /\ t[i] = r[l]
      BY <3>1, <3>2, <1>3
    <3> QED BY <3>3, <3>4, <1>6
  <2>5. i \in 1 .. Len(ids) \/ i > Len(ids)
    BY <2>4
  <2>6. j \in 1 .. Len(ids) \/ j > Len(ids)
    BY <2>4
  <2> QED BY <2>1, <2>2, <2>3, <2>5, <2>6
<1>8. Ascending(t)
  BY <1>7 DEF Ascending
<1> QED BY <1>1, <1>2, <1>8

LEMMA IdsElements ==
  ASSUME NEW s \in Seq(Messages)
  PROVE  Elements(Ids(s)) = {m.n : m \in Elements(s)}
<1>1. PICK r \in Seq(Nat) : r = Ids(s)
  BY IdsOf
<1>2. DOMAIN r = DOMAIN s /\ \A k \in DOMAIN s : r[k] = s[k].n
  BY <1>1, IdsOf
<1>3. Elements(r) = {m.n : m \in Elements(s)}
  BY <1>2 DEF Elements
<1> QED BY <1>1, <1>3

\* What is behind the message that is read
LEMMA Behind ==
  ASSUME Base, pc # "idle"
  PROVE  /\ Elements(wire) = {msg} \cup Elements(Tail(wire))
         /\ \A m \in Elements(Tail(wire)) : InOrder(msg, m)
<1>1. wire # <<>> /\ wire \in Seq(Messages) /\ Proper(wire)
  BY ReadingFacts DEF Base
<1>2. PICK t \in Seq(Messages) : t = Tail(wire)
  BY <1>1, Shorter
<1>3. \A j \in DOMAIN t : InOrder(msg, t[j])
  BY <1>1, <1>2, RestIsProper DEF msg
<1> QED BY <1>1, <1>2, <1>3, ElementsOf DEF Elements, msg

LEMMA OrderedTypes ==
  ASSUME Base, NEW c \in Cursors
  PROVE  /\ out[c] \in Seq(Nat) /\ cached[c] \in Seq(Messages) /\ rows \in Seq(Messages)
         /\ out \in [Cursors -> Seq(Nat)] /\ cached \in [Cursors -> Seq(Messages)]
         /\ c # NoCursor
BY ResultSetsAssumption DEF Base, TypeOK

LEMMA ExecuteOrdered ==
  ASSUME Base, Ordered, NEW c \in Cursors, NEW response \in Responses, Execute(c, response)
  PROVE  Ordered'
<1>1. out' = [out EXCEPT ![c] = <<>>]
  BY DEF Execute, Set
<1>2. ASSUME NEW d \in Cursors PROVE Line(d)'
  <2>1. cached'[d] = <<>> \/ (cached'[d] = cached[d] /\ d # c)
    BY DEF Execute
  <2>2. out'[d] = <<>> \/ (out'[d] = out[d] /\ d # c)
    BY <1>1, OrderedTypes
  <2> QED BY <2>1, <2>2, EmptyInLine DEF Line, Ordered
<1>3. out'[c] = <<>> /\ cached'[c] = <<>> /\ active' = c /\ pc' = "executing"
  BY <1>1, OrderedTypes DEF Execute
<1> QED BY <1>2, <1>3, EmptyInLine DEF Ordered

LEMMA FetchCachedOrdered ==
  ASSUME Base, Ordered, NEW c \in Cursors, FetchCached(c)
  PROVE  Ordered'
<1>1. PICK s \in Seq(Messages) : s = cached[c]
  BY OrderedTypes
<1>2. PICK t \in Seq(Messages) : t = Tail(s)
  BY <1>1, Shorter DEF FetchCached
<1>3. /\ s # <<>> /\ Head(s) \in Messages /\ Head(s).n \in Nat
      /\ Elements(s) = {Head(s)} \cup Elements(t)
  <2>1. s # <<>> /\ Head(s) \in Messages
    BY <1>1, Shorter DEF FetchCached
  <2>2. Head(s).n \in Nat
    BY <2>1 DEF Messages
  <2>3. Elements(s) = {Head(s)} \cup Elements(t)
    BY <1>2, <2>1, ElementsOf
  <2> QED BY <2>1, <2>2, <2>3
<1>4. IsRow(Head(s)) /\ Rising(s) /\ OnlyRows(s) /\ Below(out[c], s)
  BY <1>1, <1>3 DEF Ordered, Line, OnlyRows
<1>5. PICK ids \in Seq(Nat) : ids = Append(out[c], Head(s).n)
  BY <1>3, OrderedTypes, IdsGrow
<1>6. Elements(ids) = Elements(out[c]) \cup {Head(s).n}
  BY <1>3, <1>5, OrderedTypes, IdsGrow
<1>7. Ascending(ids)
  <2>1. \A k \in Elements(out[c]) : k < Head(s).n
    BY <1>3, <1>4 DEF Below
  <2> QED BY <2>1, <1>3, <1>5, OrderedTypes, AscendingGrows DEF Ordered, Line
<1>8. Rising(t) /\ OnlyRows(t) /\ Below(ids, t)
  <2>1. Rising(t) /\ \A m \in Elements(t) : Head(s).n < m.n
    BY <1>2, <1>3, <1>4, RisingTail
  <2> QED BY <2>1, <1>3, <1>4, <1>6 DEF OnlyRows, Below
<1>9. /\ out' = [out EXCEPT ![c] = ids] /\ cached' = [cached EXCEPT ![c] = t]
      /\ UNCHANGED <<active, wire, pc>> /\ pc = "idle"
  BY <1>1, <1>2, <1>5 DEF FetchCached, Set, conn, call
<1>10. ASSUME NEW d \in Cursors PROVE Line(d)'
  <2>1. CASE d = c
    <3>1. out'[c] = ids /\ cached'[c] = t
      BY <1>9, OrderedTypes
    <3> QED BY <2>1, <3>1, <1>7, <1>8 DEF Line
  <2>2. CASE d # c
    BY <2>2, <1>9, OrderedTypes DEF Line, Ordered
  <2> QED BY <2>1, <2>2
<1>11. ASSUME active # NoCursor
       PROVE  Below(out'[active], wire) /\ Precede(cached'[active], wire)
  <2>1. CASE active = c
    <3>1. out'[active] = ids /\ cached'[active] = t
      BY <1>9, <2>1, OrderedTypes
    <3>2. Below(out[c], wire) /\ Precede(s, wire)
      BY <2>1, <1>1, <1>11 DEF Ordered
    <3> QED BY <3>1, <3>2, <1>3, <1>6 DEF Below, Precede
  <2>2. CASE active # c
    <3>1. out'[active] = out[active] /\ cached'[active] = cached[active]
      BY <1>9, <2>2, <1>11, OrderedTypes DEF Base, TypeOK
    <3> QED BY <3>1, <1>11 DEF Ordered
  <2> QED BY <2>1, <2>2
<1> QED BY <1>9, <1>10, <1>11 DEF Ordered

LEMMA BeginOrdered ==
  ASSUME Base, Ordered, NEW c \in Cursors, NEW where \in {"one", "all", "next"}, Begin(c, where),
         UNCHANGED cached \/ Set(cached, c, <<>>),
         where = "all" => rows' = cached[c]
  PROVE  Ordered'
<1>1. /\ UNCHANGED <<active, wire, out>> /\ pc' = where /\ who' = c /\ active = c
  BY DEF Begin, conn, progress
<1>2. cached'[c] = cached[c] \/ cached'[c] = <<>>
  BY OrderedTypes DEF Set
<1>3. ASSUME NEW d \in Cursors PROVE Line(d)'
  <2>1. cached'[d] = cached[d] \/ cached'[d] = <<>>
    BY OrderedTypes DEF Set
  <2> QED BY <1>1, <2>1, EmptyInLine DEF Line, Ordered
<1>4. Below(out[c], wire) /\ Precede(cached[c], wire) /\ Line(c)
  BY <1>1, OrderedTypes DEF Ordered
<1>5. Precede(cached'[c], wire)
  BY <1>2, <1>4, EmptyInLine
<1>6. where = "all" => OnlyRows(rows') /\ Rising(rows') /\ Below(out[c], rows') /\ Precede(rows', wire)
  BY <1>4 DEF Line
<1> QED BY <1>1, <1>3, <1>4, <1>5, <1>6 DEF Ordered

LEMMA CloseOrdered ==
  ASSUME Base, Ordered, NEW c \in Cursors, CloseCursor(c)
  PROVE  Ordered'
<1>1. out' = [out EXCEPT ![c] = <<>>] /\ cached' = [cached EXCEPT ![c] = <<>>] /\ pc = "idle" /\ pc' = pc
  BY DEF CloseCursor, Set, call
<1>2. ASSUME NEW d \in Cursors PROVE Line(d)'
  <2>1. CASE d = c
    <3>1. out'[d] = <<>> /\ cached'[d] = <<>>
      BY <1>1, <2>1, OrderedTypes
    <3> QED BY <3>1, EmptyInLine DEF Line
  <2>2. CASE d # c
    BY <1>1, <2>2, OrderedTypes DEF Line, Ordered
  <2> QED BY <2>1, <2>2
<1>3. active' = NoCursor \/ (active # c /\ active' = active /\ wire' = wire)
  BY DEF CloseCursor
<1>4. ASSUME active # NoCursor, active # c, active' = active, wire' = wire
      PROVE  Below(out'[active], wire') /\ Precede(cached'[active], wire')
  <2>1. out'[active] = out[active] /\ cached'[active] = cached[active]
    BY <1>1, <1>4, OrderedTypes DEF Base, TypeOK
  <2> QED BY <2>1, <1>4 DEF Ordered
<1> QED BY <1>1, <1>2, <1>3, <1>4 DEF Ordered

\* The end of the response, for this call or for good
LEMMA DoneOrdered ==
  ASSUME Base, Ordered, pc # "idle", active' = NoCursor, pc' = "idle", UNCHANGED cached,
         out' = out \/ (pc = "all" /\ Set(out, who, out[who] \o Ids(rows)))
  PROVE  Ordered'
<1>1. who \in Cursors
  BY ReadingFacts
<1>2. ASSUME NEW d \in Cursors PROVE Line(d)'
  <2>1. CASE out'[d] = out[d]
    BY <2>1 DEF Line, Ordered
  <2>2. CASE d = who /\ pc = "all" /\ Set(out, who, out[who] \o Ids(rows))
    <3>1. Ascending(out[who] \o Ids(rows))
      BY <2>2, <1>1, OrderedTypes, AscendingBoth DEF Ordered, Line
    <3>2. out'[d] = out[who] \o Ids(rows)
      BY <2>2, <1>1, OrderedTypes DEF Set
    <3>3. cached'[d] = <<>>
      BY <2>2, ReadingFacts
    <3> QED BY <3>1, <3>2, <3>3, EmptyInLine DEF Line
  <2>3. CASE d # who /\ Set(out, who, out[who] \o Ids(rows))
    <3>1. out'[d] = out[d]
      BY <2>3, OrderedTypes DEF Set
    <3> QED BY <3>1, <2>1
  <2> QED BY <2>1, <2>2, <2>3
<1> QED BY <1>2 DEF Ordered

\* A message that is not given yet: dropped, kept as read before, or collected
LEMMA KeptOrdered ==
  ASSUME Base, Ordered, pc # "idle", Handled, UNCHANGED out, pc' = "idle" \/ UNCHANGED <<pc, who>>,
         \/ UNCHANGED cached
         \/ IsRow(msg) /\ Set(cached, who, Append(cached[who], msg)) /\ pc' = "idle",
         pc' = "all" => rows' = IF IsRow(msg) THEN Append(rows, msg) ELSE rows
  PROVE  Ordered'
<1>1. /\ who \in Cursors /\ who = active /\ active # NoCursor /\ cached[who] = <<>>
      /\ msg \in Messages /\ msg.n \in Nat
  BY ReadingFacts
<1>2. PICK w \in Seq(Messages) : w = Tail(wire) /\ wire' = w
  BY ReadingFacts DEF Handled
<1>3. Elements(wire) = {msg} \cup Elements(w) /\ \A m \in Elements(w) : InOrder(msg, m)
  BY <1>2, Behind
<1>4. Below(out[who], w) /\ (IsRow(msg) => \A n \in Elements(out[who]) : n < msg.n)
  BY <1>1, <1>3 DEF Ordered, Below
<1>5. ASSUME IsRow(msg), Set(cached, who, Append(cached[who], msg))
      PROVE  /\ OnlyRows(cached'[who]) /\ Rising(cached'[who]) /\ Below(out[who], cached'[who])
             /\ Precede(cached'[who], w)
  <2>1. PICK s \in Seq(Messages) : s = Append(<<>>, msg)
    BY <1>1, EmptyIsProper, Longer
  <2>2. Elements(s) = {msg}
    <3>1. Elements(Append(<<>>, msg)) = Elements(<<>>) \cup {msg}
      BY <1>1, EmptyIsProper, MessagesGrow, Zenon
    <3> QED BY <3>1, <2>1, EmptyHasNone
  <2>3. Rising(s)
    BY <1>1, <2>1, EmptyIsProper, EmptyHasNone, EmptyInLine, RisingGrows
  <2>4. cached'[who] = s
    BY <1>1, <1>5, <2>1, OrderedTypes DEF Set
  <2> QED BY <2>2, <2>3, <2>4, <1>3, <1>4, <1>5 DEF OnlyRows, Below, Precede, InOrder
<1>6. ASSUME NEW d \in Cursors PROVE Line(d)'
  <2>1. CASE cached'[d] = cached[d]
    BY <2>1 DEF Line, Ordered
  <2>2. CASE d = who /\ IsRow(msg) /\ Set(cached, who, Append(cached[who], msg))
    BY <2>2, <1>5 DEF Line, Ordered
  <2>3. CASE d # who /\ Set(cached, who, Append(cached[who], msg))
    <3>1. cached'[d] = cached[d]
      BY <2>3, OrderedTypes DEF Set
    <3> QED BY <3>1, <2>1
  <2> QED BY <2>1, <2>2, <2>3
<1>7. Below(out[who], w) /\ Precede(cached'[who], w) /\ active' = who
  BY <1>1, <1>3, <1>4, <1>5, EmptyInLine DEF Handled
<1>8. ASSUME pc' = "all"
      PROVE  /\ who' = who /\ OnlyRows(rows') /\ Rising(rows') /\ Below(out[who], rows')
             /\ Precede(rows', w)
  <2>1. /\ pc = "all" /\ who' = who
        /\ OnlyRows(rows) /\ Rising(rows) /\ Below(out[who], rows) /\ Precede(rows, wire)
        /\ rows \in Seq(Messages)
    BY <1>8, <1>1, OrderedTypes DEF Ordered
  <2>2. CASE ~IsRow(msg)
    <3>1. Precede(rows, w) /\ rows' = rows
      BY <2>1, <2>2, <1>3, <1>8 DEF Precede
    <3> QED BY <2>1, <3>1
  <2>3. CASE IsRow(msg)
    <3>1. PICK s \in Seq(Messages) : s = Append(rows, msg)
      BY <1>1, <2>1, Longer
    <3>2. Elements(s) = Elements(rows) \cup {msg}
      BY <1>1, <2>1, <3>1, ElementsGrow
    <3>3. \A k \in Elements(rows) : k.n < msg.n
      BY <2>1, <2>3, <1>3 DEF Precede
    <3>4. Rising(s)
      BY <1>1, <2>1, <3>1, <3>3, RisingGrows
    <3>5. rows' = s
      BY <2>3, <3>1, <1>8
    <3>6. OnlyRows(s) /\ Below(out[who], s)
      BY <2>1, <2>3, <3>2, <1>4 DEF OnlyRows, Below
    <3>7. Precede(s, w)
      BY <2>1, <2>3, <3>2, <1>3 DEF Precede, InOrder
    <3> QED BY <2>1, <3>4, <3>5, <3>6, <3>7
  <2> QED BY <2>2, <2>3
<1> QED BY <1>1, <1>2, <1>6, <1>7, <1>8 DEF Ordered

\* fetchone() gives the row it reads.
LEMMA RowOrdered ==
  ASSUME Base, Ordered, pc # "idle", Handled, pc' = "idle", UNCHANGED cached, IsRow(msg),
         Set(out, who, Append(out[who], msg.n))
  PROVE  Ordered'
<1>1. /\ who \in Cursors /\ who = active /\ active # NoCursor /\ cached[who] = <<>>
      /\ msg \in Messages /\ msg.n \in Nat
  BY ReadingFacts
<1>2. PICK w \in Seq(Messages) : w = Tail(wire) /\ wire' = w
  BY ReadingFacts DEF Handled
<1>3. Elements(wire) = {msg} \cup Elements(w) /\ \A m \in Elements(w) : InOrder(msg, m)
  BY <1>2, Behind
<1>4. Below(out[who], w) /\ \A n \in Elements(out[who]) : n < msg.n
  BY <1>1, <1>3 DEF Ordered, Below
<1>5. PICK ids \in Seq(Nat) : ids = Append(out[who], msg.n)
  BY <1>1, OrderedTypes, IdsGrow
<1>6. Elements(ids) = Elements(out[who]) \cup {msg.n}
  BY <1>1, <1>5, OrderedTypes, IdsGrow
<1>7. Ascending(ids)
  BY <1>1, <1>4, <1>5, OrderedTypes, AscendingGrows DEF Ordered, Line
<1>8. Below(ids, w)
  BY <1>3, <1>4, <1>6 DEF Below, InOrder
<1>9. out' = [out EXCEPT ![who] = ids] /\ out'[who] = ids
  BY <1>1, <1>5, OrderedTypes DEF Set
<1>10. ASSUME NEW d \in Cursors PROVE Line(d)'
  <2>1. CASE d = who
    BY <2>1, <1>1, <1>7, <1>9, EmptyInLine DEF Line
  <2>2. CASE d # who
    BY <2>2, <1>9, OrderedTypes DEF Line, Ordered
  <2> QED BY <2>1, <2>2
<1> QED BY <1>1, <1>2, <1>8, <1>9, <1>10, EmptyInLine DEF Ordered, Handled

\* fetchall() gives what it collected when a description comes.
LEMMA SetOrdered ==
  ASSUME Base, Ordered, pc = "all", Handled, pc' = "idle", UNCHANGED cached,
         Set(out, who, out[who] \o Ids(rows))
  PROVE  Ordered'
<1>1. /\ who \in Cursors /\ who = active /\ active # NoCursor /\ cached[who] = <<>>
      /\ rows \in Seq(Messages)
  BY ReadingFacts, OrderedTypes
<1>2. PICK w \in Seq(Messages) : w = Tail(wire) /\ wire' = w
  BY ReadingFacts DEF Handled
<1>3. Elements(wire) = {msg} \cup Elements(w)
  BY <1>2, Behind
<1>4. Below(out[who], w) /\ Precede(rows, w)
  BY <1>1, <1>3 DEF Ordered, Below, Precede
<1>5. PICK ids \in Seq(Nat) : ids = out[who] \o Ids(rows)
  BY <1>1, IdsOf, OrderedTypes, Joined
<1>6. Elements(ids) = Elements(out[who]) \cup {m.n : m \in Elements(rows)}
  BY <1>1, <1>5, IdsOf, IdsElements, OrderedTypes, ElementsOfBoth
<1>7. Ascending(ids)
  BY <1>1, <1>5, OrderedTypes, AscendingBoth DEF Ordered, Line
<1>8. Below(ids, w)
  BY <1>4, <1>6 DEF Below, Precede
<1>9. out' = [out EXCEPT ![who] = ids] /\ out'[who] = ids
  BY <1>1, <1>5, OrderedTypes DEF Set
<1>10. ASSUME NEW d \in Cursors PROVE Line(d)'
  <2>1. CASE d = who
    BY <2>1, <1>1, <1>7, <1>9, EmptyInLine DEF Line
  <2>2. CASE d # who
    BY <2>2, <1>9, OrderedTypes DEF Line, Ordered
  <2> QED BY <2>1, <2>2
<1> QED BY <1>1, <1>2, <1>8, <1>9, <1>10, EmptyInLine DEF Ordered, Handled

LEMMA OrderedStep ==
  ASSUME Base, Ordered, [Next]_vars
  PROVE  Ordered'
<1>1. ASSUME NEW c \in Cursors, NEW response \in Responses, Execute(c, response) PROVE Ordered'
  BY <1>1, ExecuteOrdered
<1>2. ASSUME NEW c \in Cursors, Fetch(c) PROVE Ordered'
  <2>1. ASSUME UNCHANGED <<active, wire, cached, out, pc>>, pc = "idle" PROVE Ordered'
    BY <2>1 DEF Ordered, Line
  <2>2. CASE FetchOne(c)
    BY <2>2, FetchCachedOrdered, BeginOrdered DEF FetchOne
  <2>3. CASE FetchAll(c)
    BY <2>3, BeginOrdered DEF FetchAll
  <2>4. CASE NextSet(c)
    BY <2>4, BeginOrdered DEF NextSet
  <2>5. CASE CloseCursor(c)
    BY <2>5, CloseOrdered
  <2>6. CASE FetchDiscarded(c)
    BY <2>1, <2>6 DEF FetchDiscarded, conn, cursor, call, progress
  <2>7. ASSUME NEW method, FetchNothing(c, method) PROVE Ordered'
    BY <2>1, <2>7 DEF FetchNothing, conn, call, progress
  <2> QED BY <1>2, <2>2, <2>3, <2>4, <2>5, <2>6, <2>7 DEF Fetch
<1>3. ASSUME pc # "idle", Raises PROVE Ordered'
  BY <1>3, DoneOrdered DEF Raises, Gives
<1>4. ASSUME pc # "idle", NEW what, Ends(what) PROVE Ordered'
  BY <1>4, DoneOrdered DEF Ends, EndOfResponse, Gives
<1>5. CASE ExecuteReads
  <2>1. CASE /\ Handled /\ Cache /\ Gives("none", <<>>) /\ UNCHANGED progress
    BY <1>5, <2>1, KeptOrdered DEF Cache, Gives, progress, ExecuteReads
  <2>2. CASE Handled /\ Stays /\ UNCHANGED cached
    BY <1>5, <2>2, KeptOrdered DEF Stays, progress, ExecuteReads
  <2> QED BY <1>5, <1>3, <1>4, <2>1, <2>2 DEF ExecuteReads
<1>6. CASE FetchOneReads
  <2>1. CASE IsRow(msg) /\ Handled /\ Gives("row", <<msg>>) /\ Set(out, who, Append(out[who], msg.n))
             /\ UNCHANGED cached
    BY <1>6, <2>1, RowOrdered DEF Gives, FetchOneReads
  <2>2. CASE Handled /\ Gives("end", <<>>) /\ UNCHANGED <<cached, out>>
    BY <1>6, <2>2, KeptOrdered DEF Gives, FetchOneReads
  <2>3. CASE Handled /\ Stays /\ UNCHANGED cached
    BY <1>6, <2>3, KeptOrdered DEF Stays, progress, FetchOneReads
  <2> QED BY <1>6, <1>3, <1>4, <2>1, <2>2, <2>3 DEF FetchOneReads
<1>7. CASE FetchAllReads
  <2>1. CASE EndOfResponse /\ GivesRows(rows)
    BY <1>7, <2>1, DoneOrdered DEF EndOfResponse, GivesRows, Gives, FetchAllReads
  <2>2. CASE Handled /\ rows' = (IF IsRow(msg) THEN Append(rows, msg) ELSE rows) /\ Stays
    BY <1>7, <2>2, KeptOrdered DEF Stays, progress, FetchAllReads
  <2>3. CASE Handled /\ GivesRows(rows)
    BY <1>7, <2>3, SetOrdered DEF GivesRows, Gives, FetchAllReads
  <2> QED BY <1>7, <1>3, <1>4, <2>1, <2>2, <2>3 DEF FetchAllReads
<1>8. CASE NextSetReads
  <2>1. CASE Handled /\ Cache /\ Gives("true", <<>>) /\ UNCHANGED out
    BY <1>8, <2>1, KeptOrdered DEF Cache, Gives, NextSetReads
  <2>2. CASE Handled /\ Stays /\ UNCHANGED cached
    BY <1>8, <2>2, KeptOrdered DEF Stays, progress, NextSetReads
  <2> QED BY <1>8, <1>3, <1>4, <2>1, <2>2 DEF NextSetReads
<1>9. CASE UNCHANGED vars
  BY <1>9 DEF Ordered, Line, vars, conn, cursor, call, progress
<1> QED BY <1>1, <1>2, <1>5, <1>6, <1>7, <1>8, <1>9 DEF Next, Reads

\* Whatever the calls and their order, no row is given twice or out of order.
THEOREM RowsComeInOrder == Spec => []RowsInOrder
<1>1. Init => Base /\ Ordered
  <2>1. ASSUME Init PROVE /\ active = NoCursor /\ pc = "idle"
                          /\ \A c \in Cursors : out[c] = <<>> /\ cached[c] = <<>>
    BY <2>1 DEF Init
  <2> QED BY <2>1, BaseInit, EmptyInLine DEF Ordered, Line
<1>2. Base /\ Ordered /\ [Next]_vars => (Base /\ Ordered)'
  BY BaseStep, OrderedStep
<1>3. Ordered => RowsInOrder
  BY DEF Ordered, Line, Ascending, RowsInOrder
<1> QED BY <1>1, <1>2, <1>3, PTL DEF Spec

-----------------------------------------------------------------------------
(* Value errors are put off, never dropped                                     *)

LEMMA ErredTypes ==
  ASSUME Base
  PROVE  /\ asked \in [Cursors -> Seq(Messages)] /\ NoCursor \notin Cursors
         /\ finished \in [Cursors -> {"no", "end", "value error", "server error"}]
         /\ active # NoCursor => active \in Cursors
BY ResultSetsAssumption DEF Base, TypeOK

LEMMA ExecuteErred ==
  ASSUME Base, Erred, NEW c \in Cursors, NEW response \in Responses, Execute(c, response)
  PROVE  Erred'
<1>1. /\ asked' = [asked EXCEPT ![c] = response] /\ finished' = [finished EXCEPT ![c] = "no"]
      /\ active' = c /\ wire' = response /\ deferred' = FALSE /\ ret'.what = "none"
  BY DEF Execute, Set, Forget, Result
<1>2. asked'[c] = response /\ finished'[c] = "no"
  BY <1>1, ErredTypes
<1>3. \A d \in Cursors : d # c => asked'[d] = asked[d] /\ finished'[d] = finished[d]
  BY <1>1, ErredTypes
<1>4. ASSUME NEW d \in Cursors, finished'[d] = "end" PROVE ~Has("bad", asked'[d])
  BY <1>2, <1>3, <1>4 DEF Erred, ValueErrorsAreExact
<1>5. Has("bad", asked'[active']) <=> deferred' \/ Has("bad", wire')
  BY <1>1, <1>2
<1> QED BY <1>1, <1>4, <1>5 DEF Erred, ValueErrorsAreExact

LEMMA CloseErred ==
  ASSUME Base, Erred, NEW c \in Cursors, CloseCursor(c)
  PROVE  Erred'
<1>1. /\ asked' = [asked EXCEPT ![c] = <<>>] /\ finished' = [finished EXCEPT ![c] = "no"]
      /\ ret'.what = "none"
  BY DEF CloseCursor, Set, Result
<1>2. asked'[c] = <<>> /\ finished'[c] = "no"
  BY <1>1, ErredTypes
<1>3. \A d \in Cursors : d # c => asked'[d] = asked[d] /\ finished'[d] = finished[d]
  BY <1>1, ErredTypes
<1>4. active' = NoCursor \/ (active # c /\ UNCHANGED <<active, wire, deferred>>)
  BY DEF CloseCursor
<1>5. ASSUME NEW d \in Cursors, finished'[d] = "end" PROVE ~Has("bad", asked'[d])
  BY <1>2, <1>3, <1>5 DEF Erred, ValueErrorsAreExact
<1>6. ASSUME active' # NoCursor
      PROVE  Has("bad", asked'[active']) <=> deferred' \/ Has("bad", wire')
  <2>1. active # c /\ active \in Cursors /\ UNCHANGED <<active, wire, deferred>>
    BY <1>4, <1>6, ErredTypes
  <2>2. asked'[active'] = asked[active]
    BY <2>1, <1>3
  <2> QED BY <2>1, <2>2, <1>6 DEF Erred
<1> QED BY <1>1, <1>5, <1>6 DEF Erred, ValueErrorsAreExact

LEMMA EndErred ==
  ASSUME Base, Erred, pc # "idle", EndOfResponse, UNCHANGED statement,
         NEW what, NEW of, Gives(what, of), NEW verdict, Set(finished, who, verdict),
         verdict = "end" => ~deferred,
         what = "value error" => deferred
  PROVE  Erred'
<1>1. who \in Cursors /\ who = active /\ active # NoCursor
  BY ReadingFacts
<1>2. ~Has("bad", wire)
  <2>1. Elements(wire) = {msg} \cup Elements(Tail(wire)) /\ Tail(wire) = <<>>
    BY Behind, ReadingFacts DEF EndOfResponse
  <2>2. \A m \in Elements(wire) : m.tag = "Z"
    BY <2>1, EmptyHasNone DEF EndOfResponse
  <2> QED BY <2>2, HasInElements
<1>3. Has("bad", asked[who]) <=> deferred
  BY <1>1, <1>2 DEF Erred
<1>4. asked' = asked /\ active' = NoCursor /\ ret'.what = what /\ ret'.by = who
  BY DEF statement, EndOfResponse, Gives, Result
<1>5. ASSUME NEW c \in Cursors, finished'[c] = "end" PROVE ~Has("bad", asked[c])
  <2>1. CASE c = who
    <3>1. verdict = "end"
      BY <2>1, <1>5, ErredTypes DEF Set
    <3> QED BY <3>1, <2>1, <1>3
  <2>2. CASE c # who
    <3>1. finished[c] = "end"
      BY <2>2, <1>5, ErredTypes DEF Set
    <3> QED BY <3>1 DEF Erred, ValueErrorsAreExact
  <2> QED BY <2>1, <2>2
<1> QED BY <1>3, <1>4, <1>5 DEF Erred, ValueErrorsAreExact

LEMMA RaisesErred ==
  ASSUME Base, Erred, pc # "idle", Raises, UNCHANGED statement
  PROVE  Erred'
<1>1. asked' = asked /\ active' = NoCursor /\ ret'.what = "server error"
  BY DEF statement, Raises, Gives, Result
<1>2. finished' = [finished EXCEPT ![who] = "server error"]
  BY DEF Raises, Set
<1>3. \A c \in Cursors : finished'[c] = "end" => finished[c] = "end"
  BY <1>2, ErredTypes
<1> QED BY <1>1, <1>3 DEF Erred, ValueErrorsAreExact

LEMMA HandledErred ==
  ASSUME Base, Erred, pc # "idle", Handled, UNCHANGED <<statement, finished>>,
         UNCHANGED ret \/ ret'.what # "value error"
  PROVE  Erred'
<1>1. active # NoCursor /\ Elements(wire) = {msg} \cup Elements(wire')
  BY ReadingFacts, Behind DEF Handled
<1>2. Has("bad", wire) <=> msg.tag = "bad" \/ Has("bad", wire')
  BY <1>1, HasInElements
<1>3. deferred' = (deferred \/ msg.tag = "bad") /\ active' = active /\ asked' = asked
  BY DEF Handled, statement
<1>4. deferred' \/ Has("bad", wire') <=> deferred \/ Has("bad", wire)
  BY <1>2, <1>3
<1> QED BY <1>1, <1>3, <1>4 DEF Erred, ValueErrorsAreExact

LEMMA ErredStep ==
  ASSUME Base, Erred, [Next]_vars
  PROVE  Erred'
<1>1. ASSUME NEW c \in Cursors, NEW response \in Responses, Execute(c, response) PROVE Erred'
  BY <1>1, ExecuteErred
<1>2. ASSUME NEW c \in Cursors, Fetch(c) PROVE Erred'
  <2>1. ASSUME UNCHANGED <<conn, asked, finished>>, ret'.what # "value error" PROVE Erred'
    BY <2>1 DEF Erred, ValueErrorsAreExact, conn
  <2>2. ASSUME NEW where, Begin(c, where) PROVE Erred'
    BY <2>1, <2>2 DEF Begin, statement, progress, Result
  <2>3. CASE FetchOne(c)
    <3>1. CASE FetchCached(c)
      BY <2>1, <3>1 DEF FetchCached, statement, Result
    <3> QED BY <2>3, <3>1, <2>2 DEF FetchOne
  <2>4. CASE CloseCursor(c)
    BY <2>4, CloseErred
  <2>5. CASE FetchDiscarded(c)
    BY <2>1, <2>5 DEF FetchDiscarded, statement, progress, Result
  <2>6. ASSUME NEW method, FetchNothing(c, method) PROVE Erred'
    BY <2>1, <2>6 DEF FetchNothing, statement, progress, Result
  <2> QED BY <1>2, <2>2, <2>3, <2>4, <2>5, <2>6 DEF Fetch, FetchAll, NextSet
<1>3. CASE Reads
  <2>1. UNCHANGED statement /\ pc # "idle"
    BY <1>3 DEF Reads, ExecuteReads, FetchOneReads, FetchAllReads, NextSetReads
  <2>2. CASE Raises
    BY <2>1, <2>2, RaisesErred
  <2>3. ASSUME NEW what \in {"none", "end", "rows"}, Ends(what) PROVE Erred'
    <3>1. Gives(IF deferred THEN "value error" ELSE what, <<>>)
      BY <2>3 DEF Ends
    <3>2. Set(finished, who, IF deferred THEN "value error" ELSE "end") /\ EndOfResponse
      BY <2>3 DEF Ends
    <3>3. CASE deferred
      BY <2>1, <3>1, <3>2, <3>3, EndErred
    <3>4. CASE ~deferred
      BY <2>1, <3>1, <3>2, <3>4, EndErred
    <3> QED BY <3>3, <3>4
  <2>4. CASE ~deferred /\ EndOfResponse /\ GivesRows(rows) /\ Set(finished, who, "end")
    <3>1. Gives("rows", rows)
      BY <2>4 DEF GivesRows
    <3>2. ("end" = "end" => ~deferred) /\ ("rows" = "value error" => deferred)
      BY <2>4
    <3>3. EndOfResponse /\ Set(finished, who, "end")
      BY <2>4
    <3> QED BY <2>1, <3>1, <3>2, <3>3, EndErred, Zenon
  <2>5. ASSUME Handled, UNCHANGED finished,
               NEW what \in {"none", "row", "end", "true", "rows"}, NEW of, Gives(what, of)
        PROVE  Erred'
    BY <2>1, <2>5, HandledErred DEF Gives, Result
  <2>6. CASE Handled /\ Stays
    BY <2>1, <2>6, HandledErred DEF Stays, progress
  <2>7. CASE ExecuteReads
    BY <2>2, <2>3, <2>5, <2>6, <2>7 DEF ExecuteReads, progress
  <2>8. CASE FetchOneReads
    BY <2>2, <2>3, <2>5, <2>6, <2>8 DEF FetchOneReads
  <2>9. CASE FetchAllReads
    BY <2>2, <2>3, <2>4, <2>5, <2>6, <2>9 DEF FetchAllReads, GivesRows
  <2>10. CASE NextSetReads
    BY <2>2, <2>3, <2>5, <2>6, <2>10 DEF NextSetReads
  <2> QED BY <1>3, <2>7, <2>8, <2>9, <2>10 DEF Reads
<1>4. CASE UNCHANGED vars
  BY <1>4 DEF Erred, ValueErrorsAreExact, vars, conn, statement, progress
<1> QED BY <1>1, <1>2, <1>3, <1>4 DEF Next

\* A response from which a row is missing is never read to its end without an
\* error, and the error concerns the statement that the cursor executed.
THEOREM ValueErrorsReported == Spec => []ValueErrorsAreExact
<1>1. Init => Base /\ Erred
  <2>1. ASSUME Init PROVE /\ active = NoCursor /\ ret.what = "none"
                          /\ \A c \in Cursors : finished[c] = "no"
    BY <2>1 DEF Init, Result
  <2> QED BY <2>1, BaseInit DEF Erred, ValueErrorsAreExact
<1>2. Base /\ Erred /\ [Next]_vars => (Base /\ Erred)'
  BY BaseStep, ErredStep
<1>3. Erred => ValueErrorsAreExact
  BY DEF Erred
<1> QED BY <1>1, <1>2, <1>3, PTL DEF Spec

-----------------------------------------------------------------------------
(* fetchall() gives the whole set                                              *)

LEMMA CompleteTypes ==
  ASSUME Base
  PROVE  /\ NoCursor \notin Cursors /\ (active # NoCursor => active \in Cursors)
         /\ asked \in [Cursors -> Seq(Messages)] /\ told \in [Cursors -> Nat]
         /\ over \in [Cursors -> BOOLEAN] /\ cached \in [Cursors -> Seq(Messages)]
         /\ manner \in [Cursors -> {"all", "one", "strayed"}]
         /\ out \in [Cursors -> Seq(Nat)] /\ rows \in Seq(Messages) /\ wire \in Seq(Messages)
BY ResultSetsAssumption DEF Base, TypeOK

\* An application that strays has strayed for good, and one that keeps on course
\* fetches before the end of a set and calls nextset() behind it.
LEMMA MannerKept ==
  ASSUME Base, NEW c \in Cursors, NEW method, Set(manner, c, Manner(c, method))
  PROVE  /\ \A d \in Cursors : d # c => manner'[d] = manner[d]
         /\ manner'[c] # "strayed" => /\ manner[c] # "strayed"
                                      /\ over[c] <=> method = "next"
                                      /\ ~(method = "all" /\ manner[c] = "one" /\ told[c] > 1)
                                      /\ manner'[c] = IF method = "one" THEN "one" ELSE manner[c]
<1>1. manner' = [manner EXCEPT ![c] = Manner(c, method)] /\ manner \in [Cursors -> {"all", "one", "strayed"}]
  BY CompleteTypes DEF Set
<1>2. manner'[c] = Manner(c, method) /\ \A d \in Cursors : d # c => manner'[d] = manner[d]
  BY <1>1
<1>3. over[c] \in BOOLEAN
  BY CompleteTypes
<1> QED BY <1>2, <1>3 DEF Manner

\* The response without a message that is no description
LEMMA StillUndescribed ==
  ASSUME Base, pc # "idle", Undescribed(wire)
  PROVE  /\ msg.tag \notin {"X", "row", "bad"}
         /\ msg.tag # "T" => Undescribed(Tail(wire))
<1>1. PICK w \in Seq(Messages) : w = Tail(wire)
  BY ReadingFacts
<1>2. /\ wire # <<>> /\ wire \in Seq(Messages) /\ Len(w) \in Nat /\ Len(w) = Len(wire) - 1
      /\ DOMAIN w = 1 .. Len(w) /\ 1 \in DOMAIN wire /\ msg = wire[1]
      /\ \A i \in DOMAIN w : i + 1 \in DOMAIN wire /\ w[i] = wire[i + 1]
  BY <1>1, ReadingFacts, Shorter, NoneOrSome DEF msg
<1>3. msg.tag \notin {"X", "row", "bad"}
  <2>1. \A j : j \notin 1 .. 1 - 1
    OBVIOUS
  <2> QED BY <1>2, <2>1 DEF Undescribed
<1>4. ASSUME msg.tag # "T", NEW i \in DOMAIN w, w[i].tag \in {"X", "row", "bad"}
      PROVE  \E j \in 1 .. i - 1 : w[j].tag = "T"
  <2>1. PICK j \in 1 .. i + 1 - 1 : wire[j].tag = "T"
    BY <1>2, <1>4 DEF Undescribed
  <2>2. j # 1
    BY <1>2, <1>4, <2>1
  <2>3. j - 1 \in 1 .. i - 1 /\ j - 1 \in DOMAIN w /\ (j - 1) + 1 = j
    BY <1>2, <2>1, <2>2
  <2>4. w[j - 1] = wire[j]
    BY <1>2, <2>3
  <2> QED BY <2>1, <2>3, <2>4
<1> QED BY <1>1, <1>3, <1>4 DEF Undescribed

\* Reading a message of the set or of the next
LEMMA UpcomingKept ==
  ASSUME Base, pc # "idle", wire' = Tail(wire), wire' # <<>>, NEW n \in Nat, Beyond(n)
  PROVE  Upcoming(n)'
<1>1. Elements(wire) = {msg} \cup Elements(wire')
  BY Behind
<1>2. Beyond(n)'
  BY <1>1 DEF Beyond
<1>3. Head(wire').tag = "X" => msg.tag = "T" /\ msg.set = Head(wire').set
  <2>1. wire # <<>> /\ wire \in Seq(Messages) /\ Proper(wire)
    BY ReadingFacts DEF Base
  <2> QED BY <2>1, RestIsProper DEF msg
<1> QED BY <1>1, <1>2, <1>3 DEF Upcoming, Beyond

\* Reading the description of a set, or its table's columns
LEMMA DescriptionRead ==
  ASSUME Base, pc # "idle", wire' = Tail(wire), msg.tag \in {"T", "X"}, NEW n \in Nat, Upcoming(n)
  PROVE  /\ Beyond(n + 1)'
         /\ \A m \in Elements(wire') : IsRow(m) => m.set > n
<1>1. /\ Elements(wire) = {msg} \cup Elements(wire') /\ \A m \in Elements(wire') : InOrder(msg, m)
      /\ msg \in Messages /\ Elements(wire') \subseteq Messages
  <2>1. PICK w \in Seq(Messages) : w = wire'
    BY ReadingFacts
  <2>2. Elements(w) \subseteq Messages
    BY NoneOrSome DEF Elements
  <2> QED BY <2>1, <2>2, Behind, ReadingFacts
<1>2. msg.set > n /\ msg.set \in Nat /\ \A m \in Elements(wire') : m.set \in Nat
  BY <1>1 DEF Upcoming, Beyond, msg, Messages
<1>3. ASSUME NEW m \in Elements(wire'), m.tag = "T" PROVE m.set > n + 1
  BY <1>1, <1>2, <1>3 DEF InOrder
<1>4. ASSUME NEW m \in Elements(wire'), IsRow(m) PROVE m.set > n
  BY <1>1, <1>2, <1>4 DEF InOrder, IsRow
<1> QED BY <1>3, <1>4 DEF Beyond

LEMMA ExecuteComplete ==
  ASSUME Base, Complete, NEW c \in Cursors, NEW response \in Responses, Execute(c, response)
  PROVE  Complete'
<1>1. /\ active' = c /\ who' = c /\ wire' = response /\ pc' = "executing" /\ ret'.what = "none"
  BY DEF Execute, Result
<1>2. /\ asked'[c] = response /\ told'[c] = 1 /\ over'[c] = FALSE /\ manner'[c] = "all"
  BY CompleteTypes DEF Execute, Set
<1>3. Undescribed(response)
  <2>1. WellFormed(response)
    BY ResponsesAssumption
  <2> QED BY <2>1 DEF WellFormed, Undescribed
<1> QED BY <1>1, <1>2, <1>3 DEF Complete, NothingDropped, Kept, Place, FetchAllIsComplete

\* A step between two calls that leaves the cursor of the connection alone
LEMMA OthersComplete ==
  ASSUME Base, Complete, pc = "idle", pc' = "idle", ret'.what # "rows",
         \/ active' = NoCursor
         \/ /\ UNCHANGED <<active, wire>>
            /\ active # NoCursor =>
                 /\ out'[active] = out[active] /\ cached'[active] = cached[active]
                 /\ asked'[active] = asked[active] /\ told'[active] = told[active]
                 /\ over'[active] = over[active] /\ manner'[active] = manner[active]
  PROVE  Complete'
<1>1. NothingDropped'
  BY DEF Complete, NothingDropped, Kept
<1>2. Place'
  BY DEF Complete, Place, Straight, Upcoming, Beyond
<1> QED BY <1>1, <1>2 DEF Complete, FetchAllIsComplete

LEMMA FetchCachedComplete ==
  ASSUME Base, Complete, NEW c \in Cursors, FetchCached(c)
  PROVE  Complete'
<1>1. PICK s \in Seq(Messages) : s = cached[c]
  BY OrderedTypes
<1>2. PICK t \in Seq(Messages) : t = Tail(s)
  BY <1>1, Shorter DEF FetchCached
<1>3. s # <<>> /\ Head(s) \in Messages
  BY <1>1, Shorter DEF FetchCached
<1>4. Head(s).n \in Nat /\ Elements(s) = {Head(s)} \cup Elements(t)
  BY <1>2, <1>3, ElementsOf DEF Messages
<1>5. PICK ids \in Seq(Nat) : ids = Append(out[c], Head(s).n) /\ Elements(ids) = Elements(out[c]) \cup {Head(s).n}
  BY <1>4, OrderedTypes, IdsGrow
<1>6. /\ out' = [out EXCEPT ![c] = ids] /\ cached' = [cached EXCEPT ![c] = t]
      /\ UNCHANGED <<active, wire, pc, asked, told, over>> /\ pc = "idle" /\ ret'.what = "row"
      /\ Set(manner, c, Manner(c, "one"))
  BY <1>1, <1>2, <1>5 DEF FetchCached, Set, conn, call, statement, Result
<1>7. CASE active # c
  <2>1. active # NoCursor =>
          out'[active] = out[active] /\ cached'[active] = cached[active] /\ manner'[active] = manner[active]
    BY <1>6, <1>7, CompleteTypes, MannerKept
  <2> QED BY <2>1, <1>6, OthersComplete
<1>8. CASE active = c
  <2>1. /\ out'[c] = ids /\ cached'[c] = t /\ active' = c /\ c # NoCursor
    BY <1>6, <1>8, OrderedTypes
  <2>2. manner'[c] # "strayed" => manner[c] # "strayed" /\ manner'[c] = "one" /\ ~over[c]
    BY <1>6, MannerKept
  <2>3. NothingDropped'
    <3>1. ASSUME manner'[c] # "strayed", NEW m \in Elements(asked[c]), IsRow(m) PROVE Kept(m, c)'
      <4>1. Kept(m, c)
        BY <3>1, <2>1, <2>2, <1>8 DEF Complete, NothingDropped
      <4> QED BY <4>1, <2>1, <1>1, <1>4, <1>5, <1>6 DEF Kept
    <3> QED BY <3>1, <2>1, <1>6 DEF NothingDropped
  <2>4. over'[c] => cached'[c] = <<>>
    <3>1. ~over[c]
      BY <2>1, <1>1, <1>3, <1>8 DEF Complete, Place
    <3> QED BY <3>1, <1>6
  <2>5. Straight(c)' => Straight(c)
    BY <2>2, <1>6 DEF Straight
  <2>6. Place'
    <3>1. told'[c] >= 1 /\ pc' = "idle"
      BY <2>1, <1>6, <1>8 DEF Complete, Place
    <3>2. Straight(c)' /\ ~over'[c] => Upcoming(told[c])'
      BY <2>1, <2>5, <1>6, <1>8 DEF Complete, Place, Upcoming, Beyond
    <3>3. manner'[c] # "all"
      <4>1. manner'[c] = "strayed" \/ manner'[c] = "one"
        BY <2>2
      <4> QED BY <4>1
    <3> QED BY <3>1, <3>2, <3>3, <2>1, <2>4, <1>6 DEF Place
  <2> QED BY <2>3, <2>6, <1>6 DEF Complete, FetchAllIsComplete
<1> QED BY <1>7, <1>8

LEMMA BeginComplete ==
  ASSUME Base, Complete, NEW c \in Cursors, NEW where \in {"one", "all", "next"}, Begin(c, where),
         \/ where = "one" /\ UNCHANGED cached
         \/ where = "all" /\ rows' = cached[c] /\ Set(cached, c, <<>>)
         \/ where = "next" /\ Set(cached, c, <<>>)
  PROVE  Complete'
<1>1. /\ UNCHANGED <<active, wire, asked, told, over, out>> /\ active = c /\ who' = c
      /\ pc = "idle" /\ pc' = where /\ ret'.what = "none" /\ c # NoCursor
  BY CompleteTypes DEF Begin, conn, statement, progress, Result
<1>2. manner'[c] # "strayed" => /\ manner[c] # "strayed" /\ (over[c] <=> where = "next")
                                /\ ~(where = "all" /\ manner[c] = "one" /\ told[c] > 1)
                                /\ manner'[c] = IF where = "one" THEN "one" ELSE manner[c]
  BY MannerKept DEF Begin
<1>3. cached'[c] = IF where = "one" THEN cached[c] ELSE <<>>
  BY CompleteTypes DEF Set
<1>4. /\ told[c] >= 1 /\ told[c] \in Nat /\ (over[c] => cached[c] = <<>>)
      /\ manner[c] \in {"all", "one", "strayed"}
      /\ Straight(c) /\ ~over[c] => Upcoming(told[c])
      /\ manner[c] = "all" /\ over[c] => Beyond(told[c] + 1)
  BY <1>1, CompleteTypes DEF Complete, Place
<1>5. NothingDropped'
  <2>1. ASSUME manner'[c] # "strayed", NEW m \in Elements(asked[c]), IsRow(m) PROVE Kept(m, c)'
    <3>1. Kept(m, c)
      BY <2>1, <1>1, <1>2 DEF Complete, NothingDropped
    <3>2. CASE where = "next"
      <4>1. cached[c] = <<>>
        BY <2>1, <3>2, <1>2, <1>4
      <4> QED BY <4>1, <3>1, <1>1, EmptyHasNone DEF Kept
    <3>3. CASE where = "all"
      BY <3>1, <3>3, <1>1 DEF Kept
    <3>4. CASE where = "one"
      BY <3>1, <3>4, <1>1, <1>3 DEF Kept
    <3> QED BY <3>2, <3>3, <3>4
  <2> QED BY <2>1, <1>1 DEF NothingDropped
<1>6. Straight(c)' => Straight(c)
  BY <1>1, <1>2 DEF Straight
<1>7. Place'
  <2>1. over'[c] => cached'[c] = <<>>
    BY <1>1, <1>3, <1>4
  <2>2. Straight(c)' /\ ~over'[c] => Upcoming(told[c])'
    BY <1>1, <1>4, <1>6 DEF Upcoming, Beyond
  <2>3. manner'[c] = "all" /\ over'[c] => Beyond(told[c] + 1)'
    BY <1>1, <1>2, <1>4 DEF Beyond
  <2>4. where = "all" /\ manner'[c] # "strayed" => Straight(c)' /\ ~over'[c]
    BY <1>1, <1>2, <1>4 DEF Straight
  <2>5. where = "next" /\ manner'[c] # "strayed" => over'[c]
    BY <1>1, <1>2
  <2>6. where = "one" /\ manner'[c] # "strayed" => manner'[c] = "one" /\ ~over'[c]
    BY <1>1, <1>2
  <2> QED BY <2>1, <2>2, <2>3, <2>4, <2>5, <2>6, <1>1, <1>4 DEF Place
<1> QED BY <1>1, <1>5, <1>7 DEF Complete, FetchAllIsComplete

LEMMA ReadingPlace ==
  ASSUME Base, Complete, pc # "idle"
  PROVE  /\ who \in Cursors /\ who = active /\ active # NoCursor /\ cached[who] = <<>>
         /\ told[who] >= 1 /\ told[who] \in Nat /\ over[who] \in BOOLEAN
         /\ manner[who] \in {"all", "one", "strayed"}
         /\ Straight(who) /\ ~over[who] /\ pc # "executing" => Upcoming(told[who])
         /\ manner[who] = "all" /\ over[who] => Beyond(told[who] + 1)
         /\ Elements(wire) = {msg} \cup Elements(Tail(wire))
         /\ wire # <<>> /\ Tail(wire) \in Seq(Messages) /\ msg \in Messages /\ msg.n \in Nat
BY ReadingFacts, Behind, CompleteTypes DEF Complete, Place

\* A message the call reads over
StaysOver ==
  /\ Handled /\ Stays /\ UNCHANGED <<cached, asked, manner>>
  /\ msg.tag # "Z"
  /\ pc = "executing" => msg.tag \in {"T", "C"}
  /\ pc = "all" => rows' = IF IsRow(msg) THEN Append(rows, msg) ELSE rows
  /\ pc # "all" => ~IsRow(msg)

LEMMA StaysComplete ==
  ASSUME Base, Complete, pc # "idle", StaysOver
  PROVE  Complete'
<1>1. /\ UNCHANGED <<active, pc, who, ret, told, over, out, cached, asked, manner>>
      /\ wire' = Tail(wire) /\ wire' # <<>>
  BY ReadingFacts DEF StaysOver, Handled, Stays, progress
<1>2. NothingDropped'
  <2>1. ASSUME manner[who] # "strayed", NEW m \in Elements(asked[who]), IsRow(m) PROVE Kept(m, who)'
    <3>1. Kept(m, who)
      BY <2>1, ReadingPlace DEF Complete, NothingDropped
    <3>2. CASE pc # "all"
      <4>1. m # msg
        BY <2>1, <3>2 DEF StaysOver
      <4> QED BY <3>1, <3>2, <4>1, <1>1, ReadingPlace DEF Kept
    <3>3. CASE pc = "all" /\ IsRow(msg)
      <4>1. Elements(rows') = Elements(rows) \cup {msg}
        <5>1. rows' = Append(rows, msg)
          BY <3>3 DEF StaysOver
        <5> QED BY <5>1, ReadingPlace, CompleteTypes, MessagesGrow
      <4> QED BY <3>1, <3>3, <4>1, <1>1, ReadingPlace DEF Kept
    <3>4. CASE pc = "all" /\ ~IsRow(msg)
      <4>1. m # msg /\ rows' = rows
        BY <2>1, <3>4 DEF StaysOver
      <4> QED BY <3>1, <3>4, <4>1, <1>1, ReadingPlace DEF Kept
    <3> QED BY <3>2, <3>3, <3>4
  <2> QED BY <2>1, <1>1, ReadingPlace DEF NothingDropped
<1>3. ASSUME Straight(who), ~over[who], pc # "executing" PROVE Upcoming(told[who])'
  <2>1. PICK n \in Nat : n = told[who] /\ Beyond(n)
    BY <1>3, ReadingPlace DEF Upcoming
  <2>2. Upcoming(n)'
    BY <2>1, <1>1, UpcomingKept
  <2> QED BY <2>1, <2>2, <1>1 DEF Upcoming, Beyond
<1>4. ASSUME manner[who] = "all", over[who] PROVE Beyond(told[who] + 1)'
  BY <1>1, <1>4, ReadingPlace DEF Beyond
<1>5. ASSUME pc = "executing"
      PROVE  /\ told[who] = 1 /\ manner[who] = "all" /\ ~over[who]
             /\ Undescribed(wire') \/ Beyond(1)'
  <2>1. told[who] = 1 /\ manner[who] = "all" /\ ~over[who] /\ (Undescribed(wire) \/ Beyond(1))
    BY <1>5 DEF Complete, Place
  <2>2. CASE Beyond(1)
    BY <2>1, <2>2, <1>1, ReadingPlace DEF Beyond
  <2>3. CASE Undescribed(wire) /\ msg.tag = "T"
    <3>1. msg.set >= 1
      <4>1. wire \in Seq(Messages) /\ Proper(wire) /\ wire # <<>>
        BY ReadingFacts DEF Base
      <4>2. 1 \in DOMAIN wire /\ msg = wire[1]
        BY <4>1, Shorter DEF msg
      <4> QED BY <4>1, <4>2, <2>3 DEF Proper
    <3>2. \A m \in Elements(wire') : m.tag = "T" => m.set > msg.set
      BY <2>3, <1>1, Behind DEF InOrder
    <3>3. msg.set \in Nat /\ \A m \in Elements(wire') : m.set \in Nat
      <4>1. PICK w \in Seq(Messages) : w = wire'
        BY <1>1, ReadingPlace
      <4>2. \A m \in Elements(w) : m \in Messages
        BY NoneOrSome DEF Elements
      <4> QED BY <4>1, <4>2, ReadingPlace DEF Messages
    <3> QED BY <2>1, <3>1, <3>2, <3>3 DEF Beyond
  <2>4. CASE Undescribed(wire) /\ msg.tag # "T"
    BY <2>1, <2>4, <1>1, StillUndescribed
  <2> QED BY <2>1, <2>2, <2>3, <2>4
<1>6. Place'
  <2>1. Straight(who)' <=> Straight(who)
    BY <1>1 DEF Straight
  <2>2. /\ told[who] >= 1 /\ (over[who] => cached[who] = <<>>)
        /\ pc = "all" /\ manner[who] # "strayed" => Straight(who) /\ ~over[who]
        /\ pc = "next" /\ manner[who] # "strayed" => over[who]
        /\ pc = "one" /\ manner[who] # "strayed" => manner[who] = "one" /\ ~over[who]
    BY ReadingPlace DEF Complete, Place
  <2> QED BY <2>1, <2>2, <1>1, <1>3, <1>4, <1>5, ReadingPlace DEF Place
<1>7. FetchAllIsComplete'
  BY <1>1 DEF Complete, FetchAllIsComplete
<1> QED BY <1>2, <1>6, <1>7 DEF Complete

\* A row that is kept as read before: execute() and nextset() stop at it.
LEMMA CacheKeeps ==
  ASSUME Base, Complete, NEW c \in Cursors, c = who, pc \in {"executing", "next"}, Handled, Cache, UNCHANGED <<out, asked, manner>>,
         pc' = "idle"
  PROVE  NothingDropped'
<1>1. /\ active' = active /\ wire' = Tail(wire) /\ pc # "all" /\ pc # "idle"
  BY DEF Handled
<1>2. ASSUME manner[c] # "strayed", NEW m \in Elements(asked[c]), IsRow(m) PROVE Kept(m, c)'
  <2>1. Kept(m, c) /\ cached[c] = <<>>
    BY <1>1, <1>2, ReadingPlace DEF Complete, NothingDropped
  <2>2. CASE m # msg
    BY <2>1, <2>2, <1>1, ReadingPlace, EmptyHasNone DEF Kept
  <2>3. CASE m = msg
    <3>1. cached'[c] = Append(<<>>, msg)
      BY <2>1, <2>3, <1>1, <1>2, ReadingPlace, CompleteTypes DEF Cache, Set
    <3>2. Elements(Append(<<>>, msg)) = Elements(<<>>) \cup {msg}
      BY <1>1, ReadingPlace, EmptyIsProper, MessagesGrow, Zenon
    <3> QED BY <2>3, <3>1, <3>2 DEF Kept
  <2> QED BY <2>2, <2>3
<1> QED BY <1>1, <1>2, ReadingPlace DEF NothingDropped

LEMMA ExecuteStops ==
  ASSUME Base, Complete, NEW c \in Cursors, c = who, pc = "executing", Handled, Cache, msg.tag \in {"X", "row", "bad"},
         Gives("none", <<>>), UNCHANGED <<progress, asked, manner>>
  PROVE  Complete'
<1>1. /\ UNCHANGED <<active, told, over, out, asked, manner>> /\ pc' = "idle"
      /\ wire' = Tail(wire) /\ wire' # <<>> /\ ret'.what = "none"
  BY ReadingFacts DEF Handled, Gives, progress, Result
<1>2. NothingDropped'
  BY <1>1, CacheKeeps
<1>3. told[c] = 1 /\ manner[c] = "all" /\ ~over[c] /\ Beyond(1)
  BY StillUndescribed DEF Complete, Place
<1>4. Upcoming(1)'
  BY <1>1, <1>3, UpcomingKept
<1>5. Place'
  <2>1. Upcoming(told[c])'
    BY <1>1, <1>3, <1>4 DEF Upcoming, Beyond
  <2> QED BY <2>1, <1>1, <1>3, ReadingPlace DEF Place
<1> QED BY <1>1, <1>2, <1>5 DEF Complete, FetchAllIsComplete

LEMMA NextSetStops ==
  ASSUME Base, Complete, NEW c \in Cursors, c = who, pc = "next", Handled, Cache, msg.tag \in {"T", "X", "row", "bad"},
         Gives("true", <<>>), Set(told, who, told[who] + 1), Set(over, who, FALSE),
         UNCHANGED <<out, asked, manner>>
  PROVE  Complete'
<1>1. /\ UNCHANGED <<active, out, asked, manner>> /\ pc' = "idle"
      /\ wire' = Tail(wire) /\ wire' # <<>> /\ ret'.what = "true"
  BY ReadingFacts DEF Handled, Gives, Result
<1>2. NothingDropped'
  BY <1>1, CacheKeeps
<1>3. told'[c] = told[c] + 1 /\ over'[c] = FALSE /\ told[c] \in Nat /\ told[c] >= 1
  BY ReadingPlace, CompleteTypes DEF Set
<1>4. ASSUME Straight(c)' PROVE Upcoming(told[c])'
  <2>1. manner[c] = "all" /\ over[c]
    BY <1>1, <1>3, <1>4 DEF Straight, Complete, Place
  <2>2. PICK n \in Nat : n = told[c] + 1 /\ Beyond(n)
    BY <2>1, <1>3, ReadingPlace
  <2>3. Upcoming(n)'
    BY <2>2, <1>1, UpcomingKept
  <2> QED BY <2>2, <2>3, <1>3 DEF Upcoming, Beyond
<1>5. Place'
  <2>1. told'[c] >= 1
    BY <1>3
  <2>2. active' = c
    BY <1>1, ReadingPlace
  <2> QED BY <2>1, <2>2, <1>1, <1>3, <1>4 DEF Place, Upcoming, Beyond
<1> QED BY <1>1, <1>2, <1>5 DEF Complete, FetchAllIsComplete

LEMMA FetchOneRow ==
  ASSUME Base, Complete, NEW c \in Cursors, c = who, pc = "one", Handled, IsRow(msg), Gives("row", <<msg>>),
         Set(out, who, Append(out[who], msg.n)), UNCHANGED <<cached, told, over, asked, manner>>
  PROVE  Complete'
<1>1. /\ UNCHANGED <<active, told, over, asked, manner, cached>> /\ pc' = "idle"
      /\ wire' = Tail(wire) /\ wire' # <<>> /\ ret'.what = "row"
  BY ReadingFacts DEF Handled, Gives, Result, IsRow
<1>2. Elements(out'[c]) = Elements(out[c]) \cup {msg.n}
  <2>1. out'[c] = Append(out[c], msg.n) /\ out[c] \in Seq(Nat)
    BY ReadingPlace, CompleteTypes DEF Set
  <2> QED BY <2>1, ReadingPlace, IdsGrow
<1>3. NothingDropped'
  <2>1. ASSUME manner[c] # "strayed", NEW m \in Elements(asked[c]), IsRow(m) PROVE Kept(m, c)'
    <3>1. Kept(m, c)
      BY <2>1, ReadingPlace DEF Complete, NothingDropped
    <3> QED BY <3>1, <1>1, <1>2, ReadingPlace DEF Kept
  <2> QED BY <2>1, <1>1, ReadingPlace DEF NothingDropped
<1>4. ASSUME Straight(c), ~over[c] PROVE Upcoming(told[c])'
  <2>1. PICK n \in Nat : n = told[c] /\ Beyond(n)
    BY <1>4, ReadingPlace DEF Upcoming
  <2>2. Upcoming(n)'
    BY <2>1, <1>1, UpcomingKept
  <2> QED BY <2>1, <2>2, <1>1 DEF Upcoming, Beyond
<1>5. ASSUME manner[c] = "all", over[c] PROVE Beyond(told[c] + 1)'
  BY <1>1, <1>5, ReadingPlace DEF Beyond
<1>6. Place'
  <2>1. Straight(c)' <=> Straight(c)
    BY <1>1 DEF Straight
  <2> QED BY <2>1, <1>1, <1>4, <1>5, ReadingPlace DEF Place
<1> QED BY <1>1, <1>3, <1>6 DEF Complete, FetchAllIsComplete

\* The command tag that ends a set: fetchone() answers that there is no row.
LEMMA FetchOneEnd ==
  ASSUME Base, Complete, NEW c \in Cursors, c = who, pc = "one", Handled, msg.tag = "C", Gives("end", <<>>),
         Set(over, who, TRUE), UNCHANGED <<cached, told, out, asked, manner>>
  PROVE  Complete'
<1>1. /\ UNCHANGED <<active, told, out, asked, manner, cached>> /\ pc' = "idle"
      /\ wire' = Tail(wire) /\ ret'.what = "end"
  BY ReadingFacts DEF Handled, Gives, Result
<1>2. NothingDropped'
  <2>1. ASSUME manner[c] # "strayed", NEW m \in Elements(asked[c]), IsRow(m) PROVE Kept(m, c)'
    <3>1. Kept(m, c) /\ m # msg
      BY <2>1, ReadingPlace DEF Complete, NothingDropped, IsRow
    <3> QED BY <3>1, <1>1, ReadingPlace DEF Kept
  <2> QED BY <2>1, <1>1, ReadingPlace DEF NothingDropped
<1>3. over'[c] = TRUE /\ manner[c] # "all"
  BY ReadingPlace, CompleteTypes DEF Set, Complete, Place
<1>4. Place'
  BY <1>1, <1>3, ReadingPlace DEF Place
<1> QED BY <1>1, <1>2, <1>4 DEF Complete, FetchAllIsComplete

\* What fetchall() has collected when it stops is what it gives.
LEMMA CollectedIsGiven ==
  ASSUME Base, Complete, pc = "all", GivesRows(rows)
  PROVE  /\ Elements(out'[who]) = Elements(out[who]) \cup {m.n : m \in Elements(rows)}
         /\ ret'.what = "rows" /\ ret'.by = who /\ pc' = "idle"
<1>1. out'[who] = out[who] \o Ids(rows) /\ out[who] \in Seq(Nat) /\ rows \in Seq(Messages)
  BY ReadingPlace, CompleteTypes DEF GivesRows, Set
<1>2. Elements(out[who] \o Ids(rows)) = Elements(out[who]) \cup Elements(Ids(rows))
  BY <1>1, IdsOf, ElementsOfBoth
<1> QED BY <1>1, <1>2, IdsElements DEF GivesRows, Gives, Result

LEMMA FetchAllStops ==
  ASSUME Base, Complete, NEW c \in Cursors, c = who, pc = "all", Handled, msg.tag \in {"T", "X"}, GivesRows(rows),
         Set(over, who, TRUE), UNCHANGED <<cached, told, asked, manner>>
  PROVE  Complete'
<1>1. /\ UNCHANGED <<active, told, asked, manner, cached>> /\ wire' = Tail(wire)
  BY DEF Handled
<1>2. over'[c] = TRUE /\ cached'[c] = <<>>
  BY <1>1, ReadingPlace, CompleteTypes DEF Set
<1>3. ASSUME manner[c] # "strayed", NEW m \in Elements(asked[c]), IsRow(m)
      PROVE  m \in Elements(wire') \/ m.n \in Elements(out'[c])
  <2>1. Kept(m, c) /\ m # msg
    BY <1>3, ReadingPlace DEF Complete, NothingDropped, IsRow
  <2> QED BY <2>1, <1>1, CollectedIsGiven, ReadingPlace, EmptyHasNone DEF Kept
<1>4. NothingDropped'
  BY <1>1, <1>3, ReadingPlace DEF NothingDropped, Kept
<1>5. ASSUME manner[c] # "strayed"
      PROVE  Beyond(told[c] + 1)' /\ \A m \in Elements(wire') : IsRow(m) => m.set > told[c]
  <2>1. PICK n \in Nat : n = told[c] /\ Upcoming(n)
    BY <1>5, ReadingPlace DEF Complete, Place
  <2>2. Beyond(n + 1)' /\ \A m \in Elements(wire') : IsRow(m) => m.set > n
    BY <2>1, <1>1, DescriptionRead
  <2> QED BY <2>1, <2>2, <1>1 DEF Beyond
<1>6. Place'
  BY <1>1, <1>2, <1>5, CollectedIsGiven, ReadingPlace DEF Place
<1>7. FetchAllIsComplete'
  <2>1. ASSUME manner[c] # "strayed", NEW m \in RowsOf(told[c], asked[c])
        PROVE  m.n \in Elements(out'[c])
    <3>1. m \in Elements(asked[c]) /\ IsRow(m) /\ m.set = told[c]
      BY <2>1 DEF RowsOf
    <3>2. m \notin Elements(wire')
      BY <2>1, <3>1, <1>5, ReadingPlace
    <3> QED BY <2>1, <3>1, <3>2, <1>3
  <2> QED BY <2>1, <1>1, CollectedIsGiven DEF FetchAllIsComplete
<1> QED BY <1>4, <1>6, <1>7 DEF Complete

\* The response ends.
LEMMA FetchAllEnds ==
  ASSUME Base, Complete, pc = "all", EndOfResponse, GivesRows(rows), UNCHANGED <<asked, manner>>
  PROVE  Complete'
<1>1. active' = NoCursor /\ UNCHANGED <<told, asked, manner>> /\ Tail(wire) = <<>>
  BY ReadingFacts DEF EndOfResponse
<1>2. Place' /\ NothingDropped'
  BY <1>1, CollectedIsGiven DEF Place, NothingDropped
<1>3. ASSUME manner[who] # "strayed", NEW m \in RowsOf(told[who], asked[who])
      PROVE  m.n \in Elements(out'[who])
  <2>1. m \in Elements(asked[who]) /\ IsRow(m)
    BY <1>3 DEF RowsOf
  <2>2. Kept(m, who) /\ m \notin Elements(wire)
    BY <2>1, <1>1, <1>3, ReadingPlace, EmptyHasNone DEF Complete, NothingDropped, IsRow, EndOfResponse
  <2> QED BY <2>2, CollectedIsGiven, ReadingPlace, EmptyHasNone DEF Kept
<1> QED BY <1>1, <1>2, <1>3, CollectedIsGiven DEF Complete, FetchAllIsComplete

LEMMA OtherEndsComplete ==
  ASSUME active' = NoCursor, pc' = "idle", ret'.what # "rows"
  PROVE  Complete'
BY DEF Complete, NothingDropped, Place, FetchAllIsComplete

LEMMA CompleteStep ==
  ASSUME Base, Complete, [Next]_vars
  PROVE  Complete'
<1>1. ASSUME NEW c \in Cursors, NEW response \in Responses, Execute(c, response) PROVE Complete'
  BY <1>1, ExecuteComplete
<1>2. ASSUME NEW c \in Cursors, Fetch(c) PROVE Complete'
  <2>1. CASE FetchOne(c)
    BY <2>1, FetchCachedComplete, BeginComplete DEF FetchOne
  <2>2. CASE FetchAll(c)
    BY <2>2, BeginComplete DEF FetchAll
  <2>3. CASE NextSet(c)
    BY <2>3, BeginComplete DEF NextSet
  <2>4. CASE CloseCursor(c)
    <3>1. pc = "idle" /\ pc' = "idle" /\ ret'.what = "none"
      BY <2>4 DEF CloseCursor, call, Result
    <3>2. active' = NoCursor \/ (UNCHANGED <<active, wire>> /\ active # c)
      BY <2>4 DEF CloseCursor
    <3>3. active # NoCursor /\ active # c =>
            /\ out'[active] = out[active] /\ cached'[active] = cached[active]
            /\ asked'[active] = asked[active] /\ told'[active] = told[active]
            /\ over'[active] = over[active] /\ manner'[active] = manner[active]
      BY <2>4, CompleteTypes DEF CloseCursor, Set
    <3> QED BY <3>1, <3>2, <3>3, OthersComplete
  <2>5. CASE FetchDiscarded(c)
    BY <2>5, OthersComplete DEF FetchDiscarded, conn, cursor, call, statement, progress, Result
  <2>6. ASSUME NEW method, FetchNothing(c, method) PROVE Complete'
    BY <2>6, OthersComplete DEF FetchNothing, conn, call, statement, progress, Result
  <2> QED BY <1>2, <2>1, <2>2, <2>3, <2>4, <2>5, <2>6 DEF Fetch
<1>3. CASE Reads
  <2>1. UNCHANGED <<asked, manner>> /\ pc # "idle" /\ who \in Cursors
    BY <1>3, ReadingFacts DEF Reads, statement, ExecuteReads, FetchOneReads, FetchAllReads, NextSetReads
  <2>2. CASE Raises
    BY <2>2, OtherEndsComplete DEF Raises, Gives, Result
  <2>3. ASSUME NEW what \in {"none", "end", "rows"}, Ends(what), what = "rows" => deferred PROVE Complete'
    BY <2>3, OtherEndsComplete DEF Ends, EndOfResponse, Gives, Result
  <2>4. CASE ExecuteReads
    <3>1. CASE msg.tag \in {"X", "row", "bad"} /\ Handled /\ Cache /\ Gives("none", <<>>) /\ UNCHANGED progress
      BY <2>1, <2>4, <3>1, ExecuteStops DEF ExecuteReads
    <3>2. CASE msg.tag \in {"T", "C"} /\ Handled /\ Stays /\ UNCHANGED cached
      <4>1. StaysOver
        BY <2>1, <2>4, <3>2 DEF ExecuteReads, StaysOver, IsRow
      <4> QED BY <2>1, <4>1, StaysComplete
    <3> QED BY <2>2, <2>3, <2>4, <3>1, <3>2 DEF ExecuteReads
  <2>5. CASE FetchOneReads
    <3>1. CASE /\ IsRow(msg) /\ Handled
               /\ Gives("row", <<msg>>) /\ Set(out, who, Append(out[who], msg.n))
               /\ UNCHANGED <<cached, told, over>>
      BY <2>1, <2>5, <3>1, FetchOneRow DEF FetchOneReads
    <3>2. CASE /\ msg.tag = "C" /\ Handled
               /\ Gives("end", <<>>) /\ Set(over, who, TRUE)
               /\ UNCHANGED <<cached, told, out>>
      BY <2>1, <2>5, <3>2, FetchOneEnd DEF FetchOneReads
    <3>3. CASE msg.tag \in PassedOver /\ Handled /\ Stays /\ UNCHANGED cached
      <4>1. StaysOver
        BY <2>1, <2>5, <3>3 DEF FetchOneReads, StaysOver, IsRow, PassedOver
      <4> QED BY <2>1, <4>1, StaysComplete
    <3> QED BY <2>2, <2>3, <2>5, <3>1, <3>2, <3>3 DEF FetchOneReads
  <2>6. CASE FetchAllReads
    <3>1. CASE EndOfResponse /\ GivesRows(rows)
      BY <2>1, <2>6, <3>1, FetchAllEnds DEF FetchAllReads
    <3>2. CASE /\ msg.tag \in {"row", "bad", "C"} /\ Handled
               /\ rows' = (IF IsRow(msg) THEN Append(rows, msg) ELSE rows) /\ Stays
      <4>1. StaysOver
        BY <2>1, <2>6, <3>2 DEF FetchAllReads, StaysOver
      <4> QED BY <2>1, <4>1, StaysComplete
    <3>3. CASE /\ msg.tag \in {"T", "X"} /\ Handled
               /\ GivesRows(rows) /\ Set(over, who, TRUE) /\ UNCHANGED told
      BY <2>1, <2>6, <3>3, FetchAllStops DEF FetchAllReads
    <3> QED BY <2>2, <2>3, <2>6, <3>1, <3>2, <3>3 DEF FetchAllReads
  <2>7. CASE NextSetReads
    <3>1. CASE /\ msg.tag \in {"T", "X", "row", "bad"} /\ Handled /\ Cache
               /\ Gives("true", <<>>) /\ Set(told, who, told[who] + 1) /\ Set(over, who, FALSE)
               /\ UNCHANGED out
      BY <2>1, <2>7, <3>1, NextSetStops DEF NextSetReads
    <3>2. CASE msg.tag = "C" /\ Handled /\ Stays /\ UNCHANGED cached
      <4>1. StaysOver
        BY <2>1, <2>7, <3>2 DEF NextSetReads, StaysOver, IsRow
      <4> QED BY <2>1, <4>1, StaysComplete
    <3> QED BY <2>2, <2>3, <2>7, <3>1, <3>2 DEF NextSetReads
  <2> QED BY <1>3, <2>4, <2>5, <2>6, <2>7 DEF Reads
<1>4. CASE UNCHANGED vars
  BY <1>4 DEF Complete, NothingDropped, Kept, Place, Straight, Upcoming, Beyond, FetchAllIsComplete,
              vars, conn, cursor, call, statement, progress
<1> QED BY <1>1, <1>2, <1>3, <1>4 DEF Next

\* When fetchall() returns to an application that fetches each result set to its
\* end and then calls nextset(), it has been given every row of the set.
THEOREM FetchAllGivesTheSet == Spec => []FetchAllIsComplete
<1>1. Init => Base /\ Complete
  <2>1. ASSUME Init PROVE active = NoCursor /\ pc = "idle" /\ ret.what = "none"
    BY <2>1 DEF Init, Result
  <2> QED BY <2>1, BaseInit DEF Complete, NothingDropped, Place, FetchAllIsComplete
<1>2. Base /\ Complete /\ [Next]_vars => (Base /\ Complete)'
  BY BaseStep, CompleteStep
<1>3. Complete => FetchAllIsComplete
  BY DEF Complete
<1> QED BY <1>1, <1>2, <1>3, PTL DEF Spec
=============================================================================
