--------------------------- MODULE HandshakeProofs ---------------------------
(***************************************************************************)
(* Proofs about Handshake for all arguments of connect(), every server and *)
(* any number of messages between authentication and ReadyForQuery.        *)
(*                                                                         *)
(* SecretsStayInTls needs the client and its socket only.  Agreement and   *)
(* FailureHasCause need both ends and the wire between them: the second    *)
(* half shows that client and server are in step, or that one of them has  *)
(* given up for a reason.                                                  *)
(***************************************************************************)
EXTENDS Handshake, TLAPS

\* The caller has said that TLS is required.
Required == want.level = 3 \/ (want.level = 2 /\ ~want.fallback)

\* Where the client is once it may send a secret
PastTls == {"tlsAck", "optionAck", "auth", "complete"}

\* The fields that decide, so that EXCEPT changes them
Shape == "at" \in DOMAIN client /\ {"open", "tls", "held"} \subseteq DOMAIN sock

\* The client gets past TLS only inside TLS, and a socket never leaves it.
SecretsInTls == Required => ~exposed /\ (client.at \in PastTls => sock.tls)

IInv == Shape /\ SecretsInTls

-----------------------------------------------------------------------------
(* Frames *)

\* A frame that is no secret, or goes through TLS, exposes nothing.
LEMMA SafeFrame ==
  ASSUME NEW f, NEW v, SendFrame(f, v), f \notin Secret \/ sock.tls, ~exposed
  PROVE  ~exposed'
BY DEF SendFrame

LEMMA SilentStep ==
  ASSUME SendsNothing, ~exposed PROVE ~exposed'
BY DEF SendsNothing

\* What a step of the client must show when the socket is as it was
LEMMA ClientStep ==
  ASSUME IInv, UNCHANGED <<want, sock>>, "at" \in DOMAIN client',
         Required => ~exposed' /\ (client'.at \in PastTls => sock.tls)
  PROVE  IInv'
BY DEF IInv, Shape, SecretsInTls, Required

LEMMA RejectedStep ==
  ASSUME IInv, NEW c, Rejected(c)
  PROVE  "at" \in DOMAIN client' /\ client'.at = "failed" /\ (Required => ~exposed')
BY SilentStep DEF IInv, Shape, SecretsInTls, Rejected

\* The first option frame names the user: inside TLS, or where TLS is not required.
LEMMA OptionsStep ==
  ASSUME IInv, send_options(client), Required => sock.tls
  PROVE  /\ "at" \in DOMAIN client' /\ client'.at = "optionAck"
         /\ Required => ~exposed'
<1>1. "at" \in DOMAIN client' /\ client'.at = "optionAck"
  BY DEF send_options, Goes, IInv, Shape
<1>2. Required => ~exposed'
  BY SafeFrame DEF send_options, IInv, SecretsInTls
<1> QED BY <1>1, <1>2

-----------------------------------------------------------------------------
(* The replies *)

LEMMA PlainFrames ==
  /\ "begin" \notin Secret /\ "db" \notin Secret
  /\ "negotiate" \notin Secret /\ "connect" \notin Secret
BY DEF Secret

LEMMA NegotiateStep ==
  ASSUME IInv, NEW r, client.at = "beginAck", negotiate(r), UNCHANGED <<want, sock>>
  PROVE  IInv'
<1>1. CASE \E c : Rejected(c)
  BY <1>1, RejectedStep, ClientStep DEF PastTls
<1>2. CASE Goes([client EXCEPT !.at = "dbAck"]) /\ SendFrame("db", 0)
  BY <1>2, SafeFrame, PlainFrames, ClientStep
  DEF Goes, IInv, Shape, SecretsInTls, PastTls
<1>3. CASE Goes([client EXCEPT !.version = r.v]) /\ SendFrame("begin", r.v)
  BY <1>3, SafeFrame, PlainFrames, ClientStep
  DEF Goes, IInv, Shape, SecretsInTls, PastTls
<1> QED BY <1>1, <1>2, <1>3 DEF negotiate

LEMMA DatabaseStep ==
  ASSUME IInv, NEW r, database(r), UNCHANGED <<want, sock>>
  PROVE  IInv'
<1>1. CASE \E c : Rejected(c)
  BY <1>1, RejectedStep, ClientStep DEF PastTls
<1>2. CASE Goes([client EXCEPT !.at = "secAck"]) /\ SendFrame("negotiate", client.level)
  BY <1>2, SafeFrame, PlainFrames, ClientStep
  DEF Goes, IInv, Shape, SecretsInTls, PastTls
<1> QED BY <1>1, <1>2 DEF database

\* Where TLS is required no plaintext is accepted.
LEMMA SecureSessionStep ==
  ASSUME IInv, NEW r, client.at = "secAck", secure_session(r), UNCHANGED <<want, sock>>
  PROVE  IInv'
<1>1. CASE \E c : Rejected(c)
  BY <1>1, RejectedStep, ClientStep DEF PastTls
<1>2. CASE AcceptsPlaintext /\ send_options(client)
  <2>1. ~Required
    BY <1>2 DEF AcceptsPlaintext, Required
  <2> QED BY <1>2, <2>1, OptionsStep, ClientStep
<1>3. CASE Goes([client EXCEPT !.at = "wrap"]) /\ SendFrame("connect", client.level)
  BY <1>3, SafeFrame, PlainFrames, ClientStep
  DEF Goes, IInv, Shape, SecretsInTls, PastTls
<1>4. CASE Goes([client EXCEPT !.level = 1]) /\ SendFrame("negotiate", 1)
  BY <1>4, SafeFrame, PlainFrames, ClientStep
  DEF Goes, IInv, Shape, SecretsInTls, PastTls
<1> QED BY <1>1, <1>2, <1>3, <1>4 DEF secure_session

LEMMA TlsAckStep ==
  ASSUME IInv, NEW r, client.at = "tlsAck", tls_ack(r), UNCHANGED <<want, sock>>
  PROVE  IInv'
<1>1. CASE \E c : Rejected(c)
  BY <1>1, RejectedStep, ClientStep DEF PastTls
<1>2. CASE send_options(client)
  <2>1. Required => sock.tls
    BY DEF IInv, SecretsInTls, PastTls
  <2> QED BY <1>2, <2>1, OptionsStep, ClientStep
<1> QED BY <1>1, <1>2 DEF tls_ack

LEMMA OptionAckStep ==
  ASSUME IInv, NEW r, client.at = "optionAck", option_ack(r), UNCHANGED <<want, sock>>
  PROVE  IInv'
<1>1. CASE \E c : Rejected(c)
  BY <1>1, RejectedStep, ClientStep DEF PastTls
<1>2. CASE ~(\E c : Rejected(c))
  <2>1. DOMAIN client' = DOMAIN client /\ SendFrame(Head(client.todo), 0)
    BY <1>2 DEF option_ack, Goes
  <2>2. Required => sock.tls /\ ~exposed'
    BY <2>1, SafeFrame DEF IInv, SecretsInTls, PastTls
  <2> QED BY <2>1, <2>2, ClientStep DEF IInv, Shape
<1> QED BY <1>1, <1>2

LEMMA AuthenticateStep ==
  ASSUME IInv, NEW r, client.at = "auth", authenticate(r), UNCHANGED <<want, sock>>
  PROVE  IInv'
<1>0. Required => sock.tls /\ ~exposed
  BY DEF IInv, SecretsInTls, PastTls
<1>1. CASE \E c : Rejected(c)
  BY <1>1, RejectedStep, ClientStep DEF PastTls
<1>2. CASE Goes([client EXCEPT !.at = "complete"]) /\ SendsNothing
  BY <1>0, <1>2, SilentStep, ClientStep DEF Goes, IInv, Shape
<1>3. CASE Goes([client EXCEPT !.at = "complete"]) /\ SendFrame("password", r.v)
  BY <1>0, <1>3, SafeFrame, ClientStep DEF Goes, IInv, Shape
<1> QED BY <1>1, <1>2, <1>3 DEF authenticate

LEMMA CompleteStep ==
  ASSUME IInv, NEW r, client.at = "complete", connection_complete(r), UNCHANGED <<want, sock>>
  PROVE  IInv'
<1>0. Required => sock.tls /\ ~exposed
  BY DEF IInv, SecretsInTls, PastTls
<1>1. CASE \E c : Rejected(c)
  BY <1>1, RejectedStep, ClientStep DEF PastTls
<1>2. CASE DOMAIN client' = DOMAIN client /\ SendsNothing
  BY <1>0, <1>2, SilentStep, ClientStep DEF IInv, Shape
<1> QED BY <1>1, <1>2 DEF connection_complete, Goes

LEMMA ReplyStep ==
  ASSUME IInv, Reply PROVE IInv'
<1> DEFINE r == Head(down)
<1>0. client.at \in Awaiting /\ UNCHANGED <<want, sock>>
  BY DEF Reply
<1>1. CASE client.at = "beginAck"
  BY <1>0, <1>1, NegotiateStep DEF Reply
<1>2. CASE client.at = "dbAck"
  BY <1>0, <1>2, DatabaseStep DEF Reply
<1>3. CASE client.at = "secAck"
  BY <1>0, <1>3, SecureSessionStep DEF Reply
<1>4. CASE client.at = "tlsAck"
  BY <1>0, <1>4, TlsAckStep DEF Reply
<1>5. CASE client.at = "optionAck"
  BY <1>0, <1>5, OptionAckStep DEF Reply
<1>6. CASE client.at = "auth"
  BY <1>0, <1>6, AuthenticateStep DEF Reply
<1>7. CASE client.at = "complete"
  BY <1>0, <1>7, CompleteStep DEF Reply
<1> QED BY <1>0, <1>1, <1>2, <1>3, <1>4, <1>5, <1>6, <1>7 DEF Awaiting

-----------------------------------------------------------------------------
(* The other steps *)

\* A step that sends no secret, leaves the client outside the options or where it was,
\* and the socket inside TLS if it was.
LEMMA OtherStep ==
  ASSUME IInv, UNCHANGED <<want, exposed>>,
         DOMAIN client' = DOMAIN client, DOMAIN sock' = DOMAIN sock,
         client'.at \in PastTls => client'.at = client.at, sock'.tls = sock.tls
  PROVE  IInv'
BY DEF IInv, Shape, SecretsInTls, Required

LEMMA BeginStep ==
  ASSUME IInv, Begin PROVE IInv'
<1>1. Goes([client EXCEPT !.at = "beginAck"]) /\ SendFrame("begin", client.version)
      /\ UNCHANGED <<want, sock>>
  BY DEF Begin
<1> QED BY <1>1, SafeFrame, PlainFrames, ClientStep DEF Goes, IInv, Shape, SecretsInTls, PastTls

\* The one step that takes the socket into TLS
LEMMA WrapStep ==
  ASSUME IInv, Wrap PROVE IInv'
<1>1. CASE /\ Goes([client EXCEPT !.at = "tlsAck", !.secured = TRUE]) /\ SendsNothing
           /\ sock' = [sock EXCEPT !.tls = TRUE, !.held = TRUE]
  <2>1. Shape' /\ sock'.tls
    BY <1>1 DEF Goes, IInv, Shape
  <2>2. Required' => ~exposed'
    BY <1>1, SilentStep DEF Wrap, IInv, SecretsInTls, Required
  <2> QED BY <2>1, <2>2 DEF IInv, SecretsInTls
<1>2. CASE Rejected(TRUE) /\ sock' = [sock EXCEPT !.open = FALSE, !.held = TRUE]
  BY <1>2, OtherStep DEF Wrap, Rejected, SendsNothing, IInv, Shape, PastTls
<1> QED BY <1>1, <1>2 DEF Wrap

LEMMA WorkerStep ==
  ASSUME IInv, Worker PROVE IInv'
<1>1. CASE Begin BY <1>1, BeginStep
<1>2. CASE Reply BY <1>2, ReplyStep
<1>3. CASE Detach BY <1>3, OtherStep DEF Detach, IInv, Shape
<1>4. CASE Wrap BY <1>4, WrapStep
<1>5. CASE NoReply
  BY <1>5, OtherStep DEF NoReply, Rejected, SendsNothing, IInv, Shape, PastTls
<1>6. CASE Orphaned BY <1>6, OtherStep DEF Orphaned, IInv, Shape
<1> QED BY <1>1, <1>2, <1>3, <1>4, <1>5, <1>6 DEF Worker

LEMMA TaskStep ==
  ASSUME IInv, Task \/ Cancel PROVE IInv'
<1>1. CASE HandshakeFails BY <1>1, OtherStep DEF HandshakeFails, IInv, Shape
<1>2. CASE Established BY <1>2, OtherStep DEF Established, IInv, Shape, PastTls
<1>3. CASE Ask BY <1>3, OtherStep DEF Ask
<1>4. CASE Answer BY <1>4, OtherStep DEF Answer, Closed, IInv, Shape
<1>5. CASE SetupEof BY <1>5, OtherStep DEF SetupEof, IInv, Shape
<1>6. CASE SetupDone BY <1>6, OtherStep DEF SetupDone
<1>7. CASE OnConnect BY <1>7, OtherStep DEF OnConnect, Closed, IInv, Shape
<1>8. CASE Cancel BY <1>8, OtherStep DEF Cancel, Closed, IInv, Shape
<1> QED BY <1>1, <1>2, <1>3, <1>4, <1>5, <1>6, <1>7, <1>8 DEF Task

\* The server cannot make the client say anything but through a reply.
LEMMA ServerStep ==
  ASSUME IInv, ServerTake \/ ServerSays \/ ServerStops PROVE IInv'
<1>1. UNCHANGED <<want, client, sock, exposed>>
  BY DEF ServerTake, ServerSays, ServerStops
<1> QED BY <1>1, OtherStep

-----------------------------------------------------------------------------

LEMMA Initially == ASSUME Init PROVE IInv
BY DEF Init, IInv, Shape, SecretsInTls, PastTls

LEMMA Inductive ==
  ASSUME IInv, [Next]_vars PROVE IInv'
<1>1. CASE Worker BY <1>1, WorkerStep
<1>2. CASE ServerTake \/ ServerSays \/ ServerStops BY <1>2, ServerStep
<1>3. CASE Task \/ Cancel BY <1>3, TaskStep
<1>4. CASE UNCHANGED vars BY <1>4, OtherStep DEF vars
<1> QED BY <1>1, <1>2, <1>3, <1>4 DEF Next

\* With TLS required no user name, option or password leaves in the clear, whatever
\* the server answers, however long it talks, and whenever connect() is cancelled.
THEOREM SecretsStayInTls == Spec => []NoSecretInClear
<1>1. IInv => NoSecretInClear
  BY DEF IInv, SecretsInTls, Required, NoSecretInClear
<1> QED BY <1>1, Initially, Inductive, PTL DEF Spec

-----------------------------------------------------------------------------
(* Client and server in step.                                                  *)
(*                                                                             *)
(* Trouble: one of the two has given up.  It stays, and it has a cause unless  *)
(* the task was cancelled.  Without trouble the handshake is in one of a few   *)
(* joint states, each with at most one frame or reply on its way, until the    *)
(* server announces itself.                                                    *)

Trouble == client.at = "failed" \/ srv.at \in {"gone", "silent"} \/ GivenUp

Options == {"user", "appname", "os", "host", "osuser", "protocol", "pid", "options", "type",
            "varlena", "done"}

Records ==
  /\ client \in [at : Awaiting \cup {"begin", "wrap", "done", "failed", "over"}, version : 2..6,
                 level : 0..3, secured : BOOLEAN, todo : Seq(Options), key : BOOLEAN]
  /\ sock \in [open : BOOLEAN, tls : BOOLEAN, held : BOOLEAN]
  /\ srv \in [at : {"begin", "db", "negotiate", "shake", "options", "auth", "complete", "ready",
                    "gone", "silent"},
              version : 0..6, tls : BOOLEAN, todo : Seq(Options), key : BOOLEAN, said : Nat]

Quiet == up = <<>> /\ down = <<>>
Sent(f) == up = <<f>> /\ down = <<>>
Got(r) == up = <<>> /\ down = <<r>>
Both(c, s) == client.at = c /\ srv.at = s

\* What is left of an option plan: "done" comes last and only there.
Plan(q) == q \in Seq(Options) /\ q # <<>> /\ \A i \in DOMAIN q : q[i] = "done" <=> i = Len(q)

WholePlan == srv.todo = option_plan(client.version, want.options)

Negotiating ==
  \/ Both("begin", "begin") /\ Quiet
  \/ Both("beginAck", "begin") /\ Sent(Msg("begin", client.version))
  \/ Both("beginAck", "begin") /\ \E v \in 1..6 : Got(Msg("M", v))
  \/ Both("beginAck", "db") /\ Got(M("N"))
  \/ Both("dbAck", "db") /\ Sent(M("db"))
  \/ Both("dbAck", "negotiate") /\ Got(M("N"))
  \/ Both("secAck", "negotiate") /\ Sent(Msg("negotiate", client.level))
  \/ Both("secAck", "negotiate") /\ Got(M("S"))
  \/ Both("wrap", "negotiate") /\ Sent(Msg("connect", client.level))
  \/ Both("wrap", "shake") /\ Quiet

Optioning ==
  \/ client.at \in {"secAck", "tlsAck"} /\ srv.at = "options" /\ Got(M("N")) /\ WholePlan
  \/ /\ Both("optionAck", "options") /\ Sent(M(Head(srv.todo)))
     /\ Plan(srv.todo) /\ Head(srv.todo) # "done" /\ client.todo = Tail(srv.todo)
  \/ Both("optionAck", "options") /\ Got(M("N")) /\ Plan(srv.todo) /\ client.todo = srv.todo
  \/ Both("auth", "options") /\ Sent(M("done")) /\ srv.todo = <<"done">>

Chatter == {M("nul"), M("notice"), M("param"), M("skip"), Msg("R", 0), M("key")}

\* The messages up to ReadyForQuery, which the server may have said already
Announced ==
  /\ down \in Seq(Chatter \cup {M("Z")})
  /\ \A i \in DOMAIN down : down[i] = M("Z") <=> srv.at = "ready" /\ i = Len(down)
  /\ srv.at = "ready" => down # <<>>

Authenticating ==
  \/ Both("auth", "auth") /\ \E method \in {3, 5, 6} : Got(Msg("R", method))
  \/ Both("complete", "auth") /\ \E method \in {3, 5, 6} : Sent(Msg("password", method))
  \/ /\ client.at = "auth" /\ srv.at \in {"complete", "ready"} /\ up = <<>>
     /\ Announced /\ down # <<>> /\ Head(down) = Msg("R", 0)
  \/ client.at = "complete" /\ srv.at \in {"complete", "ready"} /\ up = <<>> /\ Announced
  \/ Both("done", "ready") /\ Quiet

\* The setup statements; an error the server reports is a cause.
SettingUp ==
  /\ Both("over", "ready") /\ setups \in Nat
  /\ \/ task = "setup" /\ IF setups = 0 THEN Quiet ELSE Got(M("tail"))
     \/ task = "asked" /\ Sent(M("set"))
     \/ task = "asked" /\ up = <<>> /\ down = <<M("C"), M("Z"), M("tail")>>
     \/ task = "asked" /\ up = <<>> /\ down = <<M("Z"), M("tail")>>
     \/ task = "asked" /\ up = <<>> /\ down = <<M("E"), M("Z"), M("tail")>> /\ cause
     \/ task = "erred" /\ up = <<>> /\ down = <<M("Z"), M("tail")>> /\ cause
     \/ task \in {"callback", "connected"} /\ Quiet

InStep ==
  /\ Records /\ sock.open
  /\ sock.tls = srv.tls /\ client.secured = srv.tls
  /\ srv.at # "begin" => srv.version = client.version
  /\ srv.key <=> client.key \/ \E i \in DOMAIN down : down[i].m = "key"
  /\ \/ task = "handshake" /\ (Negotiating \/ Optioning \/ Authenticating)
     \/ SettingUp

StepInv ==
  /\ "at" \in DOMAIN client /\ "at" \in DOMAIN srv
  /\ Trouble => cause \/ task = "cancelled"
  /\ Trouble \/ InStep

-----------------------------------------------------------------------------
(* One frame or reply on its way *)

HasKey(d) == \E i \in DOMAIN d : d[i].m = "key"

LEMMA Single ==
  ASSUME NEW r
  PROVE /\ Head(<<r>>) = r /\ Tail(<<r>>) = <<>> /\ <<r>> # <<>>
        /\ Append(<<>>, r) = <<r>> /\ <<>> \o <<r>> = <<r>>
OBVIOUS

LEMMA NothingIsKey ==
  ~HasKey(<<>>) /\ \A r : r.m # "key" => ~HasKey(<<r>>)
BY DEF HasKey

\* The client reads the one reply there is and sends one frame.
LEMMA Replied ==
  ASSUME NEW r, up = <<>>, down = <<r>>, down' = Tail(down), sock.open, NEW f, NEW v, SendFrame(f, v)
  PROVE up' = <<Msg(f, v)>> /\ down' = <<>>
BY Single DEF SendFrame

\* The server takes the one frame there is.
LEMMA Taken ==
  ASSUME NEW f, up = <<f>>, up' = Tail(up) PROVE Head(up) = f /\ up' = <<>>
BY Single

\* A step that keeps the two in step
LEMMA KeepsStep ==
  ASSUME Records', sock'.open, sock'.tls = srv'.tls, client'.secured = srv'.tls,
         srv'.at # "begin" => srv'.version = client'.version,
         srv'.key <=> client'.key \/ HasKey(down'),
         \/ task' = "handshake" /\ (Negotiating \/ Optioning \/ Authenticating)'
         \/ SettingUp'
  PROVE StepInv'
<1>1. InStep'
  BY DEF InStep, HasKey
<1>2. ("at" \in DOMAIN client /\ "at" \in DOMAIN srv)'
  BY DEF Records
<1>3. ~Trouble'
  BY DEF Trouble, GivenUp, Negotiating, Optioning, Authenticating, SettingUp, Both
<1>. QED
  BY <1>1, <1>2, <1>3 DEF StepInv

\* The cancellation key is not among the messages yet, and not after the step.
LEMMA KeepsKey ==
  ASSUME InStep, Records', ~HasKey(down), ~HasKey(down'), client'.key = client.key, srv'.key = srv.key
  PROVE srv'.key <=> client'.key \/ HasKey(down')
BY DEF InStep, Records, HasKey

\* A step into trouble
LEMMA IntoTrouble ==
  ASSUME "at" \in DOMAIN client', "at" \in DOMAIN srv', Trouble', cause' \/ task' = "cancelled"
  PROVE StepInv'
BY DEF StepInv

LEMMA RejectedIn ==
  ASSUME InStep, NEW c, Rejected(c), c \/ cause, srv' = srv PROVE StepInv'
<1>1. "at" \in DOMAIN client' /\ client'.at = "failed" /\ "at" \in DOMAIN srv' /\ cause'
  BY DEF InStep, Records, Rejected
<1>. QED
  BY <1>1, IntoTrouble DEF Trouble

\* A reply is what the phase says.
LEMMA InHandshake ==
  ASSUME InStep, ~Trouble, client.at # "over"
  PROVE task = "handshake" /\ (Negotiating \/ Optioning \/ Authenticating)
BY DEF InStep, SettingUp, Both

-----------------------------------------------------------------------------
(* The client's replies *)

LEMMA BeginIn ==
  ASSUME InStep, ~Trouble, Begin PROVE StepInv'
<1>1. Negotiating /\ task = "handshake" /\ client.at = "begin"
  BY InHandshake DEF Begin, Optioning, Authenticating, Both
<1>2. srv.at = "begin" /\ up = <<>> /\ down = <<>>
  BY <1>1 DEF Negotiating, Both, Quiet
<1>3. client' = [client EXCEPT !.at = "beginAck"] /\ SendFrame("begin", client.version)
      /\ UNCHANGED <<sock, down, srv, task>>
  BY DEF Begin, Goes
<1>4. up' = <<Msg("begin", client.version)>>
  BY <1>2, <1>3, Single DEF SendFrame, InStep
<1>5. Records' /\ client'.at = "beginAck" /\ client'.version = client.version
      /\ client'.key = client.key /\ client'.secured = client.secured
  BY <1>3 DEF InStep, Records, Awaiting
<1>6. Negotiating'
  BY <1>2, <1>3, <1>4, <1>5 DEF Negotiating, Both, Sent
<1>7. ~HasKey(down) /\ ~HasKey(down')
  BY <1>2, <1>3, NothingIsKey
<1>. QED
  BY <1>1, <1>2, <1>3, <1>5, <1>6, <1>7, KeepsKey, KeepsStep DEF InStep

LEMMA NegotiateIn ==
  ASSUME InStep, ~Trouble, Reply, client.at = "beginAck" PROVE StepInv'
<1>1. task = "handshake" /\ Negotiating
  BY InHandshake DEF Optioning, Authenticating, Both
<1>2. /\ UNCHANGED <<want, sock, srv, task>> /\ down' = Tail(down) /\ negotiate(Head(down))
      /\ down # <<>>
  BY DEF Reply
<1>3. /\ up = <<>>
      /\ \/ srv.at = "begin" /\ \E v \in 1..6 : down = <<Msg("M", v)>>
         \/ srv.at = "db" /\ down = <<M("N")>>
  BY <1>1, <1>2 DEF Negotiating, Both, Sent, Got, Quiet
<1>4. CASE srv.at = "db" /\ down = <<M("N")>>
  <2>1. Head(down) = M("N") /\ M("N").m = "N"
    BY <1>4, Single DEF M, Msg
  <2>2. client' = [client EXCEPT !.at = "dbAck"] /\ SendFrame("db", 0)
    BY <1>2, <2>1 DEF negotiate, Goes
  <2>3. up' = <<M("db")>> /\ down' = <<>>
    BY <1>2, <1>3, <1>4, <2>2, Replied DEF InStep, M
  <2>4. Records' /\ client'.at = "dbAck" /\ client'.version = client.version
        /\ client'.key = client.key /\ client'.secured = client.secured
    BY <1>2, <2>2 DEF InStep, Records, Awaiting
  <2>5. Negotiating'
    BY <1>2, <1>4, <2>3, <2>4 DEF Negotiating, Both, Sent
  <2>6. ~HasKey(down) /\ ~HasKey(down')
    BY <1>4, <2>1, <2>3, NothingIsKey
  <2>. QED
    BY <1>1, <1>2, <2>4, <2>5, <2>6, KeepsKey, KeepsStep DEF InStep
<1>5. ASSUME srv.at = "begin", NEW v \in 1..6, down = <<Msg("M", v)>> PROVE StepInv'
  <2>1. Head(down).m = "M" /\ Head(down).v = v
    BY <1>5, Single DEF Msg
  <2>2. CASE Rejected(TRUE)
    BY <1>2, <2>2, RejectedIn
  <2>3. CASE /\ v \in 2..5 /\ client' = [client EXCEPT !.version = v] /\ SendFrame("begin", v)
    <3>1. up' = <<Msg("begin", v)>> /\ down' = <<>>
      BY <1>2, <1>3, <1>5, <2>3, Replied DEF InStep
    <3>0. v \in 2..6
      BY <2>3
    <3>2. Records' /\ client'.at = "beginAck" /\ client'.version = v
          /\ client'.key = client.key /\ client'.secured = client.secured
      BY <1>2, <2>3, <3>0 DEF InStep, Records, Awaiting
    <3>3. Negotiating'
      BY <1>2, <1>5, <3>1, <3>2 DEF Negotiating, Both, Sent
    <3>4. ~HasKey(down) /\ ~HasKey(down')
      BY <1>5, <2>1, <3>1, NothingIsKey, Single
    <3>. QED
      BY <1>1, <1>2, <1>5, <3>2, <3>3, <3>4, KeepsKey, KeepsStep DEF InStep
  <2>. QED
    BY <1>2, <2>1, <2>2, <2>3 DEF negotiate, Goes, validate_version_downgrade
<1>. QED
  BY <1>3, <1>4, <1>5

LEMMA DatabaseIn ==
  ASSUME InStep, ~Trouble, Reply, client.at = "dbAck" PROVE StepInv'
<1>1. task = "handshake" /\ Negotiating
  BY InHandshake DEF Optioning, Authenticating, Both
<1>2. /\ UNCHANGED <<want, sock, srv, task>> /\ down' = Tail(down) /\ database(Head(down))
      /\ down # <<>>
  BY DEF Reply
<1>3. up = <<>> /\ srv.at = "negotiate" /\ down = <<M("N")>>
  BY <1>1, <1>2 DEF Negotiating, Both, Sent, Got, Quiet
<1>4. Head(down) = M("N") /\ M("N").m = "N"
  BY <1>3, Single DEF M, Msg
<1>5. client' = [client EXCEPT !.at = "secAck"] /\ SendFrame("negotiate", client.level)
  BY <1>2, <1>4 DEF database, Goes
<1>6. up' = <<Msg("negotiate", client.level)>> /\ down' = <<>>
  BY <1>2, <1>3, <1>5, Replied DEF InStep
<1>7. Records' /\ client'.at = "secAck" /\ client'.version = client.version
      /\ client'.key = client.key /\ client'.secured = client.secured /\ client'.level = client.level
  BY <1>2, <1>5 DEF InStep, Records, Awaiting
<1>8. Negotiating'
  BY <1>2, <1>3, <1>6, <1>7 DEF Negotiating, Both, Sent
<1>9. ~HasKey(down) /\ ~HasKey(down')
  BY <1>3, <1>4, <1>6, NothingIsKey
<1>. QED
  BY <1>1, <1>2, <1>7, <1>8, <1>9, KeepsKey, KeepsStep DEF InStep

-----------------------------------------------------------------------------
(* Option plans *)

NotLast == Options \ {"done"}

LEMMA PlanConcat ==
  ASSUME NEW p \in Seq(NotLast), NEW q, Plan(q) PROVE Plan(p \o q)
<1>1. p \in Seq(Options) /\ q \in Seq(Options) /\ Len(p) \in Nat /\ Len(q) \in Nat /\ Len(q) > 0
  BY DEF NotLast, Plan
<1>2. /\ p \o q \in Seq(Options) /\ Len(p \o q) = Len(p) + Len(q)
      /\ DOMAIN (p \o q) = 1 .. Len(p) + Len(q)
  BY <1>1
<1>3. \A i \in 1 .. Len(p) : (p \o q)[i] = p[i] /\ p[i] # "done"
  BY <1>1 DEF NotLast
<1>4. \A i \in 1 .. Len(p) + Len(q) : i > Len(p) => (p \o q)[i] = q[i - Len(p)] /\ i - Len(p) \in DOMAIN q
  BY <1>1
<1>5. \A i \in DOMAIN (p \o q) : (p \o q)[i] = "done" <=> i = Len(p) + Len(q)
  <2>. SUFFICES ASSUME NEW i \in DOMAIN (p \o q)
                PROVE (p \o q)[i] = "done" <=> i = Len(p) + Len(q)
    OBVIOUS
  <2>1. CASE i <= Len(p)
    BY <1>1, <1>2, <1>3, <2>1
  <2>2. CASE i > Len(p)
    BY <1>1, <1>2, <1>4, <2>2 DEF Plan
  <2>. QED
    BY <1>1, <1>2, <2>1, <2>2
<1>6. p \o q # <<>>
  BY <1>1, <1>2
<1>. QED
  BY <1>2, <1>5, <1>6 DEF Plan

LEMMA ConcatHead ==
  ASSUME NEW S, NEW s \in Seq(S), NEW t \in Seq(S), Len(s) > 0
  PROVE (s \o t)[1] = s[1] /\ Len(s \o t) > 0
<1>1. Len(s) \in Nat /\ Len(t) \in Nat /\ Len(s \o t) = Len(s) + Len(t) /\ 1 \in 1 .. Len(s)
  OBVIOUS
<1>. QED
  BY <1>1

\* The option frames in wire order begin with the user name and end with "done".
LEMMA WholePlanIsPlan ==
  ASSUME NEW version, NEW options
  PROVE /\ Plan(option_plan(version, options))
        /\ Head(option_plan(version, options)) # "done"
<1>. DEFINE a == <<"user">>
            b == IF version \in {4, 6} THEN <<"appname", "os", "host", "osuser">> ELSE <<>>
            c == <<"protocol", "pid">>
            d == IF options THEN <<"options">> ELSE <<>>
            e == <<"type">>
            f == IF version >= 5 THEN <<"varlena">> ELSE <<>>
            p == a \o b \o c \o d \o e \o f
<1>1. /\ a \in Seq(NotLast) /\ b \in Seq(NotLast) /\ c \in Seq(NotLast) /\ d \in Seq(NotLast)
      /\ e \in Seq(NotLast) /\ f \in Seq(NotLast)
  <2>0. {"user", "appname", "os", "host", "osuser", "protocol", "pid", "options", "type", "varlena"}
          \subseteq NotLast
    BY DEF NotLast, Options
  <2>1. a \in Seq(NotLast)
    BY <2>0
  <2>2. b \in Seq(NotLast)
    <3>1. <<"appname", "os", "host", "osuser">> \in Seq(NotLast) /\ <<>> \in Seq(NotLast)
      BY <2>0
    <3>. QED
      BY <3>1
  <2>3. c \in Seq(NotLast)
    BY <2>0
  <2>4. d \in Seq(NotLast)
    BY <2>0
  <2>5. e \in Seq(NotLast)
    BY <2>0
  <2>6. f \in Seq(NotLast)
    BY <2>0
  <2>. QED
    BY <2>1, <2>2, <2>3, <2>4, <2>5, <2>6
<1>2. a[1] = "user" /\ Len(a) = 1
  OBVIOUS
<1>3. option_plan(version, options) = p \o <<"done">>
  BY DEF option_plan
<1>4. Plan(<<"done">>)
  BY DEF Plan, Options
<1>. HIDE DEF a, b, c, d, e, f
<1>5. /\ a \o b \in Seq(NotLast) /\ a \o b \o c \in Seq(NotLast) /\ a \o b \o c \o d \in Seq(NotLast)
      /\ a \o b \o c \o d \o e \in Seq(NotLast) /\ p \in Seq(NotLast)
  BY <1>1
<1>6. p[1] = "user" /\ Len(p) > 0
  <2>1. (a \o b)[1] = "user" /\ Len(a \o b) > 0
    <3>1. Len(a) > 0
      BY <1>2
    <3>. QED
      BY <1>1, <1>2, <3>1, ConcatHead
  <2>2. (a \o b \o c)[1] = "user" /\ Len(a \o b \o c) > 0
    BY <1>1, <1>5, <2>1, ConcatHead
  <2>3. (a \o b \o c \o d)[1] = "user" /\ Len(a \o b \o c \o d) > 0
    BY <1>1, <1>5, <2>2, ConcatHead
  <2>4. (a \o b \o c \o d \o e)[1] = "user" /\ Len(a \o b \o c \o d \o e) > 0
    BY <1>1, <1>5, <2>3, ConcatHead
  <2>. QED
    BY <1>1, <1>5, <2>4, ConcatHead
<1>. HIDE DEF p
<1>7. Head(p \o <<"done">>) = "user"
  <2>1. <<"done">> \in Seq(Options)
    BY <1>4 DEF Plan
  <2>2. p \in Seq(Options)
    BY <1>5 DEF NotLast
  <2>. QED
    BY <1>6, <2>1, <2>2
<1>. QED
  BY <1>3, <1>4, <1>5, <1>7, PlanConcat

LEMMA OneElement ==
  ASSUME NEW S, NEW q \in Seq(S), Len(q) = 1 PROVE q = <<q[1]>> /\ Tail(q) = <<>>
<1>1. DOMAIN q = 1 .. 1 /\ q = [i \in DOMAIN q |-> q[i]]
  OBVIOUS
<1>2. DOMAIN q = {1} /\ DOMAIN <<q[1]>> = {1} /\ <<q[1]>>[1] = q[1]
  BY <1>1
<1>3. \A i \in DOMAIN q : q[i] = <<q[1]>>[i]
  BY <1>2
<1>4. q = <<q[1]>>
  BY <1>1, <1>2, <1>3
<1>5. Tail(<<q[1]>>) = <<>>
  BY Single
<1>. QED
  BY <1>4, <1>5

\* Sending the head of a plan
LEMMA PlanHead ==
  ASSUME NEW q, Plan(q)
  PROVE /\ Head(q) \in Options /\ Tail(q) \in Seq(Options) /\ q \in Seq(Options)
        /\ Head(q) = "done" => q = <<"done">> /\ Tail(q) = <<>>
        /\ Head(q) # "done" => Plan(Tail(q))
<1>1. q \in Seq(Options) /\ Len(q) \in Nat /\ Len(q) > 0 /\ Head(q) = q[1] /\ 1 \in DOMAIN q
      /\ Head(q) \in Options
  BY DEF Plan
<1>2. Tail(q) \in Seq(Options) /\ Len(Tail(q)) = Len(q) - 1
      /\ \A i \in 1 .. Len(q) - 1 : Tail(q)[i] = q[i + 1]
  BY <1>1
<1>3. ASSUME Head(q) = "done" PROVE q = <<"done">> /\ Tail(q) = <<>>
  <2>1. Len(q) = 1
    BY <1>1, <1>3 DEF Plan
  <2>. QED
    BY <1>1, <1>3, <2>1, OneElement
<1>4. ASSUME Head(q) # "done" PROVE Plan(Tail(q))
  <2>1. Len(q) # 1
    BY <1>1, <1>4 DEF Plan
  <2>2. Tail(q) # <<>> /\ DOMAIN Tail(q) = 1 .. Len(q) - 1
    <3>1. Len(Tail(q)) > 0 /\ Len(Tail(q)) = Len(q) - 1
      BY <1>1, <1>2, <2>1
    <3>2. \A s \in Seq(Options) : Len(s) > 0 => s # <<>> /\ DOMAIN s = 1 .. Len(s)
      OBVIOUS
    <3>. QED
      BY <1>2, <3>1, <3>2
  <2>3. \A i \in DOMAIN Tail(q) : Tail(q)[i] = "done" <=> i + 1 = Len(q)
    BY <1>1, <1>2, <2>2 DEF Plan
  <2>4. \A i \in DOMAIN Tail(q) : Tail(q)[i] = "done" <=> i = Len(Tail(q))
    BY <1>1, <1>2, <2>2, <2>3
  <2>. QED
    BY <1>2, <2>2, <2>4 DEF Plan
<1>. QED
  BY <1>1, <1>2, <1>3, <1>4

-----------------------------------------------------------------------------
(* TLS and the options *)

LEMMA SendOptionsIn ==
  ASSUME InStep, ~Trouble, task = "handshake", srv.at = "options", up = <<>>, down = <<M("N")>>,
         WholePlan, down' = Tail(down), send_options(client), UNCHANGED <<want, sock, srv, task>>
  PROVE StepInv'
<1>. DEFINE plan == option_plan(client.version, want.options)
<1>1. Plan(plan) /\ Head(plan) # "done" /\ srv.todo = plan
  BY WholePlanIsPlan DEF WholePlan
<1>2. client' = [client EXCEPT !.at = "optionAck", !.todo = Tail(plan)] /\ SendFrame(Head(plan), 0)
  BY DEF send_options, Goes
<1>. HIDE DEF plan
<1>3. Tail(plan) \in Seq(Options)
  BY <1>1, PlanHead
<1>4. up' = <<M(Head(plan))>> /\ down' = <<>>
  BY <1>2, Replied DEF InStep, M
<1>5. Records' /\ client'.at = "optionAck" /\ client'.version = client.version
      /\ client'.key = client.key /\ client'.secured = client.secured /\ client'.todo = Tail(plan)
  BY <1>2, <1>3 DEF InStep, Records, Awaiting
<1>6. Optioning'
  BY <1>1, <1>4, <1>5 DEF Optioning, Both, Sent
<1>7. ~HasKey(down) /\ ~HasKey(down')
  BY <1>4, NothingIsKey DEF M, Msg
<1>. QED
  BY <1>5, <1>6, <1>7, KeepsKey, KeepsStep DEF InStep

LEMMA SecureSessionIn ==
  ASSUME InStep, ~Trouble, Reply, client.at = "secAck" PROVE StepInv'
<1>1. task = "handshake" /\ (Negotiating \/ Optioning)
  BY InHandshake DEF Authenticating, Both
<1>2. /\ UNCHANGED <<want, sock, srv, task>> /\ down' = Tail(down) /\ secure_session(Head(down))
      /\ down # <<>>
  BY DEF Reply
<1>3. /\ up = <<>>
      /\ \/ srv.at = "negotiate" /\ down = <<M("S")>>
         \/ srv.at = "options" /\ down = <<M("N")>> /\ WholePlan
  BY <1>1, <1>2 DEF Negotiating, Optioning, Both, Sent, Got, Quiet
<1>4. CASE Rejected(TRUE)
  BY <1>2, <1>4, RejectedIn
<1>5. CASE srv.at = "options" /\ down = <<M("N")>> /\ WholePlan /\ send_options(client)
  BY <1>1, <1>2, <1>3, <1>5, SendOptionsIn
<1>6. CASE srv.at = "negotiate" /\ down = <<M("S")>> /\
           \/ client' = [client EXCEPT !.at = "wrap"] /\ SendFrame("connect", client.level)
           \/ client' = [client EXCEPT !.level = 1] /\ SendFrame("negotiate", 1)
  <2>1. down' = <<>> /\ (up' = <<Msg("connect", client.level)>> \/ up' = <<Msg("negotiate", 1)>>)
    BY <1>2, <1>3, <1>6, Replied DEF InStep
  <2>2. Records' /\ client'.version = client.version
        /\ client'.key = client.key /\ client'.secured = client.secured
    BY <1>2, <1>6 DEF InStep, Records, Awaiting
  <2>3. \/ client'.at = "wrap" /\ client'.level = client.level /\ up' = <<Msg("connect", client.level)>>
        \/ client'.at = "secAck" /\ client'.level = 1 /\ up' = <<Msg("negotiate", 1)>>
    <3>1. CASE client' = [client EXCEPT !.at = "wrap"] /\ SendFrame("connect", client.level)
      BY <1>2, <1>3, <1>6, <3>1, Replied DEF InStep, Records
    <3>2. CASE client' = [client EXCEPT !.level = 1] /\ SendFrame("negotiate", 1)
      BY <1>2, <1>3, <1>6, <3>2, Replied DEF InStep, Records
    <3>. QED
      BY <1>6, <3>1, <3>2
  <2>4. Negotiating'
    BY <1>2, <1>6, <2>1, <2>3 DEF Negotiating, Both, Sent
  <2>5. ~HasKey(down) /\ ~HasKey(down')
    BY <1>6, <2>1, NothingIsKey DEF M, Msg
  <2>. QED
    BY <1>1, <1>2, <2>2, <2>4, <2>5, KeepsKey, KeepsStep DEF InStep
<1>7. (down = <<M("N")>> => Head(down).m = "N") /\ (down = <<M("S")>> => Head(down).m = "S")
  BY Single DEF M, Msg
<1>. QED
  BY <1>2, <1>3, <1>4, <1>5, <1>6, <1>7 DEF secure_session, Goes

LEMMA TlsAckIn ==
  ASSUME InStep, ~Trouble, Reply, client.at = "tlsAck" PROVE StepInv'
<1>1. task = "handshake" /\ Optioning
  BY InHandshake DEF Negotiating, Authenticating, Both
<1>2. /\ UNCHANGED <<want, sock, srv, task>> /\ down' = Tail(down) /\ tls_ack(Head(down))
  BY DEF Reply
<1>3. up = <<>> /\ srv.at = "options" /\ down = <<M("N")>> /\ WholePlan
  BY <1>1, <1>2 DEF Optioning, Both, Got
<1>4. Head(down).m = "N"
  BY <1>3, Single DEF M, Msg
<1>. QED
  BY <1>1, <1>2, <1>3, <1>4, SendOptionsIn DEF tls_ack

LEMMA OptionAckIn ==
  ASSUME InStep, ~Trouble, Reply, client.at = "optionAck" PROVE StepInv'
<1>1. task = "handshake" /\ Optioning
  BY InHandshake DEF Negotiating, Authenticating, Both
<1>2. /\ UNCHANGED <<want, sock, srv, task>> /\ down' = Tail(down) /\ option_ack(Head(down))
      /\ down # <<>>
  BY DEF Reply
<1>3. /\ up = <<>> /\ srv.at = "options" /\ down = <<M("N")>>
      /\ Plan(srv.todo) /\ client.todo = srv.todo
  BY <1>1, <1>2 DEF Optioning, Both, Sent, Got
<1>4. Head(down).m = "N"
  BY <1>3, Single DEF M, Msg
<1>. DEFINE q == srv.todo
            where == IF Head(q) = "done" THEN "auth" ELSE "optionAck"
<1>5. client' = [client EXCEPT !.todo = Tail(q), !.at = where] /\ SendFrame(Head(q), 0)
  BY <1>2, <1>3, <1>4 DEF option_ack, Goes, InStep, Records
<1>6. /\ Head(q) \in Options /\ Tail(q) \in Seq(Options)
      /\ Head(q) = "done" => q = <<"done">>
  BY <1>3, PlanHead
<1>7. up' = <<M(Head(q))>> /\ down' = <<>>
  BY <1>2, <1>3, <1>5, Replied DEF InStep, M
<1>8. Records' /\ client'.at = where /\ client'.version = client.version
      /\ client'.key = client.key /\ client'.secured = client.secured /\ client'.todo = Tail(q)
  BY <1>2, <1>5, <1>6 DEF InStep, Records, Awaiting
<1>9. Optioning'
  <2>1. srv' = srv
    BY <1>2
  <2>. QED
    BY <1>3, <1>6, <1>7, <1>8, <2>1 DEF Optioning, Both, Sent
<1>10. ~HasKey(down) /\ ~HasKey(down')
  BY <1>3, <1>7, NothingIsKey DEF M, Msg
<1>. QED
  BY <1>1, <1>2, <1>8, <1>9, <1>10, KeepsKey, KeepsStep DEF InStep

-----------------------------------------------------------------------------
(* Authentication and what the server announces *)

LEMMA HasKeyTail ==
  ASSUME NEW S, NEW d \in Seq(S), d # <<>>
  PROVE /\ HasKey(d) <=> Head(d).m = "key" \/ HasKey(Tail(d))
        /\ Head(d) = d[1] /\ 1 \in DOMAIN d /\ Tail(d) \in Seq(S)
        /\ \A i \in DOMAIN Tail(d) : i + 1 \in DOMAIN d /\ Tail(d)[i] = d[i + 1]
        /\ Len(Tail(d)) = Len(d) - 1 /\ Len(d) \in Nat \ {0}
        /\ DOMAIN Tail(d) = 1 .. Len(d) - 1
<1>1. Len(d) \in Nat \ {0} /\ DOMAIN d = 1 .. Len(d) /\ Head(d) = d[1]
  OBVIOUS
<1>2. /\ Tail(d) \in Seq(S) /\ Len(Tail(d)) = Len(d) - 1
      /\ \A i \in 1 .. Len(d) - 1 : Tail(d)[i] = d[i + 1]
  BY <1>1
<1>3. DOMAIN Tail(d) = 1 .. Len(d) - 1
  BY <1>1, <1>2
<1>4. HasKey(d) => Head(d).m = "key" \/ HasKey(Tail(d))
  <2>. SUFFICES ASSUME NEW i \in DOMAIN d, d[i].m = "key", i # 1 PROVE HasKey(Tail(d))
    BY <1>1 DEF HasKey
  <2>1. i - 1 \in DOMAIN Tail(d) /\ Tail(d)[i - 1] = d[i]
    BY <1>1, <1>2, <1>3
  <2>. QED
    BY <2>1 DEF HasKey
<1>5. Head(d).m = "key" \/ HasKey(Tail(d)) => HasKey(d)
  BY <1>1, <1>2, <1>3 DEF HasKey
<1>. QED
  BY <1>1, <1>2, <1>3, <1>4, <1>5

LEMMA HasKeyAppend ==
  ASSUME NEW S, NEW d \in Seq(S), NEW x \in S
  PROVE /\ HasKey(d \o <<x>>) <=> HasKey(d) \/ x.m = "key"
        /\ d \o <<x>> \in Seq(S) /\ Len(d \o <<x>>) = Len(d) + 1 /\ Len(d) \in Nat
        /\ DOMAIN (d \o <<x>>) = 1 .. Len(d) + 1 /\ DOMAIN d = 1 .. Len(d)
        /\ \A i \in DOMAIN d : (d \o <<x>>)[i] = d[i]
        /\ (d \o <<x>>)[Len(d) + 1] = x
<1>1. Len(d) \in Nat /\ DOMAIN d = 1 .. Len(d) /\ <<x>> \in Seq(S) /\ Len(<<x>>) = 1
  OBVIOUS
<1>2. d \o <<x>> \in Seq(S) /\ Len(d \o <<x>>) = Len(d) + 1
  BY <1>1
<1>3. DOMAIN (d \o <<x>>) = 1 .. Len(d) + 1
  BY <1>1, <1>2
<1>4. /\ \A i \in DOMAIN d : (d \o <<x>>)[i] = d[i]
      /\ (d \o <<x>>)[Len(d) + 1] = x
  BY <1>1
<1>5. HasKey(d \o <<x>>) <=> HasKey(d) \/ x.m = "key"
  BY <1>1, <1>3, <1>4 DEF HasKey
<1>. QED
  BY <1>1, <1>2, <1>3, <1>4, <1>5

\* The client reads the head of what was announced.
LEMMA AnnouncedTail ==
  ASSUME Announced, down # <<>>, down' = Tail(down), srv' = srv
  PROVE /\ Head(down) \in Chatter \cup {M("Z")}
        /\ Head(down) = M("Z") => srv.at = "ready" /\ down' = <<>>
        /\ Head(down) # M("Z") => Announced'
<1>. DEFINE S == Chatter \cup {M("Z")}
<1>1. down \in Seq(S)
  BY DEF Announced
<1>. HIDE DEF S
<1>2. /\ Head(down) = down[1] /\ 1 \in DOMAIN down /\ Tail(down) \in Seq(S)
      /\ \A i \in DOMAIN Tail(down) : i + 1 \in DOMAIN down /\ Tail(down)[i] = down[i + 1]
      /\ Len(Tail(down)) = Len(down) - 1 /\ Len(down) \in Nat \ {0}
      /\ DOMAIN Tail(down) = 1 .. Len(down) - 1
  BY <1>1, HasKeyTail
<1>3. Head(down) \in S
  BY <1>1, <1>2
<1>4. ASSUME Head(down) = M("Z") PROVE srv.at = "ready" /\ down' = <<>>
  <2>1. srv.at = "ready" /\ Len(down) = 1
    BY <1>2, <1>4 DEF Announced
  <2>. QED
    BY <1>1, <2>1, OneElement
<1>5. ASSUME Head(down) # M("Z") PROVE Announced'
  <2>1. srv.at = "ready" => Len(down) # 1
    BY <1>2, <1>5 DEF Announced
  <2>2. \A i \in DOMAIN Tail(down) : Tail(down)[i] = M("Z") <=> srv.at = "ready" /\ i = Len(Tail(down))
    BY <1>2 DEF Announced
  <2>3. srv.at = "ready" => Tail(down) # <<>>
    <3>1. srv.at = "ready" => Len(Tail(down)) # 0
      BY <1>2, <2>1
    <3>. QED
      BY <3>1
  <2>. QED
    BY <1>2, <2>2, <2>3 DEF Announced, S
<1>. QED
  BY <1>3, <1>4, <1>5 DEF S

\* The arms of the two replies
LEMMA AuthenticateArms ==
  ASSUME NEW r, authenticate(r), r.m = "R"
  PROVE /\ r.v = 0 => Goes([client EXCEPT !.at = "complete"]) /\ SendsNothing
        /\ r.v \in {3, 5, 6} =>
             \/ Goes([client EXCEPT !.at = "complete"]) /\ SendFrame("password", r.v)
             \/ Rejected(TRUE)
<1>1. r.v = 0 => Goes([client EXCEPT !.at = "complete"]) /\ SendsNothing
  BY DEF authenticate
<1>2. r.v \in {3, 5, 6} => r.v # 0
  OBVIOUS
<1>3. CASE want.password
  BY <1>1, <1>2, <1>3 DEF authenticate
<1>4. CASE ~want.password
  BY <1>1, <1>2, <1>4 DEF authenticate
<1>. QED
  BY <1>3, <1>4

LEMMA CompleteArms ==
  ASSUME NEW r, connection_complete(r)
  PROVE /\ r.m \in {"nul", "notice", "param", "skip"} \/ (r.m = "R" /\ r.v = 0)
             => client' = client /\ SendsNothing
        /\ r.m = "key" => client' = [client EXCEPT !.key = TRUE] /\ SendsNothing
        /\ r.m = "Z" => client' = [client EXCEPT !.at = "done"] /\ SendsNothing
BY DEF connection_complete, Goes

LEMMA AuthenticateIn ==
  ASSUME InStep, ~Trouble, Reply, client.at = "auth" PROVE StepInv'
<1>1. task = "handshake" /\ (Optioning \/ Authenticating)
  BY InHandshake DEF Negotiating, Both
<1>2. /\ UNCHANGED <<want, sock, srv, task>> /\ down' = Tail(down) /\ authenticate(Head(down))
      /\ down # <<>>
  BY DEF Reply
<1>3. /\ up = <<>>
      /\ \/ srv.at = "auth" /\ \E method \in {3, 5, 6} : down = <<Msg("R", method)>>
         \/ srv.at \in {"complete", "ready"} /\ Announced /\ Head(down) = Msg("R", 0)
  BY <1>1, <1>2 DEF Optioning, Authenticating, Both, Sent, Got
<1>4. CASE Rejected(TRUE)
  BY <1>2, <1>4, RejectedIn
<1>5. ASSUME srv.at = "auth", NEW method \in {3, 5, 6}, down = <<Msg("R", method)>> PROVE StepInv'
  <2>1. Head(down).m = "R" /\ Head(down).v = method
    BY <1>5, Single DEF Msg
  <2>2. CASE client' = [client EXCEPT !.at = "complete"] /\ SendFrame("password", method)
    <3>1. up' = <<Msg("password", method)>> /\ down' = <<>>
      BY <1>2, <1>3, <1>5, <2>2, Replied DEF InStep
    <3>2. Records' /\ client'.at = "complete" /\ client'.version = client.version
          /\ client'.key = client.key /\ client'.secured = client.secured
      BY <1>2, <2>2 DEF InStep, Records, Awaiting
    <3>3. Authenticating'
      BY <1>2, <1>5, <3>1, <3>2 DEF Authenticating, Both, Sent
    <3>4. ~HasKey(down) /\ ~HasKey(down')
      BY <1>5, <2>1, <3>1, NothingIsKey, Single
    <3>. QED
      BY <1>1, <1>2, <3>2, <3>3, <3>4, KeepsKey, KeepsStep DEF InStep
  <2>. QED
    BY <1>2, <1>4, <2>1, <2>2, AuthenticateArms DEF Goes
<1>6. CASE srv.at \in {"complete", "ready"} /\ Announced /\ Head(down) = Msg("R", 0)
  <2>1. Head(down).m = "R" /\ Head(down).v = 0 /\ Head(down) # M("Z")
    BY <1>6 DEF Msg, M
  <2>2. client' = [client EXCEPT !.at = "complete"] /\ up' = up
    BY <1>2, <2>1, AuthenticateArms DEF Goes, SendsNothing
  <2>3. Announced'
    BY <1>2, <1>6, <2>1, AnnouncedTail
  <2>4. Records' /\ client'.at = "complete" /\ client'.version = client.version
        /\ client'.key = client.key /\ client'.secured = client.secured
    BY <1>2, <2>2 DEF InStep, Records, Awaiting
  <2>5. Authenticating'
    BY <1>2, <1>3, <1>6, <2>2, <2>3, <2>4 DEF Authenticating
  <2>6. HasKey(down') <=> HasKey(down)
    BY <1>2, <1>6, <2>1, HasKeyTail DEF Announced
  <2>. QED
    BY <1>1, <1>2, <2>4, <2>5, <2>6, KeepsStep DEF InStep, HasKey
<1>. QED
  BY <1>3, <1>5, <1>6

LEMMA CompleteIn ==
  ASSUME InStep, ~Trouble, Reply, client.at = "complete" PROVE StepInv'
<1>1. task = "handshake" /\ Authenticating
  BY InHandshake DEF Negotiating, Optioning, Both
<1>2. /\ UNCHANGED <<want, sock, srv, task>> /\ down' = Tail(down) /\ connection_complete(Head(down))
      /\ down # <<>>
  BY DEF Reply
<1>3. up = <<>> /\ srv.at \in {"complete", "ready"} /\ Announced
  BY <1>1, <1>2 DEF Authenticating, Both, Sent
<1>4. /\ Head(down) \in Chatter \cup {M("Z")}
      /\ Head(down) = M("Z") => srv.at = "ready" /\ down' = <<>>
      /\ Head(down) # M("Z") => Announced'
  BY <1>2, <1>3, AnnouncedTail
<1>5. HasKey(down) <=> Head(down).m = "key" \/ HasKey(down')
  BY <1>2, <1>3, HasKeyTail DEF Announced
<1>6. srv.key <=> client.key \/ HasKey(down)
  BY DEF InStep, HasKey
<1>7. CASE Head(down) = M("Z")
  <2>1. Head(down).m = "Z"
    BY <1>7 DEF M, Msg
  <2>2. client' = [client EXCEPT !.at = "done"] /\ up' = up
    BY <1>2, <2>1, CompleteArms DEF SendsNothing
  <2>3. Records' /\ client'.at = "done" /\ client'.version = client.version
        /\ client'.key = client.key /\ client'.secured = client.secured
    BY <1>2, <2>2 DEF InStep, Records, Awaiting
  <2>4. Authenticating'
    BY <1>2, <1>3, <1>4, <1>7, <2>2, <2>3 DEF Authenticating, Both, Quiet
  <2>5. srv'.key <=> client'.key \/ HasKey(down')
    BY <1>2, <1>5, <1>6, <2>1, <2>3
  <2>. QED
    BY <1>1, <1>2, <2>3, <2>4, <2>5, KeepsStep DEF InStep
<1>8. CASE Head(down).m = "key"
  <2>1. client' = [client EXCEPT !.key = TRUE] /\ up' = up
    BY <1>2, <1>8, CompleteArms DEF SendsNothing
  <2>2. Records' /\ client'.at = "complete" /\ client'.version = client.version
        /\ client'.key = TRUE /\ client'.secured = client.secured
    BY <1>2, <2>1 DEF InStep, Records, Awaiting
  <2>3. Announced'
    BY <1>4, <1>8 DEF M, Msg
  <2>4. Authenticating'
    BY <1>2, <1>3, <2>1, <2>2, <2>3 DEF Authenticating
  <2>5. srv'.key <=> client'.key \/ HasKey(down')
    BY <1>2, <1>5, <1>6, <1>8, <2>2 DEF InStep, Records
  <2>. QED
    BY <1>1, <1>2, <2>2, <2>4, <2>5, KeepsStep DEF InStep
<1>9. CASE Head(down) \in Chatter /\ Head(down).m # "key"
  <2>1. client' = client /\ up' = up
    <3>1. \/ Head(down).m \in {"nul", "notice", "param", "skip"}
          \/ Head(down).m = "R" /\ Head(down).v = 0
      BY <1>9 DEF Chatter, M, Msg
    <3>. QED
      BY <1>2, <3>1, CompleteArms DEF SendsNothing
  <2>2. Announced'
    BY <1>4, <1>9 DEF Chatter, M, Msg
  <2>3. Authenticating'
    BY <1>2, <1>3, <2>1, <2>2 DEF Authenticating
  <2>4. Records'
    BY <1>2, <2>1 DEF InStep, Records
  <2>5. srv'.key <=> client'.key \/ HasKey(down')
    BY <1>2, <1>5, <1>6, <1>9, <2>1
  <2>. QED
    BY <1>1, <1>2, <2>1, <2>3, <2>4, <2>5, KeepsStep DEF InStep
<1>. QED
  BY <1>4, <1>7, <1>8, <1>9 

LEMMA ReplyIn ==
  ASSUME InStep, ~Trouble, Reply PROVE StepInv'
<1>1. client.at \in Awaiting
  BY DEF Reply
<1>. QED
  BY <1>1, NegotiateIn, DatabaseIn, SecureSessionIn, TlsAckIn, OptionAckIn, AuthenticateIn,
     CompleteIn DEF Awaiting

-----------------------------------------------------------------------------
(* The worker thread otherwise *)

LEMMA DetachIn ==
  ASSUME InStep, ~Trouble, Detach PROVE StepInv'
<1>1. sock' = [sock EXCEPT !.held = FALSE] /\ UNCHANGED <<want, client, up, down, srv, task>>
      /\ client.at = "wrap"
  BY DEF Detach
<1>2. task = "handshake" /\ Negotiating
  BY <1>1, InHandshake DEF Optioning, Authenticating, Both
<1>3. Negotiating'
  BY <1>1, <1>2 DEF Negotiating, Both, Sent, Got, Quiet
<1>4. Records' /\ sock'.open = sock.open /\ sock'.tls = sock.tls
  BY <1>1 DEF InStep, Records
<1>5. srv.key <=> client.key \/ HasKey(down)
  BY DEF InStep, HasKey
<1>. QED
  BY <1>1, <1>2, <1>3, <1>4, <1>5, KeepsStep DEF InStep

LEMMA WrapIn ==
  ASSUME InStep, ~Trouble, Wrap PROVE StepInv'
<1>1. client.at = "wrap" /\ srv.at = "shake" /\ UNCHANGED <<want, task>>
  BY DEF Wrap
<1>2. task = "handshake" /\ Negotiating
  BY <1>1, InHandshake DEF Optioning, Authenticating, Both
<1>3. up = <<>> /\ down = <<>>
  BY <1>1, <1>2 DEF Negotiating, Both, Sent, Got, Quiet
<1>4. CASE Rejected(TRUE) /\ srv' = [srv EXCEPT !.at = "gone"]
  BY <1>4, IntoTrouble DEF Rejected, Trouble, InStep, Records
<1>5. CASE /\ Goes([client EXCEPT !.at = "tlsAck", !.secured = TRUE]) /\ SendsNothing
           /\ sock' = [sock EXCEPT !.tls = TRUE, !.held = TRUE]
           /\ srv' = [srv EXCEPT !.at = "options", !.tls = TRUE,
                                 !.todo = option_plan(srv.version, want.options)]
           /\ down' = Append(down, M("N"))
  <2>1. srv.version = client.version
    BY <1>1 DEF InStep
  <2>. DEFINE plan == option_plan(client.version, want.options)
  <2>2. plan \in Seq(Options)
    BY WholePlanIsPlan DEF Plan
  <2>3. srv' = [srv EXCEPT !.at = "options", !.tls = TRUE, !.todo = plan]
    BY <1>5, <2>1
  <2>. HIDE DEF plan
  <2>4. up' = <<>> /\ down' = <<M("N")>>
    BY <1>3, <1>5, Single DEF SendsNothing
  <2>5. /\ Records' /\ sock'.open = sock.open /\ sock'.tls = TRUE
        /\ client'.at = "tlsAck" /\ client'.version = client.version
        /\ client'.key = client.key /\ client'.secured = TRUE
        /\ srv'.at = "options" /\ srv'.tls = TRUE /\ srv'.todo = plan /\ srv'.key = srv.key
        /\ srv'.version = srv.version
    BY <1>5, <2>2, <2>3 DEF InStep, Records, Goes, Awaiting
  <2>6. Optioning'
    BY <1>1, <2>4, <2>5 DEF Optioning, Got, WholePlan, plan
  <2>7. ~HasKey(down) /\ ~HasKey(down')
    BY <1>3, <2>4, NothingIsKey DEF M, Msg
  <2>. QED
    BY <1>1, <1>2, <2>1, <2>5, <2>6, <2>7, KeepsKey, KeepsStep DEF InStep
<1>. QED
  BY <1>4, <1>5 DEF Wrap

\* Nobody waits for a reply that would never have come.
LEMMA NoReplyIn ==
  ASSUME InStep, ~Trouble, NoReply PROVE StepInv'
<1>1. /\ srv' = srv /\ Rejected(Owes \/ ~sock.open) /\ client.at \in Awaiting \cup {"wrap"}
      /\ client.at = "wrap" \/ down = <<>>
  BY DEF NoReply, InStep
<1>2. Negotiating \/ Optioning \/ Authenticating
  BY <1>1, InHandshake DEF Awaiting
<1>3. Owes
  BY <1>1, <1>2, Single DEF Negotiating, Optioning, Authenticating, Announced, Both, Sent, Got, Quiet, Owes,
     Awaiting
<1>. QED
  BY <1>1, <1>3, RejectedIn

LEMMA WorkerIn ==
  ASSUME InStep, ~Trouble, Worker PROVE StepInv'
BY BeginIn, ReplyIn, DetachIn, WrapIn, NoReplyIn DEF Worker, Orphaned, Trouble

-----------------------------------------------------------------------------
(* The server *)

LEMMA ServerGone ==
  ASSUME InStep, client' = client, srv' = [srv EXCEPT !.at = "gone"], cause' PROVE StepInv'
BY IntoTrouble DEF InStep, Records, Trouble

\* One arm of Offers for every state of the server that InStep admits
LEMMA OffersArms ==
  ASSUME NEW f, Offers(f)
  PROVE /\ srv.at = "begin" /\ f.m = "begin" =>
             \/ Says([srv EXCEPT !.at = "db", !.version = f.v], <<M("N")>>)
             \/ \E v \in 1..6 : Says(srv, <<Msg("M", v)>>)
        /\ srv.at = "db" /\ f.m = "db" => Says([srv EXCEPT !.at = "negotiate"], <<M("N")>>)
        /\ srv.at = "negotiate" /\ f.m = "negotiate" =>
             \/ Says([srv EXCEPT !.at = "options", !.todo = option_plan(srv.version, want.options)],
                     <<M("N")>>)
             \/ Says(srv, <<M("S")>>)
        /\ srv.at = "negotiate" /\ f.m = "connect" => Says([srv EXCEPT !.at = "shake"], <<>>)
        /\ srv.at = "options" /\ f.m = Head(srv.todo) /\ f.m # "done" =>
             Says([srv EXCEPT !.todo = Tail(@)], <<M("N")>>)
        /\ srv.at = "options" /\ f.m = Head(srv.todo) /\ f.m = "done" =>
             \/ \E method \in {0, 3, 5, 6} :
                  Says([srv EXCEPT !.at = IF method = 0 THEN "complete" ELSE "auth", !.todo = <<>>],
                       <<Msg("R", method)>>)
             \/ srv' = [srv EXCEPT !.at = "gone"] /\ cause' = TRUE
        /\ srv.at = "auth" /\ f.m = "password" =>
             Says([srv EXCEPT !.at = "complete"], <<Msg("R", 0)>>)
        /\ srv.at = "ready" /\ f.m = "set" => Says(srv, <<M("C"), M("Z"), M("tail")>>)
BY DEF Offers

\* The server takes a frame and sends messages ms, to a client that waits for them.
LEMMA SaysIn ==
  ASSUME InStep, ~Trouble, task = "handshake", down = <<>>, UNCHANGED <<want, client, sock, task>>,
         up' = <<>>, NEW s, NEW ms, Says(s, ms), <<>> \o ms = ms, Records', ~HasKey(ms),
         s.key = srv.key, s.tls = srv.tls, s.at # "begin" => s.version = client.version,
         (Negotiating \/ Optioning \/ Authenticating)'
  PROVE StepInv'
<1>1. srv' = s /\ down' = ms
  BY DEF Says
<1>2. ~HasKey(down) /\ ~HasKey(down')
  BY <1>1, NothingIsKey
<1>. QED
  BY <1>1, <1>2, KeepsKey, KeepsStep DEF InStep

LEMMA MessageFacts ==
  /\ \A m : M(m).m = m /\ M(m).v = 0
  /\ \A m, v : Msg(m, v).m = m /\ Msg(m, v).v = v
  /\ \A r : <<>> \o <<r>> = <<r>>
  /\ <<>> \o <<>> = <<>>
BY Single DEF M, Msg

LEMMA TakeNegotiation ==
  ASSUME InStep, ~Trouble, Negotiating, task = "handshake", NEW f, up = <<f>>, Offers(f), up' = <<>>,
         UNCHANGED <<want, client, sock, task>>
  PROVE StepInv'
<1>1. /\ down = <<>>
      /\ \/ Both("beginAck", "begin") /\ f = Msg("begin", client.version)
         \/ Both("dbAck", "db") /\ f = M("db")
         \/ Both("secAck", "negotiate") /\ f = Msg("negotiate", client.level)
         \/ Both("wrap", "negotiate") /\ f = Msg("connect", client.level)
  <2>1. \A g : <<g>> # <<>> /\ (<<f>> = <<g>> => f = g)
    OBVIOUS
  <2>. QED
    BY <2>1 DEF Negotiating, Sent, Got, Quiet
<1>2. srv.at # "begin" => srv.version = client.version
  BY DEF InStep
<1>3. CASE Both("beginAck", "begin") /\ f = Msg("begin", client.version)
  <2>1. f.m = "begin" /\ f.v = client.version
    BY <1>3, MessageFacts
  <2>2. CASE Says([srv EXCEPT !.at = "db", !.version = client.version], <<M("N")>>)
    <3>. DEFINE s == [srv EXCEPT !.at = "db", !.version = client.version]
    <3>1. srv' = s /\ down' = <<M("N")>>
      BY <1>1, <2>2, MessageFacts DEF Says
    <3>2. s.at = "db" /\ s.key = srv.key /\ s.tls = srv.tls /\ s.version = client.version
          /\ Records'
      <4>1. client.version \in 0..6
        BY DEF InStep, Records
      <4>. QED
        BY <3>1, <4>1 DEF InStep, Records
    <3>3. Negotiating'
      BY <1>3, <3>1, <3>2 DEF Negotiating, Both, Got
    <3>4. ~HasKey(<<M("N")>>) /\ <<>> \o <<M("N")>> = <<M("N")>>
      BY NothingIsKey, MessageFacts
    <3>. QED
      BY <1>1, <2>2, <3>2, <3>3, <3>4, SaysIn
  <2>3. ASSUME NEW v \in 1..6, Says(srv, <<Msg("M", v)>>) PROVE StepInv'
    <3>1. srv' = srv /\ down' = <<Msg("M", v)>>
      BY <1>1, <2>3, MessageFacts DEF Says
    <3>2. Records'
      BY <3>1 DEF InStep, Records
    <3>3. Negotiating'
      BY <1>3, <3>1 DEF Negotiating, Both, Got
    <3>4. ~HasKey(<<Msg("M", v)>>) /\ <<>> \o <<Msg("M", v)>> = <<Msg("M", v)>>
      BY NothingIsKey, MessageFacts
    <3>. QED
      BY <1>1, <1>2, <2>3, <3>2, <3>3, <3>4, SaysIn
  <2>. QED
    BY <1>3, <2>1, <2>2, <2>3, OffersArms DEF Both
<1>4. CASE Both("dbAck", "db") /\ f = M("db")
  <2>. DEFINE s == [srv EXCEPT !.at = "negotiate"]
  <2>1. Says(s, <<M("N")>>)
    BY <1>4, OffersArms, MessageFacts DEF Both
  <2>2. srv' = s /\ down' = <<M("N")>>
    BY <1>1, <2>1, MessageFacts DEF Says
  <2>3. s.at = "negotiate" /\ s.key = srv.key /\ s.tls = srv.tls /\ s.version = srv.version /\ Records'
    BY <2>2 DEF InStep, Records
  <2>4. Negotiating'
    BY <1>4, <2>2, <2>3 DEF Negotiating, Both, Got
  <2>5. ~HasKey(<<M("N")>>) /\ <<>> \o <<M("N")>> = <<M("N")>>
    BY NothingIsKey, MessageFacts
  <2>. QED
    BY <1>1, <1>2, <1>4, <2>1, <2>3, <2>4, <2>5, SaysIn DEF Both
<1>5. CASE Both("secAck", "negotiate") /\ f = Msg("negotiate", client.level)
  <2>. DEFINE plan == option_plan(client.version, want.options)
  <2>1. plan \in Seq(Options)
    BY WholePlanIsPlan DEF Plan
  <2>2. srv.version = client.version
    BY <1>2, <1>5 DEF Both
  <2>3. \/ Says([srv EXCEPT !.at = "options", !.todo = plan], <<M("N")>>)
        \/ Says(srv, <<M("S")>>)
    BY <1>5, <2>2, OffersArms, MessageFacts DEF Both
  <2>. HIDE DEF plan
  <2>4. CASE Says([srv EXCEPT !.at = "options", !.todo = plan], <<M("N")>>)
    <3>. DEFINE s == [srv EXCEPT !.at = "options", !.todo = plan]
    <3>1. srv' = s /\ down' = <<M("N")>>
      BY <1>1, <2>4, MessageFacts DEF Says
    <3>2. /\ s.at = "options" /\ s.key = srv.key /\ s.tls = srv.tls /\ s.version = srv.version
          /\ Records' /\ srv'.todo = plan
      BY <2>1, <3>1 DEF InStep, Records
    <3>3. Optioning'
      BY <1>5, <3>1, <3>2 DEF Optioning, Both, Got, WholePlan, plan
    <3>4. ~HasKey(<<M("N")>>) /\ <<>> \o <<M("N")>> = <<M("N")>>
      BY NothingIsKey, MessageFacts
    <3>. QED
      BY <1>1, <2>2, <2>4, <3>2, <3>3, <3>4, SaysIn
  <2>5. CASE Says(srv, <<M("S")>>)
    <3>1. srv' = srv /\ down' = <<M("S")>>
      BY <1>1, <2>5, MessageFacts DEF Says
    <3>2. Records'
      BY <3>1 DEF InStep, Records
    <3>3. Negotiating'
      BY <1>5, <3>1 DEF Negotiating, Both, Got
    <3>4. ~HasKey(<<M("S")>>) /\ <<>> \o <<M("S")>> = <<M("S")>>
      BY NothingIsKey, MessageFacts
    <3>. QED
      BY <1>1, <2>2, <2>5, <3>2, <3>3, <3>4, SaysIn
  <2>. QED
    BY <2>3, <2>4, <2>5
<1>6. CASE Both("wrap", "negotiate") /\ f = Msg("connect", client.level)
  <2>. DEFINE s == [srv EXCEPT !.at = "shake"]
  <2>1. Says(s, <<>>)
    BY <1>6, OffersArms, MessageFacts DEF Both
  <2>2. srv' = s /\ down' = <<>>
    BY <1>1, <2>1, MessageFacts DEF Says
  <2>3. s.at = "shake" /\ s.key = srv.key /\ s.tls = srv.tls /\ s.version = srv.version /\ Records'
    BY <2>2 DEF InStep, Records
  <2>4. Negotiating'
    BY <1>6, <2>2, <2>3 DEF Negotiating, Both, Quiet
  <2>5. ~HasKey(<<>>) /\ <<>> \o <<>> = <<>>
    BY NothingIsKey, MessageFacts
  <2>. QED
    BY <1>1, <1>2, <1>6, <2>1, <2>3, <2>4, <2>5, SaysIn DEF Both
<1>. QED
  BY <1>1, <1>3, <1>4, <1>5, <1>6

LEMMA TakeOption ==
  ASSUME InStep, ~Trouble, Optioning, task = "handshake", NEW f, up = <<f>>, Offers(f), up' = <<>>,
         UNCHANGED <<want, client, sock, task>>
  PROVE StepInv'
<1>1. /\ down = <<>> /\ srv.at = "options" /\ f = M(Head(srv.todo)) /\ Plan(srv.todo)
      /\ \/ client.at = "optionAck" /\ Head(srv.todo) # "done" /\ client.todo = Tail(srv.todo)
         \/ client.at = "auth" /\ Head(srv.todo) = "done"
  <2>1. \A g : <<g>> # <<>> /\ (<<f>> = <<g>> => f = g)
    OBVIOUS
  <2>2. Plan(<<"done">>) /\ Head(<<"done">>) = "done"
    BY Single DEF Plan, Options
  <2>. QED
    BY <2>1, <2>2 DEF Optioning, Both, Sent, Got, M
<1>2. srv.version = client.version /\ f.m = Head(srv.todo)
  BY <1>1, MessageFacts DEF InStep
<1>3. CASE client.at = "optionAck"
  <2>. DEFINE s == [srv EXCEPT !.todo = Tail(@)]
  <2>1. Says(s, <<M("N")>>) /\ Head(srv.todo) # "done"
    BY <1>1, <1>2, <1>3, OffersArms
  <2>2. srv' = s /\ down' = <<M("N")>>
    BY <1>1, <2>1, MessageFacts DEF Says
  <2>3. Plan(Tail(srv.todo)) /\ Tail(srv.todo) \in Seq(Options)
    BY <1>1, <2>1, PlanHead
  <2>4. /\ s.at = "options" /\ s.key = srv.key /\ s.tls = srv.tls /\ s.version = srv.version
        /\ Records' /\ srv'.todo = Tail(srv.todo)
    BY <1>1, <2>2, <2>3 DEF InStep, Records
  <2>5. Optioning'
    BY <1>1, <1>3, <2>2, <2>3, <2>4 DEF Optioning, Both, Got
  <2>6. ~HasKey(<<M("N")>>) /\ <<>> \o <<M("N")>> = <<M("N")>>
    BY NothingIsKey, MessageFacts
  <2>. QED
    BY <1>1, <1>2, <2>1, <2>4, <2>5, <2>6, SaysIn
<1>4. CASE client.at = "auth"
  <2>1. CASE srv' = [srv EXCEPT !.at = "gone"] /\ cause' = TRUE
    BY <2>1, ServerGone
  <2>2. ASSUME NEW method \in {0, 3, 5, 6},
               Says([srv EXCEPT !.at = IF method = 0 THEN "complete" ELSE "auth", !.todo = <<>>],
                    <<Msg("R", method)>>)
        PROVE StepInv'
    <3>. DEFINE where == IF method = 0 THEN "complete" ELSE "auth"
                s == [srv EXCEPT !.at = where, !.todo = <<>>]
    <3>1. srv' = s /\ down' = <<Msg("R", method)>>
      BY <1>1, <2>2, MessageFacts DEF Says
    <3>2. s.at = where /\ s.key = srv.key /\ s.tls = srv.tls /\ s.version = srv.version /\ Records'
      <4>1. where \in {"complete", "auth"} /\ <<>> \in Seq(Options)
        OBVIOUS
      <4>. HIDE DEF where
      <4>. QED
        BY <3>1, <4>1 DEF InStep, Records
    <3>3. Authenticating'
      <4>1. CASE method = 0
        <5>1. srv'.at = "complete" /\ down' = <<Msg("R", 0)>>
          BY <3>1, <3>2, <4>1
        <5>2. Msg("R", 0) \in Chatter /\ Msg("R", 0) # M("Z")
          BY DEF Chatter, Msg, M
        <5>3. Announced'
          BY <5>1, <5>2 DEF Announced
        <5>4. down' # <<>> /\ Head(down') = Msg("R", 0)
          BY <5>1, Single
        <5>. QED
          BY <1>4, <5>1, <5>3, <5>4 DEF Authenticating
      <4>2. CASE method # 0
        BY <1>4, <2>2, <3>1, <3>2, <4>2 DEF Authenticating, Both, Got
      <4>. QED
        BY <4>1, <4>2
    <3>4. ~HasKey(<<Msg("R", method)>>) /\ <<>> \o <<Msg("R", method)>> = <<Msg("R", method)>>
      BY NothingIsKey, MessageFacts
    <3>. QED
      BY <1>1, <1>2, <2>2, <3>2, <3>3, <3>4, SaysIn
  <2>. QED
    BY <1>1, <1>2, <1>4, <2>1, <2>2, OffersArms
<1>. QED
  BY <1>1, <1>3, <1>4

LEMMA TakePassword ==
  ASSUME InStep, ~Trouble, Authenticating, task = "handshake", NEW f, up = <<f>>, Offers(f), up' = <<>>,
         UNCHANGED <<want, client, sock, task>>
  PROVE StepInv'
<1>1. down = <<>> /\ Both("complete", "auth") /\ f.m = "password"
  <2>1. \A g : <<g>> # <<>> /\ (<<f>> = <<g>> => f = g)
    OBVIOUS
  <2>. QED
    BY <2>1, MessageFacts DEF Authenticating, Both, Sent, Got, Quiet
<1>. DEFINE s == [srv EXCEPT !.at = "complete"]
<1>2. Says(s, <<Msg("R", 0)>>)
  BY <1>1, OffersArms DEF Both
<1>3. srv' = s /\ down' = <<Msg("R", 0)>>
  BY <1>1, <1>2, MessageFacts DEF Says
<1>4. s.at = "complete" /\ s.key = srv.key /\ s.tls = srv.tls /\ s.version = srv.version /\ Records'
  BY <1>3 DEF InStep, Records
<1>5. Msg("R", 0) \in Chatter /\ Msg("R", 0) # M("Z")
  BY DEF Chatter, Msg, M
<1>6. Announced'
  BY <1>3, <1>4, <1>5 DEF Announced
<1>7. Authenticating'
  BY <1>1, <1>3, <1>4, <1>6 DEF Authenticating, Both
<1>8. ~HasKey(<<Msg("R", 0)>>) /\ <<>> \o <<Msg("R", 0)>> = <<Msg("R", 0)>>
  BY NothingIsKey, MessageFacts
<1>. QED
  BY <1>1, <1>2, <1>4, <1>7, <1>8, SaysIn DEF Both, InStep

\* A statement is answered, or refused with a cause.
LEMMA TakeSet ==
  ASSUME InStep, ~Trouble, SettingUp, NEW f, up = <<f>>, up' = <<>>,
         UNCHANGED <<want, client, sock, task, setups>>,
         \/ Offers(f)
         \/ srv' = srv /\ down' = down \o <<M("E"), M("Z"), M("tail")>> /\ cause' = TRUE
  PROVE StepInv'
<1>1. down = <<>> /\ task = "asked" /\ f.m = "set" /\ Both("over", "ready") /\ setups \in Nat
  <2>1. \A g : <<g>> # <<>> /\ (<<f>> = <<g>> => f = g)
    OBVIOUS
  <2>. QED
    BY <2>1, MessageFacts DEF SettingUp, Sent, Got, Quiet
<1>2. srv' = srv /\ \/ down' = <<M("C"), M("Z"), M("tail")>>
                    \/ down' = <<M("E"), M("Z"), M("tail")>> /\ cause'
  <2>1. \A a, b, c : <<>> \o <<a, b, c>> = <<a, b, c>>
    OBVIOUS
  <2>2. CASE Offers(f)
    BY <1>1, <2>1, <2>2, OffersArms DEF Both, Says
  <2>. QED
    BY <1>1, <2>1, <2>2
<1>3. SettingUp'
  BY <1>1, <1>2 DEF SettingUp, Both
<1>4. ~HasKey(down) /\ ~HasKey(down')
  <2>1. \A x \in {M("C"), M("Z"), M("tail"), M("E")} : x.m # "key"
    BY DEF M, Msg
  <2>2. \A a, b, c : \A i \in DOMAIN <<a, b, c>> : <<a, b, c>>[i] \in {a, b, c}
    OBVIOUS
  <2>. QED
    BY <1>1, <1>2, <2>1, <2>2, NothingIsKey DEF HasKey
<1>5. Records'
  BY <1>2 DEF InStep, Records
<1>. QED
  BY <1>2, <1>3, <1>4, <1>5, KeepsKey, KeepsStep DEF InStep

LEMMA ServerTakeIn ==
  ASSUME InStep, ~Trouble, ServerTake PROVE StepInv'
<1>1. CASE Refuses
  BY <1>1, ServerGone DEF ServerTake, Refuses
<1>2. PICK f : up = <<f>>
  <2>1. up # <<>>
    BY DEF ServerTake
  <2>. QED
    BY <2>1 DEF InStep, Negotiating, Optioning, Authenticating, SettingUp, Sent, Got, Quiet
<1>3. Head(up) = f /\ up' = <<>>
  BY <1>2, Taken DEF ServerTake
<1>4. CASE task = "handshake"
  <2>1. Negotiating \/ Optioning \/ Authenticating
    BY <1>4 DEF InStep, SettingUp
  <2>2. CASE Offers(f)
    BY <1>2, <1>3, <1>4, <2>1, <2>2, TakeNegotiation, TakeOption, TakePassword DEF ServerTake
  <2>3. srv.at # "ready"
    BY <1>2, <2>1, Single DEF Negotiating, Optioning, Authenticating, Both, Sent, Got, Quiet
  <2>. QED
    BY <1>1, <1>3, <2>2, <2>3 DEF ServerTake
<1>5. CASE SettingUp
  BY <1>1, <1>2, <1>3, <1>5, TakeSet DEF ServerTake
<1>. QED
  BY <1>4, <1>5 DEF InStep

\* A message after the authentication, in the order the server says them
LEMMA AnnouncedMore ==
  ASSUME Announced, srv.at = "complete", NEW x \in Chatter \cup {M("Z")}, down' = down \o <<x>>,
         x = M("Z") <=> srv'.at = "ready"
  PROVE Announced' /\ down' # <<>> /\ (HasKey(down') <=> HasKey(down) \/ x.m = "key")
<1>. DEFINE S == Chatter \cup {M("Z")}
<1>1. down \in Seq(S) /\ x \in S
  BY DEF Announced
<1>. HIDE DEF S
<1>2. /\ HasKey(down') <=> HasKey(down) \/ x.m = "key"
      /\ down' \in Seq(S) /\ Len(down') = Len(down) + 1 /\ Len(down) \in Nat
      /\ DOMAIN down' = 1 .. Len(down) + 1 /\ DOMAIN down = 1 .. Len(down)
      /\ \A i \in DOMAIN down : down'[i] = down[i]
      /\ down'[Len(down) + 1] = x
  BY <1>1, HasKeyAppend
<1>3. \A i \in DOMAIN down : down[i] # M("Z")
  BY DEF Announced
<1>4. \A i \in DOMAIN down' : i \in DOMAIN down \/ i = Len(down) + 1
  BY <1>2
<1>5. \A i \in DOMAIN down' : down'[i] = M("Z") <=> srv'.at = "ready" /\ i = Len(down')
  BY <1>2, <1>3, <1>4
<1>6. down' # <<>>
  BY <1>2
<1>. QED
  BY <1>2, <1>5, <1>6 DEF Announced, S

LEMMA ServerSaysIn ==
  ASSUME InStep, ~Trouble, ServerSays PROVE StepInv'
<1>1. CASE Refuses
  BY <1>1, ServerGone DEF ServerSays, Refuses
<1>2. /\ srv.at = "complete" /\ task = "handshake" /\ client.at \in {"auth", "complete"}
      /\ up = <<>> /\ Announced /\ (client.at = "auth" => down # <<>> /\ Head(down) = Msg("R", 0))
  BY DEF ServerSays, InStep, SettingUp, Negotiating, Optioning, Authenticating, Both
<1>3. UNCHANGED <<want, client, sock, up, task>>
  BY DEF ServerSays
<1>4. ASSUME NEW x \in Chatter \cup {M("Z")}, down' = down \o <<x>>,
             srv' = IF x = M("Z") THEN [srv EXCEPT !.at = "ready"]
                    ELSE [srv EXCEPT !.said = @ + 1, !.key = @ \/ x.m = "key"]
      PROVE StepInv'
  <2>1. /\ Records' /\ srv'.tls = srv.tls /\ srv'.version = srv.version
        /\ srv'.at = IF x = M("Z") THEN "ready" ELSE "complete"
        /\ srv'.key = IF x = M("Z") THEN srv.key ELSE srv.key \/ x.m = "key"
    <3>1. srv.said + 1 \in Nat /\ (srv.key \/ x.m = "key") \in BOOLEAN
      BY DEF InStep, Records
    <3>2. CASE x = M("Z")
      BY <1>2, <1>3, <1>4, <3>2 DEF InStep, Records
    <3>3. CASE x # M("Z")
      <4>1. srv' = [srv EXCEPT !.said = srv.said + 1, !.key = srv.key \/ x.m = "key"]
        BY <1>4, <3>3
      <4>. QED
        BY <1>2, <1>3, <3>1, <3>3, <4>1 DEF InStep, Records
    <3>. QED
      BY <3>2, <3>3
  <2>2. M("Z").m # "key"
    BY DEF M, Msg
  <2>3. Announced' /\ down' # <<>> /\ (HasKey(down') <=> HasKey(down) \/ x.m = "key")
    BY <1>2, <1>4, <2>1, AnnouncedMore
  <2>4. srv'.key <=> client'.key \/ HasKey(down')
    BY <1>3, <2>1, <2>2, <2>3 DEF InStep, HasKey
  <2>5. client.at = "auth" => Head(down') = Msg("R", 0)
    <3>1. ASSUME NEW S, NEW d \in Seq(S), NEW y \in S, d # <<>> PROVE Head(d \o <<y>>) = Head(d)
      BY <3>1
    <3>. QED
      BY <1>2, <1>4, <3>1 DEF Announced
  <2>6. Authenticating'
    BY <1>2, <1>3, <2>1, <2>3, <2>5 DEF Authenticating
  <2>. QED
    BY <1>2, <1>3, <2>1, <2>4, <2>6, KeepsStep DEF InStep
<1>5. ASSUME NEW x \in Chatter, Says([srv EXCEPT !.said = @ + 1, !.key = @ \/ x.m = "key"], <<x>>)
      PROVE StepInv'
  <2>1. x # M("Z")
    BY DEF Chatter, M, Msg
  <2>. QED
    BY <1>4, <1>5, <2>1 DEF Says
<1>6. CASE Says([srv EXCEPT !.at = "ready"], <<M("Z")>>)
  BY <1>4, <1>6 DEF Says
<1>. QED
  BY <1>1, <1>5, <1>6 DEF ServerSays, Chatter

LEMMA ServerStopsIn ==
  ASSUME InStep, ServerStops PROVE StepInv'
<1>1. ("at" \in DOMAIN client /\ "at" \in DOMAIN srv)' /\ srv'.at \in {"gone", "silent"} /\ cause'
  BY DEF ServerStops, InStep, Records
<1>. QED
  BY <1>1, IntoTrouble DEF Trouble

-----------------------------------------------------------------------------
(* The task in connect() *)

LEMMA EstablishedIn ==
  ASSUME InStep, ~Trouble, setups = 0, Established PROVE StepInv'
<1>1. /\ task = "handshake" /\ client.at = "done" /\ task' = "setup"
      /\ client' = [client EXCEPT !.at = "over"] /\ UNCHANGED <<want, sock, up, down, srv, setups>>
  BY DEF Established
<1>2. srv.at = "ready" /\ Quiet
  BY <1>1, InHandshake DEF Negotiating, Optioning, Authenticating, Both
<1>3. Records' /\ client'.at = "over" /\ client'.version = client.version
      /\ client'.key = client.key /\ client'.secured = client.secured
  BY <1>1 DEF InStep, Records
<1>4. SettingUp'
  BY <1>1, <1>2, <1>3 DEF SettingUp, Both, Quiet
<1>5. ~HasKey(down) /\ ~HasKey(down')
  BY <1>1, <1>2, NothingIsKey DEF Quiet
<1>. QED
  BY <1>1, <1>3, <1>4, <1>5, KeepsKey, KeepsStep DEF InStep

\* Sequences of two or three messages
LEMMA Several ==
  ASSUME NEW a, NEW b, NEW c
  PROVE /\ Head(<<a, b, c>>) = a /\ Tail(<<a, b, c>>) = <<b, c>> /\ <<a, b, c>> # <<>>
        /\ Head(<<a, b>>) = a /\ Tail(<<a, b>>) = <<b>> /\ <<a, b>> # <<>>
OBVIOUS

LEMMA SetupHasNoKey ==
  ASSUME NEW d,
         \/ d \in {<<>>, <<M("tail")>>, <<M("Z"), M("tail")>>}
         \/ d \in {<<M("C"), M("Z"), M("tail")>>, <<M("E"), M("Z"), M("tail")>>}
  PROVE  ~HasKey(d)
<1>1. \A x \in {M("C"), M("Z"), M("tail"), M("E")} : x.m # "key"
  BY DEF M, Msg
<1>2. \A x, y, z : /\ \A i \in DOMAIN <<x, y, z>> : <<x, y, z>>[i] \in {x, y, z}
                   /\ \A i \in DOMAIN <<x, y>> : <<x, y>>[i] \in {x, y}
                   /\ \A i \in DOMAIN <<x>> : <<x>>[i] \in {x}
  OBVIOUS
<1>. QED
  BY <1>1, <1>2, NothingIsKey DEF HasKey

\* A step of the task after the handshake that goes on
LEMMA SetupStep ==
  ASSUME InStep, SettingUp, UNCHANGED <<client, srv, sock>>, SettingUp' PROVE StepInv'
<1>1. ~HasKey(down) /\ ~HasKey(down')
  BY SetupHasNoKey DEF SettingUp, Quiet, Got, Sent
<1>2. Records'
  BY DEF InStep, Records
<1>. QED
  BY <1>1, <1>2, KeepsKey, KeepsStep DEF InStep

LEMMA AskIn ==
  ASSUME InStep, ~Trouble, Ask PROVE StepInv'
<1>1. task = "setup" /\ task' = "asked" /\ UNCHANGED <<client, srv, sock, setups>>
      /\ up' = Append(up, M("set"))
  BY DEF Ask
<1>2. SettingUp
  BY <1>1 DEF InStep
<1>3. up = <<>> /\ down' = <<>>
  BY <1>1, <1>2, Single DEF SettingUp, Quiet, Got, Sent, Ask
<1>4. SettingUp'
  BY <1>1, <1>2, <1>3, Single DEF SettingUp, Both, Sent
<1>. QED
  BY <1>1, <1>2, <1>4, SetupStep

LEMMA AnswerIn ==
  ASSUME InStep, ~Trouble, Answer PROVE StepInv'
<1>1. /\ task \in {"asked", "erred"} /\ UNCHANGED <<client, srv, up, cause>> /\ down' = Tail(down)
      /\ down # <<>>
      /\ (IF task' = "failed" THEN Closed(FALSE) ELSE UNCHANGED sock)
  BY DEF Answer
<1>2. SettingUp
  BY <1>1 DEF InStep
<1>3. /\ setups \in Nat /\ up = <<>> /\ Both("over", "ready")
      /\ \/ task = "asked" /\ down = <<M("C"), M("Z"), M("tail")>>
         \/ task = "asked" /\ down = <<M("Z"), M("tail")>>
         \/ task = "asked" /\ down = <<M("E"), M("Z"), M("tail")>> /\ cause
         \/ task = "erred" /\ down = <<M("Z"), M("tail")>> /\ cause
  BY <1>1, <1>2 DEF SettingUp, Quiet, Sent, Got
<1>. DEFINE m == Head(down).m
<1>4. /\ m = "E" => task' = "erred"
      /\ m = "Z" => task' = IF task = "erred" THEN "failed" ELSE "setup"
      /\ m \notin {"E", "Z"} => task' = task
      /\ setups' = IF m = "Z" /\ task = "asked" THEN setups + 1 ELSE setups
  BY DEF Answer
<1>5. CASE task = "asked" /\ down = <<M("C"), M("Z"), M("tail")>>
  <2>1. m = "C" /\ down' = <<M("Z"), M("tail")>>
    BY <1>1, <1>5, Several, MessageFacts
  <2>2. SettingUp'
    BY <1>1, <1>3, <1>4, <1>5, <2>1 DEF SettingUp, Both
  <2>. QED
    BY <1>1, <1>2, <1>4, <1>5, <2>1, <2>2, SetupStep
<1>6. CASE task = "asked" /\ down = <<M("Z"), M("tail")>>
  <2>1. m = "Z" /\ down' = <<M("tail")>>
    BY <1>1, <1>6, Several, MessageFacts
  <2>2. task' = "setup" /\ setups' \in Nat /\ setups' # 0
    BY <1>3, <1>4, <1>6, <2>1
  <2>3. SettingUp'
    BY <1>1, <1>3, <2>1, <2>2 DEF SettingUp, Both, Got
  <2>. QED
    BY <1>1, <1>2, <2>2, <2>3, SetupStep
<1>7. CASE task = "asked" /\ down = <<M("E"), M("Z"), M("tail")>> /\ cause
  <2>1. m = "E" /\ down' = <<M("Z"), M("tail")>>
    BY <1>1, <1>7, Several, MessageFacts
  <2>2. SettingUp'
    BY <1>1, <1>3, <1>4, <1>7, <2>1 DEF SettingUp, Both
  <2>. QED
    BY <1>1, <1>2, <1>4, <2>1, <2>2, SetupStep
<1>8. CASE task = "erred" /\ down = <<M("Z"), M("tail")>> /\ cause
  <2>1. m = "Z"
    BY <1>8, Several, MessageFacts
  <2>2. task' = "failed" /\ cause'
    BY <1>1, <1>4, <1>8, <2>1
  <2>. QED
    BY <1>1, <2>2, IntoTrouble DEF InStep, Records, Trouble, GivenUp
<1>. QED
  BY <1>3, <1>5, <1>6, <1>7, <1>8

LEMMA SetupDoneIn ==
  ASSUME InStep, ~Trouble, SetupDone PROVE StepInv'
<1>1. task = "setup" /\ task' = "callback" /\ UNCHANGED <<client, srv, sock, up, setups>>
      /\ down' = Tail(down) /\ down # <<>>
  BY DEF SetupDone
<1>2. SettingUp
  BY <1>1 DEF InStep
<1>3. up = <<>> /\ down' = <<>>
  BY <1>1, <1>2, Single DEF SettingUp, Quiet, Got
<1>4. SettingUp'
  BY <1>1, <1>2, <1>3 DEF SettingUp, Both, Quiet
<1>. QED
  BY <1>1, <1>2, <1>4, SetupStep

LEMMA OnConnectIn ==
  ASSUME InStep, ~Trouble, OnConnect PROVE StepInv'
<1>1. task = "callback" /\ UNCHANGED <<client, srv, up, down, setups>>
  BY DEF OnConnect
<1>2. SettingUp
  BY <1>1 DEF InStep
<1>3. CASE task' = "connected" /\ UNCHANGED <<sock, cause>>
  <2>1. SettingUp'
    BY <1>1, <1>2, <1>3 DEF SettingUp, Both, Quiet
  <2>. QED
    BY <1>1, <1>2, <1>3, <2>1, SetupStep
<1>4. CASE task' = "failed" /\ cause' = TRUE
  BY <1>1, <1>4, IntoTrouble DEF InStep, Records, Trouble, GivenUp
<1>. QED
  BY <1>3, <1>4 DEF OnConnect

LEMMA CancelIn ==
  ASSUME InStep, Cancel PROVE StepInv'
BY IntoTrouble DEF Cancel, InStep, Records, Trouble, GivenUp

LEMMA TaskIn ==
  ASSUME InStep, ~Trouble, setups = 0 \/ task # "handshake", Task \/ Cancel PROVE StepInv'
<1>1. ~HandshakeFails /\ ~SetupEof
  BY DEF HandshakeFails, SetupEof, Trouble
<1>2. Established => setups = 0
  BY DEF Established
<1>. QED
  BY <1>1, <1>2, EstablishedIn, AskIn, AnswerIn, SetupDoneIn, OnConnectIn, CancelIn DEF Task

-----------------------------------------------------------------------------
(* Trouble stays, with its cause. *)

LEMMA TroubleStays ==
  ASSUME Trouble, "at" \in DOMAIN client, "at" \in DOMAIN srv, cause \/ task = "cancelled", [Next]_vars
  PROVE StepInv'
<1>. SUFFICES ("at" \in DOMAIN client /\ "at" \in DOMAIN srv /\ Trouble)' /\ (cause' \/ task' = "cancelled")
  BY DEF StepInv
<1>1. CASE Begin
  BY <1>1 DEF Begin, Goes, Trouble, GivenUp
<1>2. CASE Reply
  <2>1. /\ client.at # "failed" /\ srv' = srv /\ task' = task
    BY <1>2 DEF Reply, Awaiting
  <2>2. "at" \in DOMAIN client' /\ (cause => cause')
    <3>. DEFINE r == Head(down)
    <3>1. CASE client.at = "beginAck"
      BY <1>2, <3>1 DEF Reply, negotiate, Goes, Rejected
    <3>2. CASE client.at = "dbAck"
      BY <1>2, <3>2 DEF Reply, database, Goes, Rejected
    <3>3. CASE client.at = "secAck"
      BY <1>2, <3>3 DEF Reply, secure_session, send_options, Goes, Rejected
    <3>4. CASE client.at = "tlsAck"
      BY <1>2, <3>4 DEF Reply, tls_ack, send_options, Goes, Rejected
    <3>5. CASE client.at = "optionAck"
      BY <1>2, <3>5 DEF Reply, option_ack, Goes, Rejected
    <3>6. CASE client.at = "auth"
      BY <1>2, <3>6 DEF Reply, authenticate, Goes, Rejected
    <3>7. CASE client.at = "complete"
      BY <1>2, <3>7 DEF Reply, connection_complete, Goes, Rejected
    <3>. QED
      BY <1>2, <3>1, <3>2, <3>3, <3>4, <3>5, <3>6, <3>7 DEF Reply, Awaiting
  <2>. QED
    BY <2>1, <2>2 DEF Trouble, GivenUp
<1>3. CASE Detach \/ Orphaned
  BY <1>3 DEF Detach, Orphaned, Trouble, GivenUp
<1>4. CASE Wrap
  <2>1. GivenUp /\ task' = task
    BY <1>4 DEF Wrap, Trouble
  <2>2. "at" \in DOMAIN client' /\ "at" \in DOMAIN srv' /\ (cause => cause')
    <3>1. \/ client' = [client EXCEPT !.at = "tlsAck", !.secured = TRUE] /\ cause' = cause
          \/ client' = [client EXCEPT !.at = "failed"] /\ cause' = TRUE
      BY <1>4 DEF Wrap, Goes, Rejected
    <3>2. \/ srv' = [srv EXCEPT !.at = "gone"]
          \/ srv' = [srv EXCEPT !.at = "options", !.tls = TRUE,
                                !.todo = option_plan(srv.version, want.options)]
      BY <1>4 DEF Wrap
    <3>3. "at" \in DOMAIN client'
      BY <3>1
    <3>4. "at" \in DOMAIN srv'
      BY <3>2
    <3>5. cause => cause'
      BY <3>1
    <3>. QED
      BY <3>3, <3>4, <3>5
  <2>. QED
    BY <2>1, <2>2 DEF Trouble, GivenUp
<1>5. CASE NoReply
  BY <1>5 DEF NoReply, Rejected, Trouble, GivenUp
<1>6. CASE ServerTake
  <2>1. /\ srv.at \notin {"gone", "silent"} /\ client' = client /\ task' = task
    BY <1>6 DEF ServerTake
  <2>2. "at" \in DOMAIN srv' /\ (cause => cause')
    <3>1. CASE Refuses
      BY <3>1 DEF Refuses
    <3>2. CASE Offers(Head(up))
      BY <3>2 DEF Offers, Says
    <3>3. CASE srv' = srv /\ cause' = TRUE
      BY <3>3
    <3>. QED
      BY <1>6, <3>1, <3>2, <3>3 DEF ServerTake
  <2>. QED
    BY <2>1, <2>2 DEF Trouble, GivenUp
<1>7. CASE ServerSays
  <2>1. srv.at = "complete" /\ client' = client /\ task' = task
    BY <1>7 DEF ServerSays
  <2>2. "at" \in DOMAIN srv' /\ (cause => cause')
    <3>1. CASE Refuses
      BY <3>1 DEF Refuses
    <3>2. CASE ~Refuses
      <4>1. cause' = cause
        BY <1>7, <3>2 DEF ServerSays, Says
      <4>2. \/ srv' = [srv EXCEPT !.at = "ready"]
            \/ \E b : srv' = [srv EXCEPT !.said = @ + 1, !.key = b]
        BY <1>7, <3>2 DEF ServerSays, Says
      <4>3. "at" \in DOMAIN srv'
        BY <4>2
      <4>. QED
        BY <4>1, <4>3
    <3>. QED
      BY <3>1, <3>2
  <2>. QED
    BY <2>1, <2>2 DEF Trouble, GivenUp
<1>8. CASE ServerStops
  BY <1>8 DEF ServerStops, Trouble, GivenUp
<1>9. CASE HandshakeFails \/ Established \/ Ask \/ SetupEof \/ SetupDone
  BY <1>9 DEF HandshakeFails, Established, Ask, SetupEof, SetupDone, Trouble, GivenUp
<1>10. CASE Answer \/ OnConnect \/ Cancel
  BY <1>10 DEF Answer, OnConnect, Cancel, Trouble, GivenUp
<1>11. CASE UNCHANGED vars
  BY <1>11 DEF vars, Trouble, GivenUp
<1>. QED
  BY <1>1, <1>2, <1>3, <1>4, <1>5, <1>6, <1>7, <1>8, <1>9, <1>10, <1>11 DEF Next, Worker, Task

-----------------------------------------------------------------------------

\* No setup statement is counted before the handshake is over; after it the worker
\* thread has ended.
Phases ==
  /\ task = "handshake" => setups = 0
  /\ task = "handshake" \/ GivenUp \/ client.at = "over"

LEMMA PhasesNext ==
  ASSUME Phases, "at" \in DOMAIN client, [Next]_vars PROVE Phases'
<1>1. CASE Begin \/ Reply \/ Detach \/ Wrap \/ NoReply \/ Orphaned
  <2>1. task' = task /\ setups' = setups
    BY <1>1 DEF Begin, Reply, Detach, Wrap, NoReply, Orphaned
  <2>2. client.at # "over" \/ client' = client
    BY <1>1 DEF Begin, Reply, Detach, Wrap, NoReply, Orphaned, Awaiting
  <2>. QED
    BY <2>1, <2>2 DEF Phases, GivenUp
<1>2. CASE Established
  <2>1. client' = [client EXCEPT !.at = "over"] /\ task' = "setup"
    BY <1>2 DEF Established
  <2>2. client'.at = "over"
    BY <2>1
  <2>. QED
    BY <2>1, <2>2 DEF Phases
<1>3. CASE ServerTake \/ ServerSays \/ ServerStops \/ UNCHANGED vars
  BY <1>3 DEF Phases, GivenUp, ServerTake, ServerSays, ServerStops, vars
<1>4. CASE HandshakeFails \/ Ask \/ SetupEof \/ SetupDone \/ OnConnect \/ Cancel
  BY <1>4 DEF Phases, GivenUp, HandshakeFails, Ask, SetupEof, SetupDone, OnConnect, Cancel
<1>5. CASE Answer
  <2>1. task \in {"asked", "erred"} /\ client' = client
    BY <1>5 DEF Answer
  <2>2. task' \in {"erred", "failed", "setup", task}
    BY <1>5 DEF Answer
  <2>. QED
    BY <2>1, <2>2 DEF Phases, GivenUp
<1>. QED
  BY <1>1, <1>2, <1>3, <1>4, <1>5 DEF Next, Worker, Task

LEMMA StepInvInit == ASSUME Init PROVE StepInv
<1>1. Records
  <2>1. want.level \in 0..3 /\ <<>> \in Seq(Options)
    BY HandshakeAssumption DEF Init, Arguments
  <2>. QED
    BY <2>1 DEF Init, Records
<1>2. Negotiating
  BY DEF Init, Negotiating, Both, Quiet
<1>3. InStep
  BY <1>1, <1>2 DEF Init, InStep
<1>. QED
  BY <1>1, <1>3 DEF Init, StepInv, Records, Trouble, GivenUp

LEMMA StepInvNext ==
  ASSUME StepInv, Phases, [Next]_vars PROVE StepInv'
<1>1. CASE Trouble
  BY <1>1, TroubleStays DEF StepInv
<1>2. CASE ~Trouble /\ InStep
  <2>1. CASE UNCHANGED vars
    BY <2>1 DEF vars, StepInv, Trouble, GivenUp, InStep, Records, Negotiating, Optioning,
       Authenticating, SettingUp, Both, Sent, Got, Quiet, Announced, WholePlan
  <2>. QED
    BY <1>2, <2>1, WorkerIn, ServerTakeIn, ServerSaysIn, ServerStopsIn, TaskIn DEF Next, Phases
<1>. QED
  BY <1>1, <1>2 DEF StepInv

LEMMA StepInvariance == Spec => [](StepInv /\ Phases)
<1>1. Init => Phases
  BY DEF Init, Phases
<1>2. StepInv => "at" \in DOMAIN client
  BY DEF StepInv
<1>. QED
  BY <1>1, <1>2, StepInvInit, StepInvNext, PhasesNext, PTL DEF Spec

\* Whoever the server is and whenever it stops: a connection that connect() returned
\* agrees with its server on the version, on TLS and on the key for cancel(), and no
\* byte of the handshake or of the setup is left on the wire.
THEOREM ConnectionAgrees == Spec => []Agreement
<1>1. ASSUME StepInv, Phases, task = "connected", sock.open, srv.at = "ready"
      PROVE  /\ client.version = srv.version /\ client.secured = srv.tls /\ sock.tls = srv.tls
             /\ client.key = srv.key /\ up = <<>> /\ down = <<>>
  <2>1. client.at = "over" /\ ~Trouble
    BY <1>1 DEF Phases, GivenUp, Trouble
  <2>2. InStep /\ SettingUp
    BY <1>1, <2>1 DEF StepInv, InStep
  <2>3. up = <<>> /\ down = <<>>
    BY <1>1, <2>2 DEF SettingUp, Quiet
  <2>4. srv.key <=> client.key
    BY <2>2, <2>3, NothingIsKey DEF InStep, HasKey
  <2>5. client.key = srv.key
    BY <2>2, <2>4 DEF InStep, Records
  <2>. QED
    BY <1>1, <2>2, <2>3, <2>5 DEF InStep
<1>2. StepInv /\ Phases => Agreement
  BY <1>1 DEF Agreement
<1>. QED
  BY <1>2, StepInvariance, PTL

\* connect() never fails because the two got out of step: there is always a refusal, a
\* silence, a policy or a callback that is to blame.
THEOREM FailuresHaveCauses == Spec => []FailureHasCause
<1>1. StepInv => FailureHasCause
  BY DEF StepInv, FailureHasCause, Trouble, GivenUp
<1>. QED
  BY <1>1, StepInvariance, PTL

=============================================================================
