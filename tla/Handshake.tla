------------------------------ MODULE Handshake ------------------------------
(***************************************************************************)
(* Opening a connection: connect() of nzpy_extended and of a pool,         *)
(* Connection.connect (core.py), the startup handshake in its worker       *)
(* thread (handshake.py, _handshake_plan.py), and the server.              *)
(*                                                                         *)
(* The thread cannot be cancelled: the task that gives up closes the       *)
(* socket under it.  A step of the thread is what it does between two      *)
(* blocking calls.  Frames, replies and messages are what their first      *)
(* bytes say; the four bytes that pad ReadyForQuery are a message here.    *)
(* Any reply the client does not expect is "?".                            *)
(***************************************************************************)
EXTENDS Naturals, Sequences

CONSTANTS
  Wants,       \* what connect() is called with, see Arguments
  MaxChatter   \* bound: messages between authentication and ReadyForQuery

\* securityLevel, ssl_allow_fallback, whether there is a password, whether there are
\* pgOptions, and who called: connect() of the package or NzPool
Arguments == [level : 0..3, fallback : BOOLEAN, password : BOOLEAN, options : BOOLEAN,
              caller : {"connect", "pool"}]

ASSUME HandshakeAssumption == Wants \subseteq Arguments /\ MaxChatter \in Nat

VARIABLES
  want,      \* the arguments of connect()
  client,    \* SyncHandshake
  sock,      \* the connection: open, inside TLS, and whether the object that
             \* connect() would close is the one in use
  up, down,  \* frames to the server; replies and messages to the client
  srv,       \* the server
  task,      \* where connect() is
  setups,    \* setup statements that are done
  exposed,   \* history: user name, options or password went out in the clear
  cause      \* history: why this connect() had to fail

vars == <<want, client, sock, up, down, srv, task, setups, exposed, cause>>

Versions == 2..6
Setups == 3
Msg(m, v) == [m |-> m, v |-> v]
M(m) == Msg(m, 0)

\* Names of the option frames in wire order; "done" is the one that is not acknowledged.
option_plan(version, options) ==
  <<"user">>
  \o (IF version \in {4, 6} THEN <<"appname", "os", "host", "osuser">> ELSE <<>>)
  \o <<"protocol", "pid">>
  \o (IF options THEN <<"options">> ELSE <<>>)
  \o <<"type">>
  \o (IF version >= 5 THEN <<"varlena">> ELSE <<>>)
  \o <<"done">>

Secret == {"user", "options", "password"}

Init ==
  /\ want \in Wants
  /\ client = [at |-> "begin", version |-> 6, level |-> want.level, secured |-> FALSE,
               todo |-> <<>>, key |-> FALSE]
  /\ sock = [open |-> TRUE, tls |-> FALSE, held |-> TRUE]
  /\ up = <<>> /\ down = <<>>
  /\ srv = [at |-> "begin", version |-> 0, tls |-> FALSE, todo |-> <<>>, key |-> FALSE, said |-> 0]
  /\ task = "handshake" /\ setups = 0 /\ exposed = FALSE /\ cause = FALSE

-----------------------------------------------------------------------------
(* The worker thread *)

Awaiting == {"beginAck", "dbAck", "secAck", "tlsAck", "optionAck", "auth", "complete"}

\* One write and flush; a socket that is shut down loses it.
SendFrame(f, v) ==
  /\ up' = IF sock.open THEN Append(up, Msg(f, v)) ELSE up
  /\ exposed' = (exposed \/ (f \in Secret /\ sock.open /\ ~sock.tls))
SendsNothing == UNCHANGED <<up, exposed>>

\* startup() returns False or raises; c is whether the client itself is the reason.
Rejected(c) ==
  client' = [client EXCEPT !.at = "failed"] /\ cause' = (cause \/ c) /\ SendsNothing
Goes(c) == client' = c /\ UNCHANGED cause

Begin ==
  /\ client.at = "begin" /\ Goes([client EXCEPT !.at = "beginAck"])
  /\ SendFrame("begin", client.version)
  /\ UNCHANGED <<want, sock, down, srv, task, setups>>

\* A proposal must be known and lower than the last one.
validate_version_downgrade(current, proposed) == proposed \in 2..5 /\ proposed < current

negotiate(r) ==
  CASE r.m = "N" ->
         /\ Goes([client EXCEPT !.at = "dbAck"]) /\ SendFrame("db", 0)
    [] r.m = "M" /\ validate_version_downgrade(client.version, r.v) ->
         /\ Goes([client EXCEPT !.version = r.v]) /\ SendFrame("begin", r.v)
    [] OTHER -> Rejected(r.m = "M")

database(r) ==
  IF r.m = "N" THEN Goes([client EXCEPT !.at = "secAck"]) /\ SendFrame("negotiate", client.level)
  ELSE Rejected(FALSE)

\* The first option frame
send_options(c) ==
  LET plan == option_plan(c.version, want.options) IN
  Goes([c EXCEPT !.at = "optionAck", !.todo = Tail(plan)]) /\ SendFrame(Head(plan), 0)

\* Mutant: fallback is for every level.
AcceptsAnyPlaintext == want.level < 2 \/ want.fallback

AcceptsPlaintext == want.level < 2 \/ (want.level = 2 /\ want.fallback)

\* Offered TLS, the client may find that it cannot build a context (bad CA file) and
\* asks once more at level 1 if it may fall back.
secure_session(r) ==
  CASE r.m = "N" -> IF AcceptsPlaintext THEN send_options(client) ELSE Rejected(TRUE)
    [] r.m = "S" ->
         \/ Goes([client EXCEPT !.at = "wrap"]) /\ SendFrame("connect", client.level)
         \/ IF client.level = 2 /\ want.fallback
            THEN Goes([client EXCEPT !.level = 1]) /\ SendFrame("negotiate", 1)
            ELSE Rejected(TRUE)
    [] OTHER -> Rejected(FALSE)

tls_ack(r) == IF r.m = "N" THEN send_options(client) ELSE Rejected(FALSE)

\* Mutant: waits for an acknowledgement of the last frame too.
option_ack_all(r) ==
  IF r.m = "N" /\ client.todo # <<>>
  THEN Goes([client EXCEPT !.todo = Tail(@)]) /\ SendFrame(Head(client.todo), 0)
  ELSE IF r.m = "N" THEN Goes([client EXCEPT !.at = "auth"]) /\ SendsNothing
  ELSE Rejected(FALSE)

option_ack(r) ==
  IF r.m = "N"
  THEN /\ Goes([client EXCEPT !.todo = Tail(@),
                              !.at = IF Head(client.todo) = "done" THEN "auth" ELSE "optionAck"])
       /\ SendFrame(Head(client.todo), 0)
  ELSE Rejected(FALSE)

\* An unknown method raises before its salt is read; no password, no answer.
authenticate(r) ==
  CASE r.m = "R" /\ r.v = 0 -> Goes([client EXCEPT !.at = "complete"]) /\ SendsNothing
    [] r.m = "R" /\ r.v \in {3, 5, 6} ->
         IF want.password THEN Goes([client EXCEPT !.at = "complete"]) /\ SendFrame("password", r.v)
         ELSE Rejected(TRUE)
    [] OTHER -> Rejected(FALSE)

connection_complete(r) ==
  CASE r.m \in {"nul", "notice", "param", "skip"} \/ (r.m = "R" /\ r.v = 0) ->
         Goes(client) /\ SendsNothing
    [] r.m = "key" -> Goes([client EXCEPT !.key = TRUE]) /\ SendsNothing
    [] r.m = "Z" -> Goes([client EXCEPT !.at = "done"]) /\ SendsNothing
    [] OTHER -> Rejected(FALSE)

Reply ==
  /\ client.at \in Awaiting /\ down # <<>> /\ sock.open
  /\ down' = Tail(down)
  /\ LET r == Head(down) IN
     CASE client.at = "beginAck" -> negotiate(r)
       [] client.at = "dbAck" -> database(r)
       [] client.at = "secAck" -> secure_session(r)
       [] client.at = "tlsAck" -> tls_ack(r)
       [] client.at = "optionAck" -> option_ack(r)
       [] client.at = "auth" -> authenticate(r)
       [] client.at = "complete" -> connection_complete(r)
  /\ UNCHANGED <<want, sock, srv, task, setups>>

\* wrap_socket() takes the descriptor out of the socket that connect() knows, and ends
\* when both sides have shaken hands or the certificate does not please.
Detach ==
  /\ client.at = "wrap" /\ sock.held /\ sock.open
  /\ sock' = [sock EXCEPT !.held = FALSE]
  /\ UNCHANGED <<want, client, up, down, srv, task, setups, exposed, cause>>
Wrap ==
  /\ client.at = "wrap" /\ ~sock.held /\ srv.at = "shake"
  /\ \/ /\ Goes([client EXCEPT !.at = "tlsAck", !.secured = TRUE]) /\ SendsNothing
        /\ sock' = [sock EXCEPT !.tls = TRUE, !.held = TRUE]
        /\ srv' = [srv EXCEPT !.at = "options", !.tls = TRUE,
                              !.todo = option_plan(srv.version, want.options)]
        /\ down' = Append(down, M("N"))
     \/ /\ Rejected(TRUE)
        /\ sock' = [sock EXCEPT !.open = FALSE, !.held = TRUE]
        /\ srv' = [srv EXCEPT !.at = "gone"] /\ UNCHANGED down
  /\ UNCHANGED <<want, task, setups>>

\* The server has something to do, or does nothing any more.
Owes == up # <<>> \/ srv.at \in {"silent", "gone", "shake", "complete"}

\* No byte for connect_timeout seconds, or none to come.
NoReply ==
  /\ \/ client.at \in Awaiting /\ (~sock.open \/ down = <<>>)
     \/ client.at = "wrap" /\ (~sock.open \/ ~sock.held)
  /\ Rejected(Owes \/ ~sock.open)
  /\ sock' = IF sock.held THEN sock ELSE [sock EXCEPT !.open = FALSE, !.held = TRUE]
  /\ UNCHANGED <<want, down, srv, task, setups>>

GivenUp == task \in {"failed", "cancelled"}

\* The thread of a connect() that has given up ends, and with it the last reference.
Orphaned ==
  /\ client.at \in {"done", "failed"} /\ GivenUp /\ sock.open
  /\ sock' = [sock EXCEPT !.open = FALSE]
  /\ UNCHANGED <<want, client, up, down, srv, task, setups, exposed, cause>>

Worker == Begin \/ Reply \/ Detach \/ Wrap \/ NoReply \/ Orphaned

-----------------------------------------------------------------------------
(* The server: it follows the protocol, and may refuse or stop at any point *)

Says(s, ms) == srv' = s /\ down' = down \o ms /\ UNCHANGED cause
Refuses == \E m \in {"E", "?"} :
  srv' = [srv EXCEPT !.at = "gone"] /\ down' = Append(down, M(m)) /\ cause' = TRUE

Offers(f) ==
  CASE srv.at = "begin" /\ f.m = "begin" ->
         \/ Says([srv EXCEPT !.at = "db", !.version = f.v], <<M("N")>>)
         \/ \E v \in 1..6 : Says(srv, <<Msg("M", v)>>)
    [] srv.at = "db" /\ f.m = "db" -> Says([srv EXCEPT !.at = "negotiate"], <<M("N")>>)
    [] srv.at = "negotiate" /\ f.m = "negotiate" ->
         \/ Says([srv EXCEPT !.at = "options", !.todo = option_plan(srv.version, want.options)],
                 <<M("N")>>)
         \/ Says(srv, <<M("S")>>)
    [] srv.at = "negotiate" /\ f.m = "connect" -> Says([srv EXCEPT !.at = "shake"], <<>>)
    [] srv.at = "options" /\ f.m = Head(srv.todo) /\ f.m # "done" ->
         Says([srv EXCEPT !.todo = Tail(@)], <<M("N")>>)
    [] srv.at = "options" /\ f.m = Head(srv.todo) /\ f.m = "done" ->
         \/ \E method \in {0, 3, 5, 6} :
              Says([srv EXCEPT !.at = IF method = 0 THEN "complete" ELSE "auth", !.todo = <<>>],
                   <<Msg("R", method)>>)
         \/ srv' = [srv EXCEPT !.at = "gone"] /\ down' = Append(down, Msg("R", 9)) /\ cause' = TRUE
    [] srv.at = "auth" /\ f.m = "password" -> Says([srv EXCEPT !.at = "complete"], <<Msg("R", 0)>>)
    [] srv.at = "ready" /\ f.m = "set" -> Says(srv, <<M("C"), M("Z"), M("tail")>>)
    [] OTHER -> Says([srv EXCEPT !.at = "gone"], <<M("E")>>)   \* out of step: nobody's cause

ServerTake ==
  /\ up # <<>> /\ sock.open /\ srv.at \notin {"silent", "gone"}
  /\ up' = Tail(up)
  /\ \/ Offers(Head(up))
     \/ srv.at # "ready" /\ Refuses
     \/ srv.at = "ready" /\ srv' = srv /\ down' = down \o <<M("E"), M("Z"), M("tail")>> /\ cause' = TRUE
  /\ UNCHANGED <<want, client, sock, task, setups, exposed>>

ServerSays ==
  /\ srv.at = "complete" /\ sock.open
  /\ \/ /\ srv.said < MaxChatter
        /\ \E m \in {M("nul"), M("notice"), M("param"), M("skip"), Msg("R", 0), M("key")} :
             Says([srv EXCEPT !.said = @ + 1, !.key = @ \/ m.m = "key"], <<m>>)
     \/ Says([srv EXCEPT !.at = "ready"], <<M("Z")>>)
     \/ Refuses
  /\ UNCHANGED <<want, client, sock, up, task, setups, exposed>>

\* It stops to answer, during the handshake, or goes away; what it said may be lost.
ServerStops ==
  /\ srv.at \notin {"gone", "silent"} /\ task # "connected"
  /\ \/ srv' = [srv EXCEPT !.at = "gone"] /\ down' \in {down, <<>>}
     \/ srv.at # "ready" /\ srv' = [srv EXCEPT !.at = "silent"] /\ UNCHANGED down
  /\ cause' = TRUE
  /\ UNCHANGED <<want, client, sock, up, task, setups, exposed>>

-----------------------------------------------------------------------------
(* The task in connect() *)

\* Mutant: connect() has no except clause.
OpenUnlessPool(closes) == sock' = IF closes THEN [sock EXCEPT !.open = FALSE] ELSE sock

\* connect() of the package closes the connection whatever happened; NzPool does for
\* an Exception of on_connect only.
Closed(closes) == sock' = IF closes \/ want.caller = "connect" THEN [sock EXCEPT !.open = FALSE] ELSE sock

\* _close_failed_handshake(): shuts the socket it knows.
HandshakeFails ==
  /\ task = "handshake" /\ client.at = "failed"
  /\ task' = "failed" /\ sock' = IF sock.held THEN [sock EXCEPT !.open = FALSE] ELSE sock
  /\ UNCHANGED <<want, client, up, down, srv, setups, exposed, cause>>
Established ==
  /\ task = "handshake" /\ client.at = "done"
  /\ task' = "setup" /\ client' = [client EXCEPT !.at = "over"]
  /\ UNCHANGED <<want, sock, up, down, srv, setups, exposed, cause>>

\* A setup statement; the four bytes after the last ReadyForQuery are read first.
Ask ==
  /\ task = "setup" /\ setups < Setups /\ sock.open
  /\ IF setups = 0 THEN UNCHANGED down ELSE down # <<>> /\ Head(down).m = "tail" /\ down' = Tail(down)
  /\ up' = Append(up, M("set")) /\ task' = "asked"
  /\ UNCHANGED <<want, client, sock, srv, setups, exposed, cause>>
Answer ==
  /\ task \in {"asked", "erred"} /\ down # <<>> /\ sock.open
  /\ down' = Tail(down)
  /\ LET m == Head(down).m IN
     /\ task' = CASE m = "E" -> "erred"
                  [] m = "Z" -> IF task = "erred" THEN "failed" ELSE "setup"
                  [] OTHER -> task
     /\ setups' = IF m = "Z" /\ task = "asked" THEN setups + 1 ELSE setups
     /\ IF task' = "failed" THEN Closed(FALSE) ELSE UNCHANGED sock
  /\ UNCHANGED <<want, client, up, srv, exposed, cause>>

\* The end of the stream closes the connection.
SetupEof ==
  /\ task \in {"setup", "asked", "erred"} /\ srv.at = "gone" /\ down = <<>>
  /\ task' = "failed" /\ sock' = [sock EXCEPT !.open = FALSE]
  /\ UNCHANGED <<want, client, up, down, srv, setups, exposed, cause>>

\* Mutant: leaves the four bytes after the last ReadyForQuery to the first statement.
SetupDoneUnread ==
  /\ task = "setup" /\ setups = Setups /\ down # <<>> /\ Head(down).m = "tail"
  /\ task' = "callback"
  /\ UNCHANGED <<want, client, sock, up, down, srv, setups, exposed, cause>>

SetupDone ==
  /\ task = "setup" /\ setups = Setups /\ down # <<>> /\ Head(down).m = "tail"
  /\ down' = Tail(down) /\ task' = "callback"
  /\ UNCHANGED <<want, client, sock, up, srv, setups, exposed, cause>>

\* on_connect, which may raise
OnConnect ==
  /\ task = "callback"
  /\ \/ task' = "connected" /\ UNCHANGED <<sock, cause>>
     \/ task' = "failed" /\ cause' = TRUE /\ Closed(TRUE)
  /\ UNCHANGED <<want, client, up, down, srv, setups, exposed>>

Cancel ==
  /\ task \in {"handshake", "setup", "asked", "erred", "callback"}
  /\ task' = "cancelled"
  /\ IF task = "handshake" THEN sock' = IF sock.held THEN [sock EXCEPT !.open = FALSE] ELSE sock
     ELSE Closed(FALSE)
  /\ UNCHANGED <<want, client, up, down, srv, setups, exposed, cause>>

Task == HandshakeFails \/ Established \/ Ask \/ Answer \/ SetupEof \/ SetupDone \/ OnConnect

Over == task = "connected" \/ (GivenUp /\ client.at \in {"over", "done", "failed"})

Next ==
  \/ Worker \/ ServerTake \/ ServerSays \/ ServerStops \/ Task \/ Cancel
  \/ Over /\ UNCHANGED vars

Spec == Init /\ [][Next]_vars

\* Threads run, socket operations of the handshake time out, and the server works.
FairSpec == Spec /\ WF_vars(Worker) /\ WF_vars(Task) /\ WF_vars(ServerTake \/ ServerSays)

-----------------------------------------------------------------------------
(* Properties *)

\* With TLS required - securityLevel 2 without ssl_allow_fallback, or 3 - no user name,
\* option or password leaves in the clear, whatever the server answers.
NoSecretInClear ==
  want.level = 3 \/ (want.level = 2 /\ ~want.fallback) => ~exposed

\* A connection that was opened agrees with its server: on the version and on TLS, the
\* key for cancel() is the server's, and the wire is clean for the first statement.
Agreement ==
  task = "connected" /\ sock.open /\ srv.at = "ready" =>
    /\ client.version = srv.version
    /\ client.secured = srv.tls /\ sock.tls = srv.tls
    /\ client.key = srv.key
    /\ up = <<>> /\ down = <<>>

\* connect() fails only for a reason: what the server refused or failed to do, a policy
\* of the caller, TLS, on_connect; never because the two got out of step.
FailureHasCause == task = "failed" => cause

\* connect() ends, and one that failed or was cancelled leaves no socket open, not even
\* the one a worker thread is wrapping into TLS at that moment.
ConnectSettles ==
  <>[](task = "connected" \/ (GivenUp /\ (sock.open => want.caller = "pool")))
=============================================================================
