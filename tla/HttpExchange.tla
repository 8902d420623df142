---------------------------- MODULE HttpExchange ----------------------------
(***************************************************************************)
(* Callers of HttpConnectionPool::doRequest, and of HttpConnection::       *)
(* DoRequest, against HttpServer::handleClient: luwu/http/                 *)
(* http_connection.cpp, http_session.cpp, http_server.cpp, http.cpp and    *)
(* luwu/streams.                                                           *)
(*                                                                         *)
(* A connection is two byte streams.  What is written arrives in order,    *)
(* and a read returns any part of what has arrived; both sides parse it    *)
(* with HttpParser.  A request is written in parts, as send() takes them;  *)
(* a response in one step, because its reader can do nothing with a part   *)
(* of it but wait for the rest.  A side that has closed answers bytes it   *)
(* can no longer read with a reset; the network may reset a connection     *)
(* too.  On a connection that is reset read() and write() return -1, which *)
(* the code keeps in a size_t: the loops around them go on with that       *)
(* value, and the model stops there with a fault.                          *)
(***************************************************************************)
EXTENDS HttpParser, FiniteSets

CONSTANTS
    Callers, Conns, None,
    Works,         \* what the callers may be asked for: each caller's sequence of requests
    MaxRequest,    \* m_maxRequest of the pool
    MaxFailures,   \* how many connects fail and connections are reset
    MaxCuts,       \* how many reads and writes transfer less than they could
    ShortWrites    \* how much a short write may take; a read may be cut anywhere

ASSUME ExchangeAssumption ==
    /\ IsFiniteSet(Callers) /\ IsFiniteSet(Conns) /\ None \notin Conns
    /\ \A w \in Works, a \in Callers :
          w[a] \in Seq([id : Nat, close : BOOLEAN, body : BOOLEAN, part : {"tail", "slash"}, direct : BOOLEAN])
    /\ MaxRequest \in Nat \ {0} /\ MaxFailures \in Nat /\ MaxCuts \in Nat
    /\ ShortWrites \subseteq Nat

VARIABLES
    work,            \* the requests of each caller
    keepalive,       \* HttpServer::m_keepalive
    caller,          \* pc, conn, parser and result of each caller
    made,            \* how many of its requests each caller has begun
    pool, m_total,   \* m_coons and m_total
    link,            \* the two streams of each connection and how they ended
    session,         \* pc, parser and request of each HttpSession
    failures, cuts,
    fault            \* the connection on which a read or a write has returned -1

vars == <<work, keepalive, caller, made, pool, m_total, link, session, failures, cuts, fault>>

----------------------------------------------------------------------------
(***************************************************************************)
(* Messages: HttpRequest::dump, HttpResponse::dump, HttpRequest::init.     *)
(***************************************************************************)
FieldName(name) == <<Piece("field", [name |-> name, part |-> 1]), Piece("field", [name |-> name, part |-> 2])>>
Value(v) == <<Piece("value", [value |-> v, part |-> 1]), Piece("value", [value |-> v, part |-> 2])>>
Length(n) == <<Piece("value", [value |-> n, part |-> 1])>>
Header(name, value) == FieldName(name) \o <<Piece("colon", ""), SP>> \o value \o <<CR, LF>>
Url(r) == <<Piece("url", [id |-> r.id, part |-> "head"]), Piece("url", [id |-> r.id, part |-> r.part])>>
Body(id) == <<Piece("data", id), Piece("data", id)>>

Ending(hasBody, id) ==
    IF hasBody THEN Header("content-length", Length(2)) \o <<CR, LF>> \o Body(id) ELSE <<CR, LF>>

RequestBytes(r) ==
    <<Piece("method", "GET"), SP>> \o Url(r) \o <<SP, Piece("http", 1), CR, LF>>
    \o Header("connection", Value(IF r.close THEN "close" ELSE "keep-alive"))
    \o Ending(r.body, r.id)

ResponseBytes(rsp) ==
    <<Piece("http", 1), SP, Piece("status", 200), SP, Piece("reason", "OK"), CR, LF>>
    \o Header("connection", Value(IF rsp.close THEN "close" ELSE "keep-alive"))
    \o Ending(rsp.body, rsp.id)

\* HttpRequest::init: m_close is true unless the header says keep-alive.
IsClose(p) ==
    LET name == FieldName("connection")
    IN ~(name \in DOMAIN p.m_headers /\ p.m_headers[name] = Value("keep-alive"))

LongestMessage == Len(RequestBytes([id |-> 0, close |-> TRUE, body |-> TRUE, part |-> "tail"]))

----------------------------------------------------------------------------
\* The end of a stream is open; "fin", the peer closed it; "rst", a reset came
\* first; or "gone", a reset came after the fin: a read returns 0 as at the fin,
\* a write -1.  torn and raced are history variables: the network reset the
\* connection; a request was begun on it while the server was about to close it,
\* or in parts after the server had.
Idle     == [pc |-> "idle", conn |-> None, parser |-> NewParser("response"), result |-> "none",
             written |-> 0]
NoLink   == [st |-> "free", uses |-> 0, up |-> <<>>, down |-> <<>>, upEnd |-> "open",
             downEnd |-> "open", sent |-> None, torn |-> FALSE, raced |-> FALSE]
NoSession == [pc |-> "none", parser |-> NewParser("request")]

Init ==
    /\ work \in Works /\ keepalive \in BOOLEAN
    /\ caller = [a \in Callers |-> Idle] /\ made = [a \in Callers |-> 0]
    /\ pool = <<>> /\ m_total = 0
    /\ link = [k \in Conns |-> NoLink] /\ session = [k \in Conns |-> NoSession]
    /\ failures = 0 /\ cuts = 0 /\ fault = None

Request(a) == work[a][made[a]]
At(a, point) == fault = None /\ caller[a].pc = point
Goto(a, point) == caller' = [caller EXCEPT ![a].pc = point]

\* A read or a write of n bytes out of those it could transfer.
Transfer(n, most) ==
    /\ n \in 1..most
    /\ IF n = most THEN UNCHANGED cuts ELSE cuts < MaxCuts /\ cuts' = cuts + 1

\* One side closes: what the other has sent and nobody will read is answered
\* with a reset, otherwise the peer reads the end of the stream.
ClientClose(l) == [l EXCEPT !.st = "closed", !.down = <<>>,
                            !.upEnd = IF @ = "rst" \/ l.down # <<>> THEN "rst" ELSE "fin"]

\* Mutant of ServerClose: the socket is not closed.
LeaveOpen(l) == [l EXCEPT !.up = <<>>]

ServerClose(l) == [l EXCEPT !.up = <<>>,
                            !.downEnd = IF @ = "rst" \/ l.up # <<>> THEN "rst" ELSE "fin"]

----------------------------------------------------------------------------
(***************************************************************************)
(* HttpConnectionPool::doRequest and HttpConnection::DoRequest, which      *)
(* makes a connection of its own for each request.                         *)
(***************************************************************************)
Begin(a) ==
    /\ At(a, "idle") /\ made[a] < Len(work[a])
    /\ made' = [made EXCEPT ![a] = @ + 1]
    /\ caller' = [caller EXCEPT ![a] = [Idle EXCEPT !.pc = IF work[a][made[a] + 1].direct THEN "connect" ELSE "get"]]
    /\ UNCHANGED <<work, keepalive, pool, m_total, link, session, failures, cuts, fault>>

\* getConnection, under the lock: the first connection that is connected.  The
\* test of its age never holds, because m_createTime stays 0; those before it
\* are deleted and counted off.
Usable(k) == link[k].st = "open"

\* Mutant of GetConnection: the connection stays in the list.
GetWithoutPop(a) ==
    /\ At(a, "get")
    /\ IF pool = <<>> THEN Goto(a, "connect")
       ELSE caller' = [caller EXCEPT ![a].pc = "send", ![a].conn = Head(pool)]
    /\ UNCHANGED <<work, keepalive, made, pool, m_total, link, session, failures, cuts, fault>>

GetConnection(a) ==
    /\ At(a, "get")
    /\ LET live == {i \in 1..Len(pool) : Usable(pool[i])}
           first == IF live = {} THEN Len(pool) + 1 ELSE CHOOSE i \in live : \A j \in live : i <= j
       IN /\ m_total' = m_total - (first - 1)
          /\ IF live = {}
             THEN pool' = <<>> /\ Goto(a, "connect")
             ELSE /\ pool' = SubSeq(pool, first + 1, Len(pool))
                  /\ caller' = [caller EXCEPT ![a].pc = "send", ![a].conn = pool[first]]
    /\ UNCHANGED <<work, keepalive, made, link, session, failures, cuts, fault>>

\* A new connection; the server's accept loop starts a handler for it.  Which of
\* the free ones it is makes no difference.
Free(k) ==
    /\ link[k].st # "open" /\ session[k].pc \in {"none", "ended"}
    /\ \A b \in Callers : caller[b].conn # k

Connect(a) ==
    /\ At(a, "connect")
    /\ \E k \in Conns : Free(k)
    /\ LET k == CHOOSE k \in Conns : Free(k)
       IN /\ link' = [link EXCEPT ![k] = [NoLink EXCEPT !.st = "open"]]
          /\ session' = [session EXCEPT ![k] = [NoSession EXCEPT !.pc = "recv"]]
          /\ caller' = [caller EXCEPT ![a].pc = "send", ![a].conn = k]
    /\ m_total' = m_total + (IF Request(a).direct THEN 0 ELSE 1)
    /\ UNCHANGED <<work, keepalive, made, pool, failures, cuts, fault>>

ConnectFails(a) ==
    /\ At(a, "connect")
    /\ failures < MaxFailures
    /\ failures' = failures + 1
    /\ caller' = [caller EXCEPT ![a] = Idle]
    /\ UNCHANGED <<work, keepalive, made, pool, m_total, link, session, cuts, fault>>

\* sendRequest: writeFixSize writes what is left of the request, n bytes at a
\* time.  A peer that has closed takes the bytes and answers with a reset, which
\* comes after its fin, at once or later; on a connection that is reset write()
\* returns -1 (or the process is sent SIGPIPE).
Unwritten(a) == Len(RequestBytes(Request(a))) - caller[a].written

\* The caller begins to write to a server that has answered and goes on to
\* close(), or writes to one that has closed and has more to write.
Races(a, n) ==
    LET pc == session[caller[a].conn].pc
    IN caller[a].written = 0 /\ (pc = "close" \/ (pc = "ended" /\ n < Unwritten(a)))

SendRequest(a, n) ==
    /\ At(a, "send")
    /\ link[caller[a].conn].downEnd \notin {"rst", "gone"}
    /\ Transfer(n, Unwritten(a))
    /\ LET k == caller[a].conn
           part == SubSeq(RequestBytes(Request(a)), caller[a].written + 1, caller[a].written + n)
           taken == [link[k] EXCEPT !.sent = Request(a), !.raced = @ \/ Races(a, n)]
       IN \/ /\ link[k].downEnd = "open"
             /\ link' = [link EXCEPT ![k] = [taken EXCEPT !.up = @ \o part]]
          \/ /\ link[k].downEnd = "fin"
             /\ \E end \in {"fin", "gone"} : link' = [link EXCEPT ![k] = [taken EXCEPT !.downEnd = end]]
    /\ caller' = [caller EXCEPT ![a].pc = IF n = Unwritten(a) THEN "recv" ELSE "send", ![a].written = @ + n]
    /\ UNCHANGED <<work, keepalive, made, pool, m_total, session, failures, fault>>

SendFails(a) ==
    /\ At(a, "send") /\ link[caller[a].conn].downEnd \in {"rst", "gone"}
    /\ fault' = caller[a].conn
    /\ UNCHANGED <<work, keepalive, caller, made, pool, m_total, link, session, failures, cuts>>

\* recvResponse reads n bytes.
RecvResponse(a, n) ==
    /\ At(a, "recv")
    /\ UNCHANGED <<work, keepalive, made, pool, m_total, session, failures, fault>>
    /\ Transfer(n, Len(link[caller[a].conn].down))
    /\ \E k \in {caller[a].conn} :
       \E p \in {Execute(caller[a].parser, SubSeq(link[k].down, 1, n))} :
          CASE p.m_error ->
                 /\ caller' = [caller EXCEPT ![a].pc = "release", ![a].result = "TIMEOUT"]
                 /\ link' = [link EXCEPT ![k] = ClientClose([@ EXCEPT !.down = SubSeq(@, n + 1, Len(@))])]
            [] ~p.m_error /\ p.m_finished ->
                 /\ caller' = [caller EXCEPT ![a].pc = "release", ![a].result = "OK", ![a].parser = p]
                 /\ link' = [link EXCEPT ![k].down = SubSeq(@, n + 1, Len(@))]
            [] OTHER ->
                 /\ caller' = [caller EXCEPT ![a].parser = p]
                 /\ link' = [link EXCEPT ![k].down = SubSeq(@, n + 1, Len(@))]

\* It reads 0, the end of the stream, or -1.
RecvEnd(a) ==
    /\ At(a, "recv")
    /\ LET k == caller[a].conn
       IN /\ link[k].down = <<>> /\ link[k].downEnd # "open"
          /\ IF link[k].downEnd = "rst"
             THEN fault' = k /\ UNCHANGED <<caller, link>>
             ELSE /\ caller' = [caller EXCEPT ![a].pc = "release", ![a].result = "TIMEOUT"]
                  /\ link' = [link EXCEPT ![k] = ClientClose(@)]
                  /\ UNCHANGED fault
    /\ UNCHANGED <<work, keepalive, made, pool, m_total, session, failures, cuts>>

\* DoRequest returns: the connection is deleted.
Delete(a) ==
    /\ At(a, "release") /\ Request(a).direct
    /\ link' = [link EXCEPT ![caller[a].conn] = IF @.st = "open" THEN ClientClose(@) ELSE @]
    /\ caller' = [caller EXCEPT ![a] = Idle]
    /\ UNCHANGED <<work, keepalive, made, pool, m_total, session, failures, cuts, fault>>

\* ReleasePtr, when doRequest returns.
Release(a) ==
    /\ At(a, "release") /\ ~Request(a).direct
    /\ LET k == caller[a].conn
           uses == link[k].uses + 1
       IN IF ~Usable(k) \/ uses >= MaxRequest
          THEN /\ link' = [link EXCEPT ![k] = IF Usable(k) THEN ClientClose(@) ELSE @]
               /\ Goto(a, "drop") /\ UNCHANGED pool
          ELSE /\ link' = [link EXCEPT ![k].uses = uses]
               /\ pool' = Append(pool, k)
               /\ caller' = [caller EXCEPT ![a] = Idle]
    /\ UNCHANGED <<work, keepalive, made, m_total, session, failures, cuts, fault>>

\* delete ptr; --m_total.
Drop(a) ==
    /\ At(a, "drop")
    /\ m_total' = m_total - 1
    /\ caller' = [caller EXCEPT ![a] = Idle]
    /\ UNCHANGED <<work, keepalive, made, pool, link, session, failures, cuts, fault>>

----------------------------------------------------------------------------
(***************************************************************************)
(* HttpServer::handleClient.                                               *)
(***************************************************************************)
InSession(k, point) == fault = None /\ session[k].pc = point

\* recvRequest reads n bytes; at an error of the parser the session is closed.
RecvRequest(k, n) ==
    /\ InSession(k, "recv")
    /\ UNCHANGED <<work, keepalive, caller, made, pool, m_total, failures, fault>>
    /\ Transfer(n, Len(link[k].up))
    /\ link' = [link EXCEPT ![k].up = SubSeq(@, n + 1, Len(@))]
    /\ \E p \in {Execute(session[k].parser, SubSeq(link[k].up, 1, n))} :
          session' = [session EXCEPT ![k].parser = p,
                                     ![k].pc = CASE p.m_error -> "close"
                                                 [] ~p.m_error /\ p.m_finished -> "handle"
                                                 [] OTHER -> "recv"]

\* It reads 0 or -1.
RequestEnd(k) ==
    /\ InSession(k, "recv") /\ link[k].up = <<>> /\ link[k].upEnd # "open"
    /\ IF link[k].upEnd = "rst" THEN fault' = k /\ UNCHANGED session
                                ELSE session' = [session EXCEPT ![k].pc = "close"] /\ UNCHANGED fault
    /\ UNCHANGED <<work, keepalive, caller, made, pool, m_total, link, failures, cuts>>

\* The servlet answers, with a body or without one, and sendResponse writes it;
\* the loop ends unless both sides keep the connection.
Handle(k, body) ==
    /\ InSession(k, "handle")
    /\ LET p == session[k].parser
           close == IsClose(p) \/ ~keepalive
           rsp == [close |-> close, body |-> body, id |-> Head(p.m_url).v.id]
       IN IF link[k].upEnd = "rst"
          THEN fault' = k /\ UNCHANGED <<session, link>>
          ELSE /\ link' = [link EXCEPT ![k].down = IF link[k].upEnd = "open" THEN @ \o ResponseBytes(rsp) ELSE @]
               /\ session' = [session EXCEPT ![k] = IF close THEN [@ EXCEPT !.pc = "close"]
                                                            ELSE [NoSession EXCEPT !.pc = "recv"]]
               /\ UNCHANGED fault
    /\ UNCHANGED <<work, keepalive, caller, made, pool, m_total, failures, cuts>>

\* session->close(), and the handler ends.
CloseSession(k) ==
    /\ InSession(k, "close")
    /\ session' = [session EXCEPT ![k].pc = "ended"]
    /\ link' = [link EXCEPT ![k] = ServerClose(@)]
    /\ UNCHANGED <<work, keepalive, caller, made, pool, m_total, failures, cuts, fault>>

\* The network.
Reset(k) ==
    /\ fault = None /\ failures < MaxFailures
    /\ link[k].st = "open" /\ link[k].downEnd = "open"
    /\ failures' = failures + 1
    /\ link' = [link EXCEPT ![k].up = <<>>, ![k].down = <<>>, ![k].upEnd = "rst",
                          ![k].downEnd = "rst", ![k].torn = TRUE]
    /\ UNCHANGED <<work, keepalive, caller, made, pool, m_total, session, cuts, fault>>

\* Both sides, with reads and writes that transfer all they can.
CallerStep(a) ==
    \/ GetConnection(a) \/ Connect(a) \/ ConnectFails(a)
    \/ (caller[a].pc = "send" /\ SendRequest(a, Unwritten(a))) \/ SendFails(a)
    \/ (caller[a].pc = "recv" /\ RecvResponse(a, Len(link[caller[a].conn].down)))
    \/ RecvEnd(a) \/ Release(a) \/ Drop(a) \/ Delete(a)

SessionStep(k) ==
    \/ RecvRequest(k, Len(link[k].up)) \/ RequestEnd(k) \/ CloseSession(k)
    \/ \E body \in BOOLEAN : Handle(k, body)

\* A read or a write that transfers less.
ShortTransfer ==
    \/ \E n \in 1..LongestMessage :
          (\E a \in Callers : RecvResponse(a, n)) \/ (\E k \in Conns : RecvRequest(k, n))
    \/ \E n \in ShortWrites, a \in Callers : SendRequest(a, n)

Next ==
    \/ \E a \in Callers : Begin(a) \/ CallerStep(a)
    \/ \E k \in Conns : SessionStep(k) \/ Reset(k)
    \/ ShortTransfer

Spec == Init /\ [][Next]_vars

\* The fibers of both sides run when they can, and only finitely many reads
\* and writes are short.
FairSpec ==
    /\ Spec
    /\ \A a \in Callers : WF_vars(CallerStep(a))
    /\ \A k \in Conns : WF_vars(SessionStep(k))

----------------------------------------------------------------------------
(***************************************************************************)
(* Properties.                                                             *)
(***************************************************************************)

\* The servlet is given the request that was sent: its target, its connection
\* header and its body.
AsSent(k) ==
    LET p == session[k].parser
        r == link[k].sent
    IN /\ p.m_url = Url(r)
       /\ IsClose(p) = r.close
       /\ p.m_body = IF r.body THEN Body(r.id) ELSE <<>>

\* However the bytes of a request arrive, the servlet is given what was sent,
\* if no read ended inside a target, a field name or a field value
\* (HttpSession::recvRequest, http_parser.cpp:131-177).
ServedAsSent ==
    \A k \in Conns : session[k].pc = "handle" /\ ~session[k].parser.split => AsSent(k)

\* The callbacks are called when a target, a name or a value is complete
\* ("http url 解析完成后", http_parser.cpp:129), so that the servlet is always
\* given what was sent.
ServedWhole == \A k \in Conns : session[k].pc = "handle" => AsSent(k)

\* A caller that is told OK has the answer to its own request, and the pool
\* counts its connections: m_total is those in the pool and those in use, each
\* held once and all of the pool's connected (HttpConnectionPool).
AnswersOwn ==
    /\ \A a \in Callers : caller[a].pc = "release" /\ caller[a].result = "OK" =>
          caller[a].parser.m_body = Body(Request(a).id)
    /\ m_total = Len(pool) + Cardinality({a \in Callers : caller[a].conn # None /\ ~Request(a).direct})
    /\ \A i, j \in 1..Len(pool) : i # j => pool[i] # pool[j]
    /\ \A a \in Callers, i \in 1..Len(pool) : pool[i] # caller[a].conn /\ Usable(pool[i])
    /\ \A a, b \in Callers : a # b /\ caller[a].conn # None => caller[a].conn # caller[b].conn

\* A read or a write that fails with -1, which the callers take for a length
\* (stream.cpp:38, http_session.cpp:22, http_connection.cpp:154), is on a
\* connection that the network reset, or whose request the server refused
\* because a read had cut it, or on which a caller began a request while the
\* server was closing it: ReleasePtr keeps a connection whose response said
\* "connection: close", and a request written between sendResponse and close()
\* (http_server.cpp:33, :39), or in parts after it, meets a reset.  A request
\* written at once on a connection the server has already closed only finds the
\* end of the stream, and no other exchange fails, whoever closes first.
BrokenOnlyByReset ==
    fault # None => link[fault].torn \/ link[fault].raced \/ session[fault].parser.split

\* The caller waits for the body of a response that announced no length, and
\* the server for the next request: HttpResponse::dump writes no
\* content-length when the body is empty.
BothWait(a) ==
    /\ caller[a].pc = "recv" /\ caller[a].parser.state = "s_body_identity_eof"
    /\ session[caller[a].conn].pc = "recv"

\* Every call of doRequest returns, unless caller and server wait for each
\* other over a response without a body (http.cpp:262-266).
RequestsEnd ==
    \A a \in Callers :
        caller[a].pc # "idle" ~> (caller[a].pc = "idle" \/ fault # None \/ BothWait(a))
=============================================================================
