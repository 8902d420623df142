------------------------------- MODULE MCHttp -------------------------------
(***************************************************************************)
(* Model-checking instances of HttpExchange: two callers share a pool, or  *)
(* one caller makes three requests; messages for the parser alone; and     *)
(* scripts of WebSocket frames.                                            *)
(***************************************************************************)
EXTENDS HttpExchange, WebSocket

CONSTANTS a1, a2

Req(id, close, body, part, direct) ==
    [id |-> id, close |-> close, body |-> body, part |-> part, direct |-> direct]

TwoCallers == a1 :> <<Req(1, FALSE, FALSE, "tail", FALSE)>> @@ a2 :> <<Req(2, FALSE, TRUE, "slash", FALSE)>>

OneCaller == a1 :> <<Req(1, FALSE, FALSE, "slash", FALSE), Req(2, TRUE, TRUE, "tail", FALSE),
                     Req(3, FALSE, FALSE, "tail", TRUE)>>
          @@ a2 :> <<>>

SharedOrAlone == {TwoCallers, OneCaller}

OneRequest == {a1 :> <<Req(1, FALSE, TRUE, "slash", FALSE)>>}

\* A message for a parser, and what it is to make of it.
Msg(type, bytes, body, upgrade) ==
    [type |-> type, bytes |-> bytes, body |-> body, upgrade |-> upgrade]

Line(code) == <<Piece("http", 1), SP, Piece("status", code), SP, Piece("reason", "r"), CR, LF>>
Chunk(n) == <<Piece("hex", n), CR, LF>> \o [i \in 1..n |-> Piece("data", n)]
            \o (IF n = 0 THEN <<>> ELSE <<CR, LF>>)
UpgradeHeader == <<FieldName("upgrade"), Value("websocket")>>
ConnectionHeader == <<FieldName("connection"), Value("Upgrade")>>
VersionHeader == <<FieldName("sec-websocket-version"), Length(13)>>
Key == FieldName("sec-websocket-key")
Upgrade == Header("upgrade", UpgradeHeader[2]) \o Header("connection", ConnectionHeader[2])
Shake == Upgrade \o Header("sec-websocket-version", VersionHeader[2]) \o Header("sec-websocket-key", Value("key"))
Chunked == Header("transfer-encoding", Value("chunked"))
Short == Req(1, FALSE, TRUE, "tail", FALSE)

Messages == {
    Msg("request", RequestBytes(Short), Body(1), FALSE),
    Msg("request", <<Piece("method", "GET"), SP>> \o Url(Short) \o <<SP, Piece("http", 1), CR, LF>> \o Shake
                   \o <<CR, LF, Piece("data", 1)>>, <<>>, TRUE),
    Msg("response", Line(200) \o Header("x", <<>>) \o Chunked \o <<CR, LF>> \o Chunk(2) \o Chunk(1) \o Chunk(0)
                    \o Header("x", Value("trailer")) \o <<CR, LF>>,
        <<Piece("data", 2), Piece("data", 2), Piece("data", 1)>>, FALSE),
    Msg("response", Line(101) \o Upgrade \o <<CR, LF, Piece("data", 1), Piece("data", 1)>>, <<>>, TRUE),
    Msg("response", Line(200) \o Upgrade \o Header("content-length", Length(2)) \o <<CR, LF>> \o Body(1), Body(1), FALSE),
    Msg("response", Line(204) \o <<CR, LF>>, <<>>, FALSE)}

\* Execute on the parts of a message cut before i and before j; a part that is
\* empty is not read, and what follows an upgrade is not given to the parser.
Feed(p, bytes) == IF bytes = <<>> \/ p.m_finished THEN p ELSE Execute(p, bytes)
InParts(m, i, j) ==
    Feed(Feed(Feed(NewParser(m.type), SubSeq(m.bytes, 1, i - 1)), SubSeq(m.bytes, i, j - 1)),
         SubSeq(m.bytes, j, Len(m.bytes)))

\* The parser and the frames are examined before the exchange begins: they are
\* operators, and what they compute does not depend on its state.
BeforeAll == \A a \in Callers : made[a] = 0

\* However a message is cut in three, the parser finds its end, its body and
\* whether it upgrades; its headers are those of the uncut message unless a
\* read ended inside a name, a value or a target.  A client finds an upgrade in
\* a 101 only; the server accepts none, because HttpRequestParser::execute makes
\* an error of it (http_parser.cpp:222) and handleShake is given no request.
SplitSafe ==
    BeforeAll => \A m \in Messages : \A i \in 1..Len(m.bytes) : \A j \in i..Len(m.bytes) :
        \E p \in {InParts(m, i, j)}, whole \in {InParts(m, 1, 1)} :
           p.errno # "CB_url" =>
             /\ p.errno = "OK" /\ p.m_finished /\ p.m_body = m.body /\ p.upgrade = m.upgrade
             /\ p.m_error = (m.type = "request" /\ m.upgrade)
             /\ Create(p) = (m.type = "response" /\ m.upgrade)
             /\ m.type = "request" => ~HandleShake(p, {UpgradeHeader, ConnectionHeader, VersionHeader}, Key)
             /\ ~p.split => p.m_headers = whole.m_headers /\ p.m_url = whole.m_url

----------------------------------------------------------------------------
\* What a WebSocket peer sends: messages and fragments with data in them, and
\* the control frames of WSPing and WSPong.
Sizes == {Form16 - 1, Form16, Form64 - 1, Form64}
Sends == [kind : {"message"}, opcode : {"TEXT_FRAME", "CONTINUE"}, size : Sizes, fin : BOOLEAN]
         \cup [kind : {"control"}, opcode : {"PING", "PONG"}, size : {0}, fin : {TRUE}]
Scripts == UNION {[1..n -> Sends] : n \in 1..3}

Data(size, i) == [j \in 1..size |-> [val |-> <<i, j>>, keys |-> {}]]

\* The stream of a script, until a send closes it.
RECURSIVE Stream(_, _, _)
Stream(client, script, i) ==
    IF i > Len(script) THEN <<>>
    ELSE LET s == script[i] IN
         IF s.kind = "control"
         THEN (IF s.opcode = "PING" THEN WSPing ELSE WSPong) \o Stream(client, script, i + 1)
         ELSE Apply(LAMBDA w : w.bytes \o (IF w.open THEN Stream(client, script, i + 1) ELSE <<>>),
                    WSSendMessage(client, s.opcode, Data(s.size, i), s.fin, i))

\* What a peer should make of a script: the fragments up to one that ends a
\* message are one message, with the first opcode that is not CONTINUE.
Before(script, i) == {j \in 1..(i - 1) : \A k \in j..(i - 1) : script[k].kind = "message" => ~script[k].fin}
RECURSIVE Joined(_, _, _)
Joined(script, from, to) ==
    IF from > to THEN <<>>
    ELSE (IF script[from].kind = "message" THEN Data(script[from].size, from) ELSE <<>>) \o Joined(script, from + 1, to)
FirstOf(script, i) == IF Before(script, i) = {} THEN i ELSE CHOOSE j \in Before(script, i) : j - 1 \notin Before(script, i)
MessageAt(script, i) ==
    LET named == {j \in FirstOf(script, i)..i : script[j].kind = "message" /\ script[j].opcode # "CONTINUE"}
    IN <<IF named = {} THEN "none" ELSE script[CHOOSE j \in named : \A k \in named : j <= k].opcode,
         Joined(script, FirstOf(script, i), i)>>

\* The first send that ends the conversation: the message is too long with it.
TotalAt(script, i) == Len(MessageAt(script, i)[2])
Fatal(script, i) == script[i].kind = "message" /\ TotalAt(script, i) > MaxMessage

\* No message, whole or so far, has exactly MaxMessage bytes.
OffLimit(script) == \A i \in 1..Len(script) : script[i].kind = "message" => TotalAt(script, i) # MaxMessage

Until(script) == IF \E i \in 1..Len(script) : Fatal(script, i)
                 THEN CHOOSE i \in 1..Len(script) : Fatal(script, i) /\ \A j \in 1..(i - 1) : ~Fatal(script, j)
                 ELSE Len(script) + 1
Complete(script) == {i \in 1..(Until(script) - 1) : script[i].kind = "message" /\ script[i].fin}
Expected(script) ==
    LET n == Until(script)
    IN [messages |-> [k \in 1..Cardinality(Complete(script)) |->
                        MessageAt(script, CHOOSE i \in Complete(script) :
                                            Cardinality({j \in Complete(script) : j <= i}) = k)],
        pongs |-> Cardinality({i \in 1..Len(script) : i <= n /\ script[i].opcode = "PING"}),
        end |-> IF n > Len(script) THEN "wait" ELSE "closed"]

Silent == [messages |-> <<>>, pongs |-> 0, end |-> "none"]

\* Between two peers that send messages with data, pings and pongs, every
\* message arrives as it was sent, whatever the form of its length, its fragments
\* and the pings between them, and every PING is answered, up to a message longer
\* than MaxMessage, where the connection is closed (WSSendMessage, WSRecvMessage,
\* ws_session.cpp:101-228).  That holds for the frames after a 101 too, if the
\* read of recvResponse ended where the response ends (http_connection.cpp:154).
\* Nothing is claimed where the code disagrees with what it says or with a peer:
\* a CLOSE frame is ignored (ws_session.h:22), a message of exactly MaxMessage
\* bytes is refused (:142, the log at :143 says "length >"), the payload of a
\* control frame is taken for the next head (:112), and a frame without data
\* closes the connection (:156).
FramesArrive ==
    BeforeAll => \A client \in BOOLEAN, script \in Scripts :
        OffLimit(script) => \E stream \in {Stream(client, script, 1)} :
           /\ ReceiveAll(~client, stream, Silent) = Expected(script)
           /\ ~client /\ Len(script) = 1 =>
                 LET shake == Line(101) \o Upgrade \o <<CR, LF>>
                     after == AfterCreate(shake \o stream, Len(shake))
                 IN Create(after.p) /\ ReceiveAll(TRUE, after.in, Silent) = Expected(script)
=============================================================================
