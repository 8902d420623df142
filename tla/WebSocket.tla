----------------------------- MODULE WebSocket -----------------------------
(***************************************************************************)
(* The framing of luwu/http/ws_session.cpp, which WSSession and            *)
(* WSConnection share, and the two handshakes.                             *)
(*                                                                         *)
(* A stream is a sequence of pieces, as in HttpParser: frame heads, length *)
(* fields, masking keys and bytes.  readFixSize asks for exactly one of    *)
(* them, so it does not matter how they arrive.  A byte is what was        *)
(* written and the set of keys it is XORed with.  The limits of the three  *)
(* forms of a length are constants: 126 and 65536 in the code.             *)
(***************************************************************************)
EXTENDS HttpParser

CONSTANTS
    Form16, Form64,   \* from which size on a length has 16 and 64 bits
    MaxMessage        \* websocket.message.max_size

ASSUME WebSocketAssumption ==
    Form16 \in Nat \ {0} /\ Form64 \in Nat /\ Form16 < Form64 /\ MaxMessage \in Nat

----------------------------------------------------------------------------
(***************************************************************************)
(* Sending.                                                                *)
(***************************************************************************)
\* data[i] ^= mask[i % 4].
Xor(data, key) ==
    [i \in 1..Len(data) |->
        LET byte == <<key, (i - 1) % 4>>
        IN [data[i] EXCEPT !.keys = IF byte \in @ THEN @ \ {byte} ELSE @ \cup {byte}]]

FrameHead(opcode, fin, mask, payload) ==
    Piece("head", [opcode |-> opcode, fin |-> fin, mask |-> mask, payload |-> payload])

PayloadOf(size) == CASE size < Form16 -> size
                     [] size >= Form16 /\ size < Form64 -> Form16
                     [] OTHER -> Form16 + 1

LengthField(size) == CASE PayloadOf(size) = Form16     -> <<Piece("len16", size % Form64)>>
                       [] PayloadOf(size) = Form16 + 1 -> <<Piece("len64", size)>>
                       [] OTHER                        -> <<>>

\* WSSendMessage: what is written, and whether the stream is still open.  A
\* client masks the data of the message in place.  Writing no bytes counts as
\* a failure, after the head is written.
WSSendMessage(client, opcode, data, fin, key) ==
    [bytes |-> <<FrameHead(opcode, fin, client, PayloadOf(Len(data)))>> \o LengthField(Len(data))
               \o (IF client THEN <<Piece("mask", key)>> ELSE <<>>)
               \o (IF client THEN [i \in 1..Len(data) |-> Piece("byte", Xor(data, key)[i])]
                             ELSE [i \in 1..Len(data) |-> Piece("byte", data[i])]),
     open |-> data # <<>>]

WSPing == <<FrameHead("PING", TRUE, FALSE, 0)>>
WSPong == <<FrameHead("PONG", TRUE, FALSE, 0)>>

----------------------------------------------------------------------------
(***************************************************************************)
(* Receiving.                                                              *)
(***************************************************************************)
\* Mutant of LengthPieces: the length of the second form is taken as a payload.
LengthPiecesOnly64(head) == IF head.payload > Form16 THEN 1 ELSE 0

\* The pieces between a head and its payload.
LengthPieces(head) == IF head.payload >= Form16 THEN 1 ELSE 0
MaskPieces(head)   == IF head.mask THEN 1 ELSE 0

\* One data frame at the front of the stream: its length, key and payload.
Frame(in) ==
    LET head   == in[1].v
        length == IF LengthPieces(head) = 1 THEN in[2].v ELSE head.payload
        first  == 1 + LengthPieces(head) + MaskPieces(head)
        data   == [i \in 1..length |-> in[first + i].v]
    IN [length |-> length, rest |-> SubSeq(in, first + length + 1, Len(in)),
        data |-> IF head.mask THEN Xor(data, in[first].v) ELSE data]

DataFrames == {"CONTINUE", "TEXT_FRAME", "BIN_FRAME"}

\* WSRecvMessage, with what it has so far: the opcode, the data and the pongs
\* it has sent.  It ends with a message, closed, waiting for more, or lost,
\* when it takes something else for a head.  Three things the code does are not
\* what it says: a CLOSE, "断开连接" in ws_session.h:22, is an opcode like any
\* unknown one and is passed over; the limit is met at MaxMessage bytes, where
\* the log says "length >"; and the payload of a control frame stays in the
\* stream.  A frame without data closes, because readFixSize of no bytes returns
\* 0, which counts as a failure.
RECURSIVE WSRecvMessage(_, _, _)
WSRecvMessage(client, in, got) ==
    IF in = <<>> THEN [end |-> "wait", got |-> got, rest |-> in] ELSE
    LET head == in[1].v IN
    CASE in[1].k # "head" -> [end |-> "lost", got |-> got, rest |-> in]
      [] in[1].k = "head" /\ head.opcode \notin DataFrames ->
           WSRecvMessage(client, Tail(in), [got EXCEPT !.pongs = @ + (IF head.opcode = "PING" THEN 1 ELSE 0)])
      [] in[1].k = "head" /\ head.opcode \in DataFrames /\ ~client /\ ~head.mask ->
           [end |-> "closed", got |-> got, rest |-> in]
      [] OTHER ->
           LET f == Frame(in)
               more == [got EXCEPT !.data = @ \o f.data,
                                   !.opcode = IF @ = "none" /\ head.opcode # "CONTINUE" THEN head.opcode ELSE @]
           IN IF Len(got.data) + f.length >= MaxMessage \/ f.length = 0
              THEN [end |-> "closed", got |-> got, rest |-> in]
              ELSE IF head.fin THEN [end |-> "message", got |-> more, rest |-> f.rest]
                               ELSE WSRecvMessage(client, f.rest, more)

Fresh == [opcode |-> "none", data |-> <<>>, pongs |-> 0]

\* The loop of a receiver: its messages, its pongs and how it ended.
RECURSIVE ReceiveAll(_, _, _)
ReceiveAll(client, in, log) ==
    Apply(LAMBDA r :
        IF r.end = "message"
        THEN ReceiveAll(client, r.rest, [log EXCEPT !.messages = Append(@, <<r.got.opcode, r.got.data>>),
                                                    !.pongs = @ + r.got.pongs])
        ELSE [log EXCEPT !.end = r.end, !.pongs = @ + r.got.pongs],
        WSRecvMessage(client, in, Fresh))

----------------------------------------------------------------------------
(***************************************************************************)
(* The handshakes.  A name and a value are the text the parser's callbacks *)
(* were given.                                                             *)
(***************************************************************************)
Says(p, name, value) == name \in DOMAIN p.m_headers /\ p.m_headers[name] = value

\* WSSession::handleShake: recvRequest, then the headers: Upgrade, Connection and
\* Sec-webSocket-Version with the values wanted, and a key that is not empty.
HandleShake(p, wanted, key) ==
    /\ p.m_finished /\ ~p.m_error
    /\ \A h \in wanted : Says(p, h[1], h[2])
    /\ key \in DOMAIN p.m_headers /\ p.m_headers[key] # <<>>

\* WSConnection::Create: the status of the response.  What recvResponse has
\* read beyond its end is dropped with its buffer.
Create(p) == p.m_finished /\ ~p.m_error /\ p.status_code = 101

\* A peer's stream after a handshake whose read returned n pieces of it: the
\* parser and what the frames are read from.
AfterCreate(stream, n) ==
    [p |-> Execute(NewParser("response"), SubSeq(stream, 1, n)), in |-> SubSeq(stream, n + 1, Len(stream))]
=============================================================================
