----------------------------- MODULE HttpParser -----------------------------
(***************************************************************************)
(* luwu/http/http-parser/http_parser.c, the state machine, with the        *)
(* callbacks HttpRequestParser and HttpResponseParser give it              *)
(* (luwu/http/http_parser.cpp).                                            *)
(*                                                                         *)
(* A byte string is a sequence of pieces [k, v]: what the machine treats   *)
(* alike is one piece, and what a buffer boundary may cut in two where it  *)
(* matters (the target, a field name, a field value) comes in two pieces.  *)
(* A parser is a record: the fields of http_parser that decide something,  *)
(* the mark and the text since the mark, and the wrapper's m_... members.  *)
(* The states keep their names; states that only spell a constant out      *)
(* ("HTTP/", the digits of a number) are one.                              *)
(***************************************************************************)
EXTENDS Integers, Sequences, TLC

Piece(k, v) == [k |-> k, v |-> v]
CR == Piece("cr", "")
LF == Piece("lf", "")
SP == Piece("sp", "")

\* ULLONG_MAX: no length is known.
Unknown == -1

\* http_parser_init and the constructors of the wrappers.  `split` is not in
\* the code: it notes that a name, value or target came in more than one call.
NewParser(type) ==
    [type |-> type, state |-> IF type = "request" THEN "s_start_req" ELSE "s_start_res",
     flags |-> {}, content_length |-> Unknown, header_state |-> "general",
     method |-> "none", minor |-> 0, status_code |-> 0, upgrade |-> FALSE, errno |-> "OK",
     mark |-> "none", text |-> <<>>, exit |-> FALSE, split |-> FALSE,
     m_url |-> <<>>, m_filed |-> <<>>, m_headers |-> <<>>, m_body |-> <<>>,
     m_finished |-> FALSE, m_error |-> FALSE]

Fail(p, errno) == [p EXCEPT !.errno = errno]
To(p, state) == [p EXCEPT !.state = state]
MarkAt(p, mark, b) == [p EXCEPT !.mark = mark, !.text = <<b>>]
More(p, b) == [p EXCEPT !.text = Append(@, b)]

----------------------------------------------------------------------------
(***************************************************************************)
(* The callbacks.                                                          *)
(***************************************************************************)
\* http_parser_parse_url: what begins with a slash is a path; what does not,
\* or is empty, is refused.
ParseUrl(text) == text # <<>> /\ Head(text).v.part \in {"head", "slash"}

OnUrl(p) == IF p.type = "request" /\ ~ParseUrl(p.text) THEN Fail(p, "CB_url")
                                                       ELSE [p EXCEPT !.m_url = p.text]

\* setHeader(getFiled(), value): the last value of a name counts.
OnHeaderValue(p) == [p EXCEPT !.m_headers = (p.m_filed :> p.text) @@ @]

OnHeaderFiled(p) == [p EXCEPT !.m_filed = p.text]
OnBody(p) == [p EXCEPT !.m_body = @ \o p.text]
OnMessageComplete(p) == [p EXCEPT !.m_finished = TRUE]

\* CALLBACK_DATA: the mark is passed to its callback and cleared.
Callback(p) ==
    LET q == CASE p.mark = "url"   -> OnUrl(p)
               [] p.mark = "field" -> OnHeaderFiled(p)
               [] p.mark = "value" -> OnHeaderValue(p)
               [] p.mark = "body"  -> OnBody(p)
               [] OTHER            -> p
    IN [q EXCEPT !.mark = "none", !.text = <<>>]

----------------------------------------------------------------------------
(***************************************************************************)
(* The end of a message.                                                   *)
(***************************************************************************)
NeedsEof(p) ==
    /\ p.type = "response"
    /\ p.status_code \div 100 # 1 /\ p.status_code \notin {204, 304}
    /\ "CHUNKED" \notin p.flags /\ p.content_length = Unknown

ShouldKeepAlive(p) ==
    /\ IF p.minor > 0 THEN "CLOSE" \notin p.flags ELSE "KEEP_ALIVE" \in p.flags
    /\ ~NeedsEof(p)

NewMessage(p) ==
    To(p, IF ~ShouldKeepAlive(p) THEN "s_dead"
          ELSE IF p.type = "request" THEN "s_start_req" ELSE "s_start_res")

\* message_complete; after an upgrade the rest is another protocol.
MessageDone(p) == [OnMessageComplete(NewMessage(p)) EXCEPT !.exit = p.upgrade]

----------------------------------------------------------------------------
(***************************************************************************)
(* The first line.                                                         *)
(***************************************************************************)
Dead(p, b) == IF b.k \in {"cr", "lf"} THEN p ELSE Fail(p, "CLOSED_CONNECTION")

StartReq(p, b) ==
    CASE b.k \in {"cr", "lf"} -> p
      [] b.k = "method" -> [p EXCEPT !.state = "s_req_method", !.flags = {},
                                     !.content_length = Unknown, !.method = b.v]
      [] OTHER -> Fail(p, "INVALID_METHOD")

ReqMethod(p, b) == IF b.k = "sp" THEN To(p, "s_req_spaces_before_url") ELSE Fail(p, "INVALID_METHOD")

ReqSpaces(p, b) ==
    CASE b.k = "sp" -> p
      [] b.k = "url" /\ b.v.part \in {"head", "slash"} -> MarkAt(To(p, "s_req_path"), "url", b)
      [] OTHER -> Fail(p, "INVALID_URL")

ReqPath(p, b) ==
    CASE b.k = "sp" -> Callback(To(p, "s_req_http_start"))
      [] b.k = "cr" -> Callback([To(p, "s_line_almost_done") EXCEPT !.minor = 0])
      [] b.k = "lf" -> Callback([To(p, "s_header_field_start") EXCEPT !.minor = 0])
      [] b.k = "url" -> More(p, b)
      [] OTHER -> Fail(p, "INVALID_URL")

ReqHttp(p, b) ==
    CASE b.k = "sp" /\ p.state = "s_req_http_start" -> p
      [] b.k = "http" /\ p.state = "s_req_http_start" -> [To(p, "s_req_http_minor") EXCEPT !.minor = b.v]
      [] b.k = "cr" /\ p.state = "s_req_http_minor" -> To(p, "s_line_almost_done")
      [] b.k = "lf" /\ p.state = "s_req_http_minor" -> To(p, "s_header_field_start")
      [] OTHER -> Fail(p, "INVALID_VERSION")

StartRes(p, b) ==
    CASE b.k \in {"cr", "lf"} -> p
      [] b.k = "http" -> [p EXCEPT !.state = "s_res_http_minor", !.flags = {},
                                   !.content_length = Unknown, !.minor = b.v]
      [] OTHER -> Fail(p, "INVALID_CONSTANT")

ResHttp(p, b) == IF b.k = "sp" THEN To(p, "s_res_first_status_code") ELSE Fail(p, "INVALID_VERSION")

ResStatusCode(p, b) ==
    CASE b.k = "status" /\ p.state = "s_res_first_status_code" ->
           [To(p, "s_res_status_code") EXCEPT !.status_code = b.v]
      [] b.k = "sp" /\ p.state = "s_res_first_status_code" -> p
      [] b.k = "sp" /\ p.state = "s_res_status_code" -> To(p, "s_res_status_start")
      [] b.k = "cr" /\ p.state = "s_res_status_code" -> To(p, "s_line_almost_done")
      [] b.k = "lf" /\ p.state = "s_res_status_code" -> To(p, "s_header_field_start")
      [] OTHER -> Fail(p, "INVALID_STATUS")

ResStatus(p, b) ==
    CASE b.k = "cr" -> Callback(To(p, "s_line_almost_done"))
      [] b.k = "lf" -> Callback(To(p, "s_header_field_start"))
      [] OTHER -> IF p.state = "s_res_status_start" THEN MarkAt(To(p, "s_res_status"), "status", b)
                                                    ELSE More(p, b)

LineAlmostDone(p, b) == IF b.k = "lf" THEN To(p, "s_header_field_start") ELSE Fail(p, "STRICT")

----------------------------------------------------------------------------
(***************************************************************************)
(* Headers done: what follows.                                             *)
(***************************************************************************)
\* Mutant of HeadersDone: the body of a known length is not waited for.
HeadersDoneAtOnce(p) ==
    CASE "CHUNKED" \in p.flags -> To(p, "s_chunk_size_start")
      [] "CHUNKED" \notin p.flags /\ NeedsEof(p) -> To(p, "s_body_identity_eof")
      [] OTHER -> MessageDone(p)

HeadersDone(p) ==
    LET hasBody == "CHUNKED" \in p.flags \/ p.content_length > 0
    IN CASE p.upgrade /\ (p.method = "CONNECT" \/ ~hasBody) -> MessageDone(p)
         [] OTHER ->
            CASE "CHUNKED" \in p.flags -> To(p, "s_chunk_size_start")
              [] "CHUNKED" \notin p.flags /\ p.content_length = 0 -> MessageDone(p)
              [] "CHUNKED" \notin p.flags /\ p.content_length > 0 -> To(p, "s_body_identity")
              [] OTHER -> IF NeedsEof(p) THEN To(p, "s_body_identity_eof") ELSE MessageDone(p)

HeadersAlmostDone(p, b) ==
    CASE b.k # "lf" -> Fail(p, "STRICT")
      [] b.k = "lf" /\ "TRAILING" \in p.flags -> MessageDone(p)
      [] b.k = "lf" /\ "TRAILING" \notin p.flags /\ {"CHUNKED", "CONTENTLENGTH"} \subseteq p.flags ->
           Fail(p, "UNEXPECTED_CONTENT_LENGTH")
      [] OTHER ->
           HeadersDone([p EXCEPT !.upgrade =
              IF {"UPGRADE", "CONNECTION_UPGRADE"} \subseteq p.flags
              THEN p.type = "request" \/ p.status_code = 101
              ELSE p.method = "CONNECT"])

----------------------------------------------------------------------------
(***************************************************************************)
(* Headers.                                                                *)
(***************************************************************************)
HeaderFieldStart(p, b) ==
    CASE b.k = "cr" -> To(p, "s_headers_almost_done")
      [] b.k = "lf" -> HeadersAlmostDone(p, b)
      [] b.k = "field" -> MarkAt([To(p, "s_header_field") EXCEPT !.header_state = b.v.name], "field", b)
      [] OTHER -> Fail(p, "INVALID_HEADER_TOKEN")

HeaderField(p, b) ==
    CASE b.k = "field" -> More(p, b)
      [] b.k = "colon" -> Callback(To(p, "s_header_value_discard_ws"))
      [] OTHER -> Fail(p, "INVALID_HEADER_TOKEN")

\* What the matching of a value comes to: the header_state at its end.  The
\* pieces know the whole value; lists of tokens are not among them.
Matched(header_state, value) ==
    CASE header_state = "transfer-encoding" -> IF value = "chunked" THEN "CHUNKED" ELSE "general"
      [] header_state = "connection" ->
           CASE value = "keep-alive" -> "KEEP_ALIVE"
             [] value = "close"      -> "CLOSE"
             [] value = "Upgrade"    -> "CONNECTION_UPGRADE"
             [] OTHER                -> "general"
      [] OTHER -> "general"

\* What the first piece of a value makes of the header.
ValueStart(p, b) ==
    LET q == MarkAt(To(p, "s_header_value"), "value", b)
        v == b.v.value
    IN CASE p.header_state = "upgrade" ->
              [q EXCEPT !.flags = @ \cup {"UPGRADE"}, !.header_state = "general"]
         [] p.header_state = "content-length" ->
              CASE v < 0 -> Fail(p, "INVALID_CONTENT_LENGTH")
                [] v >= 0 /\ "CONTENTLENGTH" \in p.flags -> Fail(p, "UNEXPECTED_CONTENT_LENGTH")
                [] OTHER -> [q EXCEPT !.flags = @ \cup {"CONTENTLENGTH"}, !.content_length = v,
                                      !.header_state = "general"]
         [] OTHER -> [q EXCEPT !.header_state = Matched(p.header_state, v)]

\* The header is complete: the flag it stands for is set.
HeaderFlags(p) ==
    IF p.header_state \in {"KEEP_ALIVE", "CLOSE", "CHUNKED", "CONNECTION_UPGRADE"}
    THEN [p EXCEPT !.flags = @ \cup {p.header_state}] ELSE p

DiscardWs(p, b) ==
    CASE b.k = "sp" -> p
      [] b.k = "cr" -> To(p, "s_header_value_discard_ws_almost_done")
      [] b.k = "lf" -> To(p, "s_header_value_discard_lws")
      [] OTHER -> ValueStart(p, b)

\* An empty value.
DiscardLws(p, b) ==
    CASE b.k = "sp" -> To(p, "s_header_value_discard_ws")
      [] b.k # "sp" /\ p.header_state = "content-length" -> Fail(p, "INVALID_CONTENT_LENGTH")
      [] OTHER -> HeaderFieldStart(Callback([HeaderFlags(p) EXCEPT !.mark = "value"]), b)

HeaderValue(p, b) ==
    CASE b.k = "cr" -> Callback(To(p, "s_header_almost_done"))
      [] b.k = "lf" -> Callback(To(p, "s_header_value_lws"))
      [] OTHER -> More(p, b)

HeaderAlmostDone(p, b) == IF b.k = "lf" THEN To(p, "s_header_value_lws") ELSE Fail(p, "LF_EXPECTED")

\* A line that begins with a space goes on with the value of the last one.
HeaderLws(p, b) ==
    IF b.k = "sp" THEN MarkAt(To(p, "s_header_value"), "value", b)
              ELSE HeaderFieldStart(HeaderFlags(p), b)

----------------------------------------------------------------------------
(***************************************************************************)
(* Bodies.                                                                 *)
(***************************************************************************)
BodyIdentity(p, b) ==
    LET q == [p EXCEPT !.mark = "body", !.text = Append(@, b), !.content_length = @ - 1]
    IN IF q.content_length = 0 THEN MessageDone(Callback(q)) ELSE q

BodyEof(p, b) == [p EXCEPT !.mark = "body", !.text = Append(@, b)]

ChunkSize(p, b) ==
    CASE p.state = "s_chunk_size_start" ->
           IF b.k = "hex" THEN [To(p, "s_chunk_size") EXCEPT !.content_length = b.v]
                          ELSE Fail(p, "INVALID_CHUNK_SIZE")
      [] p.state = "s_chunk_size" ->
           CASE b.k = "cr" -> To(p, "s_chunk_size_almost_done")
             [] b.k = "hex" -> [p EXCEPT !.content_length = 16 * @ + b.v]
             [] b.k = "sp" -> To(p, "s_chunk_parameters")
             [] OTHER -> Fail(p, "INVALID_CHUNK_SIZE")
      [] p.state = "s_chunk_parameters" ->
           IF b.k = "cr" THEN To(p, "s_chunk_size_almost_done") ELSE p

ChunkSizeAlmostDone(p, b) ==
    CASE b.k # "lf" -> Fail(p, "STRICT")
      [] b.k = "lf" /\ p.content_length = 0 ->
           [To(p, "s_header_field_start") EXCEPT !.flags = @ \cup {"TRAILING"}]
      [] OTHER -> To(p, "s_chunk_data")

\* Mutant of ChunkData: the size of the chunk is kept.
ChunkDataForever(p, b) ==
    LET q == [p EXCEPT !.mark = "body", !.text = Append(@, b)]
    IN IF Len(q.text) = p.content_length THEN To(q, "s_chunk_data_almost_done") ELSE q

ChunkData(p, b) ==
    LET q == [p EXCEPT !.mark = "body", !.text = Append(@, b), !.content_length = @ - 1]
    IN IF q.content_length = 0 THEN To(q, "s_chunk_data_almost_done") ELSE q

ChunkDataDone(p, b) ==
    CASE p.state = "s_chunk_data_almost_done" /\ b.k = "cr" -> Callback(To(p, "s_chunk_data_done"))
      [] p.state = "s_chunk_data_done" /\ b.k = "lf" -> To(p, "s_chunk_size_start")
      [] OTHER -> Fail(p, "STRICT")

----------------------------------------------------------------------------
(***************************************************************************)
(* http_parser_execute.                                                    *)
(***************************************************************************)
Step(p, b) ==
    IF p.errno # "OK" \/ p.exit THEN p ELSE
    CASE p.state = "s_dead" -> Dead(p, b)
      [] p.state = "s_start_req" -> StartReq(p, b)
      [] p.state = "s_req_method" -> ReqMethod(p, b)
      [] p.state = "s_req_spaces_before_url" -> ReqSpaces(p, b)
      [] p.state = "s_req_path" -> ReqPath(p, b)
      [] p.state \in {"s_req_http_start", "s_req_http_minor"} -> ReqHttp(p, b)
      [] p.state = "s_start_res" -> StartRes(p, b)
      [] p.state = "s_res_http_minor" -> ResHttp(p, b)
      [] p.state \in {"s_res_first_status_code", "s_res_status_code"} -> ResStatusCode(p, b)
      [] p.state \in {"s_res_status_start", "s_res_status"} -> ResStatus(p, b)
      [] p.state = "s_line_almost_done" -> LineAlmostDone(p, b)
      [] p.state = "s_header_field_start" -> HeaderFieldStart(p, b)
      [] p.state = "s_header_field" -> HeaderField(p, b)
      [] p.state = "s_header_value_discard_ws" -> DiscardWs(p, b)
      [] p.state = "s_header_value_discard_ws_almost_done" ->
           IF b.k = "lf" THEN To(p, "s_header_value_discard_lws") ELSE Fail(p, "STRICT")
      [] p.state = "s_header_value_discard_lws" -> DiscardLws(p, b)
      [] p.state = "s_header_value" -> HeaderValue(p, b)
      [] p.state = "s_header_almost_done" -> HeaderAlmostDone(p, b)
      [] p.state = "s_header_value_lws" -> HeaderLws(p, b)
      [] p.state = "s_headers_almost_done" -> HeadersAlmostDone(p, b)
      [] p.state = "s_body_identity" -> BodyIdentity(p, b)
      [] p.state = "s_body_identity_eof" -> BodyEof(p, b)
      [] p.state \in {"s_chunk_size_start", "s_chunk_size", "s_chunk_parameters"} -> ChunkSize(p, b)
      [] p.state = "s_chunk_size_almost_done" -> ChunkSizeAlmostDone(p, b)
      [] p.state = "s_chunk_data" -> ChunkData(p, b)
      [] p.state \in {"s_chunk_data_almost_done", "s_chunk_data_done"} -> ChunkDataDone(p, b)

\* The marks a call sets again at its start: the text before it is forgotten.
Remark(p) ==
    [p EXCEPT !.exit = FALSE, !.text = <<>>,
              !.mark = CASE p.state = "s_header_field" -> "field"
                         [] p.state = "s_header_value" -> "value"
                         [] p.state = "s_req_path" -> "url"
                         [] p.state = "s_res_status" -> "status"
                         [] OTHER -> "none"]

\* Mutant of Flush: the part of a body at the end of a call is dropped.
FlushNames(p) ==
    IF p.errno # "OK" \/ p.mark \in {"none", "body"} THEN [p EXCEPT !.mark = "none", !.text = <<>>]
    ELSE [Callback(p) EXCEPT !.split = @ \/ p.mark \in {"url", "field", "value"}]

\* At the end of a call what is marked goes to its callback, complete or not.
Flush(p) ==
    IF p.errno # "OK" \/ p.mark = "none" THEN p
    ELSE [Callback(p) EXCEPT !.split = @ \/ p.mark \in {"url", "field", "value"}]

\* HttpRequestParser::execute and HttpResponseParser::execute: an upgrade is an
\* error for a request.
SetError(p) == [p EXCEPT !.m_error = p.errno # "OK" \/ (p.type = "request" /\ p.upgrade)]

\* Op(v), with v computed once: TLC would compute it wherever Op mentions it.
Apply(Op(_), v) == CHOOSE r \in {Op(x) : x \in {v}} : TRUE

\* The loop over the bytes of one call.
RECURSIVE Loop(_, _)
Loop(p, bytes) ==
    IF bytes = <<>> THEN p ELSE Apply(LAMBDA q : Loop(q, Tail(bytes)), Step(p, Head(bytes)))

Execute(p, bytes) ==
    IF p.errno # "OK" THEN p ELSE Apply(SetError, Apply(Flush, Loop(Remark(p), bytes)))
=============================================================================
