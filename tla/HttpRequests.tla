---------------------------- MODULE HttpRequests ----------------------------
(***************************************************************************)
(* The HTTP/1 requests of one connection: on_recv of HttpServer.cpp feeds  *)
(* what a read returned to http_parser_execute, whose callbacks (those of  *)
(* Http1Parser) gather the request; a complete one is handled and answered *)
(* and the connection kept or closed.  TCP cuts the stream anywhere.       *)
(*                                                                         *)
(* A character is <<its class, the text it belongs to, its place there>>;  *)
(* methods, urls, names and values have two characters, the version one.   *)
(* A Connection header has one token, and no request asks for an upgrade   *)
(* (see WsServer).                                                         *)
(***************************************************************************)
EXTENDS Integers, Sequences, SequencesExt, FiniteSetsExt, TLC

CONSTANTS Requests,               \* what a client may send
          MaxRequests,            \* bound: requests on the connection
          MIN_HTTP_REQUEST_LEN,   \* characters of the shortest request line
          Pipelined               \* those it may send before the last one was answered

ASSUME RequestsAssumption ==
    /\ MIN_HTTP_REQUEST_LEN \in Nat \ {0} /\ MaxRequests \in Nat
    /\ Pipelined \subseteq Requests

VARIABLES
    sent,       \* the requests the client has sent
    stream,     \* their characters
    p, end,     \* the parser has read up to p, the current read ends at end
    parser,     \* http_parser, and the mark that is set
    hp,         \* Http1Parser with the request it fills in (parsed)
    handler,    \* state of HttpHandler
    io,         \* the connection: "unknown" before the first read
    answered,   \* the requests that HandleHttpRequest was called with
    mixed       \* history: a read went past the end of the request that was due

vars == <<sent, stream, p, end, parser, hp, handler, io, answered, mixed>>

-----------------------------------------------------------------------------
(* The client *)

Char(class) == <<class, "", 0>>
CR == Char("CR")
LF == Char("LF")
SP == Char("SP")
BAD == Char("bad")    \* a control character

Class(c) == c[1]
Token(class, text) == <<<<class, text, 1>>, <<class, text, 2>>>>
Digit(n) == <<"digit", "", n>>

\* The characters of a value, which may be folded into two lines; the value "length" is
\* the length of the body, with a space behind it when "spaced" and in it when "split";
\* "control" is a value that begins with a control character.
Written(r, v, eol) ==
    CASE v = "" -> <<>>
      [] v = "control" -> <<BAD>> \o Token("value", v)
      [] v = "folded" -> Token("value", v) \o eol \o <<SP>> \o Token("value", "more")
      [] v \in {"length", "spaced", "split"} ->
            <<Digit(r.length \div 10)>> \o (IF v = "split" THEN <<SP>> ELSE <<>>)
            \o <<Digit(r.length % 10)>> \o (IF v = "spaced" THEN <<SP, SP>> ELSE <<>>)
      [] OTHER -> Token("value", v)

Unfolded(r, v) == Written(r, v, <<>>)

Body(i, from, n) == [k \in 1..n |-> <<"body", i, from + k>>]

\* The body as it is, or in chunks of the given sizes that the chunk of size 0 ends.
Entity(r, i, eol) ==
    IF r.chunks = <<>> THEN Body(i, 0, r.length)
    ELSE LET Chunk(j) == LET n == r.chunks[j]
                             from == FoldLeft(+, 0, SubSeq(r.chunks, 1, j - 1)) IN
                         <<Digit(0), Digit(n)>> \o <<CR, LF>> \o Body(i, from, n) \o <<CR, LF>> IN
         FlattenSeq([j \in DOMAIN r.chunks |-> Chunk(j)])
         \o <<Digit(0), SP, CR, LF>> \o eol

\* The characters of request r, the i-th of the connection.  The one at r.bad, if it is
\* not 0, is a control character.
Text(r, i) ==
    LET eol == IF r.bare THEN <<LF>> ELSE <<CR, LF>>
        HeaderLine(h) == Token("token", h.name) \o <<Char("colon"), SP>>
                         \o Written(r, h.value, eol) \o eol
        text == Token("alpha", r.method) \o <<SP>> \o Token("url", i)
                \o (IF r.version = "0.9" THEN <<>> ELSE <<SP, <<"version", r.version, 0>>>>) \o eol
                \o FlattenSeq([j \in DOMAIN r.headers |-> HeaderLine(r.headers[j])]) \o eol
                \o Entity(r, i, eol) \o (IF r.extra THEN <<CR, LF>> ELSE <<>>) IN
    IF r.bad \in DOMAIN text THEN [text EXCEPT ![r.bad] = BAD] ELSE text

Send ==
    /\ io # "closed"
    /\ Len(sent) < MaxRequests
    /\ \E r \in Requests :
          /\ Len(answered) = Len(sent) \/ r \in Pipelined
          /\ sent' = Append(sent, r)
          /\ stream' = stream \o Text(r, Len(sent) + 1)
    /\ UNCHANGED <<p, end, parser, hp, handler, io, answered, mixed>>

-----------------------------------------------------------------------------
(* The callbacks of Http1Parser *)

NoRequest == [method |-> "", url |-> <<>>, version |-> "", headers |-> <<>>, body |-> <<>>]

InitRequest ==
    [state |-> "START", url |-> <<>>, header_field |-> <<>>, header_value |-> <<>>,
     parsed |-> NoRequest]

on_message_begin(h) == [h EXCEPT !.state = "MESSAGE_BEGIN"]

on_url(h, run) == [h EXCEPT !.state = "URL", !.url = @ \o run]

\* A header is stored when its name and its value are there, the value not empty.
handle_header(h) ==
    IF h.header_field # <<>> /\ h.header_value # <<>>
      THEN [h EXCEPT !.parsed.headers = (h.header_field :> h.header_value) @@ @,
                     !.header_field = <<>>, !.header_value = <<>>]
      ELSE h

\* Mutant of on_header_field: a name that came in two reads loses its first part.
on_header_field_assigns(h, run) ==
    [handle_header(h) EXCEPT !.state = "HEADER_FIELD", !.header_field = run]

on_header_field(h, run) ==
    [handle_header(h) EXCEPT !.state = "HEADER_FIELD", !.header_field = @ \o run]

on_header_value(h, run) == [h EXCEPT !.state = "HEADER_VALUE", !.header_value = @ \o run]

on_headers_complete(h, pa) ==
    LET g == handle_header(h) IN
    [g EXCEPT !.state = "HEADERS_COMPLETE", !.parsed.version = pa.version,
              !.parsed.method = pa.method, !.parsed.url = g.url]

on_body(h, run) == [h EXCEPT !.state = "BODY", !.parsed.body = @ \o run]

on_chunk_header(h) == [h EXCEPT !.state = "CHUNK_HEADER"]

on_chunk_complete(h) == [h EXCEPT !.state = "CHUNK_COMPLETE"]

on_message_complete(h) == [h EXCEPT !.state = "MESSAGE_COMPLETE"]

\* CALLBACK_DATA: the characters since the mark, if one is set.
Unmarked == [of |-> "nothing", from |-> 0]

CallbackData(h, mark, upto) ==
    LET run == SubSeq(stream, mark.from + 1, upto) IN
    CASE mark.of = "url" -> on_url(h, run)
      [] mark.of = "header_field" -> on_header_field(h, run)
      [] mark.of = "header_value" -> on_header_value(h, run)
      [] mark.of = "body" -> on_body(h, run)
      [] mark.of = "nothing" -> h

-----------------------------------------------------------------------------
(* http_parser_execute *)

NONE == -1    \* ULLONG_MAX, no content length

http_parser_init ==
    [state |-> "s_start_req", flags |-> {}, content_length |-> 0, header_state |-> "general",
     index |-> 0, method |-> "", version |-> "", mark |-> Unmarked]

Init ==
    /\ sent = <<>> /\ stream = <<>> /\ p = 0 /\ end = 0
    /\ parser = http_parser_init /\ hp = InitRequest
    /\ handler = "WANT_RECV" /\ io = "unknown" /\ answered = <<>>
    /\ mixed = FALSE

http_should_keep_alive(pa) ==
    IF pa.version = "1.1" THEN "CLOSE" \notin pa.flags ELSE "KEEP_ALIVE" \in pa.flags

NEW_MESSAGE(pa) == IF http_should_keep_alive(pa) THEN "s_start_req" ELSE "s_dead"

Printable == {"alpha", "url", "version", "token", "value", "digit", "body", "colon", "SP"}
Anything == Printable \cup {"CR", "LF", "bad"}

\* The characters a state does not refuse.
Expected ==
    [s_dead |-> {"CR", "LF"},
     s_start_req |-> {"CR", "LF", "alpha"},
     s_req_method |-> {"alpha", "SP"},
     s_req_spaces_before_url |-> {"SP", "url"},
     s_req_path |-> {"url", "SP", "CR", "LF"},
     s_req_http_start |-> {"SP", "version"},
     s_req_http_end |-> {"CR", "LF"},
     s_req_line_almost_done |-> {"LF"},
     s_header_field_start |-> {"CR", "LF", "token"},
     s_header_field |-> {"token", "colon"},
     s_header_value_discard_ws |-> Anything,
     s_header_value_discard_ws_almost_done |-> {"LF"},
     s_header_value_discard_lws |-> Anything,
     s_header_value_start |-> Printable \cup {"bad"},
     s_header_value |-> Printable \cup {"CR", "LF"},
     s_header_almost_done |-> {"LF"},
     s_header_value_lws |-> Anything,
     s_headers_almost_done |-> {"LF"},
     s_headers_done |-> {"LF"},
     s_body_identity |-> Anything,
     s_message_done |-> Anything,
     s_chunk_size_start |-> {"digit"},
     s_chunk_size |-> {"digit", "CR", "SP"},
     s_chunk_parameters |-> Anything,
     s_chunk_size_almost_done |-> {"LF"},
     s_chunk_data |-> Anything,
     s_chunk_data_almost_done |-> {"CR"},
     s_chunk_data_done |-> {"LF"}]

ch == stream[p + 1]

\* The loop is in state s at a character it does not refuse.
At(s) == io = "reading" /\ p < end /\ parser.state = s /\ Class(ch) \in Expected[s]

\* on_recv closes the connection when http_parser_execute did not take all of the read.
Close == io' = "closed" /\ UNCHANGED <<p, parser, hp>>

Goto(s) == parser' = [parser EXCEPT !.state = s]
Advance == p' = p + 1 /\ UNCHANGED io
Reexecute == p' = p /\ UNCHANGED io

Refuse ==
    /\ io = "reading" /\ p < end
    /\ Class(ch) \notin Expected[parser.state]
    /\ Close

s_dead == At("s_dead") /\ Advance /\ UNCHANGED <<parser, hp>>

s_start_req ==
    /\ At("s_start_req") /\ Advance
    /\ IF Class(ch) = "alpha"
         THEN /\ parser' = [parser EXCEPT !.state = "s_req_method", !.flags = {},
                                          !.content_length = NONE, !.method = ch[2]]
              /\ hp' = on_message_begin(hp)
         ELSE UNCHANGED <<parser, hp>>

s_req_method ==
    /\ At("s_req_method") /\ Advance
    /\ Goto(IF Class(ch) = "SP" THEN "s_req_spaces_before_url" ELSE "s_req_method")
    /\ UNCHANGED hp

s_req_spaces_before_url ==
    /\ At("s_req_spaces_before_url") /\ Advance
    /\ IF Class(ch) = "SP" THEN UNCHANGED parser
       ELSE parser' = [parser EXCEPT !.state = "s_req_path", !.mark = [of |-> "url", from |-> p]]
    /\ UNCHANGED hp

s_req_path ==
    /\ At("s_req_path") /\ Advance
    /\ IF Class(ch) = "url" THEN UNCHANGED <<parser, hp>>
       ELSE /\ parser' = [parser EXCEPT
                !.state = CASE Class(ch) = "SP" -> "s_req_http_start"
                            [] Class(ch) = "CR" -> "s_req_line_almost_done"
                            [] Class(ch) = "LF" -> "s_header_field_start",
                !.version = IF Class(ch) = "SP" THEN @ ELSE "0.9",
                !.mark = Unmarked]
            /\ hp' = CallbackData(hp, parser.mark, p)

s_req_http ==
    /\ \/ At("s_req_http_start")
       \/ At("s_req_http_end")
       \/ At("s_req_line_almost_done")
    /\ Advance
    /\ CASE Class(ch) = "SP" -> UNCHANGED parser
         [] Class(ch) = "version" -> parser' = [parser EXCEPT !.state = "s_req_http_end",
                                                              !.version = ch[2]]
         [] Class(ch) = "CR" -> Goto("s_req_line_almost_done")
         [] Class(ch) = "LF" -> Goto("s_header_field_start")
    /\ UNCHANGED hp

\* The headers whose value the parser looks at itself.
Special == {"content-length", "transfer-encoding", "connection"}

s_header_field_start ==
    /\ At("s_header_field_start")
    /\ CASE Class(ch) = "CR" -> Goto("s_headers_almost_done") /\ Advance
         [] Class(ch) = "LF" -> Goto("s_headers_almost_done") /\ Reexecute
         [] OTHER ->
              /\ parser' = [parser EXCEPT
                    !.state = "s_header_field", !.mark = [of |-> "header_field", from |-> p],
                    !.index = 1, !.header_state = IF ch[2] \in Special THEN ch[2] ELSE "general"]
              /\ Advance
    /\ UNCHANGED hp

\* The rest of a word the parser looks for: matched when its second character came.
Match(pa, c) ==
    IF pa.index = 1 /\ c[2] = pa.header_state /\ c[3] = 2
      THEN [pa EXCEPT !.index = 2]
      ELSE [pa EXCEPT !.header_state = "general"]

Matched(w) == parser.header_state = w /\ parser.index = 2

s_header_field ==
    /\ At("s_header_field") /\ Advance
    /\ IF Class(ch) = "token"
         THEN parser' = Match(parser, ch) /\ UNCHANGED hp
         ELSE /\ parser' = [parser EXCEPT !.state = "s_header_value_discard_ws",
                                          !.mark = Unmarked]
              /\ hp' = CallbackData(hp, parser.mark, p)

s_header_value_discard_ws ==
    /\ At("s_header_value_discard_ws")
    /\ CASE Class(ch) = "SP" -> Advance /\ UNCHANGED parser
         [] Class(ch) = "CR" -> Advance /\ Goto("s_header_value_discard_ws_almost_done")
         [] Class(ch) = "LF" -> Advance /\ Goto("s_header_value_discard_lws")
         [] OTHER -> Reexecute /\ Goto("s_header_value_start")
    /\ UNCHANGED hp

\* The first character of a value, or of the next line of a folded one.
s_header_value_start ==
    LET pa == [parser EXCEPT !.state = "s_header_value", !.index = 1,
                             !.mark = [of |-> "header_value", from |-> p]] IN
    /\ At("s_header_value_start")
    /\ IF Matched("content-length") /\ (Class(ch) # "digit" \/ "CONTENTLENGTH" \in parser.flags)
         THEN Close
         ELSE /\ parser' =
                   CASE Matched("content-length") ->
                          [pa EXCEPT !.flags = @ \cup {"CONTENTLENGTH"},
                                     !.content_length = ch[3],
                                     !.header_state = "content-length-num"]
                     [] \/ Matched("transfer-encoding") /\ ch[2] = "chunked"
                        \/ Matched("connection") /\ ch[2] \in {"close", "keep-alive"} ->
                          [pa EXCEPT !.header_state = ch[2]]
                     [] parser.header_state = "content-length-ws" -> pa
                     [] OTHER -> [pa EXCEPT !.header_state = "general"]
              /\ Advance /\ UNCHANGED hp

s_header_value ==
    /\ At("s_header_value")
    /\ IF Class(ch) \in {"CR", "LF"}
         THEN /\ parser' = [parser EXCEPT !.state = "s_header_almost_done", !.mark = Unmarked]
              /\ hp' = CallbackData(hp, parser.mark, p)
              /\ IF Class(ch) = "CR" THEN Advance ELSE Reexecute
         ELSE CASE parser.header_state = "content-length-num" ->
                     CASE Class(ch) = "SP" ->
                            /\ parser' = [parser EXCEPT !.header_state = "content-length-ws"]
                            /\ Advance /\ UNCHANGED hp
                       [] Class(ch) = "digit" ->
                            /\ parser' = [parser EXCEPT !.content_length = @ * 10 + ch[3]]
                            /\ Advance /\ UNCHANGED hp
                       [] OTHER -> Close
                [] parser.header_state = "content-length-ws" /\ Class(ch) # "SP" -> Close
                [] parser.header_state = "content-length-ws" /\ Class(ch) = "SP" ->
                     Advance /\ UNCHANGED <<parser, hp>>
                [] OTHER -> parser' = Match(parser, ch) /\ Advance /\ UNCHANGED hp

s_header_almost_done ==
    /\ At("s_header_almost_done")
    /\ Goto("s_header_value_lws") /\ Advance /\ UNCHANGED hp

\* The line after a header: a folded value goes on, or the header is finished.
s_header_value_lws ==
    /\ At("s_header_value_lws") /\ Reexecute
    /\ IF Class(ch) = "SP"
         THEN parser' = [parser EXCEPT
                  !.state = "s_header_value_start",
                  !.header_state = IF @ = "content-length-num" THEN "content-length-ws" ELSE @]
         ELSE parser' = [parser EXCEPT
                  !.state = "s_header_field_start",
                  !.flags = @ \cup (CASE Matched("keep-alive") -> {"KEEP_ALIVE"}
                                      [] Matched("close") -> {"CLOSE"}
                                      [] Matched("chunked") -> {"CHUNKED"}
                                      [] OTHER -> {})]
    /\ UNCHANGED hp

s_header_value_discard_ws_almost_done ==
    /\ At("s_header_value_discard_ws_almost_done")
    /\ Goto("s_header_value_discard_lws") /\ Advance /\ UNCHANGED hp

\* Nothing after the colon, or a value that begins on the next line.
s_header_value_discard_lws ==
    /\ At("s_header_value_discard_lws")
    /\ CASE Class(ch) = "SP" -> Goto("s_header_value_discard_ws") /\ Advance /\ UNCHANGED hp
         [] Class(ch) # "SP" /\ Matched("content-length") -> Close
         [] OTHER -> /\ Goto("s_header_field_start") /\ Reexecute
                     /\ hp' = on_header_value(hp, <<>>)

s_headers_almost_done ==
    /\ At("s_headers_almost_done")
    /\ CASE "TRAILING" \in parser.flags ->
              Goto("s_message_done") /\ hp' = on_chunk_complete(hp) /\ Reexecute
         [] "TRAILING" \notin parser.flags /\ {"CHUNKED", "CONTENTLENGTH"} \subseteq parser.flags ->
              Close
         [] OTHER ->
              Goto("s_headers_done") /\ hp' = on_headers_complete(hp, parser) /\ Reexecute

s_headers_done ==
    /\ At("s_headers_done") /\ Advance
    /\ CASE "CHUNKED" \in parser.flags -> Goto("s_chunk_size_start") /\ UNCHANGED hp
         [] "CHUNKED" \notin parser.flags /\ parser.content_length > 0 ->
              Goto("s_body_identity") /\ UNCHANGED hp
         [] OTHER -> Goto(NEW_MESSAGE(parser)) /\ hp' = on_message_complete(hp)

\* The characters of a body or a chunk that the read has.
ToRead == Min({parser.content_length, end - p})

BodyMark == IF parser.mark = Unmarked THEN [of |-> "body", from |-> p] ELSE parser.mark

\* At the end of the body its last character is seen once more, by s_message_done.
s_body_identity ==
    /\ At("s_body_identity") /\ UNCHANGED io
    /\ IF ToRead = parser.content_length
         THEN /\ parser' = [parser EXCEPT !.state = "s_message_done", !.content_length = 0,
                                          !.mark = Unmarked]
              /\ hp' = CallbackData(hp, BodyMark, p + ToRead)
              /\ p' = p + ToRead - 1
         ELSE /\ parser' = [parser EXCEPT !.content_length = @ - ToRead, !.mark = BodyMark]
              /\ p' = p + ToRead
              /\ UNCHANGED hp

s_message_done ==
    /\ At("s_message_done") /\ Advance
    /\ Goto(NEW_MESSAGE(parser))
    /\ hp' = on_message_complete(hp)

s_chunk_size_start ==
    /\ At("s_chunk_size_start") /\ Advance
    /\ parser' = [parser EXCEPT !.state = "s_chunk_size", !.content_length = ch[3]]
    /\ UNCHANGED hp

s_chunk_size ==
    /\ At("s_chunk_size") /\ Advance
    /\ CASE Class(ch) = "CR" -> Goto("s_chunk_size_almost_done")
         [] Class(ch) = "SP" -> Goto("s_chunk_parameters")
         [] Class(ch) = "digit" ->
              parser' = [parser EXCEPT !.content_length = @ * 16 + ch[3]]
    /\ UNCHANGED hp

s_chunk_parameters ==
    /\ At("s_chunk_parameters") /\ Advance
    /\ Goto(IF Class(ch) = "CR" THEN "s_chunk_size_almost_done" ELSE "s_chunk_parameters")
    /\ UNCHANGED hp

s_chunk_size_almost_done ==
    /\ At("s_chunk_size_almost_done") /\ Advance
    /\ IF parser.content_length = 0
         THEN parser' = [parser EXCEPT !.flags = @ \cup {"TRAILING"},
                                       !.state = "s_header_field_start"]
         ELSE Goto("s_chunk_data")
    /\ hp' = on_chunk_header(hp)

s_chunk_data ==
    /\ At("s_chunk_data") /\ UNCHANGED io
    /\ p' = p + ToRead
    /\ parser' = [parser EXCEPT
           !.content_length = @ - ToRead, !.mark = BodyMark,
           !.state = IF ToRead = parser.content_length THEN "s_chunk_data_almost_done" ELSE @]
    /\ UNCHANGED hp

s_chunk_data_almost_done ==
    /\ At("s_chunk_data_almost_done") /\ Advance
    /\ parser' = [parser EXCEPT !.state = "s_chunk_data_done", !.mark = Unmarked]
    /\ hp' = CallbackData(hp, parser.mark, p)

s_chunk_data_done ==
    /\ At("s_chunk_data_done") /\ Advance
    /\ Goto("s_chunk_size_start")
    /\ hp' = on_chunk_complete(hp)

http_parser_execute ==
    /\ \/ Refuse \/ s_dead
       \/ s_start_req \/ s_req_method \/ s_req_spaces_before_url \/ s_req_path \/ s_req_http
       \/ s_header_field_start \/ s_header_field \/ s_header_value_discard_ws
       \/ s_header_value_start \/ s_header_value \/ s_header_almost_done \/ s_header_value_lws
       \/ s_header_value_discard_ws_almost_done \/ s_header_value_discard_lws
       \/ s_headers_almost_done \/ s_headers_done \/ s_body_identity \/ s_message_done
       \/ s_chunk_size_start \/ s_chunk_size \/ s_chunk_parameters \/ s_chunk_size_almost_done
       \/ s_chunk_data \/ s_chunk_data_almost_done \/ s_chunk_data_done
    /\ UNCHANGED <<sent, stream, end, handler, answered, mixed>>

-----------------------------------------------------------------------------
(* on_recv *)

\* The first read holds a request line, at least, without control characters.
LooksLikeHttp(q) ==
    /\ q >= MIN_HTTP_REQUEST_LEN
    /\ \A i \in 1..MIN_HTTP_REQUEST_LEN : Class(stream[i]) \notin {"CR", "LF", "bad"}

\* The mark http_parser_execute begins with.
Continued(state) ==
    CASE state = "s_req_path" -> [of |-> "url", from |-> p]
      [] state = "s_header_field" -> [of |-> "header_field", from |-> p]
      [] state = "s_header_value" -> [of |-> "header_value", from |-> p]
      [] OTHER -> Unmarked

\* HttpHandler::FeedRecvData: after an answer everything is reset for the next request.
FeedRecvData ==
    IF handler # "WANT_RECV"
      THEN handler' = "WANT_RECV" /\ parser' = http_parser_init /\ hp' = InitRequest
      ELSE /\ parser' = [parser EXCEPT !.mark = Continued(parser.state)]
           /\ UNCHANGED <<hp, handler>>

\* Where the i-th request ends in the stream.
EndOf(i) == FoldLeft(LAMBDA n, j : n + Len(Text(sent[j], j)), 0, [j \in 1..i |-> j])

\* A read returns the characters up to q.
Recv ==
    /\ io \in {"unknown", "idle"}
    /\ \E q \in (p + 1)..Len(stream) :
          /\ mixed' = (mixed \/ (Len(answered) + 1 < Len(sent) /\ q > EndOf(Len(answered) + 1)))
          /\ IF io = "unknown" /\ ~LooksLikeHttp(q)
             THEN io' = "closed" /\ UNCHANGED <<end, parser, hp, handler>>
             ELSE io' = "reading" /\ end' = q /\ FeedRecvData
    /\ UNCHANGED <<sent, stream, p, answered>>

IsKeepAlive(req) ==
    LET connection == Token("token", "connection") IN
    IF connection \in DOMAIN req.headers
      THEN req.headers[connection] # Token("value", "close")
      ELSE req.version # "1.0"

\* All of the read is parsed: the marks that are left are called back, and a request that
\* is complete now is handled and answered.
Parsed ==
    LET h == CallbackData(hp, parser.mark, p) IN
    /\ io = "reading" /\ p = end
    /\ parser' = [parser EXCEPT !.mark = Unmarked]
    /\ hp' = h
    /\ IF h.state # "MESSAGE_COMPLETE"
         THEN io' = "idle" /\ UNCHANGED <<handler, answered>>
         ELSE /\ answered' = Append(answered, h.parsed)
              /\ handler' = "SEND_DONE"
              /\ io' = IF IsKeepAlive(h.parsed) THEN "idle" ELSE "closed"
    /\ UNCHANGED <<sent, stream, p, end, mixed>>

Next == Send \/ Recv \/ http_parser_execute \/ Parsed

Spec == Init /\ [][Next]_vars

-----------------------------------------------------------------------------
(* Properties *)

Named(r, name) == {j \in DOMAIN r.headers : r.headers[j].name = name}

\* A request that must be refused: a control character in the request line, in a name, in
\* a value behind its first character (which may be any) or in place of the end of a
\* line; two lengths, a length that is not a number, or a length besides chunks.
Malformed(r) ==
    \/ r.bad # 0
    \/ Cardinality(Named(r, "content-length")) > 1
    \/ \E j \in Named(r, "content-length") : r.headers[j].value \notin {"length", "spaced"}
    \/ r.chunks # <<>> /\ Named(r, "content-length") # {}

\* The name a header that has a value is stored under: its own, behind the names of the
\* headers without a value that come right before it.
StoredName(r, j) ==
    LET k == Max({0} \cup {i \in 1..(j - 1) : r.headers[i].value # ""}) IN
    FlattenSeq([i \in 1..(j - k) |-> Token("token", r.headers[k + i].name)])

\* What the i-th request says: the headers that have a value, and the body put together.
Asked(i) ==
    LET r == sent[i]
        hs == {j \in DOMAIN r.headers : r.headers[j].value # ""}
        Size == IF r.chunks = <<>> THEN r.length ELSE FoldLeft(+, 0, r.chunks) IN
    [method |-> r.method, url |-> Token("url", i), version |-> r.version,
     headers |-> [n \in {StoredName(r, j) : j \in hs} |->
                     Unfolded(r, r.headers[CHOOSE j \in hs : n = StoredName(r, j)].value)],
     body |-> Body(i, 0, Size)]

\* However the stream is cut into reads, the requests are handled once each and in their
\* order, each with its own method, url, version, headers and body and nothing of another
\* one: the Reset of the handler, the callbacks that get a token in pieces, and the parser
\* that resumes in the middle of one fit together.  A request may be sent before the last
\* one was answered, as long as no read of on_recv holds parts of both; and a header
\* without a value gives its name to the next one.
AnsweredAsSent ==
    ~mixed => /\ Len(answered) <= Len(sent)
              /\ \A i \in DOMAIN answered : answered[i] = Asked(i)

\* What has been read is answered: no request waits for bytes that belong to the next one.
\* A connection is closed with a request unanswered only if that request is malformed,
\* the last one asked for it or the first read did not hold a request line, and a malformed
\* request is never answered.
AnsweredWhenRead ==
    ~mixed =>
        /\ io = "idle" /\ p = Len(stream) => Len(answered) = Len(sent)
        /\ io = "closed" /\ Len(answered) < Len(sent) =>
              \/ p = 0 \/ Malformed(sent[Len(answered) + 1])
              \/ answered # <<>> /\ ~IsKeepAlive(Asked(Len(answered)))
        /\ \A i \in DOMAIN answered : ~Malformed(sent[i])

\* Requests are handled as they were sent, and when they were read.
RequestsHandled == AnsweredAsSent /\ AnsweredWhenRead

=============================================================================
