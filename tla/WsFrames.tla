------------------------------ MODULE WsFrames ------------------------------
(***************************************************************************)
(* WebSocket messages on their way through a TCP stream: WebSocketChannel  *)
(* cuts a message into fragments and builds their frames, and at the other *)
(* end websocket_parser_execute and the callbacks of WebSocketParser put   *)
(* the messages together again from reads that end anywhere.               *)
(*                                                                         *)
(* A payload is not a string but the places of its bytes in the stream; a  *)
(* byte that is unmasked with another mask byte than it was masked with is *)
(* garbled.                                                                *)
(***************************************************************************)
EXTENDS Integers, Sequences, SequencesExt, FiniteSetsExt

CONSTANTS Streams,    \* calls of send, and whose frame comes next
          Opcodes, CONTINUE,
          Cuts(_)     \* the places in a stream where a read may end

VARIABLES
    calls,      \* the messages that are sent
    order,      \* which call each frame belongs to
    frames,     \* the frames they are sent in
    p, end,     \* the parser has read up to p, the current read ends at end
    parser,     \* websocket_parser
    wp,         \* WebSocketParser: state, opcode and message
    delivered   \* what onMessage was called with

vars == <<calls, order, frames, p, end, parser, wp, delivered>>

-----------------------------------------------------------------------------
(* Sending: WebSocketChannel::send, ws_calc_frame_size, websocket_build_frame *)

Frame(call, opcode, len, fin) ==
    [opcode |-> opcode, fin |-> fin, masked |-> call.masked, len |-> len]

\* The first fragment has the opcode, the last one the flag fin and what remains.
send(call) ==
    LET n == IF call.len = 0 THEN 1 ELSE (call.len + call.fragment - 1) \div call.fragment IN
    [i \in 1..n |-> Frame(call, IF i = 1 THEN call.opcode ELSE CONTINUE,
                          IF i = n THEN call.len - (n - 1) * call.fragment ELSE call.fragment,
                          i = n)]

\* How many bytes send_ writes for a frame.
ws_calc_frame_size(f) ==
    f.len + 2 + (IF f.len > 65535 THEN 8 ELSE IF f.len >= 126 THEN 2 ELSE 0)
    + (IF f.masked THEN 4 ELSE 0)

\* How many bytes websocket_build_frame spends on the length besides the seven bits.
LengthBytes(len) == IF len < 126 THEN 0 ELSE IF len <= 65535 THEN 2 ELSE 8

\* Where websocket_build_frame puts the payload.
BodyOffset(f) == 2 + LengthBytes(f.len) + (IF f.masked THEN 4 ELSE 0)

\* The frames of all calls, each with the place in the stream where it begins, where its
\* payload does and where it ends; a control frame may come between the frames of a message.
Frames(cs, ord) ==
    LET Nth(k) == send(cs[ord[k]])[Cardinality({j \in 1..k : ord[j] = ord[k]})]
        Placed(fs, k) ==
            LET from == IF k = 1 THEN 0 ELSE fs[k - 1].to IN
            Append(fs, [frame |-> Nth(k), from |-> from, body |-> from + BodyOffset(Nth(k)),
                        to |-> from + ws_calc_frame_size(Nth(k))])
    IN  FoldLeft(Placed, <<>>, [k \in DOMAIN ord |-> k])

Total(fs) == IF fs = <<>> THEN 0 ELSE Last(fs).to

\* The k-th of the bytes of a length, the most significant first.
LengthByte(len, k) ==
    LET shift == LengthBytes(len) - k IN
    IF shift > 3 THEN 0 ELSE (len \div 256^shift) % 256

\* The frame byte q of the stream belongs to.
FrameAt(q) == CHOOSE i \in DOMAIN frames : frames[i].from <= q /\ q < frames[i].to

\* The byte at q as websocket_build_frame made it; the k-th byte of a mask is the pair of
\* its frame and k.
Byte(q) ==
    LET i == FrameAt(q)
        f == frames[i].frame
        k == q - frames[i].from
        n == LengthBytes(f.len) IN
    CASE k = 0 -> [opcode |-> f.opcode, fin |-> f.fin]
      [] k = 1 -> [masked |-> f.masked,
                   len7 |-> IF n = 0 THEN f.len ELSE IF n = 2 THEN 126 ELSE 127]
      [] k \in 2..(1 + n) -> LengthByte(f.len, k - 1)
      [] OTHER -> <<i, (k - 2 - n) % 4>>

-----------------------------------------------------------------------------
(* Receiving: websocket_parser_execute with the callbacks of WebSocketParser *)

Garbled == <<0, 0>>

Init ==
    /\ \E s \in Streams : calls = s.calls /\ order = s.order
    /\ frames = Frames(calls, order)
    /\ p = 0 /\ end = 0
    /\ parser = [state |-> "start", opcode |-> CONTINUE, fin |-> FALSE, masked |-> FALSE,
                 length |-> 0, require |-> 0, mask |-> <<>>, mask_offset |-> 0]
    /\ wp = [state |-> "BEGIN", opcode |-> CONTINUE, message |-> <<>>]
    /\ delivered = <<>>

\* The next read returns the bytes up to q.
Recv(q) ==
    /\ p = end /\ q > end
    /\ end' = q
    /\ UNCHANGED <<calls, order, frames, p, parser, wp, delivered>>

on_frame_header(pa, w) ==
    [state |-> "HEADER",
     opcode |-> IF pa.opcode # CONTINUE THEN pa.opcode ELSE w.opcode,
     message |-> IF w.state \in {"BEGIN", "FIN"} THEN <<>> ELSE w.message]

\* on_frame_end; at the last fragment onMessage is called.
on_frame_end(pa, w) ==
    /\ wp' = [w EXCEPT !.state = IF pa.fin THEN "FIN" ELSE "END"]
    /\ delivered' = IF pa.fin THEN Append(delivered, <<w.opcode, w.message>>) ELSE delivered

\* The header is complete: the body follows, or the frame ends without one.
HeaderDone(pa) ==
    LET w == on_frame_header(pa, wp) IN
    IF pa.length # 0
      THEN /\ parser' = [pa EXCEPT !.state = "body", !.require = pa.length]
           /\ wp' = w /\ UNCHANGED delivered
      ELSE /\ parser' = [pa EXCEPT !.state = "start"]
           /\ on_frame_end(pa, w)

Reads(state) == p < end /\ parser.state = state /\ p' = p + 1 /\ UNCHANGED <<calls, order, frames, end>>

s_start ==
    /\ Reads("start")
    /\ parser' = [parser EXCEPT !.state = "head", !.length = 0, !.mask_offset = 0,
                                !.opcode = Byte(p).opcode, !.fin = Byte(p).fin,
                                !.masked = FALSE]
    /\ UNCHANGED <<wp, delivered>>

\* After the length comes the mask, if there is one.
MaskOrBody(pa) ==
    IF pa.masked
      THEN /\ parser' = [pa EXCEPT !.state = "mask", !.require = 4, !.mask = <<>>]
           /\ UNCHANGED <<wp, delivered>>
      ELSE HeaderDone(pa)

s_head ==
    LET pa == [parser EXCEPT !.length = Byte(p).len7, !.masked = Byte(p).masked] IN
    /\ Reads("head")
    /\ IF pa.length >= 126
         THEN /\ parser' = [pa EXCEPT !.state = "length", !.length = 0,
                                      !.require = IF pa.length = 127 THEN 8 ELSE 2]
              /\ UNCHANGED <<wp, delivered>>
         ELSE MaskOrBody(pa)

s_length ==
    LET pa == [parser EXCEPT !.length = @ * 256 + Byte(p), !.require = @ - 1] IN
    /\ Reads("length")
    /\ IF pa.require = 0 THEN MaskOrBody(pa)
                         ELSE parser' = pa /\ UNCHANGED <<wp, delivered>>

s_mask ==
    LET pa == [parser EXCEPT !.mask = Append(@, Byte(p)), !.require = @ - 1] IN
    /\ Reads("mask")
    /\ IF pa.require = 0 THEN HeaderDone(pa)
                         ELSE parser' = pa /\ UNCHANGED <<wp, delivered>>

\* Mutant of websocket_parser_decode: each run of bytes starts with the first mask byte.
DecodeFromFirst(q, n) ==
    IF parser.masked => parser.mask[1] = Byte(q)
      THEN <<q, q + n>> ELSE Garbled

\* The bytes from q on are unmasked with the mask bytes from mask_offset on: that gives
\* the payload if the first one fits.
websocket_parser_decode(q, n) ==
    IF parser.masked => parser.mask[parser.mask_offset + 1] = Byte(q)
      THEN <<q, q + n>> ELSE Garbled

\* std::string::append, with runs that touch made one.
AppendRun(message, run) ==
    IF message # <<>> /\ run # Garbled /\ Last(message)[2] = run[1]
      THEN Front(message) \o <<<<Last(message)[1], run[2]>>>>
      ELSE Append(message, run)

\* As much of the body as the read has, in one run.
s_body ==
    LET n == Min({parser.require, end - p})
        pa == [parser EXCEPT !.require = @ - n,
                             !.mask_offset = IF parser.masked THEN (@ + n) % 4 ELSE @]
        w == [wp EXCEPT !.state = "BODY",
                        !.message = AppendRun(@, websocket_parser_decode(p, n))] IN
    /\ p < end /\ parser.state = "body"
    /\ p' = p + n
    /\ IF pa.require = 0
         THEN parser' = [pa EXCEPT !.state = "start"] /\ on_frame_end(pa, w)
         ELSE parser' = pa /\ wp' = w /\ UNCHANGED delivered
    /\ UNCHANGED <<calls, order, frames, end>>

Next == \/ p = end /\ \E q \in Cuts(frames) : Recv(q)
        \/ s_start \/ s_head \/ s_length \/ s_mask \/ s_body

Spec == Init /\ [][Next]_vars

-----------------------------------------------------------------------------
(* Properties *)

\* The frames that end a message and have been read, in their order.
Ends == SelectSeq([k \in DOMAIN frames |-> k],
                  LAMBDA k : frames[k].frame.fin /\ frames[k].to <= p)

FramesOf(c) == {k \in DOMAIN order : order[k] = c}

\* Where the payload of call c is in the stream: one run per frame that has one.
Payload(c) ==
    LET runs == [k \in DOMAIN frames |-> <<frames[k].body, frames[k].to, order[k]>>]
        own == SelectSeq(runs, LAMBDA r : r[3] = c /\ r[1] # r[2]) IN
    [j \in DOMAIN own |-> <<own[j][1], own[j][2]>>]

\* No frame of another call lies between those of c, nor c between those of another.
Undisturbed(c) ==
    \A d \in DOMAIN calls \ {c} :
        \/ \A j \in FramesOf(c), k \in FramesOf(d) : j < k
        \/ \A j \in FramesOf(c), k \in FramesOf(d) : j > k

\* However the stream is cut into reads, and however messages are cut into frames with or
\* without a mask, at every moment onMessage was called once for each message that has
\* arrived completely, in their order, with its opcode and its payload unmasked; a
\* control frame between two frames spoils its own message and the one it interrupts
\* (the parser keeps one opcode and one buffer) and none after them.
ParsedAsSent ==
    /\ Len(delivered) = Len(Ends)
    /\ \A i \in DOMAIN delivered :
          LET c == order[Ends[i]] IN
          Undisturbed(c) => delivered[i] = <<calls[c].opcode, Payload(c)>>

=============================================================================
