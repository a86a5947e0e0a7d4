----------------------------- MODULE MCStreams -----------------------------
(***************************************************************************)
(* The three ways bytes take through a connection of libhv, each checked   *)
(* by itself: part says which one a behaviour is about, and the variables  *)
(* of the others stay as they are.                                         *)
(***************************************************************************)
EXTENDS WriteQueue, HttpRequests

CONSTANTS Streams, Opcodes, CONTINUE, Cuts(_)   \* of WsFrames

VARIABLES part,
          calls, order, frames, wsp, wsend, wsparser, wp, delivered   \* of WsFrames

Ws == INSTANCE WsFrames WITH p <- wsp, end <- wsend, parser <- wsparser

ASSUME StreamsAssumption ==
    /\ CONTINUE \notin Opcodes
    /\ Streams \subseteq [calls : Seq([opcode : Opcodes, len : Nat, fragment : Nat \ {0},
                                      masked : BOOLEAN]),
                         order : Seq(Nat)]

-----------------------------------------------------------------------------
(* Requests of each form the parser tells apart: of every version, kept or *)
(* closed, with a body, in chunks, folded, with bare line feeds, with an   *)
(* empty line after them, a header without a value and one that begins     *)
(* with a control character, and malformed in each way.  A control         *)
(* character that is refused is put into the method, the url, the version, *)
(* a name or a value, or in place of a colon, a CR or an LF.               *)

Plain == [method |-> "GET", version |-> "1.1", headers |-> <<>>, length |-> 0, chunks |-> <<>>,
          bare |-> FALSE, extra |-> FALSE, bad |-> 0]

Header(name, value) == [name |-> name, value |-> value]
Length == Header("content-length", "length")
Chunked == Header("transfer-encoding", "chunked")

Posted == [Plain EXCEPT !.method = "POST", !.headers = <<Length>>, !.length = 3]

MCRequests == {
    Plain,
    [Plain EXCEPT !.version = "0.9"],
    [Plain EXCEPT !.version = "1.0", !.headers = <<Header("connection", "keep-alive")>>],
    [Plain EXCEPT !.version = "1.0", !.headers = <<Header("x", "v")>>],
    [Plain EXCEPT !.headers = <<Header("x", "folded"), Header("connection", "close")>>],
    [Plain EXCEPT !.headers = <<Header("x", ""), Header("connection", "close"), Header("y", "v")>>],
    [Plain EXCEPT !.headers = <<Header("x", "control"), Header("connection", "close")>>],
    Posted,
    [Posted EXCEPT !.length = 12],
    [Posted EXCEPT !.headers = <<Header("x", "v"), Length>>, !.bare = TRUE, !.extra = TRUE],
    [Posted EXCEPT !.headers = <<Header("content-length", "spaced")>>],
    [Posted EXCEPT !.length = 0, !.headers = <<Length, Header("connection", "keep-alive")>>],
    [Posted EXCEPT !.headers = <<Chunked>>, !.chunks = <<2, 1>>],
    [Posted EXCEPT !.headers = <<Header("connection", "close"), Chunked>>, !.chunks = <<1>>,
                   !.extra = TRUE]}
    \cup {[Posted EXCEPT !.bad = i] : i \in {2, 5, 7, 9, 11, 12, 15, 16}}
    \cup {[Posted EXCEPT !.headers = hs, !.chunks = <<1>>] :
             hs \in {<<Chunked, Length>>, <<Length, Length>>, <<Header("content-length", "v")>>,
                     <<Header("content-length", "split")>>, <<Header("content-length", "")>>,
                     <<Header("content-length", "control")>>}}

MCPipelined == {Plain, Posted}

(* Lengths at both sides of 126 and 65536, fragments of every size modulo  *)
(* four, frames without payload, masked and not, and a control frame that  *)
(* interrupts a message.  Reads end in or next to a header, or a few bytes *)
(* into a payload.                                                         *)

Call(o, n, f, m) == [opcode |-> o, len |-> n, fragment |-> f, masked |-> m]

MCCalls == UNION {
    {<<Call("text", 7, 3, m), Call("pong", 0, 65535, m), Call("text", 5, 65535, m)>>,
     <<Call("text", 125, 65535, m), Call("text", 126, 65535, m)>>,
     <<Call("text", 65535, 65535, m), Call("ping", 2, 65535, m)>>,
     <<Call("text", 65537, 65535, m), Call("text", 0, 65535, m)>>,
     <<Call("binary", 65536, 70000, m), Call("text", 1, 65535, m)>>} : m \in BOOLEAN}

\* One call after the other, each with as many frames as it has fragments.
InOrder(cs) ==
    FlattenSeq([c \in DOMAIN cs |->
        [k \in 1..Max({1, (cs[c].len + cs[c].fragment - 1) \div cs[c].fragment}) |-> c]])

\* A pong between the fragments of a message, and a message after both.
Interrupted ==
    [calls |-> <<Call("text", 4, 2, TRUE), Call("pong", 1, 65535, TRUE),
                 Call("text", 5, 3, TRUE)>>,
     order |-> <<1, 2, 1, 3, 3>>]

NoCalls == [calls |-> <<>>, order |-> <<>>]

MCStreamSet == {[calls |-> cs, order |-> InOrder(cs)] : cs \in MCCalls} \cup {Interrupted, NoCalls}

MCCuts(fs) ==
    LET Near(f) == (f.from..(f.body + 3)) \cup {f.to - 1, f.to} IN
    {q \in UNION {Near(f) : f \in Range(fs)} : q > 0 /\ q <= Last(fs).to}

-----------------------------------------------------------------------------

wsVars == <<calls, order, frames, wsp, wsend, wsparser, wp, delivered>>
allVars == <<part, queueVars, vars, wsVars>>

AllInit ==
    /\ part \in {"write queue", "requests", "frames"}
    /\ QueueInit /\ Init /\ Ws!Init
    /\ part = "frames" <=> calls # <<>>

AllNext ==
    \/ part = "write queue" /\ QueueNext /\ UNCHANGED <<part, vars, wsVars>>
    \/ part = "requests" /\ Next /\ UNCHANGED <<part, queueVars, wsVars>>
    \/ part = "frames" /\ Ws!Next /\ UNCHANGED <<part, queueVars, vars>>

\* Only the write queue has a property that needs fairness.
AllSpec ==
    /\ AllInit /\ [][AllNext]_allVars
    /\ WF_allVars(part = "write queue" /\ Sending /\ UNCHANGED <<part, vars, wsVars>>)

-----------------------------------------------------------------------------
(* The property of WsFrames. *)

\* Messages are delivered once each, in order and as they were sent.
ParsedAsSent == Ws!ParsedAsSent
=============================================================================
