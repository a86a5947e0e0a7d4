----------------------------- MODULE WriteQueue -----------------------------
(***************************************************************************)
(* The write side of one connection of libhv: hio_write, the write event,  *)
(* hio_close and its timer, to the byte.  Everything runs in the loop      *)
(* thread; the kernel takes as many bytes of a write as it has room for,   *)
(* and none while the peer does not read.                                  *)
(***************************************************************************)
EXTENDS Naturals, Sequences, SequencesExt

CONSTANTS Sizes,     \* lengths of the messages given to hio_write
          MaxBytes   \* bound: bytes given to hio_write

ASSUME SizesAssumption == Sizes \subseteq Nat \ {0} /\ MaxBytes \in Nat

VARIABLES opened,       \* ready and not closed
          close,        \* io->close: a close waits for the write queue
          close_timer,  \* it is set
          write_queue,  \* sequence of offset_buf_t
          armed,        \* HV_WRITE is among io->events
          accepted,     \* bytes given to hio_write so far; they are numbered
          received,     \* what the peer has got
          peer          \* "reading", "stalled" or "reset"

hio == <<opened, close, close_timer, write_queue, armed>>
queueVars == <<hio, accepted, received, peer>>

Buf == [base : Seq(Nat), offset : Nat]

QueueInit ==
    /\ opened = TRUE /\ close = FALSE /\ close_timer = FALSE
    /\ write_queue = <<>> /\ armed = FALSE
    /\ accepted = 0 /\ received = <<>> /\ peer = "reading"

\* What is left to send of a buffer.
Remaining(pbuf) == SubSeq(pbuf.base, pbuf.offset + 1, Len(pbuf.base))

\* hio_done frees the queue and deletes the events, __close_cb the timer.
DoClose ==
    /\ opened' = FALSE /\ close' = FALSE /\ close_timer' = FALSE
    /\ write_queue' = <<>> /\ armed' = FALSE

\* The bytes the kernel takes now of a write of n: none, if there is no room (EAGAIN).
Taken(n) == IF peer = "reading" THEN 0..n ELSE {0}

-----------------------------------------------------------------------------
\* The next n bytes.
Message(n) == [i \in 1..n |-> accepted + i]

\* The buffer is copied, the part that was sent is skipped.
Enqueue(buf, nwrite) ==
    write_queue' = Append(write_queue, [base |-> buf, offset |-> nwrite])

\* Mutant of hio_write: the socket is tried although messages wait.
hio_write_first(n) ==
    /\ opened /\ accepted + n <= MaxBytes
    /\ accepted' = accepted + n
    /\ \E nwrite \in Taken(n) :
          /\ received' = received \o SubSeq(Message(n), 1, nwrite)
          /\ IF nwrite = n
             THEN UNCHANGED <<write_queue, armed>>
             ELSE Enqueue(Message(n), nwrite) /\ armed' = TRUE
    /\ UNCHANGED <<opened, close, close_timer, peer>>

\* The message is written as far as the kernel takes it and the rest is queued; behind
\* messages that wait it is queued as a whole.
hio_write(n) ==
    /\ opened /\ accepted + n <= MaxBytes
    /\ accepted' = accepted + n
    /\ \/ /\ write_queue = <<>> /\ peer # "reset"
          /\ \E nwrite \in Taken(n) :
                /\ received' = received \o SubSeq(Message(n), 1, nwrite)
                /\ IF nwrite = n
                   THEN UNCHANGED <<write_queue, armed>>
                   ELSE Enqueue(Message(n), nwrite) /\ armed' = TRUE
       \/ /\ write_queue # <<>>
          /\ Enqueue(Message(n), 0)
          /\ UNCHANGED <<received, armed>>
    /\ UNCHANGED <<opened, close, close_timer, peer>>

\* The write of a message or of the queue fails: an error, with which hio_close
\* does not wait.
WriteError ==
    /\ opened /\ peer = "reset" /\ (write_queue = <<>> \/ armed)
    /\ DoClose
    /\ UNCHANGED <<accepted, received, peer>>

-----------------------------------------------------------------------------
(* hio_handle_events with HV_WRITE *)

\* Mutant of Disarm: HV_WRITE is deleted before the queue is empty.
DisarmAlways == armed' = FALSE

\* HV_WRITE is deleted if the queue was empty before nio_write.
Disarm == armed' = (armed /\ write_queue # <<>>)

\* nio_write sends m buffers and, if there is another, j bytes of it.
Sent(m, j) == FlattenSeq([i \in 1..m |-> Remaining(write_queue[i])])
              \o (IF j = 0 THEN <<>> ELSE SubSeq(Remaining(write_queue[m + 1]), 1, j))

\* The lengths of a write that leaves something of the next buffer.
Partial(m) == IF m = Len(write_queue) THEN {0} ELSE 0..(Len(Remaining(write_queue[m + 1])) - 1)

\* The queue behind them.
Left(m, j) == [i \in 1..(Len(write_queue) - m) |->
                  IF i = 1 THEN [write_queue[m + 1] EXCEPT !.offset = @ + j] ELSE write_queue[m + i]]

nio_write(m, j) ==
    /\ opened /\ armed /\ peer = "reading"
    /\ received' = received \o Sent(m, j)
    /\ IF m = Len(write_queue) /\ close
       THEN DoClose
       ELSE /\ Disarm
            /\ write_queue' = Left(m, j)
            /\ UNCHANGED <<opened, close, close_timer>>
    /\ UNCHANGED <<accepted, peer>>

WriteEvent == \E m \in 0..Len(write_queue) : \E j \in Partial(m) : nio_write(m, j)

-----------------------------------------------------------------------------
(* Closing *)

\* hio_close, by on_recv, websocket_heartbeat, a posted close or the end of the stream.
hio_close ==
    /\ opened
    /\ IF write_queue # <<>> /\ ~close
       THEN close' = TRUE /\ close_timer' = TRUE /\ UNCHANGED <<opened, write_queue, armed>>
       ELSE DoClose
    /\ UNCHANGED <<accepted, received, peer>>

\* __close_timeout_cb
CloseTimeout ==
    /\ close_timer
    /\ DoClose
    /\ UNCHANGED <<accepted, received, peer>>

-----------------------------------------------------------------------------
\* The peer stops reading, reads again, or resets the connection.
Peer(how) == opened /\ peer # "reset" /\ peer' = how /\ UNCHANGED <<hio, accepted, received>>

QueueNext ==
    \/ \E n \in Sizes : hio_write(n)
    \/ WriteError \/ WriteEvent \/ hio_close \/ CloseTimeout
    \/ \E how \in {"reading", "stalled", "reset"} : Peer(how)

QueueSpec == QueueInit /\ [][QueueNext]_queueVars

\* The poll reports a connection that has room as long as HV_WRITE is there.
Sending == WriteEvent /\ received' # received

LiveSpec == QueueSpec /\ WF_queueVars(Sending)

-----------------------------------------------------------------------------
(* Properties *)

\* The connection is the stream its callers rely on: partial writes, queued messages
\* and a close that waits neither reorder, repeat nor lose a byte.
Stream == INSTANCE ByteStream WITH
    delivered <- received, asked <- close, reset <- (peer = "reset"), ended <- ~opened
StreamSpec == Stream!Spec

\* Nothing stays in the queue for ever of a peer that reads: HV_WRITE is not deleted
\* too early.
Delivered == accepted > Len(received) ~> accepted = Len(received) \/ ~opened \/ peer # "reading"

=============================================================================
