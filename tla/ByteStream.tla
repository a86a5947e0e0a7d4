----------------------------- MODULE ByteStream -----------------------------
(***************************************************************************)
(* What a caller of hio_write may rely on: the bytes it was given reach    *)
(* the peer in their order, each once, and the connection does not end     *)
(* before the last of them but for a reset by the peer, or once            *)
(* a close was asked for and waits.                                        *)
(*                                                                         *)
(* Byte number i is the i-th one given to hio_write.                       *)
(***************************************************************************)
EXTENDS Naturals, Sequences

CONSTANT MaxBytes   \* bound: bytes given to the stream

VARIABLES accepted,   \* how many bytes were given to the stream
          delivered,  \* the bytes the peer has got
          asked,      \* a close waits for the bytes that are not delivered
          reset,      \* the peer has reset the connection
          ended

svars == <<accepted, delivered, asked, reset, ended>>

Init == accepted = 0 /\ delivered = <<>> /\ asked = FALSE /\ reset = FALSE /\ ended = FALSE

\* The peer gets some of the next bytes, up to byte number last.
Deliver(last) ==
    \E k \in Len(delivered)..last : delivered' = delivered \o [i \in 1..(k - Len(delivered)) |-> Len(delivered) + i]

Pass ==
    /\ ~ended
    /\ accepted' \in accepted..MaxBytes
    /\ Deliver(accepted')
    /\ UNCHANGED <<asked, reset, ended>>

Ask ==
    /\ ~ended /\ ~asked
    /\ Len(delivered) < accepted
    /\ asked' = TRUE
    /\ UNCHANGED <<accepted, delivered, reset, ended>>

End ==
    /\ ~ended
    /\ Deliver(accepted)
    /\ Len(delivered') = accepted \/ asked \/ reset
    /\ ended' = TRUE /\ asked' = FALSE
    /\ UNCHANGED <<accepted, reset>>

Reset == ~ended /\ reset' = TRUE /\ UNCHANGED <<accepted, delivered, asked, ended>>

Next == Pass \/ Ask \/ End \/ Reset

Spec == Init /\ [][Next]_svars
=============================================================================
