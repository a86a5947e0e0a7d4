----------------------------- MODULE MCWsServer -----------------------------
(* Instances of WsServer for TLC: one or two descriptors.                  *)
EXTENDS WsServer, TLC

CONSTANTS f1, f2, k1

MCFds == {f1, f2}
MCSymmetry == Permutations(MCFds)
MCOneFd == {f1}
MCOneToken == {k1}
=============================================================================
