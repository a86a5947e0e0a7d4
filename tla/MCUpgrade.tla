------------------------------ MODULE MCUpgrade ------------------------------
(* Instance of Upgrade for TLC: the bounds are given in the cfg files.       *)
EXTENDS Upgrade
=============================================================================
