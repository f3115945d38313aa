-------------------------- MODULE MCBountyCreation --------------------------
(* Small instances of BountyCreation for TLC.                              *)
EXTENDS BountyCreation

CONSTANTS w1, w2, q1, q2
=============================================================================
