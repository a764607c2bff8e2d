---------------------------- MODULE MCConcepts ----------------------------
(* Instance of Concepts for TLC: one reference image the host may offer. *)
EXTENDS Concepts, TLC

CONSTANT r1
=============================================================================
