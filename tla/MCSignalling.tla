---------------------------- MODULE MCSignalling ----------------------------
(* Two sessions with a bid and an allocation each, and storage for one.      *)
EXTENDS Signalling

CONSTANTS s1, s2
=============================================================================
