---------------------------- MODULE MCEventStream ----------------------------
(***************************************************************************)
(* Small instances of EventStream for TLC.                                 *)
(***************************************************************************)
EXTENDS EventStream, TLC

CONSTANTS started, message

MCSymmetry == Permutations(Types)
=============================================================================
