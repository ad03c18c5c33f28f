----------------------------- MODULE MCRunResume ------------------------------
(***************************************************************************)
(* Small instances of RunResume for TLC.                                   *)
(***************************************************************************)
EXTENDS RunResume

CONSTANTS ann, ben
=============================================================================
