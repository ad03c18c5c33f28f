------------------------- MODULE MCCredentialRefresh -------------------------
(***************************************************************************)
(* Small instances of CredentialRefresh for TLC.                           *)
(***************************************************************************)
EXTENDS CredentialRefresh

CONSTANTS r1, r2, r3
=============================================================================
