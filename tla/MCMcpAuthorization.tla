-------------------------- MODULE MCMcpAuthorization --------------------------
(***************************************************************************)
(* Small instances of McpAuthorization for TLC.                            *)
(***************************************************************************)
EXTENDS McpAuthorization

CONSTANTS l1, l2, l3
=============================================================================
