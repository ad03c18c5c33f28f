--------------------------- MODULE MCMcpDiscovery ---------------------------
(***************************************************************************)
(* Small instances of McpDiscovery for TLC: the MCP server's own site, a    *)
(* partner that is allowed, and a stranger that is not.                     *)
(***************************************************************************)
EXTENDS McpDiscovery, TLC

CONSTANTS home, partner, stranger
=============================================================================
