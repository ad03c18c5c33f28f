--------------------------- MODULE MCCallbackRoutes ----------------------------
(***************************************************************************)
(* Small instances of CallbackRoutes for TLC.                              *)
(***************************************************************************)
EXTENDS CallbackRoutes

CONSTANTS p1, r1, r2, own, other

\* A route of each kind: the routes that are left out answer like "context".
MCRoutes == {"event", "context", "tools", "lookup", "package", "refresh"}
=============================================================================
