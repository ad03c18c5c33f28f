--------------------------- MODULE MCDeviceLogin ---------------------------
(***************************************************************************)
(* Small instances of DeviceLogin for TLC.  The code's 1, 5, 60 and 900       *)
(* seconds are scaled down so that the clamps, a capped back-off and an       *)
(* expiry between two polls all happen.                                      *)
(***************************************************************************)
EXTENDS DeviceLogin

CONSTANTS w1, w2

MCAdvertised == {-1, 1, 9}
=============================================================================
