--------------------------- MODULE MCNatsConsumer ---------------------------
(***************************************************************************)
(* Small instances of NatsConsumer for TLC.                                *)
(***************************************************************************)
EXTENDS NatsConsumer

CONSTANTS e1, e2, w1, w2

\* Two entries, fewer than the deliveries, so that the last one is reused.
MCBackoff == <<2, 5>>

\* A rolling deployment from one configuration to another: whoever starts first
\* creates the durable, and the other one joins it with a limit above or below.
MCConfig ==
  [c \in {w1, w2} |->
     IF c = w1 THEN [max_deliver |-> 2, max_ack_pending |-> 1]
               ELSE [max_deliver |-> 3, max_ack_pending |-> 2]]
=============================================================================
