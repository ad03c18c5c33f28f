------------------------------ MODULE EventFate ------------------------------
(***************************************************************************)
(* What a host may rely on when it consumes events through a NATSConsumer,  *)
(* with no workers, fetches, timers or messages in it: every event is tried *)
(* up to a limit that is settled once, its verdicts accumulate, and it is settled on *)
(* the strength of a final one, or stranded once its tries are used up.     *)
(***************************************************************************)
EXTENDS Naturals

CONSTANTS
  Events,
  Limits     \* what the processes of the host have been configured with

VARIABLES
  limit,     \* how often an event may be tried, 0 until it is settled
  tries,     \* how often each event was tried
  verdicts,  \* what its tries came to
  fate       \* whether it is pending, settled or stranded

fateVars == <<limit, tries, verdicts, fate>>

Settling == {"invalid", "ok", "drop", "exhausted"}

FateInit ==
  /\ limit = 0
  /\ tries = [m \in Events |-> 0]
  /\ verdicts = [m \in Events |-> {}]
  /\ fate = [m \in Events |-> "pending"]

\* The first process settles the limit.
Open ==
  /\ limit = 0
  /\ limit' \in Limits
  /\ UNCHANGED <<tries, verdicts, fate>>

\* Some events are tried; those that had their last try may be stranded by it.
Try(S, T) ==
  /\ \A m \in S : fate[m] = "pending" /\ tries[m] < limit
  /\ \A m \in T : m \in S /\ tries[m] + 1 = limit
  /\ tries' = [m \in Events |-> IF m \in S THEN tries[m] + 1 ELSE tries[m]]
  /\ fate' = [m \in Events |-> IF m \in T THEN "stranded" ELSE fate[m]]
  /\ UNCHANGED <<limit, verdicts>>

\* A try ends.  Whoever gives up or asks for a retry goes by a limit, if not by
\* the one that was settled.
Conclude(m, v) ==
  /\ fate[m] # "stranded"
  /\ tries[m] > 0
  /\ v = "exhausted" => \E n \in Limits : n <= tries[m]
  /\ v = "retry" => \E n \in Limits : n > 1
  /\ verdicts' = [verdicts EXCEPT ![m] = @ \cup {v}]
  /\ UNCHANGED <<limit, tries, fate>>

Settle(m) ==
  /\ fate[m] = "pending"
  /\ verdicts[m] \cap Settling # {}
  /\ fate' = [fate EXCEPT ![m] = "settled"]
  /\ UNCHANGED <<limit, tries, verdicts>>

\* The last chance of some events is gone: by a fault, or by a wish for a retry
\* beyond the limit.
Strand(S) ==
  /\ \A m \in S : fate[m] = "pending" /\ tries[m] = limit
  /\ fate' = [m \in Events |-> IF m \in S THEN "stranded" ELSE fate[m]]
  /\ UNCHANGED <<limit, tries, verdicts>>

FateNext ==
  \/ Open
  \/ \E S \in SUBSET Events : \E T \in SUBSET S : Try(S, T)
  \/ \E m \in Events : Settle(m) \/ \E v \in Settling \cup {"retry"} : Conclude(m, v)
  \/ \E S \in SUBSET Events : Strand(S)

FateSpec == FateInit /\ [][FateNext]_fateVars
=============================================================================
