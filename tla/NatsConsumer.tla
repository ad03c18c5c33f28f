---------------------------- MODULE NatsConsumer ----------------------------
(***************************************************************************)
(* The durable event consumer of src/agent_runtime/nats.py together with   *)
(* the JetStream consumer it subscribes to.                                 *)
(*                                                                         *)
(* Several host processes (Workers) run NATSConsumer.run with one durable   *)
(* name.  Each repeats: fetch a batch, process its messages one by one,     *)
(* and acknowledge (ack) or negatively acknowledge (nak) every one of them. *)
(* The server counts the deliveries of an event, takes it back when its     *)
(* ack wait expires, and stops at the max_deliver of the durable.  That is   *)
(* the one of whoever created it: a process that joins with another          *)
(* configuration, as in a rolling deployment, changes nothing on the server, *)
(* and compares the deliveries with its own max_deliver.                    *)
(*                                                                         *)
(* The server's part is external code, modelled from the configuration that *)
(* _subscribe hands it.  A delivery is the pair <<event, number>>: the      *)
(* message object the client holds and its num_delivered.                   *)
(***************************************************************************)
EXTENDS Integers, Sequences, FiniteSets

CONSTANTS
  Events,         \* the events the stream stores for the consumer's subject
  Malformed,      \* those parse_event_envelope refuses
  Workers,        \* the processes that share the durable
  Config,         \* max_deliver and max_ack_pending of each NATSConsumerConfig
  LimitBound,     \* bound: the largest max_deliver
  FetchBatch,     \* NATSConsumerConfig.fetch_batch
  Backoff,        \* NATSConsumerConfig.backoff, in any unit of time
  MaxFaults       \* bound: how many crashes and losses a behaviour has

\* What __post_init__ guarantees of the configuration (nats.py:60-65): the
\* counts are positive and the backoff list is not empty.  A delay of 0 would
\* be no delay, and the lists in use have none.
ASSUME ConfigAssumption ==
  /\ Malformed \subseteq Events
  /\ LimitBound \in Nat
  /\ Config \in [Workers -> [max_deliver : 1 .. LimitBound, max_ack_pending : Nat \ {0}]]
  /\ FetchBatch \in Nat \ {0}
  /\ Backoff \in Seq(Nat \ {0}) /\ Backoff # <<>>
  /\ MaxFaults \in Nat

VARIABLES
  durable,    \* server: the configuration of the durable
  delivered,  \* server: how often each event was handed out (num_delivered)
  status,     \* server: what it does with the event next
  due,        \* server: the delay the last nak asked for, 0 once it elapsed
  up,         \* whether the worker is inside its fetch loop
  batch,      \* the deliveries of the current fetch not yet acked or naked
  verdict,    \* history: what process_message made of each delivery
  judged,     \* history: the deliveries whose handler ended in each worker
  lost,       \* history: the deliveries a fault took from a worker
  faults      \* how many faults happened

vars == <<durable, delivered, status, due, up, batch, verdict, judged, lost, faults>>

\* What the server has before a worker subscribed for the first time.
NoDurable == [max_deliver |-> 0, max_ack_pending |-> 0]

Deliveries == Events \X (1 .. LimitBound)

\* The ways process_message ends that lead to an ack, and the one to a nak.
FinalVerdicts == {"invalid", "ok", "drop", "exhausted"}
Concluded == FinalVerdicts \cup {"retry"}

TypeOK ==
  /\ durable \in {NoDurable} \cup {Config[c] : c \in Workers}
  /\ delivered \in [Events -> 0 .. durable.max_deliver]
  /\ status \in [Events -> {"ready", "outstanding", "acked"}]
  /\ due \in [Events -> Nat]
  /\ up \in [Workers -> BOOLEAN]
  /\ batch \in [Workers -> SUBSET Deliveries]
  /\ verdict \in [Deliveries -> {"none", "running"} \cup Concluded]
  /\ judged \in [Workers -> SUBSET Deliveries]
  /\ lost \subseteq Deliveries
  /\ faults \in 0 .. MaxFaults

Init ==
  /\ durable = NoDurable
  /\ delivered = [m \in Events |-> 0]
  /\ status = [m \in Events |-> "ready"]
  /\ due = [m \in Events |-> 0]
  /\ up = [c \in Workers |-> FALSE]
  /\ batch = [c \in Workers |-> {}]
  /\ verdict = [d \in Deliveries |-> "none"]
  /\ judged = [c \in Workers |-> {}]
  /\ lost = {}
  /\ faults = 0

-----------------------------------------------------------------------------
(* The server's side. *)

\* Handed out and neither acked nor given up: what max_ack_pending counts.
Pending ==
  {m \in Events : /\ delivered[m] > 0
                  /\ \/ status[m] = "outstanding"
                     \/ status[m] = "ready" /\ delivered[m] < durable.max_deliver}

\* Mutant: max_deliver is not passed to the server.
Deliverable_NoLimit == {m \in Events : status[m] = "ready" /\ due[m] = 0}

Deliverable ==
  {m \in Events : /\ status[m] = "ready" /\ due[m] = 0
                  /\ delivered[m] < durable.max_deliver}

\* Mutant: a fetch waits for a full batch.
Batches_Full ==
  {S \in SUBSET Deliverable : /\ Cardinality(S) = FetchBatch
                              /\ Cardinality(Pending \cup S) <= durable.max_ack_pending}

\* The sets of events one fetch may return.  A redelivery is pending already,
\* so the limit only holds back events that were never delivered.
Batches ==
  {S \in SUBSET Deliverable : /\ S # {}
                              /\ Cardinality(S) <= FetchBatch
                              /\ Cardinality(Pending \cup S) <= durable.max_ack_pending}

HandOut(S) ==
  /\ delivered' = [m \in Events |-> IF m \in S THEN delivered[m] + 1 ELSE delivered[m]]
  /\ status' = [m \in Events |-> IF m \in S THEN "outstanding" ELSE status[m]]

NextDeliveries(S) == {<<m, delivered[m] + 1>> : m \in S}

\* ack_wait elapsed with no answer: the event goes back to the queue, while the
\* worker that holds the delivery notices nothing.
AckWaitExpires(m) ==
  /\ status[m] = "outstanding"
  /\ status' = [status EXCEPT ![m] = "ready"]
  /\ UNCHANGED <<durable, delivered, due, up, batch, verdict, judged, lost, faults>>

DelayElapses(m) ==
  /\ due[m] > 0
  /\ due' = [due EXCEPT ![m] = 0]
  /\ UNCHANGED <<durable, delivered, status, up, batch, verdict, judged, lost, faults>>

-----------------------------------------------------------------------------
(* NATSConsumer.run. *)

\* Mutant: a worker that joins the durable changes its configuration.
Start_Updates(c) ==
  /\ ~up[c]
  /\ up' = [up EXCEPT ![c] = TRUE]
  /\ durable' = Config[c]
  /\ UNCHANGED <<delivered, status, due, batch, verdict, judged, lost, faults>>

\* Connect, ensure the stream, subscribe, and enter the loop.  pull_subscribe
\* creates the durable, or joins the one that exists as it is.
Start(c) ==
  /\ ~up[c]
  /\ up' = [up EXCEPT ![c] = TRUE]
  /\ durable' = IF durable = NoDurable THEN Config[c] ELSE durable
  /\ UNCHANGED <<delivered, status, due, batch, verdict, judged, lost, faults>>

\* Mutant: the worker prefetches while it still holds messages.
Fetch_Prefetch(c) ==
  /\ up[c]
  /\ \E S \in Batches :
       /\ HandOut(S)
       /\ batch' = [batch EXCEPT ![c] = @ \cup NextDeliveries(S)]
  /\ UNCHANGED <<durable, due, up, verdict, judged, lost, faults>>

\* The fetch returns a batch; only an empty-handed worker fetches.
Fetch(c) ==
  /\ up[c]
  /\ batch[c] = {}
  /\ \E S \in Batches :
       /\ HandOut(S)
       /\ batch' = [batch EXCEPT ![c] = NextDeliveries(S)]
  /\ UNCHANGED <<durable, due, up, verdict, judged, lost, faults>>

\* The fetch timed out, or failed and was logged: the loop continues.
FetchTimeout(c) ==
  /\ up[c]
  /\ batch[c] = {}
  /\ UNCHANGED vars

\* Mutant: the messages of a batch are processed by concurrent tasks.
Idle_Concurrent(c) == c \in Workers

\* The loop is sequential: it takes up a message when the previous one is done.
Idle(c) == \A d \in batch[c] : verdict[d] = "none"

\* process_message parses the payload and calls the handler; a payload that does
\* not parse never reaches it.
Handle(c, d) ==
  /\ d \in batch[c]
  /\ Idle(c)
  /\ verdict' = [verdict EXCEPT ![d] = IF d[1] \in Malformed THEN "invalid" ELSE "running"]
  /\ UNCHANGED <<durable, delivered, status, due, up, batch, judged, lost, faults>>

\* Mutants: the comparison is with the max_deliver of the durable, or off by one.
AfterFailure_Durable(c, n) == IF n >= durable.max_deliver THEN "exhausted" ELSE "retry"
AfterFailure_TooLate(c, n) == IF n > Config[c].max_deliver THEN "exhausted" ELSE "retry"

\* What an exception of the handler other than DropEvent comes to.
AfterFailure(c, n) == IF n >= Config[c].max_deliver THEN "exhausted" ELSE "retry"

HandlerReturns(c, d) ==
  /\ d \in batch[c]
  /\ verdict[d] = "running"
  /\ \E v \in {"ok", "drop", AfterFailure(c, d[2])} : verdict' = [verdict EXCEPT ![d] = v]
  /\ judged' = [judged EXCEPT ![c] = @ \cup {d}]
  /\ UNCHANGED <<durable, delivered, status, due, up, batch, lost, faults>>

\* message.ack() reaches the server, which settles the event whatever it did
\* with it since it made this delivery.
Ack(c, d) ==
  /\ d \in batch[c]
  /\ verdict[d] \in FinalVerdicts
  /\ status' = [status EXCEPT ![d[1]] = "acked"]
  /\ due' = [due EXCEPT ![d[1]] = 0]
  /\ batch' = [batch EXCEPT ![c] = @ \ {d}]
  /\ UNCHANGED <<durable, delivered, up, verdict, judged, lost, faults>>

\* Mutant: the delivery number is used as an index without taking 1 off.
RetryDelay_OffByOne(n) == Backoff[IF n < Len(Backoff) THEN n + 1 ELSE Len(Backoff)]

\* backoff[min(max(deliveries, 1) - 1, len(backoff) - 1)], counted from 1.
RetryDelay(n) == Backoff[IF n <= Len(Backoff) THEN n ELSE Len(Backoff)]

\* message.nak(delay) reaches the server.  It is about the event, not about the
\* delivery: a nak of an old delivery puts back an event that was handed out
\* again meanwhile.  Nothing happens if the event is queued already or acked.
Nak(c, d) ==
  /\ d \in batch[c]
  /\ verdict[d] = "retry"
  /\ batch' = [batch EXCEPT ![c] = @ \ {d}]
  /\ \/ /\ status[d[1]] = "outstanding"
        /\ status' = [status EXCEPT ![d[1]] = "ready"]
        /\ due' = [due EXCEPT ![d[1]] = RetryDelay(d[2])]
     \/ /\ status[d[1]] # "outstanding"
        /\ UNCHANGED <<status, due>>
  /\ UNCHANGED <<durable, delivered, up, verdict, judged, lost, faults>>

-----------------------------------------------------------------------------
(* Faults, at most MaxFaults of them. *)

\* run() ends: the process crashes, its task is cancelled, or an ack or nak
\* raises (the calls are outside every try).  What it held is gone.
Stop(c) ==
  /\ faults < MaxFaults
  /\ up[c]
  /\ up' = [up EXCEPT ![c] = FALSE]
  /\ lost' = lost \cup batch[c]
  /\ batch' = [batch EXCEPT ![c] = {}]
  /\ faults' = faults + 1
  /\ UNCHANGED <<durable, delivered, status, due, verdict, judged>>

\* The server handed out a batch and the fetch failed: the exception is logged
\* and the loop continues, but the deliveries are counted.
FetchFails(c) ==
  /\ faults < MaxFaults
  /\ up[c]
  /\ batch[c] = {}
  /\ \E S \in Batches :
       /\ HandOut(S)
       /\ lost' = lost \cup NextDeliveries(S)
  /\ faults' = faults + 1
  /\ UNCHANGED <<durable, due, up, batch, verdict, judged>>

\* The ack or nak was sent and never arrives.
SettlementLost(c, d) ==
  /\ faults < MaxFaults
  /\ d \in batch[c]
  /\ verdict[d] \in Concluded
  /\ batch' = [batch EXCEPT ![c] = @ \ {d}]
  /\ lost' = lost \cup {d}
  /\ faults' = faults + 1
  /\ UNCHANGED <<durable, delivered, status, due, up, verdict, judged>>

-----------------------------------------------------------------------------
Process(c, d) == Handle(c, d) \/ HandlerReturns(c, d) \/ Ack(c, d) \/ Nak(c, d)

Next ==
  \/ \E m \in Events : AckWaitExpires(m) \/ DelayElapses(m)
  \/ \E c \in Workers :
       \/ Start(c) \/ Fetch(c) \/ FetchTimeout(c) \/ Stop(c) \/ FetchFails(c)
       \/ \E d \in batch[c] : Process(c, d) \/ SettlementLost(c, d)

\* The event loop keeps running a process that is up and a supervisor restarts
\* one that is not; handlers end; the server's timers fire.
Fairness ==
  /\ \A m \in Events : WF_vars(AckWaitExpires(m)) /\ WF_vars(DelayElapses(m))
  /\ \A c \in Workers :
       /\ WF_vars(Start(c)) /\ WF_vars(Fetch(c))
       /\ WF_vars(\E d \in batch[c] : Process(c, d))

Spec == Init /\ [][Next]_vars

FairSpec == Spec /\ Fairness

-----------------------------------------------------------------------------
(* What the consumer promises. *)

Held(m) == \E c \in Workers : \E d \in batch[c] : d[1] = m

\* The server will not deliver it again and no worker can still ack it.
Stranded(m) ==
  /\ status[m] # "acked" /\ ~Held(m)
  /\ delivered[m] > 0 /\ delivered[m] = durable.max_deliver

HasVerdict(m, V) == \E n \in 1 .. LimitBound : verdict[<<m, n>>] \in V

\* A delivery is in one hand only and a worker has one message in process at a
\* time: the sequential loop of nats.py:99-100 on a durable that is shared.
ExclusiveDelivery ==
  /\ \A c1, c2 \in Workers : c1 # c2 => batch[c1] \cap batch[c2] = {}
  /\ \A c \in Workers : \A d, e \in batch[c] :
       verdict[d] # "none" /\ verdict[e] # "none" => d = e

\* No event leaves the stream unprocessed: it is acked only if some delivery of
\* it was completed, dropped by the handler, refused by the parser, or was the
\* last of max_deliver failures (nats.py:110, 117, 129, 133).
AckIsEarned ==
  \A m \in Events : status[m] = "acked" => HasVerdict(m, FinalVerdicts)

\* Worker c acked the n-th delivery of m as a failure that has no retry left.
GaveUp(c, m, n) == <<m, n>> \in judged[c] /\ verdict[<<m, n>>] = "exhausted"

\* A failing handler gets all its retries: an event that is acked though no
\* delivery of it succeeded, was dropped or was invalid was given up, and each
\* worker that gave it up did so on a delivery that its own max_deliver has
\* reached, whatever the limits of the durable and of the other workers are
\* (nats.py:119-131).
RetriesNotSkipped ==
  \A m \in Events :
    status[m] = "acked" /\ ~HasVerdict(m, {"ok", "drop", "invalid"})
      => /\ \E c \in Workers, n \in 1 .. delivered[m] : GaveUp(c, m, n)
         /\ \A c \in Workers, n \in 1 .. LimitBound :
              GaveUp(c, m, n) => Config[c].max_deliver <= n

\* A worker asked for a retry of the last delivery, for its own max_deliver
\* allows one where the durable's does not.
NakedInVain(m) ==
  \E c \in Workers :
    /\ <<m, durable.max_deliver>> \in judged[c]
    /\ verdict[<<m, durable.max_deliver>>] = "retry"
    /\ durable.max_deliver < Config[c].max_deliver

\* The consumer never strands an event by itself: one that the server gave up
\* unacknowledged lost its last delivery to a fault, for the client acks a
\* failure of the last delivery instead of naking it - or the durable is an
\* older one with a lower max_deliver than the process has that naked it
\* (nats.py:119-131, 167-177).
StrandedForCause ==
  \A m \in Events :
    Stranded(m) => <<m, durable.max_deliver>> \in lost \/ NakedInVain(m)

\* An event waits for one of the backoff entries that its deliveries so far have
\* reached, never for a later or a missing one (nats.py:135-137).
DelayWithinSchedule ==
  \A m \in Events : due[m] > 0 =>
    \E i \in 1 .. Len(Backoff) : i <= delivered[m] /\ due[m] = Backoff[i]

\* No event is forgotten: each is acked, or has had its last delivery and is in
\* no hand any more, although ack waits expire at any time and max_ack_pending blocks new events.
Resolution ==
  \A m \in Events : <>(status[m] = "acked" \/ Stranded(m))

\* nats.py:22-23 says of DropEvent "Acknowledge an event without running it
\* again": once the event is dropped and its ack is in, no step starts the
\* handler on it.
DropIsFinal ==
  [][\A d \in Deliveries :
       status[d[1]] = "acked" /\ HasVerdict(d[1], {"drop"}) /\ verdict[d] = "none"
         => verdict'[d] # "running"]_vars

\* A consumer that is alone and meets no fault has the last word: after a final
\* verdict no later delivery reaches the handler, for however late the ack is, it
\* settles the event before the next fetch (nats.py:99-100, 116-133).  Without a
\* fault a worker that is not up was never up.
FinalIsFinal ==
  faults = 0 /\ Cardinality({c \in Workers : up[c]}) <= 1 =>
    \A m \in Events : \A i, j \in 1 .. LimitBound :
      i < j /\ verdict[<<m, i>>] \in FinalVerdicts => verdict[<<m, j>>] = "none"

-----------------------------------------------------------------------------
(* The abstract promise. *)

\* What the detailed state means to the host.
Fate(m) ==
  IF status[m] = "acked" THEN "settled"
  ELSE IF Stranded(m) THEN "stranded" ELSE "pending"

Verdicts(m) == {verdict[<<m, n>>] : n \in 1 .. LimitBound} \cap Concluded

Abstract ==
  INSTANCE EventFate WITH
    Limits <- {Config[c].max_deliver : c \in Workers},
    limit <- durable.max_deliver,
    tries <- delivered,
    verdicts <- [m \in Events |-> Verdicts(m)],
    fate <- [m \in Events |-> Fate(m)]

\* The consumer with its server, workers and faults keeps the promise of
\* EventFate: nothing is settled without a final verdict, given up before the
\* last try, or revived after it was settled or stranded.
ImplementsEventFate == Abstract!FateSpec
=============================================================================
