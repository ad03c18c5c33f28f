------------------------- MODULE NatsConsumer_proofs -------------------------
(***************************************************************************)
(* Proofs about NatsConsumer for any number of events, workers, deliveries  *)
(* and faults, and any configuration of each worker: its safety properties,  *)
(* what a consumer that is alone guarantees beyond them, and the refinement   *)
(* of EventFate.                                                            *)
(***************************************************************************)
EXTENDS NatsConsumer, FiniteSetTheorems, TLAPS

\* No worker holds or judged, and no fault took, a delivery the server did not
\* make.
MadeByServer ==
  \A m \in Events, n \in 1 .. LimitBound :
    (\/ verdict[<<m, n>>] # "none"
     \/ <<m, n>> \in lost
     \/ \E c \in Workers : <<m, n>> \in batch[c]) => n <= delivered[m]

\* The limit of worker c allows giving up, or asking for a retry, at the delivery
\* number n.
VerdictFits(c, v, n) ==
  /\ v = "exhausted" => Config[c].max_deliver <= n
  /\ v = "retry" => n < Config[c].max_deliver

\* A failure was judged by a worker, and every worker judged by its own limit,
\* once for each delivery.
VerdictsFit ==
  /\ \A m \in Events, n \in 1 .. LimitBound :
       verdict[<<m, n>>] \in {"exhausted", "retry"} => \E c \in Workers : <<m, n>> \in judged[c]
  /\ \A c \in Workers, m \in Events, n \in 1 .. LimitBound :
       <<m, n>> \in judged[c] =>
         verdict[<<m, n>>] \in Concluded /\ VerdictFits(c, verdict[<<m, n>>], n)

\* Until it is acked, the last delivery that the durable allows of an event is in
\* a worker's hands, or it was lost or naked.
LastIsHeldOrLost ==
  \A m \in Events :
    delivered[m] > 0 /\ delivered[m] = durable.max_deliver /\ status[m] # "acked" =>
      \/ \E c \in Workers : <<m, durable.max_deliver>> \in batch[c]
      \/ <<m, durable.max_deliver>> \in lost
      \/ verdict[<<m, durable.max_deliver>>] = "retry"

IInv ==
  /\ TypeOK
  /\ ExclusiveDelivery
  /\ MadeByServer
  /\ VerdictsFit
  /\ AckIsEarned
  /\ LastIsHeldOrLost
  /\ DelayWithinSchedule

-----------------------------------------------------------------------------
\* The clamp of retry_delay (nats.py:135-137): every delivery number selects an
\* entry of the backoff list, one that the number has reached.
LEMMA RetryDelayInSchedule ==
  ASSUME NEW n \in 1 .. LimitBound
  PROVE  /\ RetryDelay(n) \in Nat \ {0}
         /\ \E i \in 1 .. Len(Backoff) : i <= n /\ RetryDelay(n) = Backoff[i]
<1>1. Len(Backoff) \in Nat \ {0}
  BY ConfigAssumption
<1>2. CASE n <= Len(Backoff)
  <2>1. n \in 1 .. Len(Backoff) /\ RetryDelay(n) = Backoff[n]
    BY <1>2, ConfigAssumption DEF RetryDelay
  <2> QED
    BY <2>1, ConfigAssumption
<1>3. CASE ~ (n <= Len(Backoff))
  <2>1. Len(Backoff) \in 1 .. Len(Backoff) /\ Len(Backoff) <= n
    BY <1>1, <1>3, ConfigAssumption
  <2>2. RetryDelay(n) = Backoff[Len(Backoff)]
    BY <1>3 DEF RetryDelay
  <2> QED
    BY <2>1, <2>2, ConfigAssumption
<1> QED
  BY <1>2, <1>3

\* The limit of a durable is that of a worker, or 0.
LEMMA DurableLimit ==
  ASSUME TypeOK
  PROVE  durable.max_deliver \in 0 .. LimitBound /\ LimitBound \in Nat
BY ConfigAssumption DEF TypeOK, NoDurable

\* A delivery a worker holds is an event with a number.
LEMMA DeliveryShape ==
  ASSUME TypeOK, NEW c \in Workers, NEW d \in batch[c]
  PROVE  /\ d \in Deliveries /\ d = <<d[1], d[2]>>
         /\ d[1] \in Events /\ d[2] \in 1 .. LimitBound
BY DEF TypeOK, Deliveries

\* What a fetch hands out: the next delivery of events that have one left.
LEMMA HandOutFacts ==
  ASSUME TypeOK, NEW S \in Batches, HandOut(S), durable' = durable
  PROVE  /\ \A m \in S : status[m] = "ready" /\ due[m] = 0
         /\ \A m \in Events :
              /\ delivered[m] \in Nat /\ delivered'[m] \in Nat /\ delivered[m] <= delivered'[m]
              /\ m \in S => delivered'[m] = delivered[m] + 1 /\ status'[m] = "outstanding"
              /\ m \notin S => delivered'[m] = delivered[m] /\ status'[m] = status[m]
         /\ \A m \in Events, n \in 1 .. LimitBound :
              <<m, n>> \in NextDeliveries(S) <=> m \in S /\ n = delivered'[m]
         /\ S \subseteq Events
         /\ NextDeliveries(S) \subseteq Deliveries
         /\ delivered' \in [Events -> 0 .. durable.max_deliver]
         /\ status' \in [Events -> {"ready", "outstanding", "acked"}]
<1>1. \A m \in S : /\ m \in Events /\ status[m] = "ready" /\ due[m] = 0
                   /\ delivered[m] < durable.max_deliver
  BY DEF Batches, Deliverable
<1>2. \A m \in Events : delivered[m] \in 0 .. durable.max_deliver
  BY DEF TypeOK
<1>3. \A m \in Events :
        /\ delivered'[m] = IF m \in S THEN delivered[m] + 1 ELSE delivered[m]
        /\ status'[m] = IF m \in S THEN "outstanding" ELSE status[m]
  BY DEF HandOut
<1> USE DurableLimit
<1>4. \A m \in S : /\ delivered[m] + 1 \in 0 .. durable.max_deliver
                   /\ delivered[m] + 1 \in 1 .. LimitBound
  BY <1>1, <1>2
<1>5. delivered' \in [Events -> 0 .. durable.max_deliver]
  BY <1>2, <1>4 DEF HandOut
<1>6. status' \in [Events -> {"ready", "outstanding", "acked"}]
  BY DEF HandOut, TypeOK
<1>7. \A m \in Events : delivered[m] \in Nat /\ delivered'[m] \in Nat /\ delivered[m] <= delivered'[m]
  BY <1>2, <1>3
<1>8. /\ NextDeliveries(S) \subseteq Deliveries
      /\ \A m \in Events, n \in 1 .. LimitBound :
           <<m, n>> \in NextDeliveries(S) <=> m \in S /\ n = delivered'[m]
  BY <1>1, <1>3, <1>4 DEF NextDeliveries, Deliveries
<1> QED
  BY <1>1, <1>3, <1>5, <1>6, <1>7, <1>8

-----------------------------------------------------------------------------
\* The initial state satisfies the inductive invariant.
LEMMA InitIInv == Init => IInv
<1> SUFFICES ASSUME Init PROVE IInv
  OBVIOUS
<1> USE ConfigAssumption DEF Init
<1>1. TypeOK
  <2>1. durable.max_deliver = 0
    BY DEF NoDurable
  <2>2. verdict \in [Deliveries -> {"none", "running"} \cup Concluded]
    OBVIOUS
  <2> QED
    BY <2>1, <2>2 DEF TypeOK
<1>2. ExclusiveDelivery
  BY DEF ExclusiveDelivery
<1>3. MadeByServer /\ VerdictsFit
  BY DEF MadeByServer, VerdictsFit, VerdictFits, Deliveries
<1>4. AckIsEarned /\ LastIsHeldOrLost /\ DelayWithinSchedule
  BY DEF AckIsEarned, LastIsHeldOrLost, DelayWithinSchedule
<1> QED
  BY <1>1, <1>2, <1>3, <1>4 DEF IInv

\* The server's timers: a step of either preserves the invariant.
LEMMA TimerIInv ==
  ASSUME IInv, NEW m \in Events, AckWaitExpires(m) \/ DelayElapses(m)
  PROVE  IInv'
<1> USE DEF IInv
<1>1. CASE AckWaitExpires(m)
  <2> USE <1>1 DEF AckWaitExpires
  <2>1. TypeOK'
    BY DEF TypeOK
  <2>2. (ExclusiveDelivery /\ MadeByServer /\ VerdictsFit /\ DelayWithinSchedule)'
    BY DEF ExclusiveDelivery, MadeByServer, VerdictsFit, VerdictFits, DelayWithinSchedule
  <2>3. AckIsEarned' /\ LastIsHeldOrLost'
    BY DEF TypeOK, AckIsEarned, HasVerdict, LastIsHeldOrLost
  <2> QED
    BY <2>1, <2>2, <2>3
<1>2. CASE DelayElapses(m)
  <2> USE <1>2 DEF DelayElapses
  <2>1. TypeOK'
    BY DEF TypeOK
  <2>2. (ExclusiveDelivery /\ MadeByServer /\ VerdictsFit /\ AckIsEarned /\ LastIsHeldOrLost)'
    BY DEF ExclusiveDelivery, MadeByServer, VerdictsFit, VerdictFits, AckIsEarned, HasVerdict,
           LastIsHeldOrLost
  <2>3. DelayWithinSchedule'
    BY DEF TypeOK, DelayWithinSchedule
  <2> QED
    BY <2>1, <2>2, <2>3
<1> QED
  BY <1>1, <1>2

\* Entering the loop touches up and, for the first worker, the durable, of which
\* nothing was delivered before; an empty fetch touches nothing.
LEMMA StartIInv ==
  ASSUME IInv, NEW c \in Workers, Start(c) \/ FetchTimeout(c)
  PROVE  IInv'
<1>1. UNCHANGED <<delivered, status, due, batch, verdict, judged, lost, faults>>
  BY DEF Start, FetchTimeout, vars
<1>2. up' \in [Workers -> BOOLEAN]
  BY DEF IInv, TypeOK, Start, FetchTimeout, vars
<1>3. \/ durable' = durable
      \/ durable = NoDurable /\ durable' = Config[c]
  BY DEF Start, FetchTimeout, vars
<1>4. ASSUME durable = NoDurable PROVE \A m \in Events : delivered[m] = 0
  BY <1>4 DEF IInv, TypeOK, NoDurable
<1>5. delivered' \in [Events -> 0 .. durable'.max_deliver]
  <2>1. CASE durable' = durable
    BY <1>1, <2>1 DEF IInv, TypeOK
  <2>2. CASE durable = NoDurable /\ durable' = Config[c]
    <3>1. durable'.max_deliver \in 1 .. LimitBound
      BY <2>2, ConfigAssumption
    <3>2. \A m \in Events : delivered[m] \in 0 .. durable'.max_deliver
      BY <1>4, <2>2, <3>1
    <3> QED
      BY <1>1, <3>2 DEF IInv, TypeOK
  <2> QED
    BY <1>3, <2>1, <2>2
<1>6. TypeOK'
  BY <1>1, <1>2, <1>3, <1>5 DEF IInv, TypeOK
<1>7. (ExclusiveDelivery /\ MadeByServer /\ VerdictsFit)'
  BY <1>1 DEF IInv, ExclusiveDelivery, MadeByServer, VerdictsFit, VerdictFits
<1>8. (AckIsEarned /\ DelayWithinSchedule)'
  BY <1>1 DEF IInv, AckIsEarned, HasVerdict, DelayWithinSchedule
<1>9. LastIsHeldOrLost'
  BY <1>1, <1>3, <1>4 DEF IInv, LastIsHeldOrLost
<1> QED
  BY <1>6, <1>7, <1>8, <1>9 DEF IInv

\* A fetched delivery is new in every hand: its number is above all that were made.
LEMMA FetchIInv ==
  ASSUME IInv, NEW c \in Workers, Fetch(c)
  PROVE  IInv'
<1> USE DEF IInv
<1>1. PICK S \in Batches : HandOut(S) /\ batch' = [batch EXCEPT ![c] = NextDeliveries(S)]
  BY DEF Fetch
<1>2. batch[c] = {} /\ UNCHANGED <<durable, due, up, verdict, judged, lost, faults>>
  BY DEF Fetch
<1> DEFINE HandedOut == NextDeliveries(S)
<1>3. /\ \A m \in S : status[m] = "ready" /\ due[m] = 0
      /\ \A m \in Events :
           /\ delivered[m] \in Nat /\ delivered'[m] \in Nat /\ delivered[m] <= delivered'[m]
           /\ m \in S => delivered'[m] = delivered[m] + 1 /\ status'[m] = "outstanding"
           /\ m \notin S => delivered'[m] = delivered[m] /\ status'[m] = status[m]
      /\ \A m \in Events, n \in 1 .. LimitBound :
           <<m, n>> \in HandedOut <=> m \in S /\ n = delivered'[m]
      /\ S \subseteq Events
      /\ HandedOut \subseteq Deliveries
      /\ delivered' \in [Events -> 0 .. durable.max_deliver]
      /\ status' \in [Events -> {"ready", "outstanding", "acked"}]
  BY <1>1, <1>2, HandOutFacts
<1>4. \A k \in Workers : batch'[k] = IF k = c THEN HandedOut ELSE batch[k]
  BY <1>1 DEF TypeOK
<1> HIDE DEF HandedOut
<1>5. TypeOK'
  <2>1. batch' \in [Workers -> SUBSET Deliveries]
    BY <1>1, <1>3 DEF TypeOK, HandedOut
  <2> QED
    BY <1>2, <1>3, <2>1 DEF TypeOK
<1>6. \A d \in HandedOut : verdict[d] = "none" /\ \A k \in Workers : d \notin batch[k]
  <2> SUFFICES ASSUME NEW d \in HandedOut
               PROVE  verdict[d] = "none" /\ \A k \in Workers : d \notin batch[k]
    OBVIOUS
  <2>1. PICK m \in Events, n \in 1 .. LimitBound : d = <<m, n>>
    BY <1>3 DEF Deliveries
  <2>2. ~ (n <= delivered[m])
    BY <1>3, <2>1
  <2> QED
    BY <2>1, <2>2 DEF MadeByServer
<1>7. ExclusiveDelivery'
  <2>1. ASSUME NEW c1 \in Workers, NEW c2 \in Workers, c1 # c2
        PROVE  batch'[c1] \cap batch'[c2] = {}
    BY <1>4, <1>6, <2>1 DEF ExclusiveDelivery
  <2>2. ASSUME NEW k \in Workers, NEW d \in batch'[k], NEW e \in batch'[k],
               verdict[d] # "none", verdict[e] # "none"
        PROVE  d = e
    BY <1>4, <1>6, <2>2 DEF ExclusiveDelivery
  <2> QED
    BY <1>2, <2>1, <2>2 DEF ExclusiveDelivery
<1>8. MadeByServer'
  <2> SUFFICES ASSUME NEW m \in Events, NEW n \in 1 .. LimitBound,
                      \/ verdict[<<m, n>>] # "none"
                      \/ <<m, n>> \in lost
                      \/ \E k \in Workers : <<m, n>> \in batch'[k]
               PROVE  n <= delivered'[m]
    BY <1>2 DEF MadeByServer
  <2>1. CASE <<m, n>> \in HandedOut
    BY <1>3, <2>1
  <2>2. CASE <<m, n>> \notin HandedOut
    <3>1. n <= delivered[m]
      BY <1>4, <2>2 DEF MadeByServer
    <3> QED
      BY <1>3, <3>1
  <2> QED
    BY <2>1, <2>2
<1>9. VerdictsFit' /\ AckIsEarned'
  BY <1>2, <1>3 DEF VerdictsFit, VerdictFits, AckIsEarned, HasVerdict
<1>10. LastIsHeldOrLost'
  <2> DEFINE n == durable.max_deliver
  <2> SUFFICES ASSUME NEW m \in Events, delivered'[m] > 0, delivered'[m] = n,
                      status'[m] # "acked"
               PROVE  \/ \E k \in Workers : <<m, n>> \in batch'[k]
                      \/ <<m, n>> \in lost
                      \/ verdict[<<m, n>>] = "retry"
    BY <1>2 DEF LastIsHeldOrLost
  <2>1. CASE m \in S
    <3>1. n \in 1 .. LimitBound
      BY <1>3, <2>1, DurableLimit
    <3>2. <<m, n>> \in HandedOut
      BY <1>3, <2>1, <3>1
    <3> QED
      BY <1>4, <3>2
  <2>2. CASE m \notin S
    BY <1>2, <1>3, <1>4, <2>2 DEF LastIsHeldOrLost
  <2> QED
    BY <2>1, <2>2
<1>11. DelayWithinSchedule'
  BY <1>2, <1>3 DEF DelayWithinSchedule
<1> QED
  BY <1>5, <1>7, <1>8, <1>9, <1>10, <1>11

\* The same deliveries, but the fetch fails: they are lost at once.
LEMMA FetchFailsIInv ==
  ASSUME IInv, NEW c \in Workers, FetchFails(c)
  PROVE  IInv'
<1> USE DEF IInv
<1>1. PICK S \in Batches : HandOut(S) /\ lost' = lost \cup NextDeliveries(S)
  BY DEF FetchFails
<1>2. faults < MaxFaults /\ faults' = faults + 1 /\ UNCHANGED <<durable, due, up, batch, verdict, judged>>
  BY DEF FetchFails
<1>3. /\ \A m \in S : status[m] = "ready" /\ due[m] = 0
      /\ \A m \in Events :
           /\ delivered[m] \in Nat /\ delivered'[m] \in Nat /\ delivered[m] <= delivered'[m]
           /\ m \in S => delivered'[m] = delivered[m] + 1 /\ status'[m] = "outstanding"
           /\ m \notin S => delivered'[m] = delivered[m] /\ status'[m] = status[m]
      /\ \A m \in Events, n \in 1 .. LimitBound :
           <<m, n>> \in NextDeliveries(S) <=> m \in S /\ n = delivered'[m]
      /\ S \subseteq Events
      /\ NextDeliveries(S) \subseteq Deliveries
      /\ delivered' \in [Events -> 0 .. durable.max_deliver]
      /\ status' \in [Events -> {"ready", "outstanding", "acked"}]
  BY <1>1, <1>2, HandOutFacts
<1>4. TypeOK'
  <2>1. lost' \subseteq Deliveries /\ faults' \in 0 .. MaxFaults
    BY <1>1, <1>2, <1>3, ConfigAssumption DEF TypeOK
  <2> QED
    BY <1>2, <1>3, <2>1 DEF TypeOK
<1>5. ExclusiveDelivery' /\ VerdictsFit'
  BY <1>2 DEF ExclusiveDelivery, VerdictsFit, VerdictFits
<1>6. MadeByServer'
  <2> SUFFICES ASSUME NEW m \in Events, NEW n \in 1 .. LimitBound,
                      \/ verdict[<<m, n>>] # "none"
                      \/ <<m, n>> \in lost'
                      \/ \E k \in Workers : <<m, n>> \in batch[k]
               PROVE  n <= delivered'[m]
    BY <1>2 DEF MadeByServer
  <2>1. CASE <<m, n>> \in NextDeliveries(S)
    BY <1>3, <2>1
  <2>2. CASE <<m, n>> \notin NextDeliveries(S)
    <3>1. n <= delivered[m]
      BY <1>1, <2>2 DEF MadeByServer
    <3> QED
      BY <1>3, <3>1
  <2> QED
    BY <2>1, <2>2
<1>7. AckIsEarned'
  BY <1>2, <1>3 DEF AckIsEarned, HasVerdict
<1>8. LastIsHeldOrLost'
  <2> DEFINE n == durable.max_deliver
  <2> SUFFICES ASSUME NEW m \in Events, delivered'[m] > 0, delivered'[m] = n,
                      status'[m] # "acked"
               PROVE  \/ \E k \in Workers : <<m, n>> \in batch[k]
                      \/ <<m, n>> \in lost'
                      \/ verdict[<<m, n>>] = "retry"
    BY <1>2 DEF LastIsHeldOrLost
  <2>1. CASE m \in S
    <3>1. n \in 1 .. LimitBound
      BY <1>3, <2>1, DurableLimit
    <3>2. <<m, n>> \in NextDeliveries(S)
      BY <1>3, <2>1, <3>1
    <3> QED
      BY <1>1, <3>2
  <2>2. CASE m \notin S
    BY <1>1, <1>3, <2>2 DEF LastIsHeldOrLost
  <2> QED
    BY <2>1, <2>2
<1>9. DelayWithinSchedule'
  BY <1>2, <1>3 DEF DelayWithinSchedule
<1> QED
  BY <1>4, <1>5, <1>6, <1>7, <1>8, <1>9

\* What a worker makes of a delivery in its hand fits its own limit.
LEMMA VerdictOf ==
  ASSUME TypeOK, NEW c \in Workers, NEW d \in batch[c],
         Handle(c, d) \/ HandlerReturns(c, d)
  PROVE  \E v \in {"running", "invalid", "ok", "drop", "exhausted", "retry"} :
           /\ verdict' = [verdict EXCEPT ![d] = v]
           /\ VerdictFits(c, v, d[2])
           /\ \/ v \in {"running", "invalid"} /\ judged' = judged
              \/ v \in Concluded /\ judged' = [judged EXCEPT ![c] = @ \cup {d}]
<1>1. CASE Handle(c, d)
  BY <1>1 DEF Handle, VerdictFits
<1>2. CASE HandlerReturns(c, d)
  <2>1. PICK v \in {"ok", "drop", AfterFailure(c, d[2])} : verdict' = [verdict EXCEPT ![d] = v]
    BY <1>2 DEF HandlerReturns
  <2>2. VerdictFits(c, v, d[2]) /\ v \in {"ok", "drop", "exhausted", "retry"}
    BY <2>1, DeliveryShape, ConfigAssumption DEF AfterFailure, VerdictFits
  <2>3. v \in Concluded /\ judged' = [judged EXCEPT ![c] = @ \cup {d}]
    BY <1>2, <2>2 DEF HandlerReturns, Concluded, FinalVerdicts
  <2> QED
    BY <2>1, <2>2, <2>3
<1> QED
  BY <1>1, <1>2

\* A step of process_message that judges a delivery: it changes nothing but the
\* verdict on a delivery in hand that had none, and notes whose it is.
LEMMA VerdictIInv ==
  ASSUME IInv, NEW c \in Workers, NEW d \in batch[c],
         Handle(c, d) \/ HandlerReturns(c, d)
  PROVE  IInv'
<1> USE DEF IInv
<1>1. d \in Deliveries /\ d = <<d[1], d[2]>> /\ d[1] \in Events /\ d[2] \in 1 .. LimitBound
  BY DeliveryShape
<1>2. PICK v \in {"running", "invalid", "ok", "drop", "exhausted", "retry"} :
        /\ verdict' = [verdict EXCEPT ![d] = v]
        /\ VerdictFits(c, v, d[2])
        /\ \/ v \in {"running", "invalid"} /\ judged' = judged
           \/ v \in Concluded /\ judged' = [judged EXCEPT ![c] = @ \cup {d}]
  BY VerdictOf
<1>3. UNCHANGED <<durable, delivered, status, due, up, batch, lost, faults>>
  BY DEF Handle, HandlerReturns
<1>4. verdict[d] \in {"none", "running"}
      /\ \A e \in batch[c] : e # d => verdict[e] = "none"
  <2>1. CASE Handle(c, d)
    BY <2>1 DEF Handle, Idle
  <2>2. CASE HandlerReturns(c, d)
    BY <2>2 DEF HandlerReturns, ExclusiveDelivery
  <2> QED
    BY <2>1, <2>2
<1>5. \A e \in Deliveries : verdict'[e] = IF e = d THEN v ELSE verdict[e]
  BY <1>2 DEF TypeOK
<1>6. \A m \in Events, n \in 1 .. LimitBound :
        <<m, n>> \in Deliveries /\ (<<m, n>> = d <=> m = d[1] /\ n = d[2])
  BY <1>1 DEF Deliveries
<1>7. TypeOK'
  <2>1. judged' \in [Workers -> SUBSET Deliveries]
    BY <1>1, <1>2 DEF TypeOK
  <2> QED
    BY <1>2, <1>3, <2>1 DEF TypeOK, Concluded, FinalVerdicts
<1>8. ExclusiveDelivery'
  <2>1. ASSUME NEW k \in Workers, NEW e \in batch[k], NEW f \in batch[k],
               verdict'[e] # "none", verdict'[f] # "none"
        PROVE  e = f
    <3>1. e \in Deliveries /\ f \in Deliveries
      BY DEF TypeOK
    <3>2. CASE k = c
      BY <1>4, <1>5, <2>1, <3>1, <3>2
    <3>3. CASE k # c
      BY <1>5, <2>1, <3>1, <3>3 DEF ExclusiveDelivery
    <3> QED
      BY <3>2, <3>3
  <2> QED
    BY <1>3, <2>1 DEF ExclusiveDelivery
<1>9. MadeByServer'
  BY <1>1, <1>3, <1>5, <1>6 DEF MadeByServer
<1>10. VerdictsFit'
  <2>1. \A k \in Workers : /\ d \notin judged[k]
                           /\ judged'[k] = IF k = c /\ d \in judged'[c] THEN judged[k] \cup {d}
                                           ELSE judged[k]
    <3>1. \A k \in Workers : d \notin judged[k]
      BY <1>1, <1>4 DEF VerdictsFit, Concluded, FinalVerdicts
    <3> QED
      BY <1>2, <3>1 DEF TypeOK
  <2>2. \A m \in Events, n \in 1 .. LimitBound :
          <<m, n>> # d => verdict'[<<m, n>>] = verdict[<<m, n>>]
    BY <1>5, <1>6
  <2>3. ASSUME NEW m \in Events, NEW n \in 1 .. LimitBound,
               verdict'[<<m, n>>] \in {"exhausted", "retry"}
        PROVE  \E k \in Workers : <<m, n>> \in judged'[k]
    <3>1. CASE <<m, n>> = d
      <4>1. v \notin {"running", "invalid"}
        BY <1>1, <1>5, <2>3, <3>1
      <4> QED
        BY <1>2, <3>1, <4>1 DEF TypeOK
    <3>2. CASE <<m, n>> # d
      <4>1. PICK k \in Workers : <<m, n>> \in judged[k]
        BY <2>2, <2>3, <3>2 DEF VerdictsFit
      <4> QED
        BY <2>1, <4>1
    <3> QED
      BY <3>1, <3>2
  <2>4. ASSUME NEW k \in Workers, NEW m \in Events, NEW n \in 1 .. LimitBound,
               <<m, n>> \in judged'[k]
        PROVE  verdict'[<<m, n>>] \in Concluded /\ VerdictFits(k, verdict'[<<m, n>>], n)
    <3>1. CASE <<m, n>> = d
      <4>1. k = c /\ v \in Concluded
        BY <1>2, <2>1, <2>4, <3>1
      <4>2. n = d[2] /\ verdict'[<<m, n>>] = v
        BY <1>1, <1>5, <1>6, <3>1
      <4> QED
        BY <1>2, <4>1, <4>2
    <3>2. CASE <<m, n>> # d
      <4>1. <<m, n>> \in judged[k]
        BY <2>1, <2>4, <3>2
      <4> QED
        BY <2>2, <3>2, <4>1 DEF VerdictsFit
    <3> QED
      BY <3>1, <3>2
  <2> QED
    BY <2>3, <2>4 DEF VerdictsFit, VerdictFits
<1>11. AckIsEarned'
  <2> SUFFICES ASSUME NEW m \in Events, status[m] = "acked"
               PROVE  \E n \in 1 .. LimitBound : verdict'[<<m, n>>] \in FinalVerdicts
    BY <1>3 DEF AckIsEarned, HasVerdict
  <2>1. PICK n \in 1 .. LimitBound : verdict[<<m, n>>] \in FinalVerdicts
    BY DEF AckIsEarned, HasVerdict
  <2>2. <<m, n>> # d
    BY <1>4, <2>1 DEF FinalVerdicts
  <2> QED
    BY <1>5, <1>6, <2>1, <2>2
<1>12. LastIsHeldOrLost'
  <2>1. \A m \in Events : delivered[m] > 0 /\ delivered[m] = durable.max_deliver =>
          /\ durable.max_deliver \in 1 .. LimitBound
          /\ verdict[<<m, durable.max_deliver>>] = "retry" =>
               verdict'[<<m, durable.max_deliver>>] = "retry"
    <3>1. \A m \in Events, n \in 1 .. LimitBound :
            verdict[<<m, n>>] = "retry" => verdict'[<<m, n>>] = "retry"
      BY <1>4, <1>5, <1>6
    <3> QED
      BY <3>1, DurableLimit DEF TypeOK
  <2> QED
    BY <1>3, <2>1 DEF LastIsHeldOrLost
<1>13. DelayWithinSchedule'
  BY <1>3 DEF DelayWithinSchedule
<1> QED
  BY <1>7, <1>8, <1>9, <1>10, <1>11, <1>12, <1>13

\* An ack settles the event, so nothing is left to show of it but that its
\* delivery had a final verdict.
LEMMA AckIInv ==
  ASSUME IInv, NEW c \in Workers, NEW d \in batch[c], Ack(c, d)
  PROVE  IInv'
<1> USE DEF IInv
<1>1. d \in Deliveries /\ d = <<d[1], d[2]>> /\ d[1] \in Events /\ d[2] \in 1 .. LimitBound
  BY DeliveryShape
<1>2. /\ verdict[d] \in FinalVerdicts
      /\ status' = [status EXCEPT ![d[1]] = "acked"]
      /\ due' = [due EXCEPT ![d[1]] = 0]
      /\ batch' = [batch EXCEPT ![c] = @ \ {d}]
      /\ UNCHANGED <<durable, delivered, up, verdict, judged, lost, faults>>
  BY DEF Ack
<1>3. \A k \in Workers : batch'[k] = IF k = c THEN batch[c] \ {d} ELSE batch[k]
  BY <1>2 DEF TypeOK
<1>4. TypeOK'
  BY <1>1, <1>2 DEF TypeOK
<1>5. ExclusiveDelivery' /\ MadeByServer' /\ VerdictsFit'
  BY <1>2, <1>3 DEF ExclusiveDelivery, MadeByServer, VerdictsFit, VerdictFits
<1>6. AckIsEarned'
  BY <1>1, <1>2 DEF TypeOK, AckIsEarned, HasVerdict
<1>7. LastIsHeldOrLost'
  <2> DEFINE n == durable.max_deliver
  <2> SUFFICES ASSUME NEW m \in Events, delivered[m] > 0, delivered[m] = n,
                      status'[m] # "acked"
               PROVE  \/ \E k \in Workers : <<m, n>> \in batch'[k]
                      \/ <<m, n>> \in lost
                      \/ verdict[<<m, n>>] = "retry"
    BY <1>2 DEF LastIsHeldOrLost
  <2>1. m # d[1] /\ status[m] # "acked"
    BY <1>1, <1>2 DEF TypeOK
  <2>2. <<m, n>> # d
    BY <1>1, <2>1
  <2> QED
    BY <1>3, <2>1, <2>2 DEF LastIsHeldOrLost
<1>8. DelayWithinSchedule'
  <2>1. \A m \in Events : due'[m] = IF m = d[1] THEN 0 ELSE due[m]
    BY <1>2 DEF TypeOK
  <2> QED
    BY <1>2, <2>1 DEF DelayWithinSchedule
<1> QED
  BY <1>4, <1>5, <1>6, <1>7, <1>8

\* What a nak takes out of a hand has the verdict to show for it, and the delay it
\* asks for is an entry of the schedule its own delivery has reached.
LEMMA NakIInv ==
  ASSUME IInv, NEW c \in Workers, NEW d \in batch[c], Nak(c, d)
  PROVE  IInv'
<1> USE DEF IInv
<1>1. d \in Deliveries /\ d = <<d[1], d[2]>> /\ d[1] \in Events /\ d[2] \in 1 .. LimitBound
  BY DeliveryShape
<1>2. /\ verdict[d] = "retry"
      /\ batch' = [batch EXCEPT ![c] = @ \ {d}]
      /\ UNCHANGED <<durable, delivered, up, verdict, judged, lost, faults>>
      /\ \/ /\ status[d[1]] = "outstanding"
            /\ status' = [status EXCEPT ![d[1]] = "ready"]
            /\ due' = [due EXCEPT ![d[1]] = RetryDelay(d[2])]
         \/ UNCHANGED <<status, due>>
  BY DEF Nak
<1>3. \A k \in Workers : batch'[k] = IF k = c THEN batch[c] \ {d} ELSE batch[k]
  BY <1>2 DEF TypeOK
<1>4. /\ RetryDelay(d[2]) \in Nat \ {0}
      /\ \E i \in 1 .. Len(Backoff) : i <= d[2] /\ RetryDelay(d[2]) = Backoff[i]
  BY <1>1, RetryDelayInSchedule
<1>5. d[2] <= delivered[d[1]]
  BY <1>1, <1>2 DEF MadeByServer
<1>6. TypeOK'
  BY <1>1, <1>2, <1>4 DEF TypeOK
<1>7. ExclusiveDelivery' /\ MadeByServer' /\ VerdictsFit'
  BY <1>2, <1>3 DEF ExclusiveDelivery, MadeByServer, VerdictsFit, VerdictFits
<1>8. \A m \in Events : status'[m] = "acked" <=> status[m] = "acked"
  BY <1>1, <1>2 DEF TypeOK
<1>9. AckIsEarned'
  BY <1>2, <1>8 DEF AckIsEarned, HasVerdict
<1>10. LastIsHeldOrLost'
  BY <1>2, <1>3, <1>8 DEF LastIsHeldOrLost
<1>11. DelayWithinSchedule'
  <2> SUFFICES ASSUME NEW m \in Events, due'[m] > 0
               PROVE  \E i \in 1 .. Len(Backoff) : i <= delivered[m] /\ due'[m] = Backoff[i]
    BY <1>2 DEF DelayWithinSchedule
  <2>1. CASE m = d[1] /\ due' = [due EXCEPT ![d[1]] = RetryDelay(d[2])]
    <3>1. PICK i \in 1 .. Len(Backoff) : i <= d[2] /\ RetryDelay(d[2]) = Backoff[i]
      BY <1>4
    <3>2. due'[m] = RetryDelay(d[2])
      BY <2>1 DEF TypeOK
    <3>3. delivered[m] \in Nat /\ Len(Backoff) \in Nat
      BY ConfigAssumption DEF TypeOK
    <3>4. i <= delivered[m]
      BY <1>1, <1>5, <2>1, <3>1, <3>3
    <3> QED
      BY <3>1, <3>2, <3>4
  <2>2. CASE due'[m] = due[m]
    BY <2>2 DEF DelayWithinSchedule
  <2> QED
    BY <1>1, <1>2, <2>1, <2>2 DEF TypeOK
<1> QED
  BY <1>6, <1>7, <1>9, <1>10, <1>11

\* What leaves a worker's hands by a fault is recorded as lost.
LEMMA LossIInv ==
  ASSUME IInv, NEW c \in Workers, NEW L \in SUBSET batch[c],
         batch' = [batch EXCEPT ![c] = @ \ L],
         lost' = lost \cup L,
         faults < MaxFaults, faults' = faults + 1,
         up' \in [Workers -> BOOLEAN],
         UNCHANGED <<durable, delivered, status, due, verdict, judged>>
  PROVE  IInv'
<1> USE DEF IInv
<1>1. \A k \in Workers : batch'[k] = IF k = c THEN batch[c] \ L ELSE batch[k]
  BY DEF TypeOK
<1>2. L \subseteq Deliveries
  BY DEF TypeOK
<1>3. TypeOK'
  <2>1. faults' \in 0 .. MaxFaults
    BY ConfigAssumption DEF TypeOK
  <2> QED
    BY <1>2, <2>1 DEF TypeOK
<1>4. ExclusiveDelivery' /\ VerdictsFit'
  BY <1>1 DEF ExclusiveDelivery, VerdictsFit
<1>5. MadeByServer'
  BY <1>1 DEF MadeByServer
<1>6. LastIsHeldOrLost'
  BY <1>1 DEF LastIsHeldOrLost
<1>7. AckIsEarned' /\ DelayWithinSchedule'
  BY DEF AckIsEarned, HasVerdict, DelayWithinSchedule
<1> QED
  BY <1>3, <1>4, <1>5, <1>6, <1>7

LEMMA StopIInv ==
  ASSUME IInv, NEW c \in Workers, Stop(c)
  PROVE  IInv'
<1>1. /\ batch' = [batch EXCEPT ![c] = @ \ batch[c]]
      /\ lost' = lost \cup batch[c]
      /\ faults < MaxFaults /\ faults' = faults + 1
      /\ up' \in [Workers -> BOOLEAN]
      /\ UNCHANGED <<durable, delivered, status, due, verdict, judged>>
  BY DEF Stop, IInv, TypeOK
<1>2. batch[c] \in SUBSET batch[c]
  OBVIOUS
<1> QED
  BY <1>1, <1>2, LossIInv

LEMMA SettlementLostIInv ==
  ASSUME IInv, NEW c \in Workers, NEW d \in batch[c], SettlementLost(c, d)
  PROVE  IInv'
<1>1. /\ batch' = [batch EXCEPT ![c] = @ \ {d}]
      /\ lost' = lost \cup {d}
      /\ faults < MaxFaults /\ faults' = faults + 1
      /\ up' \in [Workers -> BOOLEAN]
      /\ UNCHANGED <<durable, delivered, status, due, verdict, judged>>
  BY DEF SettlementLost, IInv, TypeOK
<1>2. {d} \in SUBSET batch[c]
  OBVIOUS
<1> QED
  BY <1>1, <1>2, LossIInv

-----------------------------------------------------------------------------
\* The invariant is inductive: one case per action.
LEMMA NextIInv == IInv /\ [Next]_vars => IInv'
<1> SUFFICES ASSUME IInv, [Next]_vars PROVE IInv'
  OBVIOUS
<1>1. ASSUME NEW m \in Events, AckWaitExpires(m) \/ DelayElapses(m) PROVE IInv'
  BY <1>1, TimerIInv
<1>2. ASSUME NEW c \in Workers, Start(c) \/ FetchTimeout(c) PROVE IInv'
  BY <1>2, StartIInv
<1>3. ASSUME NEW c \in Workers, Fetch(c) PROVE IInv'
  BY <1>3, FetchIInv
<1>4. ASSUME NEW c \in Workers, FetchFails(c) PROVE IInv'
  BY <1>4, FetchFailsIInv
<1>5. ASSUME NEW c \in Workers, Stop(c) PROVE IInv'
  BY <1>5, StopIInv
<1>6. ASSUME NEW c \in Workers, NEW d \in batch[c], Process(c, d) PROVE IInv'
  BY <1>6, VerdictIInv, AckIInv, NakIInv DEF Process
<1>7. ASSUME NEW c \in Workers, NEW d \in batch[c], SettlementLost(c, d) PROVE IInv'
  BY <1>7, SettlementLostIInv
<1>8. CASE UNCHANGED vars
  <2> USE <1>8 DEF vars
  <2>1. (TypeOK /\ ExclusiveDelivery /\ MadeByServer /\ VerdictsFit)'
    BY DEF IInv, TypeOK, ExclusiveDelivery, MadeByServer, VerdictsFit, VerdictFits
  <2>2. (AckIsEarned /\ LastIsHeldOrLost /\ DelayWithinSchedule)'
    BY DEF IInv, AckIsEarned, HasVerdict, LastIsHeldOrLost, DelayWithinSchedule
  <2> QED
    BY <2>1, <2>2 DEF IInv
<1> QED
  BY <1>1, <1>2, <1>3, <1>4, <1>5, <1>6, <1>7, <1>8 DEF Next

LEMMA InductiveInvariant == Spec => []IInv
<1>1. Init => IInv
  BY InitIInv
<1>2. IInv /\ [Next]_vars => IInv'
  BY NextIInv
<1> QED
  BY <1>1, <1>2, PTL DEF Spec

\* Every variable keeps its type, whatever the configuration.
THEOREM TypeCorrect == Spec => []TypeOK
<1>1. IInv => TypeOK
  BY DEF IInv
<1> QED
  BY <1>1, InductiveInvariant, PTL

\* For any number of workers on one durable, no delivery is in two hands and no
\* worker has two messages in process (nats.py:99-100).
THEOREM DeliveriesAreExclusive == Spec => []ExclusiveDelivery
<1>1. IInv => ExclusiveDelivery
  BY DEF IInv
<1> QED
  BY <1>1, InductiveInvariant, PTL

\* No event is acked without a final verdict on one of its deliveries, and none
\* whose handler always failed but because a worker gave it up; whichever did so had
\* reached its own max_deliver (nats.py:105-133).
THEOREM AcksAreEarned == Spec => [](AckIsEarned /\ RetriesNotSkipped)
<1>1. IInv => RetriesNotSkipped
  <2> SUFFICES ASSUME IInv, NEW m \in Events, status[m] = "acked",
                      ~HasVerdict(m, {"ok", "drop", "invalid"})
               PROVE  /\ \E c \in Workers, n \in 1 .. delivered[m] : GaveUp(c, m, n)
                      /\ \A c \in Workers, n \in 1 .. LimitBound :
                           GaveUp(c, m, n) => Config[c].max_deliver <= n
    BY DEF RetriesNotSkipped
  <2>1. PICK n \in 1 .. LimitBound : verdict[<<m, n>>] \in FinalVerdicts
    BY DEF IInv, AckIsEarned, HasVerdict
  <2>2. verdict[<<m, n>>] = "exhausted"
    BY <2>1 DEF HasVerdict, FinalVerdicts
  <2>3. PICK c \in Workers : <<m, n>> \in judged[c]
    BY <2>2 DEF IInv, VerdictsFit
  <2>4. n <= delivered[m]
    BY <2>2 DEF IInv, MadeByServer
  <2>5. n \in 1 .. delivered[m]
    BY <2>4, DurableLimit DEF IInv, TypeOK
  <2>6. \A k \in Workers, i \in 1 .. LimitBound :
          GaveUp(k, m, i) => Config[k].max_deliver <= i
    BY DEF IInv, VerdictsFit, VerdictFits, GaveUp
  <2> QED
    BY <2>2, <2>3, <2>5, <2>6 DEF GaveUp
<1>2. IInv => AckIsEarned
  BY DEF IInv
<1> QED
  BY <1>1, <1>2, InductiveInvariant, PTL

\* An event the server gave up unacked lost its last delivery to a fault, or was
\* naked by a process with a higher limit than the durable's: with one limit for
\* all, an exception of the handler is never the reason (nats.py:119-131).
THEOREM StrandingHasACause == Spec => []StrandedForCause
<1>1. IInv => StrandedForCause
  <2> SUFFICES ASSUME IInv, NEW m \in Events, Stranded(m),
                      <<m, durable.max_deliver>> \notin lost
               PROVE  NakedInVain(m)
    BY DEF StrandedForCause
  <2>1. verdict[<<m, durable.max_deliver>>] = "retry"
    BY DEF IInv, LastIsHeldOrLost, Stranded, Held
  <2>2. durable.max_deliver \in 1 .. LimitBound
    BY DurableLimit DEF Stranded, IInv
  <2>3. PICK c \in Workers : <<m, durable.max_deliver>> \in judged[c]
    BY <2>1, <2>2 DEF IInv, VerdictsFit
  <2>4. durable.max_deliver < Config[c].max_deliver
    BY <2>1, <2>2, <2>3 DEF IInv, VerdictsFit, VerdictFits
  <2> QED
    BY <2>1, <2>3, <2>4 DEF NakedInVain
<1> QED
  BY <1>1, InductiveInvariant, PTL

\* A nak asks for a delay of the backoff list that the event's deliveries have
\* reached, however stale the nak is (nats.py:131-137).
THEOREM DelaysFollowSchedule == Spec => []DelayWithinSchedule
<1>1. IInv => DelayWithinSchedule
  BY DEF IInv
<1> QED
  BY <1>1, InductiveInvariant, PTL

-----------------------------------------------------------------------------
(* A consumer that is alone. *)

\* No fault happened and at most one worker ever started.
Solo == faults = 0 /\ \A c1, c2 \in Workers : up[c1] /\ up[c2] => c1 = c2

Up == {c \in Workers : up[c]}

\* Finitely many workers are in their loop, and only those hold anything.
UpHolds ==
  /\ IsFiniteSet(Up)
  /\ \A c \in Workers : ~up[c] => batch[c] = {}

\* What is in hand is the latest delivery of an event that is not settled.
InHandIsLatest ==
  \A c \in Workers, m \in Events, n \in 1 .. LimitBound :
    <<m, n>> \in batch[c] => n = delivered[m] /\ status[m] # "acked"

\* A delivery with a final verdict is in hand until its ack is in.
FinalIsInHand ==
  \A m \in Events, n \in 1 .. LimitBound :
    verdict[<<m, n>>] \in FinalVerdicts =>
      status[m] = "acked" \/ \E c \in Workers : <<m, n>> \in batch[c]

NothingFollows ==
  \A m \in Events : \A i, j \in 1 .. LimitBound :
    i < j /\ verdict[<<m, i>>] \in FinalVerdicts => verdict[<<m, j>>] = "none"

SoloInv == UpHolds /\ (Solo => InHandIsLatest /\ FinalIsInHand /\ NothingFollows)

\* To count one worker at most is to know of no two.
LEMMA AtMostOne ==
  ASSUME IsFiniteSet(Up), Cardinality(Up) <= 1, NEW c1 \in Up, NEW c2 \in Up
  PROVE  c1 = c2
<1>1. Cardinality(Up) \in Nat
  BY FS_CardinalityType
<1>2. CASE Cardinality(Up) = 0
  BY <1>2, FS_EmptySet
<1>3. CASE Cardinality(Up) = 1
  BY <1>3, FS_Singleton
<1> QED
  BY <1>1, <1>2, <1>3

LEMMA SoloInit == Init => SoloInv
<1> SUFFICES ASSUME Init PROVE SoloInv
  OBVIOUS
<1>1. Up = {} /\ \A c \in Workers : batch[c] = {}
  BY DEF Init, Up
<1>2. \A m \in Events, n \in 1 .. LimitBound : verdict[<<m, n>>] = "none"
  BY DEF Init, Deliveries
<1>3. UpHolds
  BY <1>1, FS_EmptySet DEF UpHolds
<1> QED
  BY <1>1, <1>2, <1>3 DEF SoloInv, InHandIsLatest, FinalIsInHand, NothingFollows, FinalVerdicts

\* Workers come and go one at a time, and what a fault took was in hand before.
LEMMA SoloUp ==
  ASSUME IInv, SoloInv, [Next]_vars
  PROVE  UpHolds'
<1>1. IsFiniteSet(Up) /\ \A c \in Workers : ~up[c] => batch[c] = {}
  BY DEF SoloInv, UpHolds
<1>2. ASSUME UNCHANGED up, \A c \in Workers : ~up[c] => batch'[c] \subseteq batch[c]
      PROVE  UpHolds'
  BY <1>1, <1>2 DEF UpHolds, Up
<1>3. ASSUME NEW c \in Workers, Start(c) PROVE UpHolds'
  <2>1. Up' = Up \cup {c} /\ batch' = batch /\ \A k \in Workers : up[k] => up'[k]
    BY <1>3 DEF Start, Up, IInv, TypeOK
  <2>2. IsFiniteSet(Up')
    BY <1>1, <2>1, FS_AddElement
  <2> QED
    BY <1>1, <2>1, <2>2 DEF UpHolds
<1>4. ASSUME NEW c \in Workers, Stop(c) PROVE UpHolds'
  <2>1. /\ Up' = Up \ {c}
        /\ \A k \in Workers : batch'[k] = IF k = c THEN {} ELSE batch[k]
        /\ \A k \in Workers : k # c => up'[k] = up[k]
    BY <1>4 DEF Stop, Up, IInv, TypeOK
  <2>2. IsFiniteSet(Up')
    BY <1>1, <2>1, FS_RemoveElement
  <2> QED
    BY <1>1, <2>1, <2>2 DEF UpHolds
<1>5. ASSUME NEW m \in Events, AckWaitExpires(m) \/ DelayElapses(m) PROVE UpHolds'
  BY <1>2, <1>5 DEF AckWaitExpires, DelayElapses
<1>6. ASSUME NEW c \in Workers, Fetch(c) PROVE UpHolds'
  <2>1. UNCHANGED up /\ up[c]
    BY <1>6 DEF Fetch
  <2>2. \A k \in Workers : k # c => batch'[k] = batch[k]
    BY <1>6 DEF Fetch, IInv, TypeOK
  <2> QED
    BY <1>2, <2>1, <2>2
<1>7. ASSUME NEW c \in Workers, FetchTimeout(c) \/ FetchFails(c) PROVE UpHolds'
  BY <1>2, <1>7 DEF FetchTimeout, FetchFails, vars
<1>8. ASSUME NEW c \in Workers, NEW d \in batch[c], Process(c, d) \/ SettlementLost(c, d)
      PROVE  UpHolds'
  <2>1. UNCHANGED up
    BY <1>8 DEF Process, Handle, HandlerReturns, Ack, Nak, SettlementLost
  <2>2. \A k \in Workers : batch'[k] \subseteq batch[k]
    BY <1>8 DEF Process, Handle, HandlerReturns, Ack, Nak, SettlementLost, IInv, TypeOK
  <2> QED
    BY <1>2, <2>1, <2>2
<1>9. CASE UNCHANGED vars
  BY <1>2, <1>9 DEF vars
<1> QED
  BY <1>3, <1>4, <1>5, <1>6, <1>7, <1>8, <1>9 DEF Next

\* The fetch of a consumer that is alone hands out events with nothing in hand.
LEMMA SoloFetch ==
  ASSUME IInv, SoloInv, Solo, NEW c \in Workers, Fetch(c)
  PROVE  (InHandIsLatest /\ FinalIsInHand /\ NothingFollows)'
<1>1. PICK S \in Batches : HandOut(S) /\ batch' = [batch EXCEPT ![c] = NextDeliveries(S)]
  BY DEF Fetch
<1>2. up[c] /\ batch[c] = {} /\ UNCHANGED <<durable, verdict>>
  BY DEF Fetch
<1>3. \A k \in Workers : batch[k] = {}
  BY <1>2 DEF Solo, SoloInv, UpHolds, IInv, TypeOK
<1>4. /\ \A m \in S : status[m] = "ready" /\ due[m] = 0
      /\ \A m \in Events :
           /\ delivered[m] \in Nat /\ delivered'[m] \in Nat /\ delivered[m] <= delivered'[m]
           /\ m \in S => delivered'[m] = delivered[m] + 1 /\ status'[m] = "outstanding"
           /\ m \notin S => delivered'[m] = delivered[m] /\ status'[m] = status[m]
      /\ \A m \in Events, n \in 1 .. LimitBound :
           <<m, n>> \in NextDeliveries(S) <=> m \in S /\ n = delivered'[m]
      /\ S \subseteq Events
      /\ NextDeliveries(S) \subseteq Deliveries
      /\ delivered' \in [Events -> 0 .. durable.max_deliver]
      /\ status' \in [Events -> {"ready", "outstanding", "acked"}]
  BY <1>1, <1>2, HandOutFacts DEF IInv
<1>5. \A k \in Workers : batch'[k] = IF k = c THEN NextDeliveries(S) ELSE batch[k]
  BY <1>1 DEF IInv, TypeOK
<1>6. InHandIsLatest'
  <2> SUFFICES ASSUME NEW k \in Workers, NEW m \in Events, NEW n \in 1 .. LimitBound,
                      <<m, n>> \in batch'[k]
               PROVE  n = delivered'[m] /\ status'[m] # "acked"
    BY DEF InHandIsLatest
  <2>1. <<m, n>> \in NextDeliveries(S)
    BY <1>3, <1>5
  <2> QED
    BY <1>4, <2>1
<1>7. FinalIsInHand'
  BY <1>2, <1>3, <1>4 DEF FinalIsInHand, SoloInv
<1>8. NothingFollows'
  BY <1>2 DEF NothingFollows, SoloInv
<1> QED
  BY <1>6, <1>7, <1>8

\* A delivery that is judged is the latest of its event, on which none that came
\* before has a final verdict.
LEMMA SoloVerdict ==
  ASSUME IInv, SoloInv, Solo, NEW c \in Workers, NEW d \in batch[c],
         Handle(c, d) \/ HandlerReturns(c, d)
  PROVE  (InHandIsLatest /\ FinalIsInHand /\ NothingFollows)'
<1>1. d \in Deliveries /\ d = <<d[1], d[2]>> /\ d[1] \in Events /\ d[2] \in 1 .. LimitBound
  BY DeliveryShape DEF IInv
<1>2. UNCHANGED <<delivered, status, batch>>
  BY DEF Handle, HandlerReturns
<1>3. \A m \in Events, n \in 1 .. LimitBound :
        <<m, n>> # d => verdict'[<<m, n>>] = verdict[<<m, n>>]
  BY DEF Handle, HandlerReturns, IInv, TypeOK, Deliveries
<1>4. InHandIsLatest /\ FinalIsInHand /\ NothingFollows
  BY DEF SoloInv
<1>5. d[2] = delivered[d[1]] /\ status[d[1]] # "acked"
  BY <1>1, <1>4 DEF InHandIsLatest
<1>6. InHandIsLatest'
  BY <1>2, <1>4 DEF InHandIsLatest
<1>7. FinalIsInHand'
  BY <1>1, <1>2, <1>3, <1>4 DEF FinalIsInHand
<1>8. NothingFollows'
  <2> SUFFICES ASSUME NEW m \in Events, NEW i \in 1 .. LimitBound, NEW j \in 1 .. LimitBound,
                      i < j, verdict'[<<m, i>>] \in FinalVerdicts
               PROVE  verdict'[<<m, j>>] = "none"
    BY DEF NothingFollows
  <2>1. i # j /\ <<m, i>> # <<m, j>>
    BY ConfigAssumption
  <2>2. CASE <<m, i>> = d
    <3>1. m = d[1] /\ i = d[2]
      BY <2>2
    <3>2. delivered[m] < j
      BY <1>5, <3>1
    <3>3. verdict[<<m, j>>] = "none"
      BY <3>2, ConfigAssumption DEF IInv, MadeByServer, TypeOK
    <3> QED
      BY <1>3, <2>1, <2>2, <3>3
  <2>3. CASE <<m, j>> = d
    <3>1. m = d[1] /\ j = d[2]
      BY <2>3
    <3>2. verdict[<<m, i>>] \in FinalVerdicts
      BY <1>3, <2>1, <2>3
    <3>3. PICK k \in Workers : <<m, i>> \in batch[k]
      BY <1>4, <1>5, <3>1, <3>2 DEF FinalIsInHand
    <3>4. i = delivered[m]
      BY <1>4, <3>3 DEF InHandIsLatest
    <3> QED
      BY <1>5, <2>1, <3>1, <3>4
  <2>4. CASE <<m, i>> # d /\ <<m, j>> # d
    BY <1>3, <1>4, <2>4 DEF NothingFollows
  <2> QED
    BY <2>2, <2>3, <2>4
<1> QED
  BY <1>6, <1>7, <1>8

\* An ack settles the one delivery of its event that is in hand, and a nak is of
\* one without a final verdict.
LEMMA SoloAnswer ==
  ASSUME IInv, SoloInv, Solo, NEW c \in Workers, NEW d \in batch[c], Ack(c, d) \/ Nak(c, d)
  PROVE  (InHandIsLatest /\ FinalIsInHand /\ NothingFollows)'
<1>1. d \in Deliveries /\ d = <<d[1], d[2]>> /\ d[1] \in Events /\ d[2] \in 1 .. LimitBound
  BY DeliveryShape DEF IInv
<1>2. UNCHANGED <<delivered, verdict>>
  BY DEF Ack, Nak
<1>3. \A k \in Workers : batch'[k] = IF k = c THEN batch[c] \ {d} ELSE batch[k]
  BY DEF Ack, Nak, IInv, TypeOK
<1>4. InHandIsLatest /\ FinalIsInHand /\ NothingFollows
  BY DEF SoloInv
<1>5. \A m \in Events :
        /\ m # d[1] => status'[m] = status[m]
        /\ Ack(c, d) => status'[d[1]] = "acked"
        /\ Nak(c, d) => (status'[m] = "acked" <=> status[m] = "acked")
  BY <1>1 DEF Ack, Nak, IInv, TypeOK
<1>6. \A k \in Workers, n \in 1 .. LimitBound : <<d[1], n>> \notin batch'[k]
  <2> SUFFICES ASSUME NEW k \in Workers, NEW n \in 1 .. LimitBound, <<d[1], n>> \in batch'[k]
               PROVE  FALSE
    OBVIOUS
  <2>1. <<d[1], n>> \in batch[k] /\ (k = c => <<d[1], n>> # d)
    BY <1>3
  <2>2. n = delivered[d[1]] /\ d[2] = delivered[d[1]]
    BY <1>1, <1>4, <2>1 DEF InHandIsLatest
  <2>3. <<d[1], n>> = d
    BY <1>1, <2>2
  <2> QED
    BY <2>1, <2>3 DEF IInv, ExclusiveDelivery
<1>7. InHandIsLatest'
  <2> SUFFICES ASSUME NEW k \in Workers, NEW m \in Events, NEW n \in 1 .. LimitBound,
                      <<m, n>> \in batch'[k]
               PROVE  n = delivered'[m] /\ status'[m] # "acked"
    BY DEF InHandIsLatest
  <2>1. <<m, n>> \in batch[k] /\ m # d[1]
    BY <1>3, <1>6
  <2> QED
    BY <1>2, <1>4, <1>5, <2>1 DEF InHandIsLatest
<1>8. FinalIsInHand'
  <2> SUFFICES ASSUME NEW m \in Events, NEW n \in 1 .. LimitBound,
                      verdict[<<m, n>>] \in FinalVerdicts, status'[m] # "acked"
               PROVE  \E k \in Workers : <<m, n>> \in batch'[k]
    BY <1>2 DEF FinalIsInHand
  <2>1. status[m] # "acked"
    BY <1>5
  <2>2. PICK k \in Workers : <<m, n>> \in batch[k]
    BY <1>4, <2>1 DEF FinalIsInHand
  <2>3. <<m, n>> # d
    <3>1. CASE Ack(c, d)
      BY <1>1, <1>5, <3>1
    <3>2. CASE Nak(c, d)
      BY <3>2 DEF Nak, FinalVerdicts
    <3> QED
      BY <3>1, <3>2
  <2> QED
    BY <1>3, <2>2, <2>3
<1>9. NothingFollows'
  BY <1>2, <1>4 DEF NothingFollows
<1> QED
  BY <1>7, <1>8, <1>9

\* A step after which the consumer is still alone keeps its word.
LEMMA SoloStep ==
  ASSUME IInv, SoloInv, [Next]_vars
  PROVE  SoloInv'
<1>1. UpHolds'
  BY SoloUp
<1> SUFFICES ASSUME Solo' PROVE (InHandIsLatest /\ FinalIsInHand /\ NothingFollows)'
  BY <1>1 DEF SoloInv
<1>2. faults' = 0 /\ faults \in Nat
  BY ConfigAssumption DEF Solo, IInv, TypeOK
<1>3. ~(\E c \in Workers : \/ Stop(c) \/ FetchFails(c)
                           \/ \E d \in batch[c] : SettlementLost(c, d))
  BY <1>2 DEF Stop, FetchFails, SettlementLost
<1>4. ASSUME UNCHANGED <<delivered, batch, verdict>>, Solo,
             \A m \in Events : status'[m] = "acked" <=> status[m] = "acked"
      PROVE  (InHandIsLatest /\ FinalIsInHand /\ NothingFollows)'
  BY <1>4 DEF SoloInv, InHandIsLatest, FinalIsInHand, NothingFollows
<1>5. ASSUME UNCHANGED <<up, faults>> PROVE Solo
  BY <1>5 DEF Solo
<1>6. ASSUME NEW m \in Events, AckWaitExpires(m) \/ DelayElapses(m)
      PROVE  (InHandIsLatest /\ FinalIsInHand /\ NothingFollows)'
  <2>1. UNCHANGED <<delivered, batch, verdict, up, faults>>
    BY <1>6 DEF AckWaitExpires, DelayElapses
  <2>2. \A e \in Events : status'[e] = "acked" <=> status[e] = "acked"
    BY <1>6 DEF AckWaitExpires, DelayElapses, IInv, TypeOK
  <2> QED
    BY <1>4, <1>5, <2>1, <2>2
<1>7. ASSUME NEW c \in Workers, Start(c)
      PROVE  (InHandIsLatest /\ FinalIsInHand /\ NothingFollows)'
  <2>1. UNCHANGED <<delivered, batch, verdict, status, faults>>
        /\ \A k \in Workers : up[k] => up'[k]
    BY <1>7 DEF Start, IInv, TypeOK
  <2>2. Solo
    BY <2>1 DEF Solo
  <2> QED
    BY <1>4, <2>1, <2>2
<1>8. ASSUME NEW c \in Workers, Fetch(c)
      PROVE  (InHandIsLatest /\ FinalIsInHand /\ NothingFollows)'
  <2>1. UNCHANGED <<up, faults>>
    BY <1>8 DEF Fetch
  <2> QED
    BY <1>5, <1>8, <2>1, SoloFetch
<1>9. ASSUME NEW c \in Workers, NEW d \in batch[c], Process(c, d)
      PROVE  (InHandIsLatest /\ FinalIsInHand /\ NothingFollows)'
  <2>1. UNCHANGED <<up, faults>>
    BY <1>9 DEF Process, Handle, HandlerReturns, Ack, Nak
  <2> QED
    BY <1>5, <1>9, <2>1, SoloVerdict, SoloAnswer DEF Process
<1>10. ASSUME UNCHANGED vars
       PROVE  (InHandIsLatest /\ FinalIsInHand /\ NothingFollows)'
  <2>1. UNCHANGED <<delivered, batch, verdict, status, up, faults>>
    BY <1>10 DEF vars
  <2> QED
    BY <1>4, <1>5, <2>1
<1> QED
  BY <1>3, <1>6, <1>7, <1>8, <1>9, <1>10 DEF Next, FetchTimeout

\* A consumer that is alone and meets no fault never hands an event to the handler
\* again after a final verdict, however late its acks are (nats.py:99-100, 116-133).
THEOREM FinalVerdictsAreFinal == Spec => []FinalIsFinal
<1>1. ASSUME SoloInv PROVE FinalIsFinal
  <2> SUFFICES ASSUME faults = 0, Cardinality(Up) <= 1 PROVE NothingFollows
    BY DEF FinalIsFinal, NothingFollows, Up
  <2>1. \A c1, c2 \in Workers : up[c1] /\ up[c2] => c1 = c2
    BY <1>1, AtMostOne DEF SoloInv, UpHolds, Up
  <2> QED
    BY <1>1, <2>1 DEF SoloInv, Solo
<1>2. SoloInv => FinalIsFinal
  BY <1>1
<1>3. IInv /\ SoloInv /\ [Next]_vars => SoloInv'
  BY SoloStep
<1> QED
  BY <1>2, <1>3, SoloInit, InductiveInvariant, PTL DEF Spec

-----------------------------------------------------------------------------
(* The refinement of EventFate under the mapping of NatsConsumer. *)

\* An event nobody holds stays so, unless a fetch hands it out.
Shrinks ==
  /\ delivered' = delivered /\ durable' = durable
  /\ \A m \in Events : status'[m] = "acked" <=> status[m] = "acked"
  /\ \A c \in Workers : batch'[c] \subseteq batch[c]
  /\ \A m \in Events : Verdicts(m)' = Verdicts(m)

\* A step that only takes deliveries out of hands strands the events whose last
\* chance it took, which may be none.
LEMMA ShrinkStrands ==
  ASSUME IInv, Shrinks
  PROVE  Abstract!FateNext
<1> DEFINE S == {m \in Events : Fate(m) = "pending" /\ Fate(m)' = "stranded"}
<1>1. \A m \in S : Fate(m) = "pending" /\ delivered[m] = durable.max_deliver
  BY DEF Fate, Stranded, Shrinks
<1>2. \A m \in Events : Fate(m)' = IF m \in S THEN "stranded" ELSE Fate(m)
  BY DEF Fate, Stranded, Held, Shrinks
<1>3. Abstract!Strand(S)
  BY <1>1, <1>2 DEF Abstract!Strand, Shrinks
<1>4. S \in SUBSET Events
  OBVIOUS
<1> QED
  BY <1>3, <1>4 DEF Abstract!FateNext

\* A new verdict on a delivery in hand is a try that ends.
LEMMA VerdictConcludes ==
  ASSUME IInv, NEW c \in Workers, NEW d \in batch[c],
         Handle(c, d) \/ HandlerReturns(c, d)
  PROVE  Abstract!FateNext
<1>1. d \in Deliveries /\ d = <<d[1], d[2]>> /\ d[1] \in Events /\ d[2] \in 1 .. LimitBound
  BY DeliveryShape DEF IInv
<1>2. UNCHANGED <<durable, delivered, status, batch>>
  BY DEF Handle, HandlerReturns
<1>3. verdict[d] \in {"none", "running"}
  BY DEF Handle, HandlerReturns, Idle
<1>4. PICK v \in {"running", "invalid", "ok", "drop", "exhausted", "retry"} :
        /\ verdict' = [verdict EXCEPT ![d] = v]
        /\ VerdictFits(c, v, d[2])
  BY VerdictOf DEF IInv
<1>5. \A m \in Events, n \in 1 .. LimitBound :
        /\ <<m, n>> \in Deliveries
        /\ verdict'[<<m, n>>] = IF m = d[1] /\ n = d[2] THEN v ELSE verdict[<<m, n>>]
  BY <1>1, <1>4 DEF IInv, TypeOK, Deliveries
<1>6. \A m \in Events : m # d[1] => Verdicts(m)' = Verdicts(m)
  <2> SUFFICES ASSUME NEW m \in Events, m # d[1]
               PROVE  Verdicts(m)' = Verdicts(m)
    OBVIOUS
  <2>1. \A n \in 1 .. LimitBound : verdict'[<<m, n>>] = verdict[<<m, n>>]
    BY <1>5
  <2> QED
    BY <2>1 DEF Verdicts
<1>7. Verdicts(d[1])' = Verdicts(d[1]) \cup ({v} \cap Concluded)
  <2>1. verdict[<<d[1], d[2]>>] \notin Concluded
    BY <1>1, <1>3 DEF Concluded, FinalVerdicts
  <2>2. \A n \in 1 .. LimitBound :
          verdict'[<<d[1], n>>] = IF n = d[2] THEN v ELSE verdict[<<d[1], n>>]
    BY <1>1, <1>5
  <2> QED
    BY <1>1, <2>1, <2>2 DEF Verdicts
<1>8. CASE v = "running"
  <2>1. Verdicts(d[1])' = Verdicts(d[1])
    BY <1>7, <1>8 DEF Concluded, FinalVerdicts
  <2>2. Shrinks
    BY <1>2, <1>6, <2>1 DEF Shrinks
  <2> QED
    BY <2>2, ShrinkStrands
<1>9. CASE v # "running"
  <2>1. Verdicts(d[1])' = Verdicts(d[1]) \cup {v}
    BY <1>4, <1>7, <1>9 DEF Concluded, FinalVerdicts
  <2> DEFINE Limits == {Config[k].max_deliver : k \in Workers}
  <2>2. d[2] <= delivered[d[1]] /\ delivered[d[1]] \in Nat
    BY <1>1, DurableLimit DEF IInv, MadeByServer, TypeOK
  <2>3. /\ delivered[d[1]] > 0
        /\ v = "exhausted" => \E n \in Limits : n <= delivered[d[1]]
        /\ v = "retry" => \E n \in Limits : n > 1
    <3>1. \A k \in Workers : Config[k].max_deliver \in Limits /\ Config[k].max_deliver \in Nat
      BY ConfigAssumption
    <3>2. d[2] \in Nat /\ d[2] > 0
      BY <1>1, ConfigAssumption
    <3>3. ASSUME v = "exhausted" PROVE \E n \in Limits : n <= delivered[d[1]]
      <4>1. Config[c].max_deliver <= d[2]
        BY <1>4, <3>3 DEF VerdictFits
      <4> QED
        BY <2>2, <3>1, <3>2, <4>1
    <3>4. ASSUME v = "retry" PROVE \E n \in Limits : n > 1
      <4>1. d[2] < Config[c].max_deliver
        BY <1>4, <3>4 DEF VerdictFits
      <4> QED
        BY <3>1, <3>2, <4>1
    <3> QED
      BY <2>2, <3>2, <3>3, <3>4
  <2>4. Fate(d[1]) # "stranded"
    BY DEF Fate, Stranded, Held
  <2>5. \A m \in Events : Fate(m)' = Fate(m)
    BY <1>2 DEF Fate, Stranded, Held
  <2>6. Abstract!Conclude(d[1], v)
    BY <1>1, <1>2, <1>6, <2>1, <2>3, <2>4, <2>5 DEF Abstract!Conclude
  <2>7. v \in Abstract!Settling \cup {"retry"}
    BY <1>4, <1>9 DEF Abstract!Settling
  <2> QED
    BY <1>1, <2>6, <2>7 DEF Abstract!FateNext
<1> QED
  BY <1>8, <1>9

\* An ack settles a pending event, or changes nothing the host can tell.
LEMMA AckSettles ==
  ASSUME IInv, NEW c \in Workers, NEW d \in batch[c], Ack(c, d)
  PROVE  Abstract!FateNext
<1>1. d \in Deliveries /\ d = <<d[1], d[2]>> /\ d[1] \in Events /\ d[2] \in 1 .. LimitBound
  BY DeliveryShape DEF IInv
<1>2. /\ verdict[d] \in FinalVerdicts
      /\ status' = [status EXCEPT ![d[1]] = "acked"]
      /\ batch' = [batch EXCEPT ![c] = @ \ {d}]
      /\ UNCHANGED <<durable, delivered, verdict>>
  BY DEF Ack
<1>3. \A k \in Workers : batch'[k] = IF k = c THEN batch[c] \ {d} ELSE batch[k]
  BY <1>2 DEF IInv, TypeOK
<1>4. \A m \in Events : status'[m] = IF m = d[1] THEN "acked" ELSE status[m]
  BY <1>2 DEF IInv, TypeOK
<1>5. \A m \in Events : Verdicts(m)' = Verdicts(m)
  BY <1>2 DEF Verdicts
<1>6. CASE status[d[1]] = "acked"
  <2>1. Shrinks
    BY <1>2, <1>3, <1>4, <1>5, <1>6 DEF Shrinks
  <2> QED
    BY <2>1, ShrinkStrands
<1>7. CASE status[d[1]] # "acked"
  <2>1. Fate(d[1]) = "pending"
    BY <1>7 DEF Fate, Stranded, Held
  <2>2. verdict[d] \in Verdicts(d[1]) /\ verdict[d] \in Abstract!Settling
    BY <1>1, <1>2 DEF Verdicts, Concluded, FinalVerdicts, Abstract!Settling
  <2>3. \A m \in Events : Fate(m)' = IF m = d[1] THEN "settled" ELSE Fate(m)
    <3>1. \A m \in Events : m # d[1] => (Held(m)' <=> Held(m))
      BY <1>3 DEF Held
    <3> QED
      BY <1>2, <1>4, <3>1 DEF Fate, Stranded
  <2>4. Abstract!Settle(d[1])
    BY <1>1, <1>2, <1>5, <2>1, <2>2, <2>3 DEF Abstract!Settle
  <2> QED
    BY <1>1, <2>4 DEF Abstract!FateNext
<1> QED
  BY <1>6, <1>7

\* A fetch tries a set of pending events; those whose last delivery a failing
\* fetch took are stranded by it, unless an older delivery is still in hand.
LEMMA FetchTries ==
  ASSUME IInv, NEW c \in Workers, Fetch(c) \/ FetchFails(c)
  PROVE  Abstract!FateNext
<1>1. PICK S \in Batches :
        /\ HandOut(S)
        /\ \/ batch' = [batch EXCEPT ![c] = NextDeliveries(S)]
           \/ batch' = batch
  BY DEF Fetch, FetchFails
<1>2. batch[c] = {} /\ verdict' = verdict /\ durable' = durable
  BY DEF Fetch, FetchFails
<1>3. /\ \A m \in S : status[m] = "ready" /\ due[m] = 0
      /\ \A m \in Events :
           /\ delivered[m] \in Nat /\ delivered'[m] \in Nat /\ delivered[m] <= delivered'[m]
           /\ m \in S => delivered'[m] = delivered[m] + 1 /\ status'[m] = "outstanding"
           /\ m \notin S => delivered'[m] = delivered[m] /\ status'[m] = status[m]
      /\ \A m \in Events, n \in 1 .. LimitBound :
           <<m, n>> \in NextDeliveries(S) <=> m \in S /\ n = delivered'[m]
      /\ S \subseteq Events
      /\ NextDeliveries(S) \subseteq Deliveries
      /\ delivered' \in [Events -> 0 .. durable.max_deliver]
      /\ status' \in [Events -> {"ready", "outstanding", "acked"}]
  BY <1>1, <1>2, HandOutFacts DEF IInv
<1> DEFINE T == {m \in S : Fate(m)' = "stranded"}
<1>4. \A m \in S : delivered[m] < durable.max_deliver /\ Fate(m) = "pending"
  BY <1>3 DEF Batches, Deliverable, Fate, Stranded
<1>5. \A m \in T : delivered[m] + 1 = durable.max_deliver
  BY <1>2, <1>3 DEF Fate, Stranded
<1>6. \A m \in Events : m \notin S => (Held(m)' <=> Held(m))
  <2>1. \A d \in NextDeliveries(S) : d[1] \in S
    BY DEF NextDeliveries
  <2>2. \A k \in Workers : batch'[k] = batch[k] \/ (k = c /\ batch'[k] = NextDeliveries(S))
    BY <1>1 DEF IInv, TypeOK
  <2> QED
    BY <1>2, <2>1, <2>2 DEF Held
<1>7. \A m \in Events : Fate(m)' = IF m \in T THEN "stranded" ELSE Fate(m)
  <2>1. ASSUME NEW m \in S PROVE Fate(m)' = IF m \in T THEN "stranded" ELSE Fate(m)
    BY <1>3, <1>4 DEF Fate
  <2>2. ASSUME NEW m \in Events, m \notin S PROVE Fate(m)' = Fate(m)
    BY <1>2, <1>3, <1>6, <2>2 DEF Fate, Stranded
  <2> QED
    BY <2>1, <2>2
<1>8. \A m \in Events : Verdicts(m)' = Verdicts(m)
  BY <1>2 DEF Verdicts
<1>9. delivered' = [m \in Events |-> IF m \in S THEN delivered[m] + 1 ELSE delivered[m]]
  BY <1>1 DEF HandOut
<1>10. Abstract!Try(S, T)
  BY <1>2, <1>3, <1>4, <1>5, <1>7, <1>8, <1>9 DEF Abstract!Try
<1>11. S \in SUBSET Events /\ T \in SUBSET S
  BY <1>3
<1> QED
  BY <1>10, <1>11 DEF Abstract!FateNext

\* The first worker that starts creates the durable, and with it settles the limit.
LEMMA StartOpens ==
  ASSUME IInv, NEW c \in Workers, Start(c), durable' # durable
  PROVE  Abstract!FateNext
<1>1. durable = NoDurable /\ durable' = Config[c]
  BY DEF Start
<1>2. UNCHANGED <<delivered, status, batch, verdict>>
  BY DEF Start
<1>3. \A m \in Events : delivered[m] = 0
  BY <1>1 DEF IInv, TypeOK, NoDurable
<1>4. \A m \in Events : Fate(m)' = Fate(m) /\ Verdicts(m)' = Verdicts(m)
  BY <1>2, <1>3 DEF Fate, Stranded, Held, Verdicts
<1>5. Abstract!Open
  BY <1>1, <1>2, <1>4 DEF Abstract!Open, NoDurable
<1> QED
  BY <1>5 DEF Abstract!FateNext

\* Every other step takes deliveries out of hands at most.
LEMMA OthersShrink ==
  ASSUME IInv, durable' = durable,
         \/ \E m \in Events : AckWaitExpires(m) \/ DelayElapses(m)
         \/ \E c \in Workers :
              \/ Start(c) \/ FetchTimeout(c) \/ Stop(c)
              \/ \E d \in batch[c] : Nak(c, d) \/ SettlementLost(c, d)
         \/ UNCHANGED vars
  PROVE  Abstract!FateNext
<1>1. delivered' = delivered /\ verdict' = verdict
  BY DEF AckWaitExpires, DelayElapses, Start, FetchTimeout, Stop, Nak, SettlementLost, vars
<1>2. \A m \in Events : status'[m] = "acked" <=> status[m] = "acked"
  BY DEF AckWaitExpires, DelayElapses, Start, FetchTimeout, Stop, Nak, SettlementLost, vars,
         IInv, TypeOK
<1>3. \A c \in Workers : batch'[c] \subseteq batch[c]
  BY DEF AckWaitExpires, DelayElapses, Start, FetchTimeout, Stop, Nak, SettlementLost, vars,
         IInv, TypeOK
<1>4. \A m \in Events : Verdicts(m)' = Verdicts(m)
  BY <1>1 DEF Verdicts
<1>5. Shrinks
  BY <1>1, <1>2, <1>3, <1>4 DEF Shrinks
<1> QED
  BY <1>5, ShrinkStrands

-----------------------------------------------------------------------------
LEMMA InitMapsToInit == Init => Abstract!FateInit
<1> SUFFICES ASSUME Init PROVE Abstract!FateInit
  OBVIOUS
<1>1. \A m \in Events : Fate(m) = "pending"
  BY DEF Init, Fate, Stranded
<1>2. \A m \in Events : Verdicts(m) = {}
  BY DEF Init, Verdicts, Deliveries, Concluded, FinalVerdicts
<1> QED
  BY <1>1, <1>2 DEF Init, NoDurable, Abstract!FateInit

\* The consumer implements the promise of EventFate: every step of workers, server
\* and faults is a step of the promise or none at all (nats.py:74-133).
THEOREM ConsumerImplementsFate == Spec => ImplementsEventFate
<1>1. Init => Abstract!FateInit
  BY InitMapsToInit
<1>2. IInv /\ [Next]_vars => [Abstract!FateNext]_(Abstract!fateVars)
  <2> SUFFICES ASSUME IInv, [Next]_vars PROVE Abstract!FateNext
    OBVIOUS
  <2>1. ASSUME NEW c \in Workers, Fetch(c) \/ FetchFails(c) PROVE Abstract!FateNext
    BY <2>1, FetchTries
  <2>2. ASSUME NEW c \in Workers, NEW d \in batch[c], Handle(c, d) \/ HandlerReturns(c, d)
        PROVE  Abstract!FateNext
    BY <2>2, VerdictConcludes
  <2>3. ASSUME NEW c \in Workers, NEW d \in batch[c], Ack(c, d) PROVE Abstract!FateNext
    BY <2>3, AckSettles
  <2>4. ASSUME NEW c \in Workers, Start(c) PROVE Abstract!FateNext
    BY <2>4, StartOpens, OthersShrink
  <2>5. ASSUME NEW m \in Events, AckWaitExpires(m) \/ DelayElapses(m) PROVE Abstract!FateNext
    <3>1. durable' = durable
      BY <2>5 DEF AckWaitExpires, DelayElapses
    <3> QED
      BY <2>5, <3>1, OthersShrink
  <2>6. ASSUME NEW c \in Workers, FetchTimeout(c) \/ Stop(c) PROVE Abstract!FateNext
    <3>1. durable' = durable
      BY <2>6 DEF FetchTimeout, Stop, vars
    <3> QED
      BY <2>6, <3>1, OthersShrink
  <2>7. ASSUME NEW c \in Workers, NEW d \in batch[c], Nak(c, d) \/ SettlementLost(c, d)
        PROVE  Abstract!FateNext
    <3>1. durable' = durable
      BY <2>7 DEF Nak, SettlementLost
    <3> QED
      BY <2>7, <3>1, OthersShrink
  <2>8. CASE UNCHANGED vars
    <3>1. durable' = durable
      BY <2>8 DEF vars
    <3> QED
      BY <2>8, <3>1, OthersShrink
  <2> QED
    BY <2>1, <2>2, <2>3, <2>4, <2>5, <2>6, <2>7, <2>8 DEF Next, Process
<1> QED
  BY <1>1, <1>2, InductiveInvariant, PTL DEF Spec, ImplementsEventFate, Abstract!FateSpec
=============================================================================
