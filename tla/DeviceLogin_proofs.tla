--------------------------- MODULE DeviceLogin_proofs ---------------------------
(***************************************************************************)
(* Proofs about DeviceLogin, for any workers and any timing: polls keep the   *)
(* distance that the provider asks for, and a login yields one token.         *)
(***************************************************************************)
EXTENDS DeviceLogin, FiniteSetTheorems, TLAPS

-----------------------------------------------------------------------------
(* The inductive invariant. *)

\* The types of the variables; a request is not started after the last instant.
Shape == TypeOK /\ startedAt \in [Workers -> 0 .. Horizon]

\* The row lock is held by the worker that is polling, and one polls at a time.
Locked ==
  /\ lock = {w \in Workers : pc[w] # "idle"}
  /\ \A v, w \in Workers : pc[v] # "idle" /\ pc[w] # "idle" => v = w
  /\ lock # {} => login = "open"

\* A poll has come to something only when it returned.
Replied == \A w \in Workers : reply[w] # "none" => pc[w] = "returned"

\* A session that respects what the provider asks for.
Respects(session) ==
  required <= session.interval /\ sentAt + required <= session.next

\* The newest session does - the one of the worker that polls, or else the row - as
\* long as no update was lost.
Spaced ==
  /\ \A w \in Workers : pc[w] = "requesting" => startedAt[w] = sentAt
  /\ ~unsaved =>
       /\ \A w \in Workers : pc[w] # "idle" => Respects(mem[w])
       /\ lock = {} /\ login = "open" => Respects(row)

\* A token is in a worker's hand, saved, or wasted.
Counted ==
  minted = (IF InHand = {} THEN 0 ELSE 1) + (IF login = "done" THEN 1 ELSE 0) + wasted

IInv == Shape /\ Locked /\ Replied /\ Spaced /\ Counted

-----------------------------------------------------------------------------
(* Lemmas about intervals. *)

LEMMA Timing ==
  /\ MinInterval \in Nat /\ MaxInterval \in Nat /\ DefaultInterval \in Nat
  /\ BackoffStep \in Nat /\ Lifetime \in Nat /\ Horizon \in Nat
  /\ MaxIssued \in Nat /\ MaxCrashes \in Nat
  /\ 0 < MinInterval /\ MinInterval <= DefaultInterval /\ DefaultInterval <= MaxInterval
BY TimingAssumption

\* Clamping an interval brings it into the range, and leaves it there.
LEMMA ClampBounds ==
  ASSUME NEW i \in Int
  PROVE  /\ Clamp(i) \in MinInterval .. MaxInterval
         /\ i \in MinInterval .. MaxInterval => Clamp(i) = i
BY Timing DEF Clamp, Least

\* Backing off lengthens an interval within the range, and keeps the order of two.
LEMMA BackoffGrows ==
  ASSUME NEW i \in MinInterval .. MaxInterval, NEW j \in MinInterval .. MaxInterval, i <= j
  PROVE  /\ Least(i + BackoffStep, MaxInterval) \in MinInterval .. MaxInterval
         /\ i <= Least(i + BackoffStep, MaxInterval)
         /\ Least(i + BackoffStep, MaxInterval) <= Least(j + BackoffStep, MaxInterval)
BY Timing DEF Least

\* At most one worker has a token in its hand, and then the login is open.
LEMMA OneInHand ==
  ASSUME Locked, Replied
  PROVE  /\ InHand = {} \/ \E w \in Workers : InHand = {w}
         /\ InHand # {} => login = "open"
         /\ Cardinality(InHand) = IF InHand = {} THEN 0 ELSE 1
<1>1. \A w \in InHand : w \in Workers /\ pc[w] \in {"issued", "returned"}
  BY DEF InHand, Replied
<1>2. InHand = {} \/ \E w \in Workers : InHand = {w}
  BY <1>1 DEF Locked, InHand
<1>3. InHand # {} => login = "open"
  BY <1>1 DEF Locked
<1>4. Cardinality(InHand) = IF InHand = {} THEN 0 ELSE 1
  BY <1>2, FS_EmptySet, FS_Singleton
<1>5. QED
  BY <1>2, <1>3, <1>4

-----------------------------------------------------------------------------
(* The invariant. *)

LEMMA Initially == Init => IInv
<1>1. SUFFICES ASSUME Init PROVE IInv
  OBVIOUS
<1>2. NoSession \in Sessions
  BY Timing DEF NoSession, Sessions, Times
<1>3. Shape
  <2>1. /\ now \in 0 .. Horizon /\ required \in MinInterval .. MaxInterval /\ sentAt \in Times
        /\ startedAt \in [Workers -> 0 .. Horizon] /\ startedAt \in [Workers -> Times]
        /\ minted \in 0 .. MaxIssued /\ wasted \in Nat /\ crashes \in 0 .. MaxCrashes
    BY <1>1, Timing DEF Init, Times
  <2>2. row \in Sessions /\ mem \in [Workers -> Sessions]
    BY <1>1, <1>2 DEF Init
  <2>3. QED
    BY <1>1, <2>1, <2>2 DEF Init, Shape, TypeOK, Replies
<1>4. Locked /\ Replied /\ Spaced
  BY <1>1 DEF Init, Locked, Replied, Spaced
<1>5. Counted
  BY <1>1, Timing DEF Init, Counted, InHand
<1>6. QED
  BY <1>3, <1>4, <1>5 DEF IInv

LEMMA Inductive == IInv /\ [Next]_vars => IInv'
<1>1. SUFFICES ASSUME IInv, [Next]_vars PROVE IInv'
  OBVIOUS
<1>2. CASE Tick
  <2>1. Shape'
    BY <1>1, <1>2, Timing
       DEF IInv, Tick, host, provider, Shape, TypeOK, Sessions, Times, Replies, Raised
  <2>2. Locked'
    BY <1>1, <1>2 DEF IInv, Tick, host, provider, Shape, TypeOK, Locked
  <2>3. Replied'
    BY <1>1, <1>2 DEF IInv, Tick, host, provider, Shape, TypeOK, Locked, Replied
  <2>4. Spaced'
    BY <1>1, <1>2
       DEF IInv, Tick, host, provider, Shape, TypeOK, Sessions, Times, Locked, Spaced, Respects
  <2>5. Counted'
    BY <1>1, <1>2 DEF IInv, Tick, host, provider, Shape, TypeOK, Locked, Replied, Counted, InHand
  <2>6. QED
    BY <2>1, <2>2, <2>3, <2>4, <2>5 DEF IInv
<1>3. CASE Decide
  <2>1. Shape'
    BY <1>1, <1>3
       DEF IInv, Decide, host, provider, Shape, TypeOK, Sessions, Times, Replies, Raised
  <2>2. Locked'
    BY <1>1, <1>3 DEF IInv, Decide, host, provider, Shape, TypeOK, Locked
  <2>3. Replied'
    BY <1>1, <1>3 DEF IInv, Decide, host, provider, Shape, TypeOK, Locked, Replied
  <2>4. Spaced'
    BY <1>1, <1>3
       DEF IInv, Decide, host, provider, Shape, TypeOK, Sessions, Times, Locked, Spaced, Respects
  <2>5. Counted'
    BY <1>1, <1>3
       DEF IInv, Decide, host, provider, Shape, TypeOK, Locked, Replied, Counted, InHand
  <2>6. QED
    BY <2>1, <2>2, <2>3, <2>4, <2>5 DEF IInv
<1>4. CASE StartLogin
  <2>0. PICK i \in MinInterval .. MaxInterval :
          /\ row' = [interval |-> i, next |-> now + i, expires |-> now + Lifetime]
          /\ required' = i
    BY <1>4, ClampBounds, Timing, TimingAssumption DEF StartLogin
  <2>1. Shape'
    BY <1>1, <1>4, <2>0, Timing
       DEF IInv, StartLogin, host, provider, Shape, TypeOK, Sessions, Times, Replies, Raised
  <2>2. Locked'
    BY <1>1, <1>4, <2>0, Timing DEF IInv, StartLogin, host, provider, Shape, TypeOK, Locked
  <2>3. Replied'
    BY <1>1, <1>4 DEF IInv, StartLogin, host, provider, Shape, TypeOK, Locked, Replied
  <2>4. Spaced'
    BY <1>1, <1>4, <2>0, Timing
       DEF IInv, StartLogin, host, provider, Shape, TypeOK, Sessions, Times, Locked, Spaced,
           Respects
  <2>5. Counted'
    BY <1>1, <1>4, <2>0, Timing
       DEF IInv, StartLogin, host, provider, Shape, TypeOK, Locked, Replied, Counted, InHand
  <2>6. QED
    BY <2>1, <2>2, <2>3, <2>4, <2>5 DEF IInv
<1>5. ASSUME NEW w \in Workers, Load(w) PROVE IInv'
  <2>1. Shape'
    BY <1>1, <1>5 DEF IInv, Load, host, provider, Shape, TypeOK, Sessions, Times, Replies, Raised
  <2>2. Locked'
    BY <1>1, <1>5 DEF IInv, Load, host, provider, Shape, TypeOK, Locked
  <2>3. Replied'
    BY <1>1, <1>5 DEF IInv, Load, host, provider, Shape, TypeOK, Locked, Replied
  <2>4. Spaced'
    BY <1>1, <1>5
       DEF IInv, Load, host, provider, Shape, TypeOK, Sessions, Times, Locked, Spaced, Respects
  <2>5. Counted'
    BY <1>1, <1>5 DEF IInv, Load, host, provider, Shape, TypeOK, Locked, Replied, Counted, InHand
  <2>6. QED
    BY <2>1, <2>2, <2>3, <2>4, <2>5 DEF IInv
<1>6. ASSUME NEW w \in Workers, PollExpired(w) PROVE IInv'
  <2>1. Shape'
    BY <1>1, <1>6
       DEF IInv, PollExpired, Return, host, provider, Shape, TypeOK, Sessions, Times, Replies,
           Raised
  <2>2. Locked'
    BY <1>1, <1>6 DEF IInv, PollExpired, Return, host, provider, Shape, TypeOK, Locked
  <2>3. Replied'
    BY <1>1, <1>6 DEF IInv, PollExpired, Return, host, provider, Shape, TypeOK, Locked, Replied
  <2>4. Spaced'
    BY <1>1, <1>6
       DEF IInv, PollExpired, Return, host, provider, Shape, TypeOK, Sessions, Times, Locked,
           Spaced, Respects
  <2>5. Counted'
    BY <1>1, <1>6
       DEF IInv, PollExpired, Return, host, provider, Shape, TypeOK, Locked, Replied, Counted,
           InHand
  <2>6. QED
    BY <2>1, <2>2, <2>3, <2>4, <2>5 DEF IInv
<1>7. ASSUME NEW w \in Workers, PollTooEarly(w) PROVE IInv'
  <2>1. Shape'
    BY <1>1, <1>7
       DEF IInv, PollTooEarly, Return, host, provider, Shape, TypeOK, Sessions, Times, Replies,
           Raised
  <2>2. Locked'
    BY <1>1, <1>7 DEF IInv, PollTooEarly, Return, host, provider, Shape, TypeOK, Locked
  <2>3. Replied'
    BY <1>1, <1>7 DEF IInv, PollTooEarly, Return, host, provider, Shape, TypeOK, Locked, Replied
  <2>4. Spaced'
    BY <1>1, <1>7
       DEF IInv, PollTooEarly, Return, host, provider, Shape, TypeOK, Sessions, Times, Locked,
           Spaced, Respects
  <2>5. Counted'
    BY <1>1, <1>7
       DEF IInv, PollTooEarly, Return, host, provider, Shape, TypeOK, Locked, Replied, Counted,
           InHand
  <2>6. QED
    BY <2>1, <2>2, <2>3, <2>4, <2>5 DEF IInv
<1>8. ASSUME NEW w \in Workers, PollSends(w) PROVE IInv'
  <2>0. /\ mem[w].interval \in MinInterval .. MaxInterval /\ Clamp(mem[w].interval) = mem[w].interval
        /\ mem' = [mem EXCEPT ![w].interval = mem[w].interval, ![w].next = now + mem[w].interval]
    BY <1>1, <1>8, ClampBounds, Timing DEF IInv, Shape, TypeOK, Sessions, PollSends
  <2>1. Shape'
    BY <1>1, <1>8, <2>0, Timing
       DEF IInv, PollSends, host, provider, Shape, TypeOK, Sessions, Times, Replies, Raised
  <2>2. Locked'
    BY <1>1, <1>8 DEF IInv, PollSends, host, provider, Shape, TypeOK, Locked
  <2>3. Replied'
    BY <1>1, <1>8 DEF IInv, PollSends, host, provider, Shape, TypeOK, Locked, Replied
  <2>4. Spaced'
    BY <1>1, <1>8, <2>0, Timing
       DEF IInv, PollSends, host, provider, Shape, TypeOK, Sessions, Times, Locked, Spaced,
           Respects
  <2>5. Counted'
    BY <1>1, <1>8
       DEF IInv, PollSends, host, provider, Shape, TypeOK, Locked, Replied, Counted, InHand
  <2>6. QED
    BY <2>1, <2>2, <2>3, <2>4, <2>5 DEF IInv
<1>9. ASSUME NEW w \in Workers, AnswerPending(w) PROVE IInv'
  <2>1. Shape'
    BY <1>1, <1>9
       DEF IInv, AnswerPending, Return, host, provider, Shape, TypeOK, Sessions, Times, Replies,
           Raised
  <2>2. Locked'
    BY <1>1, <1>9 DEF IInv, AnswerPending, Return, host, provider, Shape, TypeOK, Locked
  <2>3. Replied'
    BY <1>1, <1>9 DEF IInv, AnswerPending, Return, host, provider, Shape, TypeOK, Locked, Replied
  <2>4. Spaced'
    BY <1>1, <1>9
       DEF IInv, AnswerPending, Return, host, provider, Shape, TypeOK, Sessions, Times, Locked,
           Spaced, Respects
  <2>5. Counted'
    BY <1>1, <1>9
       DEF IInv, AnswerPending, Return, host, provider, Shape, TypeOK, Locked, Replied, Counted,
           InHand
  <2>6. QED
    BY <2>1, <2>2, <2>3, <2>4, <2>5 DEF IInv
<1>10. ASSUME NEW w \in Workers, AnswerThrottled(w) PROVE IInv'
  <2>1. PICK i \in MinInterval .. MaxInterval :
          /\ i = Least(mem[w].interval + BackoffStep, MaxInterval)
          /\ mem' = [mem EXCEPT ![w].interval = i, ![w].next = startedAt[w] + i]
    <3>1. mem[w].interval \in MinInterval .. MaxInterval
      BY <1>1 DEF IInv, Shape, TypeOK, Sessions
    <3>2. Least(mem[w].interval + BackoffStep, MaxInterval) \in MinInterval .. MaxInterval
      BY <3>1, BackoffGrows, Timing
    <3>3. QED
      BY <1>10, <3>2 DEF AnswerThrottled
  <2>2. required' \in MinInterval .. MaxInterval
    <3>1. required \in MinInterval .. MaxInterval
      BY <1>1 DEF IInv, Shape, TypeOK
    <3>2. Least(required + BackoffStep, MaxInterval) \in MinInterval .. MaxInterval
      BY <3>1, BackoffGrows, Timing
    <3>3. QED
      BY <1>10, <3>2 DEF AnswerThrottled
  <2>3. mem' \in [Workers -> Sessions]
    <3>1. startedAt[w] + i \in Times
      BY <1>1, Timing DEF IInv, Shape, Times
    <3>2. [mem[w] EXCEPT !.interval = i, !.next = startedAt[w] + i] \in Sessions
      BY <1>1, <3>1 DEF IInv, Shape, TypeOK, Sessions
    <3>3. mem' = [mem EXCEPT ![w] = [mem[w] EXCEPT !.interval = i, !.next = startedAt[w] + i]]
      BY <2>1
    <3>4. QED
      BY <1>1, <3>2, <3>3 DEF IInv, Shape, TypeOK
  <2>4. Shape'
    BY <1>1, <1>10, <2>2, <2>3 DEF IInv, AnswerThrottled, Return, host, Shape, TypeOK, Replies
  <2>5. Locked'
    BY <1>1, <1>10 DEF IInv, AnswerThrottled, Return, host, provider, Shape, TypeOK, Locked
  <2>6. Replied'
    BY <1>1, <1>10
       DEF IInv, AnswerThrottled, Return, host, provider, Shape, TypeOK, Locked, Replied
  <2>7. Spaced'
    BY <1>1, <1>10, <2>1, BackoffGrows, Timing
       DEF IInv, AnswerThrottled, Return, host, provider, Shape, TypeOK, Sessions, Times, Locked,
           Spaced, Respects
  <2>8. Counted'
    BY <1>1, <1>10
       DEF IInv, AnswerThrottled, Return, host, provider, Shape, TypeOK, Locked, Replied,
           Counted, InHand
  <2>9. QED
    BY <2>4, <2>5, <2>6, <2>7, <2>8 DEF IInv
<1>11. ASSUME NEW w \in Workers, AnswerDenied(w) PROVE IInv'
  <2>1. Shape'
    BY <1>1, <1>11
       DEF IInv, AnswerDenied, Return, host, provider, Shape, TypeOK, Sessions, Times, Replies,
           Raised
  <2>2. Locked'
    BY <1>1, <1>11 DEF IInv, AnswerDenied, Return, host, provider, Shape, TypeOK, Locked
  <2>3. Replied'
    BY <1>1, <1>11 DEF IInv, AnswerDenied, Return, host, provider, Shape, TypeOK, Locked, Replied
  <2>4. Spaced'
    BY <1>1, <1>11
       DEF IInv, AnswerDenied, Return, host, provider, Shape, TypeOK, Sessions, Times, Locked,
           Spaced, Respects
  <2>5. Counted'
    BY <1>1, <1>11
       DEF IInv, AnswerDenied, Return, host, provider, Shape, TypeOK, Locked, Replied, Counted,
           InHand
  <2>6. QED
    BY <2>1, <2>2, <2>3, <2>4, <2>5 DEF IInv
<1>12. ASSUME NEW w \in Workers, AnswerFails(w) PROVE IInv'
  <2>1. Shape'
    BY <1>1, <1>12
       DEF IInv, AnswerFails, Return, host, provider, Shape, TypeOK, Sessions, Times, Replies,
           Raised
  <2>2. Locked'
    BY <1>1, <1>12 DEF IInv, AnswerFails, Return, host, provider, Shape, TypeOK, Locked
  <2>3. Replied'
    BY <1>1, <1>12 DEF IInv, AnswerFails, Return, host, provider, Shape, TypeOK, Locked, Replied
  <2>4. Spaced'
    BY <1>1, <1>12
       DEF IInv, AnswerFails, Return, host, provider, Shape, TypeOK, Sessions, Times, Locked,
           Spaced, Respects
  <2>5. Counted'
    BY <1>1, <1>12
       DEF IInv, AnswerFails, Return, host, provider, Shape, TypeOK, Locked, Replied, Counted,
           InHand
  <2>6. QED
    BY <2>1, <2>2, <2>3, <2>4, <2>5 DEF IInv
<1>13. ASSUME NEW w \in Workers, AnswerApproved(w) PROVE IInv'
  <2>1. Shape'
    BY <1>1, <1>13
       DEF IInv, AnswerApproved, host, provider, Shape, TypeOK, Sessions, Times, Replies, Raised
  <2>2. Locked'
    BY <1>1, <1>13 DEF IInv, AnswerApproved, host, provider, Shape, TypeOK, Locked
  <2>3. Replied'
    BY <1>1, <1>13 DEF IInv, AnswerApproved, host, provider, Shape, TypeOK, Locked, Replied
  <2>4. Spaced'
    BY <1>1, <1>13
       DEF IInv, AnswerApproved, host, provider, Shape, TypeOK, Sessions, Times, Locked, Spaced,
           Respects
  <2>5. Counted'
    BY <1>1, <1>13
       DEF IInv, AnswerApproved, host, provider, Shape, TypeOK, Locked, Replied, Counted, InHand
  <2>6. QED
    BY <2>1, <2>2, <2>3, <2>4, <2>5 DEF IInv
<1>14. ASSUME NEW w \in Workers, Exchange(w) PROVE IInv'
  <2>1. Shape'
    BY <1>1, <1>14
       DEF IInv, Exchange, Return, host, provider, Shape, TypeOK, Sessions, Times, Replies, Raised
  <2>2. Locked'
    BY <1>1, <1>14 DEF IInv, Exchange, Return, host, provider, Shape, TypeOK, Locked
  <2>3. Replied'
    BY <1>1, <1>14 DEF IInv, Exchange, Return, host, provider, Shape, TypeOK, Locked, Replied
  <2>4. Spaced'
    BY <1>1, <1>14
       DEF IInv, Exchange, Return, host, provider, Shape, TypeOK, Sessions, Times, Locked,
           Spaced, Respects
  <2>5. Counted'
    BY <1>1, <1>14
       DEF IInv, Exchange, Return, host, provider, Shape, TypeOK, Locked, Replied, Counted, InHand
  <2>6. QED
    BY <2>1, <2>2, <2>3, <2>4, <2>5 DEF IInv
<1>15. ASSUME NEW w \in Workers, Issue(w) PROVE IInv'
  <2>1. Shape'
    BY <1>1, <1>15, Timing
       DEF IInv, Issue, host, provider, Shape, TypeOK, Sessions, Times, Replies, Raised
  <2>2. Locked'
    BY <1>1, <1>15 DEF IInv, Issue, host, provider, Shape, TypeOK, Locked
  <2>3. Replied'
    BY <1>1, <1>15 DEF IInv, Issue, host, provider, Shape, TypeOK, Locked, Replied
  <2>4. Spaced'
    BY <1>1, <1>15
       DEF IInv, Issue, host, provider, Shape, TypeOK, Sessions, Times, Locked,
           Spaced, Respects
  <2>5. Counted'
    BY <1>1, <1>15
       DEF IInv, Issue, host, provider, Shape, TypeOK, Locked, Replied, Counted, InHand
  <2>6. QED
    BY <2>1, <2>2, <2>3, <2>4, <2>5 DEF IInv
<1>16. ASSUME NEW w \in Workers, ExchangeFails(w) PROVE IInv'
  <2>1. Shape'
    BY <1>1, <1>16
       DEF IInv, ExchangeFails, Waste, Return, host, provider, Shape, TypeOK, Sessions, Times,
           Replies, Raised
  <2>2. Locked'
    BY <1>1, <1>16 DEF IInv, ExchangeFails, Waste, Return, host, provider, Shape, TypeOK, Locked
  <2>3. Replied'
    BY <1>1, <1>16
       DEF IInv, ExchangeFails, Waste, Return, host, provider, Shape, TypeOK, Locked, Replied
  <2>4. Spaced'
    BY <1>1, <1>16
       DEF IInv, ExchangeFails, Waste, Return, host, provider, Shape, TypeOK, Sessions, Times,
           Locked, Spaced, Respects
  <2>5. Counted'
    BY <1>1, <1>16
       DEF IInv, ExchangeFails, Waste, Return, host, provider, Shape, TypeOK, Locked, Replied,
           Counted, InHand
  <2>6. QED
    BY <2>1, <2>2, <2>3, <2>4, <2>5 DEF IInv
<1>17. ASSUME NEW w \in Workers, Save(w) PROVE IInv'
  <2>0. NoSession \in Sessions
    BY Timing DEF NoSession, Sessions, Times
  <2>1. Shape'
    BY <1>1, <1>17, <2>0, Timing
       DEF IInv, Save, Forget, host, provider, Shape, TypeOK, Sessions, Times, Replies, Raised
  <2>2. Locked'
    BY <1>1, <1>17 DEF IInv, Save, Forget, host, provider, Shape, TypeOK, Locked
  <2>3. Replied'
    BY <1>1, <1>17 DEF IInv, Save, Forget, host, provider, Shape, TypeOK, Locked, Replied
  <2>4. Spaced'
    BY <1>1, <1>17
       DEF IInv, Save, Forget, host, provider, Shape, TypeOK, Sessions, Times, Locked, Spaced,
           Respects
  <2>5. Counted'
    BY <1>1, <1>17
       DEF IInv, Save, Forget, host, provider, Shape, TypeOK, Locked, Replied, Counted, InHand
  <2>6. QED
    BY <2>1, <2>2, <2>3, <2>4, <2>5 DEF IInv
<1>18. ASSUME NEW w \in Workers, Crash(w) PROVE IInv'
  <2>0. NoSession \in Sessions
    BY Timing DEF NoSession, Sessions, Times
  <2>1. Shape'
    BY <1>1, <1>18, <2>0, Timing
       DEF IInv, Crash, Waste, Forget, host, provider, Shape, TypeOK, Sessions, Times, Replies,
           Raised
  <2>2. Locked'
    BY <1>1, <1>18 DEF IInv, Crash, Waste, Forget, host, provider, Shape, TypeOK, Locked
  <2>3. Replied'
    BY <1>1, <1>18 DEF IInv, Crash, Waste, Forget, host, provider, Shape, TypeOK, Locked, Replied
  <2>4. Spaced'
    BY <1>1, <1>18
       DEF IInv, Crash, Waste, Forget, host, provider, Shape, TypeOK, Sessions, Times, Locked,
           Spaced,
           Respects
  <2>5. Counted'
    BY <1>1, <1>18
       DEF IInv, Crash, Waste, Forget, host, provider, Shape, TypeOK, Locked, Replied, Counted,
           InHand
  <2>6. QED
    BY <2>1, <2>2, <2>3, <2>4, <2>5 DEF IInv
<1>19. CASE UNCHANGED vars
  BY <1>1, <1>19 DEF IInv, vars, Shape, TypeOK, Locked, Replied, Spaced, Respects, Counted, InHand
<1>20. QED
  BY <1>1, <1>2, <1>3, <1>4, <1>5, <1>6, <1>7, <1>8, <1>9, <1>10, <1>11, <1>12, <1>13, <1>14,
     <1>15, <1>16, <1>17, <1>18, <1>19
     DEF Next, Poll, Answer, Over

LEMMA Always == Spec => []IInv
BY Initially, Inductive, PTL DEF Spec

-----------------------------------------------------------------------------
(* Theorems. *)

\* The variables keep their types; in particular the intervals stay within their
\* limits (chatgpt_auth.py:97, 107).
THEOREM LoginIsTyped == Spec => []TypeOK
BY Always, PTL DEF IInv, Shape

\* A login yields one token, and every token that was issued is in hand or saved,
\* but for those that a failed exchange or a crash wasted
\* (chatgpt_auth.py:114-115, 125-133).
THEOREM OneTokenPerLogin == Spec => []TokenIsKept
<1>1. IInv => TokenIsKept
  <2>1. SUFFICES ASSUME IInv PROVE TokenIsKept
    OBVIOUS
  <2>2. minted \in Nat /\ wasted \in Nat
    BY <2>1, Timing DEF IInv, Shape, TypeOK
  <2>3. QED
    BY <2>1, <2>2, OneInHand DEF IInv, Counted, TokenIsKept
<1>2. QED
  BY <1>1, Always, PTL

\* As long as every update was saved, polls keep the distance that the provider asks
\* for, over all workers (chatgpt_auth.py:95-98, 106-108).
THEOREM PollsAreSpaced == Spec => PollSpacing
<1>1. IInv /\ [Next]_vars =>
        [\A w \in Workers :
           pc[w] = "loaded" /\ pc'[w] = "requesting" /\ ~unsaved => sentAt + required <= now]_vars
  <2>1. SUFFICES ASSUME IInv, [Next]_vars, NEW w \in Workers,
                        pc[w] = "loaded", pc'[w] = "requesting", ~unsaved
                 PROVE  sentAt + required <= now
    OBVIOUS
  <2>2. PollSends(w)
    BY <2>1
       DEF IInv, Shape, TypeOK, Next, vars, Tick, Decide, StartLogin, Over, Load, Poll, Answer,
           Save,
       Crash, Forget, Return, PollExpired, PollTooEarly, PollSends, AnswerPending, AnswerThrottled,
       AnswerDenied, AnswerFails, AnswerApproved, Issue, Exchange, ExchangeFails
  <2>3. mem[w].next <= now
    BY <2>2 DEF PollSends
  <2>4. sentAt + required <= mem[w].next
    BY <2>1 DEF IInv, Spaced, Respects
  <2>5. /\ sentAt \in Int /\ required \in Int /\ now \in Int /\ mem[w].next \in Int
    BY <2>1, Timing DEF IInv, Shape, TypeOK, Sessions, Times
  <2>6. QED
    BY <2>3, <2>4, <2>5
<1>2. QED
  BY <1>1, Always, PTL DEF Spec, PollSpacing
=============================================================================
