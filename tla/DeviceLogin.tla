----------------------------- MODULE DeviceLogin -----------------------------
(***************************************************************************)
(* The device login of src/agent_runtime/chatgpt_auth.py: one DeviceSession  *)
(* that a host stores in a row of its database and that several of its       *)
(* processes (Workers) poll until the user approved it or it expired.        *)
(*                                                                         *)
(* start_device_login and poll_device_login are the code's; the row, its lock *)
(* and what is saved when are the host's, as the docstring of                *)
(* poll_device_login and the README of the repository ask of it.  The         *)
(* provider answers within the protocol, with any delay.                     *)
(***************************************************************************)
EXTENDS Integers, FiniteSets

CONSTANTS
  Workers,          \* the host's processes
  Advertised,       \* the polling intervals a provider may ask for
  MinInterval,      \* 1 in the code
  MaxInterval,      \* 60
  DefaultInterval,  \* 5, for an interval that does not parse
  BackoffStep,      \* 5, added after a 429
  Lifetime,         \* 900
  Horizon,          \* bound: the last instant of a behaviour
  MaxIssued,        \* bound: how many tokens the provider issues to a login
  MaxCrashes        \* bound: how many crashes a behaviour has

ASSUME TimingAssumption ==
  /\ Advertised \subseteq Int /\ Advertised # {}
  /\ {MinInterval, MaxInterval, DefaultInterval, BackoffStep, Lifetime, Horizon,
       MaxIssued, MaxCrashes} \subseteq Nat
  /\ 0 < MinInterval /\ MinInterval <= DefaultInterval /\ DefaultInterval <= MaxInterval

VARIABLES
  now,        \* time.time(), in whole units
  login,      \* what the host's row says of the login
  row,        \* the DeviceSession in the row, from the start on
  lock,       \* the worker that holds the row lock, if any
  pc,         \* how far each worker is in its poll
  mem,        \* the DeviceSession object of each worker
  startedAt,  \* the "now" its poll_device_login took
  reply,      \* what its poll came to
  auth,       \* provider: what the user did
  required,   \* provider: the interval it asks for, as far as the code follows
  sentAt,     \* history: when the last request was sent
  unsaved,    \* history: whether the update of a poll that sent was not saved
  minted,     \* history: how many tokens the provider issued
  wasted,     \* history: how many of them a failure or a crash took from a worker
  crashes     \* how many crashes happened

vars == <<now, login, row, lock, pc, mem, startedAt, reply, auth, required,
          sentAt, unsaved, minted, wasted, crashes>>

host == <<login, row, lock>>
provider == <<auth, required, minted>>

Least(a, b) == IF a <= b THEN a ELSE b
\* Mutant: the interval has no upper limit.
Clamp_NoLimit(i) == IF i < MinInterval THEN MinInterval ELSE i

Clamp(i) == IF i < MinInterval THEN MinInterval ELSE Least(i, MaxInterval)

Times == 0 .. Horizon + MaxInterval + Lifetime
Sessions == [interval : MinInterval .. MaxInterval, next : Times, expires : Times]
NoSession == [interval |-> MinInterval, next |-> 0, expires |-> 0]

\* What a poll may come to: None, a token, or a raised error.
Raised == {"expired", "denied", "error"}
Replies == {"none", "pending", "throttled", "token"} \cup Raised

TypeOK ==
  /\ now \in 0 .. Horizon
  /\ login \in {"none", "open", "done", "failed"}
  /\ row \in Sessions
  /\ lock \subseteq Workers
  /\ pc \in [Workers -> {"idle", "loaded", "requesting", "exchanging", "issued", "returned"}]
  /\ mem \in [Workers -> Sessions]
  /\ startedAt \in [Workers -> Times]
  /\ reply \in [Workers -> Replies]
  /\ auth \in {"waiting", "approved", "refused"}
  /\ required \in MinInterval .. MaxInterval
  /\ sentAt \in Times
  /\ unsaved \in BOOLEAN
  /\ minted \in 0 .. MaxIssued /\ wasted \in Nat
  /\ crashes \in 0 .. MaxCrashes

Init ==
  /\ now = 0
  /\ login = "none"
  /\ row = NoSession
  /\ lock = {}
  /\ pc = [w \in Workers |-> "idle"]
  /\ mem = [w \in Workers |-> NoSession]
  /\ startedAt = [w \in Workers |-> 0]
  /\ reply = [w \in Workers |-> "none"]
  /\ auth = "waiting"
  /\ required = MinInterval
  /\ sentAt = 0
  /\ unsaved = FALSE
  /\ minted = 0 /\ wasted = 0
  /\ crashes = 0

-----------------------------------------------------------------------------
(* Time and the user. *)

Tick ==
  /\ now < Horizon
  /\ now' = now + 1
  /\ UNCHANGED <<host, pc, mem, startedAt, reply, provider, sentAt, unsaved, wasted, crashes>>

Decide ==
  /\ login = "open"
  /\ auth = "waiting"
  /\ auth' \in {"approved", "refused"}
  /\ UNCHANGED <<now, host, pc, mem, startedAt, reply, required, minted, sentAt, unsaved, wasted,
                 crashes>>

-----------------------------------------------------------------------------
(* start_device_login, and the host that stores the session it returns. *)

StartLogin ==
  /\ login = "none"
  /\ now + Lifetime < Horizon  \* bound: the expiry is within the behaviour
  /\ \E i \in {Clamp(a) : a \in Advertised} \cup {DefaultInterval} :
       /\ row' = [interval |-> i, next |-> now + i, expires |-> now + Lifetime]
       /\ required' = i
  /\ login' = "open"
  /\ sentAt' = now
  /\ UNCHANGED <<now, lock, pc, mem, startedAt, reply, auth, unsaved, minted, wasted, crashes>>

-----------------------------------------------------------------------------
(* The host around a poll: "Persist session and serialize polls". *)

\* Mutant: the host does not lock the row.
Load_Unlocked(w) ==
  /\ pc[w] = "idle"
  /\ login = "open"
  /\ mem' = [mem EXCEPT ![w] = row]
  /\ pc' = [pc EXCEPT ![w] = "loaded"]
  /\ UNCHANGED <<now, login, row, lock, startedAt, reply, provider, sentAt, unsaved, wasted,
                 crashes>>

\* Lock the row and read the session of a login that is still open.
Load(w) ==
  /\ pc[w] = "idle"
  /\ login = "open"
  /\ lock = {}
  /\ lock' = {w}
  /\ mem' = [mem EXCEPT ![w] = row]
  /\ pc' = [pc EXCEPT ![w] = "loaded"]
  /\ UNCHANGED <<now, login, row, startedAt, reply, provider, sentAt, unsaved, wasted, crashes>>

Forget(w) ==
  /\ pc' = [pc EXCEPT ![w] = "idle"]
  /\ mem' = [mem EXCEPT ![w] = NoSession]
  /\ startedAt' = [startedAt EXCEPT ![w] = 0]
  /\ reply' = [reply EXCEPT ![w] = "none"]

\* Save what the poll returned and release the lock.  None leaves the login
\* open, a token and an expiry end it.  After any other error the host may save
\* the session or not, and may give the login up or not.
Save(w) ==
  /\ pc[w] = "returned"
  /\ \E saved \in BOOLEAN :
       /\ reply[w] \notin Raised => saved
       /\ row' = IF saved THEN mem[w] ELSE row
       /\ unsaved' = (unsaved \/ (~saved /\ mem[w] # row))
  /\ login' \in CASE reply[w] = "token"   -> {"done"}
                  [] reply[w] = "expired" -> {"failed"}
                  [] reply[w] \in {"denied", "error"} -> {"open", "failed"}
                  [] OTHER -> {"open"}
  /\ lock' = {}
  /\ Forget(w)
  /\ UNCHANGED <<now, provider, sentAt, wasted, crashes>>

\* The workers that a token is on its way to, or that have it and did not save it.
InHand == {w \in Workers : pc[w] = "issued" \/ reply[w] = "token"}

Waste(w) == wasted' = IF w \in InHand THEN wasted + 1 ELSE wasted

\* The process dies anywhere in between: the database releases its lock.
Crash(w) ==
  /\ crashes < MaxCrashes
  /\ pc[w] # "idle"
  /\ crashes' = crashes + 1
  /\ unsaved' = (unsaved \/ mem[w] # row)
  /\ lock' = {}
  /\ Waste(w)
  /\ Forget(w)
  /\ UNCHANGED <<now, login, row, provider, sentAt>>

-----------------------------------------------------------------------------
(* poll_device_login, line by line up to its request. *)

Return(w, r) ==
  /\ pc' = [pc EXCEPT ![w] = "returned"]
  /\ reply' = [reply EXCEPT ![w] = r]

\* Mutant: a poll of an expired session returns None instead of raising.
PollExpired_None(w) ==
  /\ pc[w] = "loaded"
  /\ mem[w].expires <= now
  /\ Return(w, "pending")
  /\ UNCHANGED <<now, host, mem, startedAt, provider, sentAt, unsaved, wasted, crashes>>

PollExpired(w) ==
  /\ pc[w] = "loaded"
  /\ mem[w].expires <= now
  /\ Return(w, "expired")
  /\ UNCHANGED <<now, host, mem, startedAt, provider, sentAt, unsaved, wasted, crashes>>

PollTooEarly(w) ==
  /\ pc[w] = "loaded"
  /\ now < mem[w].expires
  /\ now < mem[w].next
  /\ Return(w, "pending")
  /\ UNCHANGED <<now, host, mem, startedAt, provider, sentAt, unsaved, wasted, crashes>>

\* The session is updated before the request goes out.
PollSends(w) ==
  /\ pc[w] = "loaded"
  /\ now < mem[w].expires
  /\ mem[w].next <= now
  /\ LET i == Clamp(mem[w].interval) IN
       mem' = [mem EXCEPT ![w].interval = i, ![w].next = now + i]
  /\ startedAt' = [startedAt EXCEPT ![w] = now]
  /\ sentAt' = now
  /\ pc' = [pc EXCEPT ![w] = "requesting"]
  /\ UNCHANGED <<now, host, reply, provider, unsaved, wasted, crashes>>

-----------------------------------------------------------------------------
(* The provider's answers, at any later time. *)

\* 403 or 404: the user has not decided.
AnswerPending(w) ==
  /\ pc[w] = "requesting"
  /\ auth = "waiting"
  /\ Return(w, "pending")
  /\ UNCHANGED <<now, host, mem, startedAt, provider, sentAt, unsaved, wasted, crashes>>

\* Mutant: a 429 changes the interval and leaves the next poll where it was.
AnswerThrottled_NotMoved(w) ==
  /\ pc[w] = "requesting"
  /\ mem' = [mem EXCEPT ![w].interval = Least(@ + BackoffStep, MaxInterval)]
  /\ required' = Least(required + BackoffStep, MaxInterval)
  /\ Return(w, "throttled")
  /\ UNCHANGED <<now, host, startedAt, auth, minted, sentAt, unsaved, wasted, crashes>>

\* 429: the interval grows and the next poll moves, counted from the start of
\* this one.
AnswerThrottled(w) ==
  /\ pc[w] = "requesting"
  /\ LET i == Least(mem[w].interval + BackoffStep, MaxInterval) IN
       mem' = [mem EXCEPT ![w].interval = i, ![w].next = startedAt[w] + i]
  /\ required' = Least(required + BackoffStep, MaxInterval)
  /\ Return(w, "throttled")
  /\ UNCHANGED <<now, host, startedAt, auth, minted, sentAt, unsaved, wasted, crashes>>

\* access_denied or expired_token: raised as authorization_failed.
AnswerDenied(w) ==
  /\ pc[w] = "requesting"
  /\ auth = "refused"
  /\ Return(w, "denied")
  /\ UNCHANGED <<now, host, mem, startedAt, provider, sentAt, unsaved, wasted, crashes>>

\* Any other status, an incomplete 200 or a transport error: something is raised.
AnswerFails(w) ==
  /\ pc[w] = "requesting"
  /\ Return(w, "error")
  /\ UNCHANGED <<now, host, mem, startedAt, provider, sentAt, unsaved, wasted, crashes>>

\* 200 with an authorization code, which _exchange sends for a token.
AnswerApproved(w) ==
  /\ pc[w] = "requesting"
  /\ auth = "approved"
  /\ pc' = [pc EXCEPT ![w] = "exchanging"]
  /\ UNCHANGED <<now, host, mem, startedAt, reply, provider, sentAt, unsaved, wasted, crashes>>

\* The provider accepts the code and issues the token.
Issue(w) ==
  /\ pc[w] = "exchanging"
  /\ minted < MaxIssued
  /\ pc' = [pc EXCEPT ![w] = "issued"]
  /\ minted' = minted + 1
  /\ UNCHANGED <<now, host, mem, startedAt, reply, auth, required, sentAt, unsaved, wasted,
                 crashes>>

\* Its answer arrives and is as it should be.
Exchange(w) ==
  /\ pc[w] = "issued"
  /\ Return(w, "token")
  /\ UNCHANGED <<now, host, mem, startedAt, provider, sentAt, unsaved, wasted, crashes>>

\* The exchange raises: the provider refused the code, or it issued a token and the
\* answer is lost, is not usable or names no account, and the token with it.
ExchangeFails(w) ==
  /\ pc[w] \in {"exchanging", "issued"}
  /\ Waste(w)
  /\ Return(w, "error")
  /\ UNCHANGED <<now, host, mem, startedAt, provider, sentAt, unsaved, crashes>>

-----------------------------------------------------------------------------
Poll(w) == PollExpired(w) \/ PollTooEarly(w) \/ PollSends(w)

Answer(w) ==
  \/ AnswerPending(w) \/ AnswerThrottled(w) \/ AnswerDenied(w)
  \/ AnswerFails(w) \/ AnswerApproved(w)
  \/ Issue(w) \/ Exchange(w) \/ ExchangeFails(w)

\* No login is open: nothing need happen.
Over ==
  /\ login # "open"
  /\ UNCHANGED vars

Next ==
  \/ Tick \/ Decide \/ StartLogin \/ Over
  \/ \E w \in Workers : Load(w) \/ Poll(w) \/ Answer(w) \/ Save(w) \/ Crash(w)

\* Time passes, the host keeps polling an open login, requests end (the client
\* has a timeout) and results are saved.  The user need not decide.
Fairness ==
  /\ WF_vars(Tick)
  /\ \A w \in Workers : WF_vars(Load(w) \/ Poll(w) \/ Answer(w) \/ Save(w))

Spec == Init /\ [][Next]_vars

FairSpec == Spec /\ Fairness

-----------------------------------------------------------------------------
\* As long as every update was saved, a request is sent no sooner after the
\* last one than the provider asked for: its interval at the start, and more
\* after each 429, over all workers (chatgpt_auth.py:95-98, 106-108).
PollSpacing ==
  [][\A w \in Workers :
       pc[w] = "loaded" /\ pc'[w] = "requesting" /\ ~unsaved => sentAt + required <= now]_vars

\* An approved login yields one token.  No second worker exchanges a code of the
\* same login or has its token thrown away for one that ended: every token that
\* was issued is in hand or saved, but for those whose exchange failed after the
\* provider had issued them and those a crash took before the save
\* (chatgpt_auth.py:114-115, 125-133).
TokenIsKept ==
  LET saved == IF login = "done" THEN 1 ELSE 0 IN
    /\ Cardinality(InHand) + saved <= 1
    /\ minted = Cardinality(InHand) + saved + wasted

\* No login is polled for ever: it ends in a token or an error, at the latest by
\* its expiry, also if next_poll_at was moved past that (chatgpt_auth.py:93-96).
LoginEnds == login = "open" ~> login \in {"done", "failed"}

\* tests/test_chatgpt_auth.py:53 asserts of a poll that was answered 429
\* "session.next_poll_at > time.time()": the session it returns asks to wait.
ThrottleDefers ==
  [][\A w \in Workers :
       reply[w] # "throttled" /\ reply'[w] = "throttled" => now < mem'[w].next]_vars
=============================================================================
