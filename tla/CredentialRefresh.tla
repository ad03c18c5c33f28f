-------------------------- MODULE CredentialRefresh --------------------------
(***************************************************************************)
(* Refreshing an OAuth credential that several runs use at once: the refresh *)
(* of src/agent_runtime/chatgpt_auth.py or of mcp_oauth.py, called by the     *)
(* host's handler behind the callback route of adapter.py.                   *)
(*                                                                         *)
(* A run whose access token has expired calls back with the fingerprint of   *)
(* that token.  The host locks the credential's row, answers with the row's   *)
(* token if it is another one, and refreshes it otherwise.  The lock, the     *)
(* comparison and the row are the host's, as the README of the repository     *)
(* asks of it (README.md:60-61, 316-320); the provider may rotate the refresh *)
(* token, which spends the old one.                                          *)
(***************************************************************************)
EXTENDS Integers, FiniteSets

CONSTANTS
  Runs,         \* the active runs on one credential
  Protocols,    \* the refreshes that the host may have to call
  MaxExpiries,  \* bound: how often an access token expires
  MaxFailures   \* bound: crashes, lost or refused answers, outages

ASSUME ProtocolAssumption ==
  /\ Protocols \subseteq {"chatgpt", "mcp"}
  /\ MaxExpiries \in Nat /\ MaxFailures \in Nat

VARIABLES
  protocol,  \* whose credential it is, and so which refresh the host calls
  row,       \* host: the stored access and refresh token
  lock,      \* host: the run whose callback holds the row lock, if any
  tok,       \* runtime: the access token each run uses
  pc,        \* how far each run's callback is
  got,       \* the token the refresh of a callback returned
  answer,    \* the access token the host answers with
  issued,    \* provider: the latest access token, they are numbered from 1
  expired,   \* provider: the access tokens that expired
  live,      \* provider: the refresh token it honours, numbered from 1
  spoilt,    \* history: whether a rotated refresh token never reached the row
  failures   \* how many failures happened

vars == <<protocol, row, lock, tok, pc, got, answer, issued, expired, live, spoilt, failures>>
provider == <<issued, expired, live>>

NoToken == 0  \* an empty token string
Tokens == 0 .. MaxExpiries + MaxFailures + 1
Credentials == [access : Tokens, refresh : Tokens]

TypeOK ==
  /\ protocol \in Protocols
  /\ row \in Credentials
  /\ lock \subseteq Runs
  /\ tok \in [Runs -> Tokens]
  /\ pc \in [Runs -> {"running", "calling", "requesting", "saving", "answering",
                      "raising", "stopped"}]
  /\ got \in [Runs -> Credentials]
  /\ answer \in [Runs -> Tokens]
  /\ issued \in Tokens
  /\ expired \subseteq Tokens
  /\ live \in Tokens
  /\ spoilt \in BOOLEAN
  /\ failures \in 0 .. MaxFailures

Init ==
  /\ protocol \in Protocols
  /\ row = [access |-> 1, refresh |-> 1]
  /\ lock = {}
  /\ tok = [r \in Runs |-> 1]
  /\ pc = [r \in Runs |-> "running"]
  /\ got = [r \in Runs |-> [access |-> NoToken, refresh |-> NoToken]]
  /\ answer = [r \in Runs |-> NoToken]
  /\ issued = 1
  /\ expired = {}
  /\ live = 1
  /\ spoilt = FALSE
  /\ failures = 0

Goto(r, label) == pc' = [pc EXCEPT ![r] = label]

Fail ==
  /\ failures < MaxFailures
  /\ failures' = failures + 1

-----------------------------------------------------------------------------
(* The provider's clock and the runtime. *)

Expire ==
  /\ Cardinality(expired) < MaxExpiries
  /\ issued \notin expired
  /\ expired' = expired \cup {issued}
  /\ UNCHANGED <<protocol, row, lock, tok, pc, got, answer, issued, live, spoilt, failures>>

\* The run is refused with 401 and the runtime calls the host back.
Callback(r) ==
  /\ pc[r] = "running"
  /\ tok[r] \in expired
  /\ Goto(r, "calling")
  /\ UNCHANGED <<protocol, row, lock, tok, got, answer, provider, spoilt, failures>>

-----------------------------------------------------------------------------
(* The host's handler. *)

\* The row holds another token than the one the run complains of: reuse it.
Reuse(r) ==
  /\ pc[r] = "calling"
  /\ lock = {}
  /\ row.access # tok[r]
  /\ answer' = [answer EXCEPT ![r] = row.access]
  /\ Goto(r, "answering")
  /\ UNCHANGED <<protocol, row, lock, tok, got, provider, spoilt, failures>>

\* Mutant: the host refreshes without comparing the fingerprint.
CallRefresh_NoCompare(r) ==
  /\ pc[r] = "calling"
  /\ lock = {}
  /\ lock' = {r}
  /\ Goto(r, IF row.refresh = NoToken THEN "raising" ELSE "requesting")
  /\ UNCHANGED <<protocol, row, tok, got, answer, provider, spoilt, failures>>

\* Otherwise call refresh under the lock, which refuses an empty refresh token.
CallRefresh(r) ==
  /\ pc[r] = "calling"
  /\ lock = {}
  /\ row.access = tok[r]
  /\ lock' = {r}
  /\ Goto(r, IF row.refresh = NoToken THEN "raising" ELSE "requesting")
  /\ UNCHANGED <<protocol, row, tok, got, answer, provider, spoilt, failures>>

\* Mutant: the host answers with the row it read before the refresh.
SaveToken_AnswersOld(r) ==
  /\ pc[r] = "saving"
  /\ row' = [access  |-> got[r].access,
             refresh |-> IF got[r].refresh = NoToken THEN row.refresh ELSE got[r].refresh]
  /\ answer' = [answer EXCEPT ![r] = row.access]
  /\ lock' = {}
  /\ Goto(r, "answering")
  /\ UNCHANGED <<protocol, tok, got, provider, spoilt, failures>>

\* Save what refresh returned, which may hold no refresh token, and commit.
SaveToken(r) ==
  /\ pc[r] = "saving"
  /\ row' = [access  |-> got[r].access,
             refresh |-> IF got[r].refresh = NoToken THEN row.refresh ELSE got[r].refresh]
  /\ answer' = [answer EXCEPT ![r] = got[r].access]
  /\ lock' = {}
  /\ Goto(r, "answering")
  /\ UNCHANGED <<protocol, tok, got, provider, spoilt, failures>>

\* The process dies inside the transaction: the lock is free again, the runtime
\* sees its call fail and repeats it.
Crash(r) ==
  /\ Fail
  /\ r \in lock
  /\ spoilt' = (spoilt \/ (pc[r] = "saving" /\ live # row.refresh))
  /\ lock' = {}
  /\ Goto(r, "running")
  /\ UNCHANGED <<protocol, row, tok, got, answer, provider>>

-----------------------------------------------------------------------------
(* refresh: one POST to the token endpoint. *)

\* The refresh token a result carries if the provider kept the old one: ChatGPT
\* falls back to the previous token, MCP returns an empty one.
Unrotated(old) == IF protocol = "chatgpt" THEN old ELSE NoToken

\* Mutant: the previous refresh token takes precedence over the returned one.
Refreshed_KeepsOld(r) ==
  /\ pc[r] = "requesting"
  /\ row.refresh = live
  /\ issued' = issued + 1
  /\ live' \in {live, issued + 1}
  /\ got' = [got EXCEPT ![r] = [access |-> issued + 1, refresh |-> live]]
  /\ Goto(r, "saving")
  /\ UNCHANGED <<protocol, row, lock, tok, answer, expired, spoilt, failures>>

\* The provider accepts the refresh token, and the client accepts its answer.
Refreshed(r) ==
  /\ pc[r] = "requesting"
  /\ row.refresh = live
  /\ issued' = issued + 1
  /\ \E rotates \in BOOLEAN :
       /\ live' = IF rotates THEN issued + 1 ELSE live
       /\ got' = [got EXCEPT ![r] = [access  |-> issued + 1,
                                     refresh |-> IF rotates THEN issued + 1 ELSE Unrotated(live)]]
  /\ Goto(r, "saving")
  /\ UNCHANGED <<protocol, row, lock, tok, answer, expired, spoilt, failures>>

\* The provider accepts it, but its answer is lost or is refused: not JSON, a bad
\* expiry or token type, another account.
AnswerLost(r) ==
  /\ Fail
  /\ pc[r] = "requesting"
  /\ row.refresh = live
  /\ issued' = issued + 1
  /\ live' \in {live, issued + 1}
  /\ spoilt' = (spoilt \/ live' # live)
  /\ Goto(r, "raising")
  /\ UNCHANGED <<protocol, row, lock, tok, got, answer, expired>>

\* The provider does not know the refresh token.
RefreshRefused(r) ==
  /\ pc[r] = "requesting"
  /\ row.refresh # live
  /\ Goto(r, "raising")
  /\ UNCHANGED <<protocol, row, lock, tok, got, answer, provider, spoilt, failures>>

\* The provider or the network is out of order: nothing happened there.
Unavailable(r) ==
  /\ Fail
  /\ pc[r] = "requesting"
  /\ Goto(r, "raising")
  /\ UNCHANGED <<protocol, row, lock, tok, got, answer, provider, spoilt>>

-----------------------------------------------------------------------------
(* The callback route. *)

\* 200 with the handler's result, which the run goes on with.
Respond(r) ==
  /\ pc[r] = "answering"
  /\ tok' = [tok EXCEPT ![r] = answer[r]]
  /\ Goto(r, "running")
  /\ UNCHANGED <<protocol, row, lock, got, answer, provider, spoilt, failures>>

\* Mutant: an exception leaves the transaction open.
Reject_KeepsLock(r) ==
  /\ pc[r] = "raising"
  /\ Goto(r, "stopped")
  /\ UNCHANGED <<protocol, row, lock, tok, got, answer, provider, spoilt, failures>>

\* Whatever the handler raised is answered 401, reconnection required.
Reject(r) ==
  /\ pc[r] = "raising"
  /\ lock' = {}
  /\ Goto(r, "stopped")
  /\ UNCHANGED <<protocol, row, tok, got, answer, provider, spoilt, failures>>

-----------------------------------------------------------------------------
Handler(r) == Reuse(r) \/ CallRefresh(r) \/ SaveToken(r)
Refresh(r) == Refreshed(r) \/ AnswerLost(r) \/ RefreshRefused(r) \/ Unavailable(r)
Route(r) == Respond(r) \/ Reject(r)

\* Every run goes on with a good token or was told to reconnect.
Settled ==
  /\ \A r \in Runs : pc[r] = "stopped" \/ (pc[r] = "running" /\ tok[r] \notin expired)
  /\ UNCHANGED vars

Next ==
  \/ Expire \/ Settled
  \/ \E r \in Runs : Callback(r) \/ Handler(r) \/ Refresh(r) \/ Route(r) \/ Crash(r)

\* The runtime calls back, the database grants the lock to whoever waits, the
\* request has a timeout, and the route answers.
Fairness ==
  \A r \in Runs :
    /\ WF_vars(Callback(r)) /\ SF_vars(Handler(r))
    /\ WF_vars(Refresh(r)) /\ WF_vars(Route(r))

Spec == Init /\ [][Next]_vars

FairSpec == Spec /\ Fairness

-----------------------------------------------------------------------------
\* Concurrent callbacks and unrotated answers never cost the host its refresh
\* token: outside a transaction the row holds the one the provider honours,
\* unless a rotated one was lost on its way (chatgpt_auth.py:117-133,
\* mcp_oauth.py:378-397).
RefreshTokenSurvives == lock = {} => row.refresh = live \/ spoilt

\* Callbacks that complain of one token share one refresh: the provider issues no
\* more tokens than expired, failures aside (README.md:318-320).
OneRefreshPerExpiry == issued <= 1 + Cardinality(expired) + failures

\* The answer to a callback is a newer token than the one it complains of.
AnswerIsNew == \A r \in Runs : pc[r] = "answering" => tok[r] < answer[r]

\* Once tokens stop expiring, every run has one that works or was told to
\* reconnect: no callback waits for a lock that a crashed one took along.
RunsRecover == <>[](\A r \in Runs : pc[r] = "stopped" \/ tok[r] \notin expired)
=============================================================================
