----------------------- MODULE CredentialRefresh_proofs -----------------------
(***************************************************************************)
(* Proofs about CredentialRefresh, for either protocol, any runs, and any   *)
(* number of expiries and failures: types, and that the refresh token        *)
(* survives, that callbacks share a refresh, and that answers are new.       *)
(***************************************************************************)
EXTENDS CredentialRefresh, FiniteSetTheorems, TLAPS

InTransaction == {"requesting", "saving", "raising"}

\* The types without the bound on the tokens.
Shape ==
  /\ protocol \in Protocols
  /\ row \in [access : Nat, refresh : Nat]
  /\ lock \subseteq Runs
  /\ tok \in [Runs -> Nat]
  /\ pc \in [Runs -> {"running", "calling", "answering", "stopped"} \cup InTransaction]
  /\ got \in [Runs -> [access : Nat, refresh : Nat]]
  /\ answer \in [Runs -> Nat]
  /\ issued \in Nat
  /\ expired \subseteq Nat /\ IsFiniteSet(expired) /\ Cardinality(expired) <= MaxExpiries
  /\ live \in Nat
  /\ spoilt \in BOOLEAN
  /\ failures \in 0 .. MaxFailures

\* Tokens are numbered in the order of their issue, and the row is never behind a run.
Numbered ==
  /\ row.access <= issued /\ row.refresh <= issued
  /\ 0 < live /\ live <= issued
  /\ \A n \in expired : n <= issued
  /\ \A r \in Runs : /\ tok[r] <= row.access /\ answer[r] <= row.access
                     /\ got[r].access <= issued /\ got[r].refresh <= issued

\* Who is in a transaction holds the lock, alone, for an expired token of the row.
Locking ==
  /\ \A r \in Runs : r \in lock <=> pc[r] \in InTransaction
  /\ \A r, s \in lock : r = s
  /\ \A r \in Runs : pc[r] = "calling" => tok[r] \in expired
  /\ \A r \in Runs : pc[r] = "requesting" => row.access \in expired

\* What is about to be saved is the latest token, and the live refresh token is in
\* it or in the row.
Carried ==
  \A r \in Runs : pc[r] = "saving" =>
    /\ got[r].access = issued /\ row.access < issued
    /\ got[r].refresh = live \/ (got[r].refresh = NoToken /\ row.refresh = live)

\* Nobody is between a refresh and its commit.
Quiet == \A r \in Runs : pc[r] # "saving"

Kept == Quiet => row.refresh = live \/ spoilt

\* An expired token in the row that nobody has replaced yet is good for one more
\* token.
Credit ==
  /\ OneRefreshPerExpiry
  /\ Quiet /\ row.access \in expired => issued <= Cardinality(expired) + failures
  /\ ~Quiet /\ issued \in expired => issued <= Cardinality(expired) + failures

IInv == Shape /\ Numbered /\ Locking /\ Carried /\ AnswerIsNew /\ Kept /\ Credit

-----------------------------------------------------------------------------
(* The invariant. *)

LEMMA Initially == Init => IInv
<1>1. SUFFICES ASSUME Init PROVE IInv
  OBVIOUS
<1>2. IsFiniteSet(expired) /\ Cardinality(expired) = 0
  BY <1>1, FS_EmptySet DEF Init
<1>3. Shape
  <2>1. row \in [access : Nat, refresh : Nat] /\ got \in [Runs -> [access : Nat, refresh : Nat]]
    BY <1>1 DEF Init, NoToken
  <2>2. /\ tok \in [Runs -> Nat] /\ answer \in [Runs -> Nat]
        /\ pc \in [Runs -> {"running", "calling", "answering", "stopped"} \cup InTransaction]
    BY <1>1 DEF Init, NoToken
  <2>3. Cardinality(expired) <= MaxExpiries /\ failures \in 0 .. MaxFailures
    BY <1>1, <1>2, ProtocolAssumption DEF Init
  <2>4. QED
    BY <1>1, <1>2, <2>1, <2>2, <2>3 DEF Init, Shape
<1>4. Numbered
  BY <1>1 DEF Init, Numbered, NoToken
<1>5. Locking
  BY <1>1 DEF Init, Locking, InTransaction
<1>6. Carried /\ AnswerIsNew /\ Kept
  BY <1>1 DEF Init, Carried, AnswerIsNew, Kept
<1>7. Credit
  BY <1>1, <1>2 DEF Init, Credit, OneRefreshPerExpiry
<1>8. QED
  BY <1>3, <1>4, <1>5, <1>6, <1>7 DEF IInv

LEMMA Inductive == IInv /\ [Next]_vars => IInv'
<1>1. SUFFICES ASSUME IInv, [Next]_vars PROVE IInv'
  OBVIOUS
<1>2. CASE Expire
  <2>0. IsFiniteSet(expired') /\ Cardinality(expired') = Cardinality(expired) + 1
    BY <1>1, <1>2, FS_AddElement DEF IInv, Shape, Expire
  <2>1. Shape'
    BY <1>1, <1>2, <2>0, FS_CardinalityType, ProtocolAssumption DEF IInv, Expire, Shape
  <2>2. Numbered'
    BY <1>1, <1>2 DEF IInv, Expire, Shape, Numbered
  <2>3. Locking'
    BY <1>1, <1>2 DEF IInv, Expire, Shape, Locking
  <2>4. Carried'
    BY <1>1, <1>2 DEF IInv, Expire, Shape, Carried
  <2>5. AnswerIsNew'
    BY <1>1, <1>2 DEF IInv, Expire, Shape, AnswerIsNew
  <2>6. Kept'
    BY <1>1, <1>2 DEF IInv, Expire, Shape, Kept, Quiet
  <2>7. Credit'
    BY <1>1, <1>2, <2>0, FS_CardinalityType DEF IInv, Expire, Shape, Credit, OneRefreshPerExpiry
  <2>8. QED
    BY <2>1, <2>2, <2>3, <2>4, <2>5, <2>6, <2>7 DEF IInv
<1>3. ASSUME NEW r \in Runs, Callback(r) PROVE IInv'
  <2>1. Shape'
    BY <1>1, <1>3 DEF IInv, Callback, Goto, provider, Shape
  <2>2. Numbered'
    BY <1>1, <1>3 DEF IInv, Callback, provider, Shape, Numbered
  <2>3. Locking'
    BY <1>1, <1>3 DEF IInv, Callback, Goto, provider, Shape, Locking, InTransaction
  <2>4. Carried'
    BY <1>1, <1>3 DEF IInv, Callback, Goto, provider, Shape, Carried
  <2>5. AnswerIsNew'
    BY <1>1, <1>3 DEF IInv, Callback, Goto, Shape, AnswerIsNew
  <2>6. Kept'
    BY <1>1, <1>3 DEF IInv, Callback, Goto, provider, Shape, Kept, Quiet
  <2>7. Credit'
    BY <1>1, <1>3 DEF IInv, Callback, Goto, provider, Shape, Credit, Quiet, OneRefreshPerExpiry
  <2>8. QED
    BY <2>1, <2>2, <2>3, <2>4, <2>5, <2>6, <2>7 DEF IInv
<1>4. ASSUME NEW r \in Runs, Reuse(r) PROVE IInv'
  <2>1. Shape'
    BY <1>1, <1>4 DEF IInv, Reuse, Goto, provider, Shape
  <2>2. Numbered'
    BY <1>1, <1>4 DEF IInv, Reuse, provider, Shape, Numbered
  <2>3. Locking'
    BY <1>1, <1>4 DEF IInv, Reuse, Goto, provider, Shape, Locking, InTransaction
  <2>4. Carried'
    BY <1>1, <1>4 DEF IInv, Reuse, Goto, provider, Shape, Carried
  <2>5. AnswerIsNew'
    <3>1. tok[r] \in Nat /\ row.access \in Nat /\ tok[r] <= row.access /\ row.access # tok[r]
      BY <1>1, <1>4 DEF IInv, Reuse, Shape, Numbered
    <3>2. QED
      BY <1>1, <1>4, <3>1 DEF IInv, Reuse, Goto, Shape, AnswerIsNew
  <2>6. Kept'
    BY <1>1, <1>4 DEF IInv, Reuse, Goto, provider, Shape, Kept, Quiet
  <2>7. Credit'
    BY <1>1, <1>4 DEF IInv, Reuse, Goto, provider, Shape, Credit, Quiet, OneRefreshPerExpiry
  <2>8. QED
    BY <2>1, <2>2, <2>3, <2>4, <2>5, <2>6, <2>7 DEF IInv
<1>5. ASSUME NEW r \in Runs, CallRefresh(r) PROVE IInv'
  <2>1. Shape'
    BY <1>1, <1>5 DEF IInv, CallRefresh, Goto, provider, Shape, InTransaction
  <2>2. Numbered'
    BY <1>1, <1>5 DEF IInv, CallRefresh, provider, Shape, Numbered
  <2>3. Locking'
    BY <1>1, <1>5, <2>1 DEF IInv, CallRefresh, Goto, provider, Shape, Locking
  <2>4. Carried'
    BY <1>1, <1>5 DEF IInv, CallRefresh, Goto, provider, Shape, Carried
  <2>5. AnswerIsNew'
    BY <1>1, <1>5 DEF IInv, CallRefresh, Goto, Shape, AnswerIsNew
  <2>6. Kept'
    BY <1>1, <1>5 DEF IInv, CallRefresh, Goto, provider, Shape, Kept, Quiet
  <2>7. Credit'
    BY <1>1, <1>5
    DEF IInv, CallRefresh, Goto, provider, Shape, Credit, Quiet, OneRefreshPerExpiry
  <2>8. QED
    BY <2>1, <2>2, <2>3, <2>4, <2>5, <2>6, <2>7 DEF IInv
<1>6. ASSUME NEW r \in Runs, SaveToken(r) PROVE IInv'
  <2>1. Shape'
    BY <1>1, <1>6 DEF IInv, SaveToken, Goto, provider, Shape
  <2>2. Numbered'
    BY <1>1, <1>6 DEF IInv, SaveToken, provider, Shape, Numbered, Carried
  <2>3. Locking'
    BY <1>1, <1>6 DEF IInv, SaveToken, Goto, provider, Shape, Locking, InTransaction
  <2>4. Carried'
    BY <1>1, <1>6 DEF IInv, SaveToken, Goto, Shape, Carried, Locking
  <2>5. AnswerIsNew'
    BY <1>1, <1>6 DEF IInv, SaveToken, Goto, Shape, AnswerIsNew, Numbered, Carried
  <2>6. Kept'
    BY <1>1, <1>6 DEF IInv, SaveToken, provider, Shape, Kept, Numbered, Carried, NoToken
  <2>7. Credit'
    BY <1>1, <1>6
    DEF IInv, SaveToken, provider, Shape, Credit, Quiet, OneRefreshPerExpiry, Carried
  <2>8. QED
    BY <2>1, <2>2, <2>3, <2>4, <2>5, <2>6, <2>7 DEF IInv
<1>7. ASSUME NEW r \in Runs, Refreshed(r) PROVE IInv'
  <2>0. live' \in Nat /\ got' \in [Runs -> [access : Nat, refresh : Nat]]
    BY <1>1, <1>7 DEF IInv, Refreshed, Unrotated, Shape, NoToken
  <2>1. Shape'
    BY <1>1, <1>7, <2>0 DEF IInv, Refreshed, Goto, Shape, InTransaction
  <2>2. Numbered'
    BY <1>1, <1>7 DEF IInv, Refreshed, Unrotated, Shape, Numbered, NoToken
  <2>3. Locking'
    BY <1>1, <1>7, <2>1 DEF IInv, Refreshed, Goto, Shape, Locking
  <2>4. Carried'
    BY <1>1, <1>7 DEF IInv, Refreshed, Unrotated, Goto, Shape, Carried, Locking, Numbered
  <2>5. AnswerIsNew'
    BY <1>1, <1>7 DEF IInv, Refreshed, Goto, Shape, AnswerIsNew
  <2>6. Kept'
    BY <1>1, <1>7 DEF IInv, Refreshed, Goto, Shape, Kept, Quiet
  <2>7. Credit'
    BY <1>1, <1>7, FS_CardinalityType
    DEF IInv, Refreshed, Goto, Shape, Credit, Quiet, OneRefreshPerExpiry, Locking, Numbered, InTransaction
  <2>8. QED
    BY <2>1, <2>2, <2>3, <2>4, <2>5, <2>6, <2>7 DEF IInv
<1>8. ASSUME NEW r \in Runs, AnswerLost(r) PROVE IInv'
  <2>1. Shape'
    BY <1>1, <1>8, ProtocolAssumption DEF IInv, AnswerLost, Fail, Goto, Shape, InTransaction
  <2>2. Numbered'
    BY <1>1, <1>8 DEF IInv, AnswerLost, Shape, Numbered
  <2>3. Locking'
    BY <1>1, <1>8, <2>1 DEF IInv, AnswerLost, Goto, Shape, Locking
  <2>4. Carried'
    BY <1>1, <1>8 DEF IInv, AnswerLost, Goto, Shape, Carried, Locking
  <2>5. AnswerIsNew'
    BY <1>1, <1>8 DEF IInv, AnswerLost, Goto, Shape, AnswerIsNew
  <2>6. Kept'
    BY <1>1, <1>8 DEF IInv, AnswerLost, Shape, Kept
  <2>7. Credit'
    BY <1>1, <1>8, FS_CardinalityType
    DEF IInv, AnswerLost, Fail, Shape, Credit, Quiet, OneRefreshPerExpiry, Locking, InTransaction
  <2>8. QED
    BY <2>1, <2>2, <2>3, <2>4, <2>5, <2>6, <2>7 DEF IInv
<1>9. ASSUME NEW r \in Runs, RefreshRefused(r) PROVE IInv'
  <2>1. Shape'
    BY <1>1, <1>9 DEF IInv, RefreshRefused, Goto, provider, Shape, InTransaction
  <2>2. Numbered'
    BY <1>1, <1>9 DEF IInv, RefreshRefused, provider, Shape, Numbered
  <2>3. Locking'
    BY <1>1, <1>9, <2>1 DEF IInv, RefreshRefused, Goto, provider, Shape, Locking
  <2>4. Carried'
    BY <1>1, <1>9 DEF IInv, RefreshRefused, Goto, provider, Shape, Carried
  <2>5. AnswerIsNew'
    BY <1>1, <1>9 DEF IInv, RefreshRefused, Goto, Shape, AnswerIsNew
  <2>6. Kept'
    BY <1>1, <1>9 DEF IInv, RefreshRefused, Goto, Shape, Kept, Quiet
  <2>7. Credit'
    BY <1>1, <1>9
    DEF IInv, RefreshRefused, Goto, provider, Shape, Credit, Quiet, OneRefreshPerExpiry
  <2>8. QED
    BY <2>1, <2>2, <2>3, <2>4, <2>5, <2>6, <2>7 DEF IInv
<1>10. ASSUME NEW r \in Runs, Unavailable(r) PROVE IInv'
  <2>1. Shape'
    BY <1>1, <1>10, ProtocolAssumption
    DEF IInv, Unavailable, Fail, Goto, provider, Shape, InTransaction
  <2>2. Numbered'
    BY <1>1, <1>10 DEF IInv, Unavailable, provider, Shape, Numbered
  <2>3. Locking'
    BY <1>1, <1>10, <2>1 DEF IInv, Unavailable, Goto, provider, Shape, Locking
  <2>4. Carried'
    BY <1>1, <1>10 DEF IInv, Unavailable, Goto, provider, Shape, Carried
  <2>5. AnswerIsNew'
    BY <1>1, <1>10 DEF IInv, Unavailable, Goto, Shape, AnswerIsNew
  <2>6. Kept'
    BY <1>1, <1>10 DEF IInv, Unavailable, Goto, provider, Shape, Kept, Quiet
  <2>7. Credit'
    BY <1>1, <1>10, FS_CardinalityType
    DEF IInv, Unavailable, Fail, provider, Shape, Credit, OneRefreshPerExpiry, InTransaction
  <2>8. QED
    BY <2>1, <2>2, <2>3, <2>4, <2>5, <2>6, <2>7 DEF IInv
<1>11. ASSUME NEW r \in Runs, Respond(r) PROVE IInv'
  <2>1. Shape'
    BY <1>1, <1>11 DEF IInv, Respond, Goto, provider, Shape
  <2>2. Numbered'
    BY <1>1, <1>11 DEF IInv, Respond, provider, Shape, Numbered
  <2>3. Locking'
    BY <1>1, <1>11 DEF IInv, Respond, Goto, provider, Shape, Locking, InTransaction
  <2>4. Carried'
    BY <1>1, <1>11 DEF IInv, Respond, Goto, provider, Shape, Carried
  <2>5. AnswerIsNew'
    BY <1>1, <1>11 DEF IInv, Respond, Goto, Shape, AnswerIsNew
  <2>6. Kept'
    BY <1>1, <1>11 DEF IInv, Respond, Goto, provider, Shape, Kept, Quiet
  <2>7. Credit'
    BY <1>1, <1>11 DEF IInv, Respond, Goto, provider, Shape, Credit, Quiet, OneRefreshPerExpiry
  <2>8. QED
    BY <2>1, <2>2, <2>3, <2>4, <2>5, <2>6, <2>7 DEF IInv
<1>12. ASSUME NEW r \in Runs, Reject(r) PROVE IInv'
  <2>1. Shape'
    BY <1>1, <1>12 DEF IInv, Reject, Goto, provider, Shape
  <2>2. Numbered'
    BY <1>1, <1>12 DEF IInv, Reject, provider, Shape, Numbered
  <2>3. Locking'
    BY <1>1, <1>12 DEF IInv, Reject, Goto, provider, Shape, Locking, InTransaction
  <2>4. Carried'
    BY <1>1, <1>12 DEF IInv, Reject, Goto, provider, Shape, Carried
  <2>5. AnswerIsNew'
    BY <1>1, <1>12 DEF IInv, Reject, Goto, Shape, AnswerIsNew
  <2>6. Kept'
    BY <1>1, <1>12 DEF IInv, Reject, Goto, provider, Shape, Kept, Quiet
  <2>7. Credit'
    BY <1>1, <1>12 DEF IInv, Reject, Goto, provider, Shape, Credit, Quiet, OneRefreshPerExpiry
  <2>8. QED
    BY <2>1, <2>2, <2>3, <2>4, <2>5, <2>6, <2>7 DEF IInv
<1>13. ASSUME NEW r \in Runs, Crash(r) PROVE IInv'
  <2>1. Shape'
    BY <1>1, <1>13, ProtocolAssumption DEF IInv, Crash, Fail, Goto, provider, Shape
  <2>2. Numbered'
    BY <1>1, <1>13 DEF IInv, Crash, provider, Shape, Numbered
  <2>3. Locking'
    BY <1>1, <1>13 DEF IInv, Crash, Goto, provider, Shape, Locking, InTransaction
  <2>4. Carried'
    BY <1>1, <1>13 DEF IInv, Crash, Goto, provider, Shape, Carried
  <2>5. AnswerIsNew'
    BY <1>1, <1>13 DEF IInv, Crash, Goto, Shape, AnswerIsNew
  <2>6. Kept'
    BY <1>1, <1>13 DEF IInv, Crash, Goto, provider, Shape, Kept, Quiet
  <2>7. Credit'
    BY <1>1, <1>13, FS_CardinalityType
    DEF IInv, Crash, Fail, provider, Shape, Credit, OneRefreshPerExpiry
  <2>8. QED
    BY <2>1, <2>2, <2>3, <2>4, <2>5, <2>6, <2>7 DEF IInv
<1>14. CASE UNCHANGED vars
  BY <1>1, <1>14 DEF IInv, vars, Shape, Numbered, Locking, Carried, AnswerIsNew, Kept, Quiet, Credit,
    OneRefreshPerExpiry
<1>15. QED
  BY <1>1, <1>2, <1>3, <1>4, <1>5, <1>6, <1>7, <1>8, <1>9, <1>10, <1>11, <1>12, <1>13, <1>14
  DEF Next, Settled, Handler, Refresh, Route

LEMMA Invariance == Spec => []IInv
  BY Initially, Inductive, PTL DEF Spec

\* The count of refreshes bounds the numbers of the tokens.
LEMMA TokensAreBounded == IInv => TypeOK
<1>1. SUFFICES ASSUME IInv PROVE TypeOK
  OBVIOUS
<1>2. issued <= MaxExpiries + MaxFailures + 1
  <2>1. Cardinality(expired) \in Nat /\ Cardinality(expired) <= MaxExpiries
    BY <1>1, FS_CardinalityType DEF IInv, Shape
  <2>2. failures \in Nat /\ failures <= MaxFailures
    BY <1>1, ProtocolAssumption DEF IInv, Shape
  <2>3. QED
    BY <1>1, <2>1, <2>2, ProtocolAssumption DEF IInv, Shape, Credit, OneRefreshPerExpiry
<1>3. \A n \in Nat : n <= issued => n \in Tokens
  BY <1>1, <1>2, ProtocolAssumption DEF IInv, Shape, Tokens
<1>4. /\ row.access \in Nat /\ row.refresh \in Nat /\ row = [access |-> row.access, refresh |-> row.refresh]
      /\ row.access <= issued /\ row.refresh <= issued
  BY <1>1 DEF IInv, Shape, Numbered
<1>5. row \in Credentials
  BY <1>3, <1>4 DEF Credentials
<1>6. got \in [Runs -> Credentials]
  <2>1. SUFFICES ASSUME NEW r \in Runs PROVE got[r] \in Credentials
    BY <1>1 DEF IInv, Shape
  <2>2. /\ got[r] \in [access : Nat, refresh : Nat]
        /\ got[r].access <= issued /\ got[r].refresh <= issued
    BY <1>1 DEF IInv, Shape, Numbered
  <2>3. QED
    BY <1>3, <2>2 DEF Credentials
<1>7. tok \in [Runs -> Tokens] /\ answer \in [Runs -> Tokens]
  <2>1. SUFFICES ASSUME NEW r \in Runs PROVE tok[r] \in Tokens /\ answer[r] \in Tokens
    BY <1>1 DEF IInv, Shape
  <2>2. tok[r] \in Nat /\ answer[r] \in Nat /\ tok[r] <= row.access /\ answer[r] <= row.access
    BY <1>1 DEF IInv, Shape, Numbered
  <2>3. issued \in Nat
    BY <1>1 DEF IInv, Shape
  <2>4. tok[r] <= issued /\ answer[r] <= issued
    BY <1>4, <2>2, <2>3
  <2>5. QED
    BY <1>3, <2>2, <2>4
<1>8. issued \in Tokens /\ live \in Tokens /\ expired \subseteq Tokens
  BY <1>1, <1>3 DEF IInv, Shape, Numbered
<1>9. QED
  BY <1>1, <1>5, <1>6, <1>7, <1>8 DEF IInv, Shape, TypeOK, InTransaction

-----------------------------------------------------------------------------
\* Every variable keeps its type; in particular a token's number stays within what
\* expiries and failures account for (mcp_oauth.py:311-397, chatgpt_auth.py:117-133).
THEOREM TokensAreTyped == Spec => []TypeOK
  BY Invariance, TokensAreBounded, PTL

\* However many runs call back at once, and whatever the provider rotates, the row
\* holds the live refresh token outside a transaction, unless a rotated one was
\* lost on its way to it (chatgpt_auth.py:117-133, mcp_oauth.py:378-397).
THEOREM RefreshTokenIsKept == Spec => []RefreshTokenSurvives
<1>1. IInv => RefreshTokenSurvives
  BY DEF IInv, RefreshTokenSurvives, Kept, Quiet, Locking, InTransaction
<1>2. QED
  BY <1>1, Invariance, PTL

\* Callbacks about one token share one refresh, failures aside, for any number of
\* runs (README.md:318-320).
THEOREM RefreshesAreShared == Spec => []OneRefreshPerExpiry
<1>1. IInv => OneRefreshPerExpiry
  BY DEF IInv, Credit
<1>2. QED
  BY <1>1, Invariance, PTL

\* The route never answers a callback with the token it complains of, or an older
\* one (adapter.py:324-326).
THEOREM AnswersAreNew == Spec => []AnswerIsNew
<1>1. IInv => AnswerIsNew
  BY DEF IInv
<1>2. QED
  BY <1>1, Invariance, PTL
=============================================================================
