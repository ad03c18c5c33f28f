----------------------- MODULE McpAuthorization_proofs -----------------------
(***************************************************************************)
(* Proofs about McpAuthorization for any number of logins and faults.       *)
(***************************************************************************)
EXTENDS McpAuthorization, TLAPS

Underway == {"registered", "waiting", "exchanging", "requesting", "connected"}

\* A login that got past its registration has a client that register accepts.
ClientsAreRegistered ==
  \A l \in Logins : at[l] \in Underway => Registered(client[l])

\* The host keeps a login under its own state, until a callback consumes it.
StatesAreOwn ==
  \A l, k \in Logins : saved[Hash(State(l))] = k => k = l /\ at[l] = "waiting"

\* A callback with a code has the state of the login that it was issued to, which has
\* redirected its user, and the code is not spent until that login asks for its token.
CallbacksArePaired ==
  \A callback \in callbacks : \A l \in Logins :
    callback.code = l =>
      /\ callback.state = State(l)
      /\ at[l] \notin {"new", "registered"}
      /\ at[l] \in {"waiting", "exchanging", "requesting"} => l \in unspent \cup expired

\* A login has no other code than its own, and has not spent it.
CodesAreOwn ==
  \A l \in Logins :
    /\ code[l] \in {NoCode, l}
    /\ at[l] \in {"exchanging", "requesting"} /\ code[l] = l => l \in unspent \cup expired
    /\ at[l] = "requesting" => code[l] = l

\* The inductive invariant.
IInv ==
  TypeOK /\ ClientsAreRegistered /\ StatesAreOwn /\ CallbacksArePaired /\ CodesAreOwn
    /\ NoLateRefusal
-----------------------------------------------------------------------------
LEMMA StatesDiffer ==
  \A l, k \in Logins :
    /\ State(l) = State(k) <=> l = k
    /\ Hash(State(l)) = Hash(State(k)) <=> l = k
    /\ Hash(State(l)) \in Keys
  BY DEF State, Hash, Keys

LEMMA Initially == Init => IInv
<1>1. SUFFICES ASSUME Init PROVE IInv
  OBVIOUS
<1>2. TypeOK
  BY <1>1, LoginsAssumption DEF Init, TypeOK, Codes, Clients, NoClient, Sizes, AuthMethods
<1>3. ClientsAreRegistered /\ CallbacksArePaired /\ CodesAreOwn /\ NoLateRefusal
  BY <1>1 DEF Init, ClientsAreRegistered, CallbacksArePaired, CodesAreOwn, NoLateRefusal, Underway
<1>4. StatesAreOwn
  BY <1>1, StatesDiffer, LoginsAssumption DEF Init, StatesAreOwn
<1>5. QED
  BY <1>2, <1>3, <1>4 DEF IInv

LEMMA Inductive == IInv /\ [Next]_vars => IInv'
<1>1. SUFFICES ASSUME IInv, [Next]_vars PROVE IInv'
  OBVIOUS
<1>2. ASSUME NEW l \in Logins, Register(l) PROVE IInv'
  <2>1. TypeOK'
    <3>1. PICK answer \in Answers : Register(l)!2!(answer)
      BY <1>2 DEF Register
    <3>2. Registered([answer EXCEPT !.method = Method(answer)])
            => [answer EXCEPT !.method = Method(answer)] \in Clients
      BY DEF Registered, Clients, Answers, AuthMethods, Method
    <3>3. client' \in [Logins -> Clients]
      BY <1>1, <3>1, <3>2 DEF IInv, TypeOK
    <3>4. at' \in [Logins -> {"new", "registered", "waiting", "exchanging", "requesting",
                              "connected", "failed"}]
          /\ error' \in [Logins -> Errors \cup {"none"}]
      BY <1>1, <3>1 DEF IInv, TypeOK, Goto, Raise, Errors
    <3>5. QED
      BY <1>1, <1>2, <3>3, <3>4 DEF IInv, TypeOK, Register, server
  <2>2. ClientsAreRegistered'
    BY <1>1, <1>2 DEF IInv, Register, Goto, Raise, TypeOK, ClientsAreRegistered, Underway
  <2>3. StatesAreOwn'
    BY <1>1, <1>2 DEF IInv, Register, Goto, Raise, TypeOK, StatesAreOwn
  <2>4. CallbacksArePaired'
    BY <1>1, <1>2 DEF IInv, Register, Goto, Raise, server, TypeOK, CallbacksArePaired
  <2>5. CodesAreOwn'
    BY <1>1, <1>2 DEF IInv, Register, Goto, Raise, server, TypeOK, CodesAreOwn
  <2>6. NoLateRefusal'
    BY <1>1, <1>2 DEF IInv, Register, Goto, Raise, TypeOK, server, NoLateRefusal
  <2>7. QED
    BY <2>1, <2>2, <2>3, <2>4, <2>5, <2>6 DEF IInv
<1>3. ASSUME NEW l \in Logins, Redirect(l) PROVE IInv'
  <2>1. TypeOK'
    BY <1>1, <1>3 DEF IInv, Redirect, Goto, Raise, server, TypeOK, Errors
  <2>2. ClientsAreRegistered'
    BY <1>1, <1>3 DEF IInv, Redirect, Goto, Raise, TypeOK, ClientsAreRegistered, Underway
  <2>3. StatesAreOwn'
    BY <1>1, <1>3, StatesDiffer DEF IInv, Redirect, Goto, Raise, TypeOK, StatesAreOwn
  <2>4. CallbacksArePaired'
    BY <1>1, <1>3 DEF IInv, Redirect, Goto, Raise, server, TypeOK, CallbacksArePaired
  <2>5. CodesAreOwn'
    BY <1>1, <1>3 DEF IInv, Redirect, Goto, Raise, server, TypeOK, CodesAreOwn
  <2>6. NoLateRefusal'
    BY <1>1, <1>3
    DEF IInv, Redirect, Goto, server, NoLateRefusal, ClientsAreRegistered, Registered, Underway
  <2>7. QED
    BY <2>1, <2>2, <2>3, <2>4, <2>5, <2>6 DEF IInv
<1>4. ASSUME NEW l \in Logins, Decide(l) PROVE IInv'
  <2>1. TypeOK'
    BY <1>1, <1>4 DEF IInv, Decide, TypeOK, Codes
  <2>2. ClientsAreRegistered'
    BY <1>1, <1>4 DEF IInv, Decide, ClientsAreRegistered
  <2>3. StatesAreOwn'
    BY <1>1, <1>4 DEF IInv, Decide, StatesAreOwn
  <2>4. CallbacksArePaired'
    BY <1>1, <1>4, LoginsAssumption DEF IInv, Decide, CallbacksArePaired
  <2>5. CodesAreOwn'
    BY <1>1, <1>4 DEF IInv, Decide, CodesAreOwn
  <2>6. NoLateRefusal'
    BY <1>1, <1>4 DEF IInv, Decide, NoLateRefusal
  <2>7. QED
    BY <2>1, <2>2, <2>3, <2>4, <2>5, <2>6 DEF IInv
<1>5. ASSUME NEW l \in Logins, Exchange(l) PROVE IInv'
  <2>1. TypeOK'
    BY <1>1, <1>5 DEF IInv, Exchange, Goto, Raise, server, TypeOK, Errors
  <2>2. ClientsAreRegistered'
    BY <1>1, <1>5 DEF IInv, Exchange, Goto, Raise, TypeOK, ClientsAreRegistered, Underway
  <2>3. StatesAreOwn'
    BY <1>1, <1>5 DEF IInv, Exchange, Goto, Raise, TypeOK, StatesAreOwn
  <2>4. CallbacksArePaired'
    BY <1>1, <1>5 DEF IInv, Exchange, Goto, Raise, server, TypeOK, CallbacksArePaired
  <2>5. CodesAreOwn'
    BY <1>1, <1>5 DEF IInv, Exchange, Goto, Raise, server, TypeOK, CodesAreOwn
  <2>6. NoLateRefusal'
    BY <1>1, <1>5
    DEF IInv, Exchange, Goto, Raise, TypeOK, server, NoLateRefusal, ClientsAreRegistered,
        Registered, Underway, Supported
  <2>7. QED
    BY <2>1, <2>2, <2>3, <2>4, <2>5, <2>6 DEF IInv
<1>6. ASSUME NEW l \in Logins, Granted(l) PROVE IInv'
  <2>1. TypeOK'
    BY <1>1, <1>6 DEF IInv, Granted, Goto, TypeOK
  <2>2. ClientsAreRegistered'
    BY <1>1, <1>6 DEF IInv, Granted, Goto, ClientsAreRegistered, Underway
  <2>3. StatesAreOwn'
    BY <1>1, <1>6 DEF IInv, Granted, Goto, StatesAreOwn
  <2>4. CallbacksArePaired'
    BY <1>1, <1>6 DEF IInv, Granted, Goto, TypeOK, CallbacksArePaired, Acceptable
  <2>5. CodesAreOwn'
    BY <1>1, <1>6 DEF IInv, Granted, Goto, TypeOK, CodesAreOwn
  <2>6. NoLateRefusal'
    BY <1>1, <1>6 DEF IInv, Granted, Goto, NoLateRefusal
  <2>7. QED
    BY <2>1, <2>2, <2>3, <2>4, <2>5, <2>6 DEF IInv
<1>7. ASSUME NEW l \in Logins, Rejected(l) PROVE IInv'
  <2>1. TypeOK'
    BY <1>1, <1>7 DEF IInv, Rejected, Raise, server, TypeOK, Errors
  <2>2. ClientsAreRegistered'
    BY <1>1, <1>7 DEF IInv, Rejected, Raise, ClientsAreRegistered, Underway
  <2>3. StatesAreOwn'
    BY <1>1, <1>7 DEF IInv, Rejected, Raise, StatesAreOwn
  <2>4. CallbacksArePaired'
    BY <1>1, <1>7 DEF IInv, Rejected, Raise, server, CallbacksArePaired
  <2>5. CodesAreOwn'
    BY <1>1, <1>7 DEF IInv, Rejected, Raise, server, CodesAreOwn
  <2>6. NoLateRefusal'
    BY <1>1, <1>7
    DEF IInv, Rejected, Raise, server, TypeOK, NoLateRefusal, Acceptable,
        ClientsAreRegistered, Registered, Underway, Authentication, CodesAreOwn
  <2>7. QED
    BY <2>1, <2>2, <2>3, <2>4, <2>5, <2>6 DEF IInv
<1>8. ASSUME NEW l \in Logins, AnswerLost(l) PROVE IInv'
  <2>1. TypeOK'
    BY <1>1, <1>8, LoginsAssumption DEF IInv, AnswerLost, Raise, TypeOK, Fail, Errors
  <2>2. ClientsAreRegistered'
    BY <1>1, <1>8 DEF IInv, AnswerLost, Raise, ClientsAreRegistered, Underway
  <2>3. StatesAreOwn'
    BY <1>1, <1>8 DEF IInv, AnswerLost, Raise, StatesAreOwn
  <2>4. CallbacksArePaired'
    BY <1>1, <1>8 DEF IInv, AnswerLost, Raise, TypeOK, CallbacksArePaired, Acceptable
  <2>5. CodesAreOwn'
    BY <1>1, <1>8 DEF IInv, AnswerLost, Raise, TypeOK, CodesAreOwn
  <2>6. NoLateRefusal'
    BY <1>1, <1>8 DEF IInv, AnswerLost, Raise, NoLateRefusal
  <2>7. QED
    BY <2>1, <2>2, <2>3, <2>4, <2>5, <2>6 DEF IInv
<1>9. ASSUME NEW l \in Logins, Break(l) PROVE IInv'
  <2>1. TypeOK'
    BY <1>1, <1>9, LoginsAssumption DEF IInv, Break, Raise, server, TypeOK, Fail, Errors
  <2>2. ClientsAreRegistered'
    BY <1>1, <1>9 DEF IInv, Break, Raise, ClientsAreRegistered, Underway
  <2>3. StatesAreOwn'
    BY <1>1, <1>9 DEF IInv, Break, Raise, StatesAreOwn
  <2>4. CallbacksArePaired'
    BY <1>1, <1>9 DEF IInv, Break, Raise, server, CallbacksArePaired
  <2>5. CodesAreOwn'
    BY <1>1, <1>9 DEF IInv, Break, Raise, server, CodesAreOwn
  <2>6. NoLateRefusal'
    BY <1>1, <1>9 DEF IInv, Break, Raise, server, NoLateRefusal
  <2>7. QED
    BY <2>1, <2>2, <2>3, <2>4, <2>5, <2>6 DEF IInv
<1>10. ASSUME NEW callback \in callbacks, Consume(callback) PROVE IInv'
  <2>1. TypeOK'
    BY <1>1, <1>10 DEF IInv, Consume, Goto, server, TypeOK
  <2>2. ClientsAreRegistered'
    BY <1>1, <1>10 DEF IInv, Consume, Goto, TypeOK, ClientsAreRegistered, Underway, StatesAreOwn
  <2>3. StatesAreOwn'
    BY <1>1, <1>10, <2>1, LoginsAssumption DEF IInv, Consume, Goto, TypeOK, StatesAreOwn
  <2>4. CallbacksArePaired'
    BY <1>1, <1>10 DEF IInv, Consume, Goto, server, TypeOK, CallbacksArePaired, StatesAreOwn
  <2>5. CodesAreOwn'
    <3>1. PICK l \in Logins : callback.state = State(l)
      BY <1>1, <1>10 DEF IInv, TypeOK
    <3>2. saved[Hash(callback.state)] = l /\ at[l] = "waiting"
      BY <1>1, <1>10, <3>1, StatesDiffer DEF IInv, TypeOK, StatesAreOwn, Consume
    <3>3. callback.code \in {NoCode, l}
      BY <1>1, <1>10, <3>1, StatesDiffer DEF IInv, TypeOK, Codes, CallbacksArePaired
    <3>4. callback.code = l => l \in unspent \cup expired
      BY <1>1, <1>10, <3>2 DEF IInv, CallbacksArePaired
    <3>5. QED
      BY <1>1, <1>10, <3>2, <3>3, <3>4 DEF IInv, TypeOK, CodesAreOwn, Consume, Goto, server
  <2>6. NoLateRefusal'
    BY <1>1, <1>10 DEF IInv, Consume, Goto, server, NoLateRefusal
  <2>7. QED
    BY <2>1, <2>2, <2>3, <2>4, <2>5, <2>6 DEF IInv
<1>11. ASSUME NEW l \in Logins, RegisterRefused(l) PROVE IInv'
  <2>1. TypeOK'
    BY <1>1, <1>11 DEF IInv, RegisterRefused, Raise, server, TypeOK, Errors
  <2>2. ClientsAreRegistered'
    BY <1>1, <1>11 DEF IInv, RegisterRefused, Raise, ClientsAreRegistered, Underway
  <2>3. StatesAreOwn'
    BY <1>1, <1>11 DEF IInv, RegisterRefused, Raise, StatesAreOwn
  <2>4. CallbacksArePaired'
    BY <1>1, <1>11 DEF IInv, RegisterRefused, Raise, server, CallbacksArePaired
  <2>5. CodesAreOwn'
    BY <1>1, <1>11 DEF IInv, RegisterRefused, Raise, server, CodesAreOwn
  <2>6. NoLateRefusal'
    BY <1>1, <1>11 DEF IInv, RegisterRefused, Raise, server, NoLateRefusal
  <2>7. QED
    BY <2>1, <2>2, <2>3, <2>4, <2>5, <2>6 DEF IInv
<1>12. ASSUME NEW l \in Logins, Expire(l) PROVE IInv'
  <2>1. TypeOK'
    BY <1>1, <1>12 DEF IInv, Expire, TypeOK
  <2>2. ClientsAreRegistered'
    BY <1>1, <1>12 DEF IInv, Expire, ClientsAreRegistered
  <2>3. StatesAreOwn'
    BY <1>1, <1>12 DEF IInv, Expire, StatesAreOwn
  <2>4. CallbacksArePaired'
    BY <1>1, <1>12 DEF IInv, Expire, CallbacksArePaired
  <2>5. CodesAreOwn'
    BY <1>1, <1>12 DEF IInv, Expire, CodesAreOwn
  <2>6. NoLateRefusal'
    BY <1>1, <1>12 DEF IInv, Expire, NoLateRefusal
  <2>7. QED
    BY <2>1, <2>2, <2>3, <2>4, <2>5, <2>6 DEF IInv
<1>13. CASE UNCHANGED vars
  BY <1>1, <1>13
  DEF IInv, vars, TypeOK, ClientsAreRegistered, StatesAreOwn, CallbacksArePaired, CodesAreOwn,
      NoLateRefusal
<1>14. QED
  BY <1>1, <1>2, <1>3, <1>4, <1>5, <1>6, <1>7, <1>8, <1>9, <1>10, <1>11, <1>12, <1>13
  DEF Next, Step, TurnDown

LEMMA Invariance == Spec => []IInv
  BY Initially, Inductive, PTL DEF Spec

-----------------------------------------------------------------------------
\* Every variable keeps its type, however many logins overlap (mcp_oauth.py:206-309).
THEOREM LoginsAreTyped == Spec => []TypeOK
<1>1. IInv => TypeOK
  BY DEF IInv
<1>2. QED
  BY <1>1, Invariance, PTL

\* For any number of overlapping logins and repeated callbacks, what register and
\* new_authorization_request let pass is refused only if its code expired
\* (mcp_oauth.py:226-236, 251-253, 345-354).
THEOREM OnlyExpiryRefuses == Spec => []NoLateRefusal
<1>1. IInv => NoLateRefusal
  BY DEF IInv
<1>2. QED
  BY <1>1, Invariance, PTL

\* A code is sent by the login that it was issued to, which is the only one that
\* has it, before it is spent (mcp_oauth.py:257-276, 278-309).
THEOREM CodesArePaired == Spec => CodesMeetTheirVerifier
<1>1. IInv /\ [Next]_vars =>
        [\A l \in Logins : at[l] = "exchanging" /\ at'[l] = "requesting" =>
           /\ code[l] = l /\ l \in unspent \cup expired
           /\ \A k \in Logins \ {l} : code[k] # l]_vars
  <2>1. SUFFICES ASSUME IInv, [Next]_vars, NEW l \in Logins,
                        at[l] = "exchanging", at'[l] = "requesting"
                 PROVE  /\ code[l] = l /\ l \in unspent \cup expired
                        /\ \A k \in Logins \ {l} : code[k] # l
    OBVIOUS
  <2>2. \A k \in Logins \ {l} : code[k] # l
    BY <2>1, LoginsAssumption DEF IInv, CodesAreOwn
  <2>3. Exchange(l)
    BY <2>1
    DEF IInv, TypeOK, Next, vars, Step, Register, RegisterRefused, Redirect, Decide, Exchange,
        Granted, Rejected, AnswerLost, Break, Expire, Consume, TurnDown, Goto, Raise
  <2>4. code[l] # NoCode
    BY <2>1, <2>3 DEF IInv, TypeOK, Exchange, Raise
  <2>5. QED
    BY <2>1, <2>2, <2>4 DEF IInv, CodesAreOwn
<1>2. QED
  BY <1>1, Invariance, PTL DEF Spec, CodesMeetTheirVerifier
=============================================================================
