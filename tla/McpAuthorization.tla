--------------------------- MODULE McpAuthorization ---------------------------
(***************************************************************************)
(* Connecting MCP installations: register, new_authorization_request and    *)
(* exchange_code of src/agent_runtime/mcp_oauth.py, called for one login     *)
(* after the other or for several at once.                                  *)
(*                                                                         *)
(* Between the calls the user is sent to the authorization server, which     *)
(* answers to the host's callback route.  The host keeps what it needs there *)
(* under the hash of the state, and consumes it atomically, as the README of *)
(* the repository asks of it (README.md:55-61).  A browser may repeat a      *)
(* callback, and callbacks come in any order.                               *)
(***************************************************************************)
EXTENDS Integers

CONSTANTS
  Logins,     \* the attempts to connect an installation
  MaxFaults   \* bound: failed requests, lost answers, crashes

NoLogin == "nologin"
NoCode == "nocode"  \* an empty code, which a refusal of the user comes to

ASSUME LoginsAssumption ==
  /\ NoLogin \notin Logins /\ NoCode \notin Logins
  /\ MaxFaults \in Nat

-----------------------------------------------------------------------------
(* Clients. *)

Sizes == {"empty", "fit", "oversized"}
AuthMethods == {"none", "client_secret_post", "client_secret_basic"}

\* What the registration endpoint may answer with; a missing method is "".
Answers ==
  [id : Sizes, secret : Sizes, method : AuthMethods \cup {"", "private_key_jwt"}]

Method(answer) == IF answer.method = "" THEN "none" ELSE answer.method

Clients == [id : Sizes, secret : Sizes, method : AuthMethods]
NoClient == [id |-> "empty", secret |-> "empty", method |-> "none"]

\* Mutant: a method that the client does not know is accepted.
Registered_AnyMethod(client) ==
  /\ client.id = "fit" /\ client.secret # "oversized"
  /\ client.method # "none" => client.secret = "fit"

\* Mutant: a method that needs a secret is accepted without one.
Registered_NoSecret(client) ==
  /\ client.id = "fit" /\ client.secret # "oversized"
  /\ client.method \in AuthMethods

\* The client that register accepts.
Registered(client) ==
  /\ client.id = "fit" /\ client.secret # "oversized"
  /\ client.method \in AuthMethods
  /\ client.method # "none" => client.secret = "fit"

\* The client that the token request accepts: the code repeats the check.
Supported(client) ==
  /\ client.id = "fit" /\ client.secret # "oversized"
  /\ client.method \in AuthMethods
  /\ client.method # "none" => client.secret = "fit"

\* How the token request shows that it comes from the client.
Authentication(client) ==
  IF client.secret = "empty" THEN "none" ELSE client.method

-----------------------------------------------------------------------------
(* Secrets of a login. *)

\* Mutant: the generator of the state yields the same value again.
State_Constant(l) == <<"state">>

State(l) == <<"state", l>>
Verifier(l) == <<"verifier", l>>

Challenge(verifier) == <<"S256", verifier>>
Hash(state) == <<"sha256", state>>

Keys == {Hash(State(l)) : l \in Logins}

VARIABLES
  at,         \* how far each login is
  client,     \* what register returned for it
  saved,      \* host: the login that awaits a callback, by the hash of its state
  callbacks,  \* browser: the callbacks that may arrive, each a state and a code
  code,       \* the code that the callback of a login brought
  unspent,    \* authorization server: the codes it issued and would take
  expired,    \* authorization server: the codes it took back before they were spent
  error,      \* the code of the exception that ended a login
  faults      \* how many faults happened

vars == <<at, client, saved, callbacks, code, unspent, expired, error, faults>>
server == <<callbacks, unspent, expired>>

\* A code is named after the login whose user it was issued to.
Codes == Logins \cup {NoCode}

\* The code of an exception; "url_invalid" stands for a ValueError of validate_url
\* and the codes it is turned into, "crash" for the death of the process.
Errors ==
  {"registration_refused", "registration_invalid", "client_id_invalid", "callback_invalid",
   "client_auth_unsupported", "token_rejected", "token_invalid", "token_type_unsupported",
   "network_error", "url_invalid", "crash"}

TypeOK ==
  /\ at \in [Logins -> {"new", "registered", "waiting", "exchanging", "requesting",
                        "connected", "failed"}]
  /\ client \in [Logins -> Clients]
  /\ saved \in [Keys -> Logins \cup {NoLogin}]
  /\ callbacks \subseteq [state : {State(l) : l \in Logins}, code : Codes]
  /\ code \in [Logins -> Codes]
  /\ unspent \subseteq Logins /\ expired \subseteq Logins
  /\ error \in [Logins -> Errors \cup {"none"}]
  /\ faults \in 0 .. MaxFaults

Init ==
  /\ at = [l \in Logins |-> "new"]
  /\ client = [l \in Logins |-> NoClient]
  /\ saved = [key \in Keys |-> NoLogin]
  /\ callbacks = {}
  /\ code = [l \in Logins |-> NoCode]
  /\ unspent = {} /\ expired = {}
  /\ error = [l \in Logins |-> "none"]
  /\ faults = 0

Goto(l, label) == at' = [at EXCEPT ![l] = label] /\ UNCHANGED error

Raise(l, what) ==
  /\ at' = [at EXCEPT ![l] = "failed"]
  /\ error' = [error EXCEPT ![l] = what]

-----------------------------------------------------------------------------
(* Up to the redirect. *)

\* register, and the answer of the endpoint.
Register(l) ==
  /\ at[l] = "new"
  /\ \E answer \in Answers :
       LET registered == [answer EXCEPT !.method = Method(answer)] IN
         \/ /\ Registered(registered)
            /\ client' = [client EXCEPT ![l] = registered]
            /\ Goto(l, "registered")
         \/ /\ ~Registered(registered)
            /\ Raise(l, "registration_invalid")
            /\ UNCHANGED client
  /\ UNCHANGED <<saved, server, code, faults>>

\* The endpoint answers with an error status, or with no JSON object.
RegisterRefused(l) ==
  /\ at[l] = "new"
  /\ Raise(l, "registration_refused")
  /\ UNCHANGED <<client, saved, server, code, faults>>

\* new_authorization_request; the host saves the login and redirects the browser.
Redirect(l) ==
  /\ at[l] = "registered"
  /\ IF client[l].id = "fit"
     THEN /\ saved' = [saved EXCEPT ![Hash(State(l))] = l]
          /\ Goto(l, "waiting")
     ELSE /\ Raise(l, "client_id_invalid")
          /\ UNCHANGED saved
  /\ UNCHANGED <<client, server, code, faults>>

\* The user consents, and the server issues a code; or refuses.
Decide(l) ==
  /\ at[l] = "waiting"
  /\ \A callback \in callbacks : callback.code # l
  /\ \/ /\ unspent' = unspent \cup {l}
        /\ callbacks' = callbacks \cup {[state |-> State(l), code |-> l]}
     \/ /\ callbacks' = callbacks \cup {[state |-> State(l), code |-> NoCode]}
        /\ UNCHANGED unspent
  /\ UNCHANGED <<at, client, saved, code, expired, error, faults>>

\* A code that was issued too long ago.
Expire(l) ==
  /\ l \in unspent
  /\ unspent' = unspent \ {l}
  /\ expired' = expired \cup {l}
  /\ UNCHANGED <<at, client, saved, callbacks, code, error, faults>>

-----------------------------------------------------------------------------
(* The callback route of the host. *)

\* Mutant: the state stays valid.
Consume_Keeps(callback) ==
  LET l == saved[Hash(callback.state)] IN
    /\ l # NoLogin
    /\ code' = [code EXCEPT ![l] = callback.code]
    /\ Goto(l, "exchanging")
    /\ UNCHANGED <<client, saved, server, faults>>

\* The first callback with a state consumes it.
Consume(callback) ==
  LET l == saved[Hash(callback.state)] IN
    /\ l # NoLogin
    /\ saved' = [saved EXCEPT ![Hash(callback.state)] = NoLogin]
    /\ code' = [code EXCEPT ![l] = callback.code]
    /\ Goto(l, "exchanging")
    /\ UNCHANGED <<client, server, faults>>

\* A callback whose state is consumed is turned down.
TurnDown(callback) ==
  /\ saved[Hash(callback.state)] = NoLogin
  /\ UNCHANGED vars

\* exchange_code up to its request: it needs a code, and a client it can show.
Exchange(l) ==
  /\ at[l] = "exchanging"
  /\ \/ code[l] = NoCode /\ Raise(l, "callback_invalid")
     \/ code[l] # NoCode /\ ~Supported(client[l]) /\ Raise(l, "client_auth_unsupported")
     \/ code[l] # NoCode /\ Supported(client[l]) /\ Goto(l, "requesting")
  /\ UNCHANGED <<client, saved, server, code, faults>>

-----------------------------------------------------------------------------
(* The token endpoint. *)

\* The server takes an unspent code from the client that it was issued to, shown
\* as registered, with the verifier of the challenge that it was issued for.
Acceptable(l) ==
  /\ code[l] \in unspent
  /\ code[l] = l
  /\ Authentication(client[l]) = client[l].method
  /\ Challenge(Verifier(l)) = Challenge(Verifier(code[l]))

Granted(l) ==
  /\ at[l] = "requesting"
  /\ Acceptable(l)
  /\ unspent' = unspent \ {code[l]}
  /\ Goto(l, "connected")
  /\ UNCHANGED <<client, saved, callbacks, code, expired, faults>>

\* An error status, whatever the reason.
Rejected(l) ==
  /\ at[l] = "requesting"
  /\ ~Acceptable(l)
  /\ Raise(l, "token_rejected")
  /\ UNCHANGED <<client, saved, server, code, faults>>

-----------------------------------------------------------------------------
(* Faults. *)

Fail ==
  /\ faults < MaxFaults
  /\ faults' = faults + 1

\* The server takes the code, and its answer is lost or is not a usable token.
AnswerLost(l) ==
  /\ Fail
  /\ at[l] = "requesting"
  /\ Acceptable(l)
  /\ unspent' = unspent \ {code[l]}
  /\ \E what \in {"token_invalid", "token_type_unsupported", "network_error"} : Raise(l, what)
  /\ UNCHANGED <<client, saved, callbacks, code, expired>>

\* A request does not get through, an address is not allowed any more, or the
\* process dies: the login is over.
Break(l) ==
  /\ Fail
  /\ at[l] \in {"new", "registered", "exchanging", "requesting"}
  /\ \E what \in {"network_error", "url_invalid", "crash"} : Raise(l, what)
  /\ UNCHANGED <<client, saved, server, code>>

-----------------------------------------------------------------------------
Step(l) ==
  \/ Register(l) \/ RegisterRefused(l) \/ Redirect(l)
  \/ Exchange(l) \/ Granted(l) \/ Rejected(l)

Next ==
  \/ \E l \in Logins : Step(l) \/ Decide(l) \/ Expire(l) \/ AnswerLost(l) \/ Break(l)
  \/ \E callback \in callbacks : Consume(callback) \/ TurnDown(callback)
  \/ (\A l \in Logins : at[l] \in {"connected", "failed"}) /\ UNCHANGED vars

\* The host's processes run, requests end, and the browser follows a redirect.
Fairness ==
  /\ \A l \in Logins : WF_vars(Step(l))
  /\ WF_vars(\E callback \in callbacks : Consume(callback))

Spec == Init /\ [][Next]_vars

FairSpec == Spec /\ Fairness

-----------------------------------------------------------------------------
\* What register and new_authorization_request let pass is never refused later: a
\* login that reaches the token request is refused there only if its code expired,
\* however logins overlap and callbacks repeat (mcp_oauth.py:226-236, 251-253, 345-354).
NoLateRefusal ==
  \A l \in Logins :
    /\ error[l] \notin {"client_id_invalid", "client_auth_unsupported"}
    /\ error[l] = "token_rejected" => l \in expired

\* A code is sent by the login that it was issued to, no other login has it, and it
\* was not spent: it meets its own verifier (mcp_oauth.py:257-276, 278-309; README.md:59).
CodesMeetTheirVerifier ==
  [][\A l \in Logins : at[l] = "exchanging" /\ at'[l] = "requesting" =>
       /\ code[l] = l /\ l \in unspent \cup expired
       /\ \A k \in Logins \ {l} : code[k] # l]_vars

\* Every login whose user decided ends in a connection or an exception, though
\* others are on their way and callbacks overtake each other.
LoginsConclude ==
  \A l \in Logins :
    (\E callback \in callbacks : callback.state = State(l))
      ~> (at[l] \in {"connected", "failed"})
=============================================================================
