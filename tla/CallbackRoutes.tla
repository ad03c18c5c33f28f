---------------------------- MODULE CallbackRoutes -----------------------------
(***************************************************************************)
(* The FastAPI routers of src/agent_runtime/adapter.py, by which the         *)
(* runtime calls the host back: for events, the target context, tools,       *)
(* commands, workspaces, skills and credentials.                             *)
(*                                                                         *)
(* Each process of the host has one event loop.  A route checks the service  *)
(* token and calls the host's handler on the loop; only an awaitable that     *)
(* the handler returns gives the loop to others.  The SDK's client is         *)
(* synchronous: a handler that calls it holds the loop until the runtime      *)
(* answers, and the runtime may have to call back before it does.            *)
(***************************************************************************)
EXTENDS Integers

CONSTANTS
  Processes,   \* the processes of the host that serve its routes
  Requests,    \* the requests that the runtime may have open at a time
  Routes,      \* the routes that it calls
  Events,      \* the events that it delivers to the event route
  Foreign,     \* those of another app
  MaxFaults    \* bound: redeployments, rotations and broken connections

\* The routes of all routers.
AllRoutes == {"event", "context", "tools", "call", "execute", "prepare", "finalize", "cleanup",
              "spec", "lookup", "package", "refresh"}

ASSUME CallbacksAssumption ==
  /\ Routes \subseteq AllRoutes
  /\ Foreign \subseteq Events /\ "none" \notin Processes \cup Events \cup Requests
  /\ MaxFaults \in Nat

\* The service token before and after a rotation.
Tokens == {"first", "second"}

VARIABLES
  token,      \* the token that the runtime sends
  expected,   \* the token that each process was started with
  loop,       \* whose handler each process's loop runs, or "none"
  request,    \* what each open request asks
  at,         \* where it is
  place,      \* the process that serves it
  caller,     \* the request whose SDK call has to wait for it, or "none"
  result,     \* what its handler came to
  status,     \* how it was answered
  handled,    \* history: the events whose handler ended without an exception
  delivered,  \* runtime: the events it need not deliver again
  faults

vars == <<token, expected, loop, request, at, place, caller, result, status,
          handled, delivered, faults>>
service == <<token, handled, delivered, faults>>

Calls == [route : Routes \ {"event"}, event : {"none"}, token : Tokens]
           \cup [route : Routes \cap {"event"}, event : Events, token : Tokens]
NoCall == [route |-> "none", event |-> "none", token |-> "none"]

\* What a handler returns: something, nothing (None, or no bytes), or an exception.
Results == {"value", "nothing", "error"}

TypeOK ==
  /\ token \in Tokens
  /\ expected \in [Processes -> Tokens]
  /\ loop \in [Processes -> Requests \cup {"none"}]
  /\ request \in [Requests -> Calls \cup {NoCall}]
  /\ at \in [Requests -> {"closed", "sent", "running", "awaiting", "calling", "answered"}]
  /\ place \in [Requests -> Processes \cup {"none"}]
  /\ caller \in [Requests -> Requests \cup {"none"}]
  /\ result \in [Requests -> Results \cup {"none"}]
  /\ status \in [Requests -> {0, 200, 204, 401, 403, 404, 500}]
  /\ handled \subseteq Events /\ delivered \subseteq Events
  /\ \A r \in Requests :
       at[r] \in {"running", "calling"} <=> \E p \in Processes : loop[p] = r /\ place[r] = p
  /\ faults \in 0 .. MaxFaults

Init ==
  /\ token = "first"
  /\ expected = [p \in Processes |-> "first"]
  /\ loop = [p \in Processes |-> "none"]
  /\ request = [r \in Requests |-> NoCall]
  /\ at = [r \in Requests |-> "closed"]
  /\ place = [r \in Requests |-> "none"]
  /\ caller = [r \in Requests |-> "none"]
  /\ result = [r \in Requests |-> "none"]
  /\ status = [r \in Requests |-> 0]
  /\ handled = {} /\ delivered = {}
  /\ faults = 0

Serves(p, r) == place[r] = p /\ loop[p] = r

-----------------------------------------------------------------------------
(* What the routes answer. *)

\* An exception that nothing catches, or an answer that is not of its model.  An
\* HTTPException of the handler counts as the former, though FastAPI answers with the
\* status that it carries: what is said then is the handler's word, not the route's.
ServerError == 500

\* A handler's answer is passed on if it has the form of the response model.
TargetContext(res) == IF res = "value" THEN 200 ELSE ServerError
Command(res) == IF res = "value" THEN 200 ELSE ServerError

\* The list of tools is wrapped as it is; a tool's result has a model.
McpProvider(route, res) ==
  IF res = "value" \/ (res = "nothing" /\ route = "tools") THEN 200 ELSE ServerError

\* What cleanup returns is not looked at.
Workspace(route, res) ==
  IF res = "value" \/ (res = "nothing" /\ route = "cleanup") THEN 200 ELSE ServerError

\* Mutant: an exception of the lookup is taken for its absence.
Skill_Swallows(res) == IF res = "value" THEN 200 ELSE 204

\* None is an answer of its own.
Skill(res) == [value |-> 200, nothing |-> 204, error |-> ServerError][res]
Package(res) == [value |-> 200, nothing |-> 404, error |-> ServerError][res]

\* An event is accepted whatever its handler returns.
Event(res) == IF res = "error" THEN ServerError ELSE 200

\* Every exception of the handler is the demand to reconnect.
Credential(res) == [value |-> 200, nothing |-> ServerError, error |-> 401][res]

Status(route, res) ==
  CASE route = "event" -> Event(res)
    [] route = "context" -> TargetContext(res)
    [] route \in {"tools", "call"} -> McpProvider(route, res)
    [] route = "execute" -> Command(res)
    [] route \in {"prepare", "finalize", "cleanup", "spec"} -> Workspace(route, res)
    [] route = "lookup" -> Skill(res)
    [] route = "package" -> Package(res)
    [] route = "refresh" -> Credential(res)

-----------------------------------------------------------------------------
(* The runtime. *)

\* It opens a request, on its own account or because it needs the answer before it
\* can answer the call of a handler.  An event is sent until it is delivered.
Send(r) ==
  /\ at[r] = "closed"
  /\ \E call \in Calls :
       /\ call.token = token /\ call.event \notin delivered
       /\ request' = [request EXCEPT ![r] = call]
  /\ \E c \in {"none"} \cup {c \in Requests : at[c] = "calling"} :
       caller' = [caller EXCEPT ![r] = c]
  /\ at' = [at EXCEPT ![r] = "sent"]
  /\ UNCHANGED <<service, expected, loop, place, result, status>>

Close(r) ==
  /\ request' = [request EXCEPT ![r] = NoCall]
  /\ place' = [place EXCEPT ![r] = "none"]
  /\ caller' = [c \in Requests |-> IF c = r \/ caller[c] = r THEN "none" ELSE caller[c]]
  /\ result' = [result EXCEPT ![r] = "none"]
  /\ status' = [status EXCEPT ![r] = 0]

\* The answer arrives.
Receive(r) ==
  /\ at[r] = "answered"
  /\ delivered' =
       IF status[r] = 200 THEN delivered \cup ({request[r].event} \ {"none"}) ELSE delivered
  /\ at' = [at EXCEPT ![r] = "closed"]
  /\ Close(r)
  /\ UNCHANGED <<token, handled, faults, expected, loop>>

-----------------------------------------------------------------------------
(* The host. *)

\* verify_bearer_token; the token of a process is that of its start.
Verified(p, call) == call.token = expected[p]

\* Mutant: the app of an event is not compared.
Admitted_AnyApp(call) == call.route \in Routes

\* The event route takes the events of its app only.
Admitted(call) == call.event \notin Foreign

\* A route is entered: it refuses, or calls the handler, all in one piece.
Enter(p, r) ==
  /\ at[r] = "sent" /\ loop[p] = "none"
  /\ \/ /\ Verified(p, request[r]) /\ Admitted(request[r])
        /\ loop' = [loop EXCEPT ![p] = r]
        /\ place' = [place EXCEPT ![r] = p]
        /\ at' = [at EXCEPT ![r] = "running"]
        /\ UNCHANGED status
     \/ /\ ~(Verified(p, request[r]) /\ Admitted(request[r]))
        /\ status' = [status EXCEPT ![r] = IF Verified(p, request[r]) THEN 403 ELSE 401]
        /\ at' = [at EXCEPT ![r] = "answered"]
        /\ UNCHANGED <<loop, place>>
  /\ UNCHANGED <<service, expected, request, caller, result>>

\* Mutant: what the handler returns is not awaited.
Suspend_NotAwaited(p, r) ==
  /\ at[r] = "running" /\ Serves(p, r)
  /\ status' = [status EXCEPT ![r] = Status(request[r].route, "value")]
  /\ at' = [at EXCEPT ![r] = "answered"]
  /\ loop' = [loop EXCEPT ![p] = "none"]
  /\ UNCHANGED <<service, expected, request, place, caller, result>>

\* Mutant: the loop waits for what the handler returned.
Suspend_Blocks(p, r) ==
  /\ at[r] = "running" /\ Serves(p, r)
  /\ at' = [at EXCEPT ![r] = "awaiting"]
  /\ UNCHANGED <<service, expected, loop, request, place, caller, result, status>>

\* _resolve awaits what the handler returned, and the loop is free meanwhile.
Suspend(p, r) ==
  /\ at[r] = "running" /\ Serves(p, r)
  /\ at' = [at EXCEPT ![r] = "awaiting"]
  /\ loop' = [loop EXCEPT ![p] = "none"]
  /\ UNCHANGED <<service, expected, request, place, caller, result, status>>

Resume(p, r) ==
  /\ at[r] = "awaiting" /\ place[r] = p /\ loop[p] = "none"
  /\ at' = [at EXCEPT ![r] = "running"]
  /\ loop' = [loop EXCEPT ![p] = r]
  /\ UNCHANGED <<service, expected, request, place, caller, result, status>>

\* The handler calls the SDK's client, which blocks.
Call(r) ==
  /\ at[r] = "running"
  /\ at' = [at EXCEPT ![r] = "calling"]
  /\ UNCHANGED <<service, expected, loop, request, place, caller, result, status>>

\* The runtime answers the call when nothing that it needs for it is open.
CallReturns(r) ==
  /\ at[r] = "calling"
  /\ \A c \in Requests : caller[c] # r
  /\ at' = [at EXCEPT ![r] = "running"]
  /\ UNCHANGED <<service, expected, loop, request, place, caller, result, status>>

\* Mutant: the client waits for ever.
CallTimesOut_Never(r) == at[r] = "calling" /\ UNCHANGED vars

\* The client's timeout (30 seconds) is over: the call raises in the handler.
CallTimesOut(r) ==
  /\ at[r] = "calling"
  /\ at' = [at EXCEPT ![r] = "running"]
  /\ caller' = [c \in Requests |-> IF caller[c] = r THEN "none" ELSE caller[c]]
  /\ UNCHANGED <<service, expected, loop, request, place, result, status>>

\* The handler returns or raises, and the route answers.
Finish(p, r) ==
  /\ at[r] = "running" /\ Serves(p, r)
  /\ \E res \in Results :
       /\ result' = [result EXCEPT ![r] = res]
       /\ status' = [status EXCEPT ![r] = Status(request[r].route, res)]
       /\ handled' =
            IF res = "error" THEN handled ELSE handled \cup ({request[r].event} \ {"none"})
  /\ at' = [at EXCEPT ![r] = "answered"]
  /\ loop' = [loop EXCEPT ![p] = "none"]
  /\ UNCHANGED <<token, delivered, faults, expected, request, place, caller>>

-----------------------------------------------------------------------------
(* Faults, at most MaxFaults of them. *)

Fail == faults < MaxFaults /\ faults' = faults + 1

\* The runtime is given a new token.
Rotate ==
  /\ Fail
  /\ token' = "second"
  /\ UNCHANGED <<expected, loop, request, at, place, caller, result, status, handled, delivered>>

\* A process is started anew with either token; what it was doing is gone, and the
\* runtime's connections to it break.
Redeploy(p) ==
  /\ Fail
  /\ \E t \in Tokens : expected' = [expected EXCEPT ![p] = t]
  /\ LET broken == {r \in Requests : place[r] = p}
     IN /\ at' = [r \in Requests |-> IF r \in broken THEN "closed" ELSE at[r]]
        /\ request' = [r \in Requests |-> IF r \in broken THEN NoCall ELSE request[r]]
        /\ place' = [r \in Requests |-> IF r \in broken THEN "none" ELSE place[r]]
        /\ result' = [r \in Requests |-> IF r \in broken THEN "none" ELSE result[r]]
        /\ status' = [r \in Requests |-> IF r \in broken THEN 0 ELSE status[r]]
        /\ caller' = [r \in Requests |->
                        IF r \in broken \/ caller[r] \in broken THEN "none" ELSE caller[r]]
  /\ loop' = [loop EXCEPT ![p] = "none"]
  /\ UNCHANGED <<token, handled, delivered>>

\* The connection breaks before the answer is read.
AnswerLost(r) ==
  /\ Fail
  /\ at[r] = "answered"
  /\ at' = [at EXCEPT ![r] = "closed"]
  /\ Close(r)
  /\ UNCHANGED <<token, handled, delivered, expected, loop>>

-----------------------------------------------------------------------------
Next ==
  \/ Rotate
  \/ \E p \in Processes : Redeploy(p)
  \/ \E r \in Requests :
       \/ Send(r) \/ Receive(r) \/ Call(r) \/ CallReturns(r) \/ CallTimesOut(r) \/ AnswerLost(r)
       \/ \E p \in Processes : Enter(p, r) \/ Suspend(p, r) \/ Resume(p, r) \/ Finish(p, r)

Spec == Init /\ [][Next]_vars

\* A loop takes up what is ready in the order in which it became ready, so it passes
\* nothing over for ever; handlers end; the client's timeout and answers arrive.
Fairness ==
  \A r \in Requests :
    /\ SF_vars(\E p \in Processes : Enter(p, r))
    /\ SF_vars(\E p \in Processes : Resume(p, r))
    /\ SF_vars(\E p \in Processes : Finish(p, r))
    /\ WF_vars(CallReturns(r) \/ CallTimesOut(r))
    /\ WF_vars(Receive(r))

FairSpec == Spec /\ Fairness

-----------------------------------------------------------------------------
\* The runtime does not forget an event that its host has not got: it holds one as
\* delivered only if a handler has ended on it, and none of another app has been
\* handled, though handlers are suspended, processes restarted and answers lost
\* (adapter.py:98-108).
DeliveredIsHandled == delivered \subseteq handled /\ handled \cap Foreign = {}

\* What an answer says about the host's handler is so: a refusal, that it has not
\* run (but for the credential route, which refuses after an exception), and an
\* absence, that it found nothing (adapter.py:255-258, 294-297, 322-328).  Of a handler
\* that chooses a status itself, by an HTTPException, it says nothing.
AnswersAreTrue ==
  \A r \in Requests : at[r] = "answered" =>
    /\ status[r] \in {401, 403} =>
         result[r] = "none" \/ (request[r].route = "refresh" /\ result[r] = "error")
    /\ status[r] \in {204, 404} => result[r] = "nothing"
    /\ status[r] = 200 => result[r] \in {"value", "nothing"}

\* Every callback is answered or its connection breaks, also when all loops are
\* held by handlers that wait for the runtime, which waits for a callback
\* (adapter.py:302-305, client.py:77).
CallbacksConclude == \A r \in Requests : at[r] = "sent" ~> at[r] \in {"answered", "closed"}
=============================================================================
