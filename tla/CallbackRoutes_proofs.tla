------------------------- MODULE CallbackRoutes_proofs --------------------------
(***************************************************************************)
(* Proofs about CallbackRoutes, for any number of processes, requests and    *)
(* events and any set of routes: what an answer says of the handler is so,    *)
(* and the runtime does not forget an event that no handler has dealt with.   *)
(***************************************************************************)
EXTENDS CallbackRoutes, TLAPS

-----------------------------------------------------------------------------
(* The inductive invariant. *)

\* The types of the variables, and whose handler the loops run.
Shape == TypeOK

\* An open request is a call of the runtime.
Asked == \A r \in Requests : at[r] # "closed" => request[r] \in Calls

\* A handler's result is there once its request is answered, and not before.
Unanswered == \A r \in Requests : at[r] # "answered" => result[r] = "none"

\* A request that a handler has seen is about an event of the app.
Guarded ==
  \A r \in Requests :
    at[r] \in {"running", "awaiting", "calling"} => request[r].event \notin Foreign

\* An event that is answered with 200 has been handled.
Heard ==
  \A r \in Requests :
    at[r] = "answered" /\ status[r] = 200 /\ request[r].event # "none"
      => request[r].event \in handled

IInv == Shape /\ Asked /\ Unanswered /\ Guarded /\ Heard /\ DeliveredIsHandled /\ AnswersAreTrue

-----------------------------------------------------------------------------
(* Lemmas about the answers. *)

\* A call of the runtime names a route of its own, and an event only with the event
\* route; the absence of a call names none.
LEMMA CallsAreTyped ==
  ASSUME NEW call \in Calls
  PROVE  /\ call.route \in AllRoutes /\ call.event \in Events \cup {"none"}
         /\ call.event # "none" => call.route = "event"
         /\ call.token \in Tokens
BY CallbacksAssumption DEF Calls, AllRoutes

\* Every result of a handler has a status, on every route, and the status tells no
\* more than the result does.
LEMMA StatusIsTrue ==
  ASSUME NEW route \in AllRoutes, NEW res \in Results
  PROVE  /\ Status(route, res) \in {200, 204, 401, 404, 500}
         /\ Status(route, res) = 401 => route = "refresh" /\ res = "error"
         /\ Status(route, res) \in {204, 404} => res = "nothing"
         /\ Status(route, res) = 200 => res \in {"value", "nothing"}
<1>1. CASE route \in {"event", "context", "execute"}
  BY <1>1 DEF Results, Status, Event, TargetContext, Command, ServerError
<1>2. CASE route \in {"tools", "call"}
  BY <1>2 DEF Results, Status, McpProvider, ServerError
<1>3. CASE route \in {"prepare", "finalize", "cleanup", "spec"}
  BY <1>3 DEF Results, Status, Workspace, ServerError
<1>4. CASE route = "lookup"
  BY <1>4 DEF Results, Status, Skill, ServerError
<1>5. CASE route = "package"
  BY <1>5 DEF Results, Status, Package, ServerError
<1>6. CASE route = "refresh"
  BY <1>6 DEF Results, Status, Credential, ServerError
<1>7. QED
  BY <1>1, <1>2, <1>3, <1>4, <1>5, <1>6 DEF AllRoutes

-----------------------------------------------------------------------------
(* The invariant. *)

LEMMA Initially == Init => IInv
<1>1. SUFFICES ASSUME Init PROVE IInv
  OBVIOUS
<1>2. Shape
  BY <1>1, CallbacksAssumption DEF Init, Shape, TypeOK, Tokens, Results
<1>3. Asked /\ Unanswered /\ Guarded /\ Heard
  BY <1>1 DEF Init, Asked, Unanswered, Guarded, Heard
<1>4. DeliveredIsHandled /\ AnswersAreTrue
  BY <1>1 DEF Init, DeliveredIsHandled, AnswersAreTrue
<1>5. QED
  BY <1>2, <1>3, <1>4 DEF IInv

LEMMA Inductive == IInv /\ [Next]_vars => IInv'
<1>1. SUFFICES ASSUME IInv, [Next]_vars PROVE IInv'
  OBVIOUS
<1>0. USE CallbacksAssumption DEF service
<1>2. ASSUME NEW r \in Requests, Send(r) PROVE IInv'
  <2>1. Shape'
    BY <1>1, <1>2 DEF IInv, Send, Shape, TypeOK
  <2>2. Unanswered'
    BY <1>1, <1>2 DEF IInv, Send, Shape, TypeOK, Unanswered
  <2>3. Guarded'
    BY <1>1, <1>2 DEF IInv, Send, Shape, TypeOK, Guarded
  <2>4. Heard'
    BY <1>1, <1>2 DEF IInv, Send, Shape, TypeOK, Heard
  <2>5. DeliveredIsHandled'
    BY <1>1, <1>2 DEF IInv, Send, Shape, TypeOK, Heard, Guarded, DeliveredIsHandled
  <2>6. AnswersAreTrue'
    BY <1>1, <1>2 DEF IInv, Send, Shape, TypeOK, AnswersAreTrue
  <2>7. Asked'
    BY <1>1, <1>2 DEF IInv, Send, Shape, TypeOK, Asked
  <2>8. QED
    BY <2>1, <2>2, <2>3, <2>4, <2>5, <2>6, <2>7 DEF IInv
<1>3. ASSUME NEW r \in Requests, Receive(r) PROVE IInv'
  <2>0. request[r].event \in Events \cup {"none"}
    BY <1>1, <1>3, CallsAreTyped DEF IInv, Asked, Receive
  <2>1. Shape'
    BY <1>1, <1>3, <2>0 DEF IInv, Receive, Close, Shape, TypeOK
  <2>2. Unanswered'
    BY <1>1, <1>3 DEF IInv, Receive, Close, Shape, TypeOK, Unanswered
  <2>3. Guarded'
    BY <1>1, <1>3 DEF IInv, Receive, Close, Shape, TypeOK, Guarded
  <2>4. Heard'
    BY <1>1, <1>3 DEF IInv, Receive, Close, Shape, TypeOK, Heard
  <2>5. DeliveredIsHandled'
    BY <1>1, <1>3 DEF IInv, Receive, Close, Shape, TypeOK, Heard, Guarded, DeliveredIsHandled
  <2>6. AnswersAreTrue'
    BY <1>1, <1>3 DEF IInv, Receive, Close, Shape, TypeOK, AnswersAreTrue
  <2>7. Asked'
    BY <1>1, <1>3 DEF IInv, Receive, Close, Shape, TypeOK, Asked
  <2>8. QED
    BY <2>1, <2>2, <2>3, <2>4, <2>5, <2>6, <2>7 DEF IInv
<1>4. ASSUME NEW r \in Requests, NEW p \in Processes, Enter(p, r) PROVE IInv'
  <2>1. Shape'
    BY <1>1, <1>4 DEF IInv, Enter, Shape, TypeOK
  <2>2. Unanswered'
    BY <1>1, <1>4 DEF IInv, Enter, Shape, TypeOK, Unanswered
  <2>3. Guarded'
    BY <1>1, <1>4 DEF IInv, Enter, Admitted, Shape, TypeOK, Guarded
  <2>4. Heard'
    BY <1>1, <1>4 DEF IInv, Enter, Shape, TypeOK, Heard
  <2>5. DeliveredIsHandled'
    BY <1>1, <1>4 DEF IInv, Enter, Shape, TypeOK, Heard, Guarded, DeliveredIsHandled
  <2>6. AnswersAreTrue'
    BY <1>1, <1>4 DEF IInv, Enter, Shape, TypeOK, Unanswered, AnswersAreTrue
  <2>7. Asked'
    BY <1>1, <1>4 DEF IInv, Enter, Shape, TypeOK, Asked
  <2>8. QED
    BY <2>1, <2>2, <2>3, <2>4, <2>5, <2>6, <2>7 DEF IInv
<1>5. ASSUME NEW r \in Requests, NEW p \in Processes, Suspend(p, r) PROVE IInv'
  <2>1. Shape'
    BY <1>1, <1>5 DEF IInv, Suspend, Serves, Shape, TypeOK
  <2>2. Unanswered'
    BY <1>1, <1>5 DEF IInv, Suspend, Serves, Shape, TypeOK, Unanswered
  <2>3. Guarded'
    BY <1>1, <1>5 DEF IInv, Suspend, Serves, Shape, TypeOK, Guarded
  <2>4. Heard'
    BY <1>1, <1>5 DEF IInv, Suspend, Serves, Shape, TypeOK, Heard
  <2>5. DeliveredIsHandled'
    BY <1>1, <1>5 DEF IInv, Suspend, Serves, Shape, TypeOK, Heard, Guarded, DeliveredIsHandled
  <2>6. AnswersAreTrue'
    BY <1>1, <1>5 DEF IInv, Suspend, Serves, Shape, TypeOK, AnswersAreTrue
  <2>7. Asked'
    BY <1>1, <1>5 DEF IInv, Suspend, Serves, Shape, TypeOK, Asked
  <2>8. QED
    BY <2>1, <2>2, <2>3, <2>4, <2>5, <2>6, <2>7 DEF IInv
<1>6. ASSUME NEW r \in Requests, NEW p \in Processes, Resume(p, r) PROVE IInv'
  <2>1. Shape'
    BY <1>1, <1>6 DEF IInv, Resume, Shape, TypeOK
  <2>2. Unanswered'
    BY <1>1, <1>6 DEF IInv, Resume, Shape, TypeOK, Unanswered
  <2>3. Guarded'
    BY <1>1, <1>6 DEF IInv, Resume, Shape, TypeOK, Guarded
  <2>4. Heard'
    BY <1>1, <1>6 DEF IInv, Resume, Shape, TypeOK, Heard
  <2>5. DeliveredIsHandled'
    BY <1>1, <1>6 DEF IInv, Resume, Shape, TypeOK, Heard, Guarded, DeliveredIsHandled
  <2>6. AnswersAreTrue'
    BY <1>1, <1>6 DEF IInv, Resume, Shape, TypeOK, AnswersAreTrue
  <2>7. Asked'
    BY <1>1, <1>6 DEF IInv, Resume, Shape, TypeOK, Asked
  <2>8. QED
    BY <2>1, <2>2, <2>3, <2>4, <2>5, <2>6, <2>7 DEF IInv
<1>7. ASSUME NEW r \in Requests, Call(r) PROVE IInv'
  <2>1. Shape'
    BY <1>1, <1>7 DEF IInv, Call, Shape, TypeOK
  <2>2. Unanswered'
    BY <1>1, <1>7 DEF IInv, Call, Shape, TypeOK, Unanswered
  <2>3. Guarded'
    BY <1>1, <1>7 DEF IInv, Call, Shape, TypeOK, Guarded
  <2>4. Heard'
    BY <1>1, <1>7 DEF IInv, Call, Shape, TypeOK, Heard
  <2>5. DeliveredIsHandled'
    BY <1>1, <1>7 DEF IInv, Call, Shape, TypeOK, Heard, Guarded, DeliveredIsHandled
  <2>6. AnswersAreTrue'
    BY <1>1, <1>7 DEF IInv, Call, Shape, TypeOK, AnswersAreTrue
  <2>7. Asked'
    BY <1>1, <1>7 DEF IInv, Call, Shape, TypeOK, Asked
  <2>8. QED
    BY <2>1, <2>2, <2>3, <2>4, <2>5, <2>6, <2>7 DEF IInv
<1>8. ASSUME NEW r \in Requests, CallReturns(r) PROVE IInv'
  <2>1. Shape'
    BY <1>1, <1>8 DEF IInv, CallReturns, Shape, TypeOK
  <2>2. Unanswered'
    BY <1>1, <1>8 DEF IInv, CallReturns, Shape, TypeOK, Unanswered
  <2>3. Guarded'
    BY <1>1, <1>8 DEF IInv, CallReturns, Shape, TypeOK, Guarded
  <2>4. Heard'
    BY <1>1, <1>8 DEF IInv, CallReturns, Shape, TypeOK, Heard
  <2>5. DeliveredIsHandled'
    BY <1>1, <1>8 DEF IInv, CallReturns, Shape, TypeOK, Heard, Guarded, DeliveredIsHandled
  <2>6. AnswersAreTrue'
    BY <1>1, <1>8 DEF IInv, CallReturns, Shape, TypeOK, AnswersAreTrue
  <2>7. Asked'
    BY <1>1, <1>8 DEF IInv, CallReturns, Shape, TypeOK, Asked
  <2>8. QED
    BY <2>1, <2>2, <2>3, <2>4, <2>5, <2>6, <2>7 DEF IInv
<1>9. ASSUME NEW r \in Requests, CallTimesOut(r) PROVE IInv'
  <2>1. Shape'
    BY <1>1, <1>9 DEF IInv, CallTimesOut, Shape, TypeOK
  <2>2. Unanswered'
    BY <1>1, <1>9 DEF IInv, CallTimesOut, Shape, TypeOK, Unanswered
  <2>3. Guarded'
    BY <1>1, <1>9 DEF IInv, CallTimesOut, Shape, TypeOK, Guarded
  <2>4. Heard'
    BY <1>1, <1>9 DEF IInv, CallTimesOut, Shape, TypeOK, Heard
  <2>5. DeliveredIsHandled'
    BY <1>1, <1>9 DEF IInv, CallTimesOut, Shape, TypeOK, Heard, Guarded, DeliveredIsHandled
  <2>6. AnswersAreTrue'
    BY <1>1, <1>9 DEF IInv, CallTimesOut, Shape, TypeOK, AnswersAreTrue
  <2>7. Asked'
    BY <1>1, <1>9 DEF IInv, CallTimesOut, Shape, TypeOK, Asked
  <2>8. QED
    BY <2>1, <2>2, <2>3, <2>4, <2>5, <2>6, <2>7 DEF IInv
<1>10. ASSUME NEW r \in Requests, NEW p \in Processes, Finish(p, r) PROVE IInv'
  <2>1. PICK res \in Results :
          /\ result' = [result EXCEPT ![r] = res]
          /\ status' = [status EXCEPT ![r] = Status(request[r].route, res)]
          /\ handled' =
               IF res = "error" THEN handled ELSE handled \cup ({request[r].event} \ {"none"})
    BY <1>10 DEF Finish
  <2>2. request[r] \in Calls /\ request[r].route \in AllRoutes
    BY <1>1, <1>10, CallsAreTyped DEF IInv, Asked, Finish
  <2>3. /\ request[r].event \in Events \cup {"none"}
        /\ request[r].event # "none" => request[r].route = "event"
    BY <2>2, CallsAreTyped
  <2>4. /\ Status(request[r].route, res) \in {200, 204, 401, 404, 500}
        /\ Status(request[r].route, res) = 401 => request[r].route = "refresh" /\ res = "error"
        /\ Status(request[r].route, res) \in {204, 404} => res = "nothing"
        /\ Status(request[r].route, res) = 200 => res \in {"value", "nothing"}
    BY <2>2, StatusIsTrue
  <2>5. Shape'
    BY <1>1, <1>10, <2>1, <2>3, <2>4 DEF IInv, Finish, Serves, Shape, TypeOK
  <2>6. Unanswered'
    BY <1>1, <1>10, <2>1 DEF IInv, Finish, Serves, Shape, TypeOK, Unanswered
  <2>7. Guarded'
    BY <1>1, <1>10, <2>1 DEF IInv, Finish, Serves, Shape, TypeOK, Guarded
  <2>8. Heard'
    BY <1>1, <1>10, <2>1, <2>3, <2>4 DEF IInv, Finish, Serves, Shape, TypeOK, Heard
  <2>9. DeliveredIsHandled'
    BY <1>1, <1>10, <2>1 DEF IInv, Finish, Serves, Shape, TypeOK, Heard, Guarded, DeliveredIsHandled
  <2>10. AnswersAreTrue'
    BY <1>1, <1>10, <2>1, <2>3, <2>4 DEF IInv, Finish, Serves, Shape, TypeOK, AnswersAreTrue
  <2>11. Asked'
    BY <1>1, <1>10, <2>1 DEF IInv, Finish, Serves, Shape, TypeOK, Asked
  <2>12. QED
    BY <2>5, <2>6, <2>7, <2>8, <2>9, <2>10, <2>11 DEF IInv
<1>11. CASE Rotate
  <2>1. Shape'
    BY <1>1, <1>11 DEF IInv, Rotate, Fail, Shape, TypeOK, Tokens
  <2>2. Unanswered'
    BY <1>1, <1>11 DEF IInv, Rotate, Fail, Shape, TypeOK, Unanswered
  <2>3. Guarded'
    BY <1>1, <1>11 DEF IInv, Rotate, Fail, Shape, TypeOK, Guarded
  <2>4. Heard'
    BY <1>1, <1>11 DEF IInv, Rotate, Fail, Shape, TypeOK, Heard
  <2>5. DeliveredIsHandled'
    BY <1>1, <1>11 DEF IInv, Rotate, Fail, Shape, TypeOK, Heard, Guarded, DeliveredIsHandled
  <2>6. AnswersAreTrue'
    BY <1>1, <1>11 DEF IInv, Rotate, Fail, Shape, TypeOK, AnswersAreTrue
  <2>7. Asked'
    BY <1>1, <1>11 DEF IInv, Rotate, Fail, Shape, TypeOK, Asked
  <2>8. QED
    BY <2>1, <2>2, <2>3, <2>4, <2>5, <2>6, <2>7 DEF IInv
<1>12. ASSUME NEW p \in Processes, Redeploy(p) PROVE IInv'
  <2>1. Shape'
    BY <1>1, <1>12 DEF IInv, Redeploy, Fail, Shape, TypeOK
  <2>2. Unanswered'
    BY <1>1, <1>12 DEF IInv, Redeploy, Fail, Shape, TypeOK, Unanswered
  <2>3. Guarded'
    BY <1>1, <1>12 DEF IInv, Redeploy, Fail, Shape, TypeOK, Guarded
  <2>4. Heard'
    BY <1>1, <1>12 DEF IInv, Redeploy, Fail, Shape, TypeOK, Heard
  <2>5. DeliveredIsHandled'
    BY <1>1, <1>12 DEF IInv, Redeploy, Fail, Shape, TypeOK, Heard, Guarded, DeliveredIsHandled
  <2>6. AnswersAreTrue'
    BY <1>1, <1>12 DEF IInv, Redeploy, Fail, Shape, TypeOK, AnswersAreTrue
  <2>7. Asked'
    BY <1>1, <1>12 DEF IInv, Redeploy, Fail, Shape, TypeOK, Asked
  <2>8. QED
    BY <2>1, <2>2, <2>3, <2>4, <2>5, <2>6, <2>7 DEF IInv
<1>13. ASSUME NEW r \in Requests, AnswerLost(r) PROVE IInv'
  <2>1. Shape'
    BY <1>1, <1>13 DEF IInv, AnswerLost, Fail, Close, Shape, TypeOK
  <2>2. Unanswered'
    BY <1>1, <1>13 DEF IInv, AnswerLost, Fail, Close, Shape, TypeOK, Unanswered
  <2>3. Guarded'
    BY <1>1, <1>13 DEF IInv, AnswerLost, Fail, Close, Shape, TypeOK, Guarded
  <2>4. Heard'
    BY <1>1, <1>13 DEF IInv, AnswerLost, Fail, Close, Shape, TypeOK, Heard
  <2>5. DeliveredIsHandled'
    BY <1>1, <1>13 DEF IInv, AnswerLost, Fail, Close, Shape, TypeOK, Heard, Guarded, DeliveredIsHandled
  <2>6. AnswersAreTrue'
    BY <1>1, <1>13 DEF IInv, AnswerLost, Fail, Close, Shape, TypeOK, AnswersAreTrue
  <2>7. Asked'
    BY <1>1, <1>13 DEF IInv, AnswerLost, Fail, Close, Shape, TypeOK, Asked
  <2>8. QED
    BY <2>1, <2>2, <2>3, <2>4, <2>5, <2>6, <2>7 DEF IInv
<1>14. CASE UNCHANGED vars
  BY <1>1, <1>14 DEF IInv, vars, Shape, TypeOK, Asked, Unanswered, Guarded, Heard, DeliveredIsHandled, AnswersAreTrue
<1>15. QED
  BY <1>1, <1>2, <1>3, <1>4, <1>5, <1>6, <1>7, <1>8, <1>9, <1>10, <1>11, <1>12, <1>13, <1>14 DEF Next

LEMMA Always == Spec => []IInv
BY Initially, Inductive, PTL DEF Spec

-----------------------------------------------------------------------------
(* Theorems. *)

\* The variables keep their types, and a loop runs the handler of a request that is
\* being handled, one at a time (adapter.py:302-305).
THEOREM RoutesAreTyped == Spec => []TypeOK
BY Always, PTL DEF IInv, Shape

\* The runtime holds no event as delivered that no handler has ended on, and no
\* handler has been given one of another app (adapter.py:98-108).
THEOREM DeliveriesAreHandled == Spec => []DeliveredIsHandled
BY Always, PTL DEF IInv

\* What the answers say of the handlers is so, on every route
\* (adapter.py:255-258, 294-297, 322-328).
THEOREM RoutesTellTheTruth == Spec => []AnswersAreTrue
BY Always, PTL DEF IInv
=============================================================================
