------------------------------ MODULE RunResume -------------------------------
(***************************************************************************)
(* Resuming a paused run: approve_run, request_changes and resume_run of      *)
(* src/agent_runtime/client.py, and the requests and errors behind them.     *)
(* Of cancel_run only the effect on the run is modelled.                     *)
(*                                                                         *)
(* A run pauses for one interaction after the other.  Actors of the host     *)
(* learn of them from the run's events, which they read after a cursor that  *)
(* they keep (list_v2_events), or from the snapshot of the stream; they       *)
(* decide, and resume the run with the correlation fields that the README of *)
(* the repository asks for where a resume may be retried (README.md:143-152). *)
(* What they read may be over when they decide, a request may arrive after    *)
(* its sender has given up on it and sent it again, and a process that        *)
(* crashes reads and decides again from the cursor it had saved.             *)
(***************************************************************************)
EXTENDS Integers

CONSTANTS
  Actors,      \* who decides about interactions, each in a process of its own
  MaxPauses,   \* bound: how often the run pauses
  MaxFaults    \* bound: crashes, broken connections, failing and unreadable answers

ASSUME BoundsAssumption ==
  MaxPauses \in Nat \ {0} /\ MaxFaults \in Nat /\ "nobody" \notin Actors

Pauses == 1 .. MaxPauses

\* What an actor decides about the interaction of a pause.
Decisions == [actor : Actors, pause : Pauses]

\* The absence of a pause, and of a decision or a resume id.
NoPause == 0
NoDecision == [actor |-> "nobody", pause |-> NoPause]

-----------------------------------------------------------------------------
(* Requests and their answers. *)

\* Mutant: resume_id is left out.
Payload_NoResumeId(d) == [resume_id |-> NoDecision, interaction_id |-> d.pause]

\* Mutant: interaction_id is left out.
Payload_NoInteraction(d) == [resume_id |-> d, interaction_id |-> NoPause]

\* The fields of a resume that correlate it.  The host names a resume after the
\* actor and the interaction, which is stable over retries.
Payload(d) == [resume_id |-> d, interaction_id |-> d.pause]

Requests ==
  [decision : Decisions, try : 1 .. MaxFaults + 1,
   resume_id : Decisions \cup {NoDecision}, interaction_id : 0 .. MaxPauses]

\* What came back, or did not.  The only client error is the service's refusal, 409:
\* others, such as 401, 408 or 429, are client errors to client_error as well, but may
\* be answered by a proxy while an earlier try is still on its way.  They are left out.
Statuses == {200, 302, 409, 503}
Bodies == {"run", "empty", "garbled"}
Answers == [decision : Decisions, try : 1 .. MaxFaults + 1, status : Statuses, body : Bodies]

\* Mutant: one status is taken for all of them.
ClientError_BadRequest(status) == status = 400

\* Mutant: the upper end of the range is missing.
ClientError_Any(status) == 400 <= status

\* AgentRuntimeHTTPError.client_error
ClientError(status) == 400 <= status /\ status < 500

\* The call raises: for its status, or for a body that is no run (JSON that is not
\* valid, an empty body, which is None, or a document of another shape).
Failed(answer) == answer.status >= 300 \/ answer.body # "run"

VARIABLES
  run,        \* runtime: the status of the run and its latest pause
  resolved,   \* runtime: which decision resolved each pause
  resumes,    \* runtime: the resume ids it has carried out
  requests,   \* requests that the runtime has not answered
  answers,    \* answers on their way
  at,         \* where each actor is
  cursor,     \* the sequence number up to which each actor is done with the events
  about,      \* the pause that each actor has read of, if it is busy with one
  try,        \* how often the request for a decision was made
  told,       \* what became of a decision, as far as its actor knows
  faults

vars == <<run, resolved, resumes, requests, answers, at, cursor, about, try, told, faults>>
runtime == <<run, resolved, resumes>>
network == <<requests, answers>>

TypeOK ==
  /\ run \in [status : {"running", "paused", "completed", "cancelled"}, pause : 0 .. MaxPauses]
  /\ resolved \in [Pauses -> Decisions \cup {NoDecision}]
  /\ resumes \subseteq Decisions
  /\ requests \subseteq Requests
  /\ answers \subseteq Answers
  /\ at \in [Actors -> {"idle", "deciding", "waiting", "failed"}]
  /\ cursor \in [Actors -> 0 .. MaxPauses]
  /\ about \in [Actors -> 0 .. MaxPauses]
  /\ try \in [Decisions -> 0 .. MaxFaults + 1]
  /\ told \in [Decisions -> {"nothing", "resumed", "refused"}]
  /\ faults \in 0 .. MaxFaults

Init ==
  /\ run = [status |-> "running", pause |-> 0]
  /\ resolved = [p \in Pauses |-> NoDecision]
  /\ resumes = {} /\ requests = {} /\ answers = {}
  /\ at = [a \in Actors |-> "idle"]
  /\ cursor = [a \in Actors |-> 0]
  /\ about = [a \in Actors |-> 0]
  /\ try = [d \in Decisions |-> 0]
  /\ told = [d \in Decisions |-> "nothing"]
  /\ faults = 0

Goto(a, label) == at' = [at EXCEPT ![a] = label]

Decision(a) == [actor |-> a, pause |-> about[a]]

-----------------------------------------------------------------------------
(* The runtime. *)

Pause ==
  /\ run.status = "running" /\ run.pause < MaxPauses
  /\ run' = [status |-> "paused", pause |-> run.pause + 1]
  /\ UNCHANGED <<resolved, resumes, network, at, cursor, about, try, told, faults>>

Complete ==
  /\ run.status = "running"
  /\ run' = [run EXCEPT !.status = "completed"]
  /\ UNCHANGED <<resolved, resumes, network, at, cursor, about, try, told, faults>>

\* The effect of cancel_run, whoever calls it and however the call ends: its request
\* and its errors are not modelled.
Cancel ==
  /\ run.status \in {"running", "paused"}
  /\ run' = [run EXCEPT !.status = "cancelled"]
  /\ UNCHANGED <<resolved, resumes, network, at, cursor, about, try, told, faults>>

Repeated(request) == request.resume_id \in resumes

\* The request is about the interaction that is pending, or about any.
Pertinent(request) ==
  run.status = "paused" /\ request.interaction_id \in {NoPause, run.pause}

\* A resume is carried out, unless it was before or is about another interaction.
Effect(request) ==
  IF ~Repeated(request) /\ Pertinent(request)
  THEN /\ run' = [run EXCEPT !.status = "running"]
       /\ resolved' = [resolved EXCEPT ![run.pause] = request.decision]
       /\ resumes' = resumes \cup ({request.resume_id} \ {NoDecision})
  ELSE UNCHANGED runtime

Reply(request, status, body) ==
  /\ requests' = requests \ {request}
  /\ answers' = answers \cup
       {[decision |-> request.decision, try |-> request.try, status |-> status, body |-> body]}

Answer(request) ==
  /\ Effect(request)
  /\ Reply(request, IF Repeated(request) \/ Pertinent(request) THEN 200 ELSE 409, "run")
  /\ UNCHANGED <<at, cursor, about, try, told, faults>>

-----------------------------------------------------------------------------
(* The host and the client. *)

\* The sequence number after which list_v2_events reads: a cursor of 0 is not sent,
\* and the runtime starts at the beginning.
After(seq) == IF seq > 0 THEN seq ELSE 0

\* An actor reads a page of events and takes up the newest interaction in it, which
\* may be over.  The n-th pause has the sequence number n: other events do not
\* matter here.
Read(a) ==
  /\ at[a] = "idle"
  /\ \E n \in After(cursor[a]) + 1 .. run.pause : about' = [about EXCEPT ![a] = n]
  /\ Goto(a, "deciding")
  /\ UNCHANGED <<runtime, network, cursor, try, told, faults>>

\* It reads the snapshot of the stream instead, which tells whether the run is paused
\* and through which sequence number that is so.
ReadSnapshot(a) ==
  /\ at[a] = "idle"
  /\ \/ /\ run.status = "paused"
        /\ about' = [about EXCEPT ![a] = run.pause]
        /\ Goto(a, "deciding")
        /\ UNCHANGED cursor
     \/ /\ run.status # "paused"
        /\ cursor' = [cursor EXCEPT ![a] = run.pause]
        /\ UNCHANGED <<at, about>>
  /\ UNCHANGED <<runtime, network, try, told, faults>>

Send(a) ==
  LET d == Decision(a) IN
  /\ requests' = requests \cup
       {[decision |-> d, try |-> try[d] + 1,
         resume_id |-> Payload(d).resume_id, interaction_id |-> Payload(d).interaction_id]}
  /\ try' = [try EXCEPT ![d] = @ + 1]
  /\ Goto(a, "waiting")
  /\ UNCHANGED <<runtime, answers, cursor, about, told, faults>>

\* approve_run or request_changes
Decide(a) == at[a] = "deciding" /\ Send(a)

\* The host calls again when a call raised, except for a client error.
Retry(a) == at[a] = "failed" /\ Send(a)

\* The actor is done with the interaction and saves the cursor that follows it.
Conclude(a, outcome) ==
  /\ told' = [told EXCEPT ![Decision(a)] = outcome]
  /\ cursor' = [cursor EXCEPT ![a] = about[a]]
  /\ about' = [about EXCEPT ![a] = 0]
  /\ Goto(a, "idle")

\* _request and _raise_for_response, for the answer to the latest try.
Receive(a) ==
  /\ at[a] = "waiting"
  /\ \E answer \in answers :
       /\ answer.decision = Decision(a) /\ answer.try = try[Decision(a)]
       /\ \/ ~Failed(answer) /\ Conclude(a, "resumed")
          \/ Failed(answer) /\ ClientError(answer.status) /\ Conclude(a, "refused")
          \/ /\ Failed(answer) /\ ~ClientError(answer.status)
             /\ Goto(a, "failed")
             /\ UNCHANGED <<told, cursor, about>>
       /\ answers' = answers \ {answer}
  /\ UNCHANGED <<runtime, requests, try, faults>>

-----------------------------------------------------------------------------
(* Faults. *)

Fail ==
  /\ faults < MaxFaults
  /\ faults' = faults + 1

\* The connection breaks or the client's timeout is over: httpx raises.  The
\* request may be lost, or arrive yet.
BreakConnection(a) ==
  /\ Fail
  /\ at[a] = "waiting"
  /\ LET mine == {request \in requests :
                    request.decision = Decision(a) /\ request.try = try[Decision(a)]}
     IN requests' \in {requests, requests \ mine}
  /\ Goto(a, "failed")
  /\ UNCHANGED <<runtime, answers, cursor, about, try, told>>

\* A proxy or the runtime answers without having done anything, with a status that is
\* no client error (see Statuses).
TurnAway(request) ==
  /\ Fail
  /\ \E status \in {302, 503} : Reply(request, status, "garbled")
  /\ UNCHANGED <<runtime, at, cursor, about, try, told>>

\* The runtime has done what was asked, and its answer says otherwise or nothing.
AnswerBadly(request) ==
  /\ Fail
  /\ Repeated(request) \/ Pertinent(request)
  /\ Effect(request)
  /\ \/ Reply(request, 503, "garbled")
     \/ \E body \in {"empty", "garbled"} : Reply(request, 200, body)
  /\ UNCHANGED <<at, cursor, about, try, told>>

\* The actor's process crashes, and what it was busy with is forgotten.
Crash(a) ==
  /\ Fail
  /\ at[a] # "idle"
  /\ Goto(a, "idle")
  /\ about' = [about EXCEPT ![a] = 0]
  /\ UNCHANGED <<runtime, network, cursor, try, told>>

\* A page of events has no next_sequence_no, and the host saves its default of 0.
CursorMissing(a) ==
  /\ Fail
  /\ at[a] = "idle" /\ cursor[a] > 0
  /\ cursor' = [cursor EXCEPT ![a] = 0]
  /\ UNCHANGED <<runtime, network, at, about, try, told>>

-----------------------------------------------------------------------------
Step(a) == Read(a) \/ Decide(a) \/ Retry(a) \/ Receive(a)

Finished ==
  /\ run.status \in {"completed", "cancelled"}
  /\ \A a \in Actors : at[a] = "idle"
  /\ UNCHANGED vars

Next ==
  \/ Pause \/ Complete \/ Cancel \/ Finished
  \/ \E a \in Actors :
       Step(a) \/ ReadSnapshot(a) \/ BreakConnection(a) \/ Crash(a) \/ CursorMissing(a)
  \/ \E request \in requests : Answer(request) \/ TurnAway(request) \/ AnswerBadly(request)

\* Actors read, decide, wait and retry; the runtime answers what reaches it.
Fairness ==
  /\ \A a \in Actors : WF_vars(Step(a))
  /\ WF_vars(\E request \in requests : Answer(request))

Spec == Init /\ [][Next]_vars

FairSpec == Spec /\ Fairness

-----------------------------------------------------------------------------
\* A pause is resolved by a decision about its own interaction, though requests
\* are retried and late, and the run has paused again (client.py:376-412).
DecisionsMeetTheirPause ==
  \A p \in Pauses : resolved[p] # NoDecision => resolved[p].pause = p

\* What a call tells is what has happened: an actor who sees no error has resumed
\* the run, and one who sees a client error has not, by none of its tries
\* (client.py:57-59, 367-374, 420-453).  The second half is about the service's own
\* refusal: a 401, 408 or 429 that is the answer to a retry would break it, if the host
\* took it as final, for the first try may be carried out yet.
ToldTheTruth ==
  \A d \in Decisions :
    /\ told[d] = "resumed" => resolved[d.pause] = d
    /\ told[d] = "refused" => resolved[d.pause] # d

\* While anyone watches the run it does not stay paused: a failed call is raised
\* as such, and therefore made again (client.py:367-374, 420-453).  As above, this is of
\* a host that does not take a 401, 408 or 429 as final.
RunGoesOn == run.status = "paused" ~> run.status # "paused"
=============================================================================
