----------------------- MODULE AgentRuntimeClient_proofs -----------------------
(***************************************************************************)
(* Proofs about the two modules that model AgentRuntimeClient of              *)
(* src/agent_runtime/client.py.                                               *)
(*                                                                         *)
(* RunResume, for any actors, pauses and faults: a decision resolves the      *)
(* pause that it is about, what a call tells has happened, and no request is  *)
(* made more often than faults account for.  Its specification is Spec.       *)
(*                                                                         *)
(* EventStream, for any event types and any number of frames: what the        *)
(* iterator yields is what the server meant, an iteration that returns is     *)
(* complete, and one that raises has a cause.  Its specification is           *)
(* StreamSpec.                                                               *)
(***************************************************************************)
EXTENDS RunResume, EventStream, SequenceTheorems, TLAPS


-----------------------------------------------------------------------------
(* The resumes: the inductive invariant. *)

\* A pause is over: no resume can have an effect on it any more.
Passed(p) == p <= run.pause /\ ~(run.status = "paused" /\ run.pause = p)

\* The runtime's own state: what is not over is not resolved, a decision that has
\* resolved a pause is on record and was about that pause.
Runtime ==
  /\ run \in [status : {"running", "paused", "completed", "cancelled"}, pause : 0 .. MaxPauses]
  /\ run.status = "paused" => run.pause \in Pauses
  /\ resolved \in [Pauses -> Decisions \cup {NoDecision}]
  /\ resumes \subseteq Decisions
  /\ \A p \in Pauses : ~Passed(p) => resolved[p] = NoDecision
  /\ \A d \in Decisions : d \in resumes <=> resolved[d.pause] = d
  /\ DecisionsMeetTheirPause

\* The variables of the hosts.
Hosts ==
  /\ at \in [Actors -> {"idle", "deciding", "waiting", "failed"}]
  /\ cursor \in [Actors -> 0 .. MaxPauses]
  /\ about \in [Actors -> 0 .. MaxPauses]
  /\ try \in [Decisions -> Nat]
  /\ told \in [Decisions -> {"nothing", "resumed", "refused"}]
  /\ faults \in 0 .. MaxFaults

\* An actor is busy with a pause that has begun and that it is not done with, and
\* it is done only with pauses that are over.
Reading ==
  \A a \in Actors :
    /\ about[a] <= run.pause
    /\ at[a] = "idle" <=> about[a] = 0
    /\ at[a] # "idle" => cursor[a] < about[a]
    /\ \A p \in Pauses : p <= cursor[a] => Passed(p)

\* A request is made once, and once more for each fault.
Tries ==
  \A d \in Decisions :
    /\ try[d] <= faults + 1
    /\ cursor[d.actor] < d.pause /\ ~(at[d.actor] = "waiting" /\ about[d.actor] = d.pause)
         => try[d] <= faults

\* The requests on their way carry their correlation.
Asked ==
  \A request \in requests :
    /\ request \in [decision : Decisions, try : Nat \ {0},
                    resume_id : Decisions \cup {NoDecision}, interaction_id : 0 .. MaxPauses]
    /\ request.resume_id = request.decision
    /\ request.interaction_id = request.decision.pause
    /\ request.decision.pause <= run.pause
    /\ request.try <= try[request.decision]

\* What an answer says is so and remains so, and the others are faults.
Answered ==
  \A answer \in answers :
    /\ answer \in [decision : Decisions, try : Nat \ {0}, status : Statuses, body : Bodies]
    /\ answer.try <= faults + 1
    /\ ~Failed(answer) => resolved[answer.decision.pause] = answer.decision
    /\ Failed(answer) /\ ClientError(answer.status) =>
         Passed(answer.decision.pause) /\ resolved[answer.decision.pause] # answer.decision
    /\ Failed(answer) /\ ~ClientError(answer.status) => answer.try <= faults

\* And so is what the actors were told.
Told ==
  \A d \in Decisions :
    /\ told[d] = "resumed" => resolved[d.pause] = d
    /\ told[d] = "refused" => Passed(d.pause) /\ resolved[d.pause] # d

IInv == Runtime /\ Hosts /\ Reading /\ Tries /\ Asked /\ Answered /\ Told

-----------------------------------------------------------------------------
(* The resumes: lemmas. *)

\* A decision names an actor and a pause, and differs from the absence of one.
LEMMA DecisionsAreTyped ==
  /\ \A d \in Decisions : d.actor \in Actors /\ d.pause \in Pauses /\ d # NoDecision
  /\ \A p \in Pauses : p \in Nat \ {0} /\ p \in Int
  /\ \A n \in 0 .. MaxPauses : n \in Nat /\ n \in Int
  /\ Pauses \subseteq Nat \ {0} /\ MaxPauses \in Nat /\ MaxFaults \in Nat
BY BoundsAssumption DEF Decisions, Pauses, NoDecision, NoPause

\* The status that tells that nothing was done is a client error, and the only one.
LEMMA Refusals ==
  ASSUME NEW answer \in [decision : Decisions, try : Nat \ {0}, status : Statuses, body : Bodies]
  PROVE  /\ ClientError(answer.status) <=> answer.status = 409
         /\ answer.status \in {302, 409, 503} => Failed(answer)
         /\ answer.status = 200 => (Failed(answer) <=> answer.body # "run")
BY DEF Statuses, ClientError, Failed

\* The invariant has the types and what is promised.
LEMMA Implies == IInv => TypeOK /\ DecisionsMeetTheirPause /\ ToldTheTruth
<1>1. SUFFICES ASSUME IInv PROVE TypeOK /\ DecisionsMeetTheirPause /\ ToldTheTruth
  OBVIOUS
<1>2. try \in [Decisions -> 0 .. MaxFaults + 1]
  <2>1. \A d \in Decisions : try[d] \in 0 .. MaxFaults + 1
    BY <1>1, DecisionsAreTyped DEF IInv, Hosts, Tries
  <2>2. QED
    BY <1>1, <2>1 DEF IInv, Hosts
<1>3. requests \subseteq Requests
  <2>1. ASSUME NEW request \in requests PROVE request \in Requests
    BY <1>1, <1>2, <2>1, DecisionsAreTyped DEF IInv, Asked, Hosts, Requests
  <2>2. QED
    BY <2>1
<1>4. answers \subseteq Answers
  BY <1>1, DecisionsAreTyped DEF IInv, Answered, Hosts, Answers
<1>5. QED
  BY <1>1, <1>2, <1>3, <1>4 DEF IInv, Runtime, Hosts, Told, TypeOK, ToldTheTruth

\* What a step of the runtime leaves as it was: pauses that are over.
Onward ==
  /\ run.pause <= run'.pause
  /\ \A p \in Pauses : Passed(p) => Passed(p)' /\ resolved'[p] = resolved[p]

LEMMA TruthStands ==
  ASSUME Runtime, Onward, NEW d \in Decisions
  PROVE  /\ resolved[d.pause] = d => resolved'[d.pause] = d
         /\ Passed(d.pause) /\ resolved[d.pause] # d
              => Passed(d.pause)' /\ resolved'[d.pause] # d
BY DecisionsAreTyped DEF Runtime, Onward

LEMMA Unmoved ==
  ASSUME Runtime, UNCHANGED runtime
  PROVE  Runtime' /\ Onward
BY DEF Runtime, Onward, Passed, runtime, DecisionsMeetTheirPause

\* The runtime carries a resume out on the pause that it is about, or finds that it
\* was before, or that the pause is over and was resolved otherwise.
LEMMA EffectIsRight ==
  ASSUME Runtime, Asked, NEW request \in requests, Effect(request)
  PROVE  /\ Runtime' /\ Onward
         /\ Repeated(request) \/ Pertinent(request)
              => resolved'[request.decision.pause] = request.decision
         /\ ~(Repeated(request) \/ Pertinent(request))
              => /\ Passed(request.decision.pause)'
                 /\ resolved'[request.decision.pause] # request.decision
<1>. DEFINE d == request.decision
<1>1. /\ d \in Decisions /\ d.pause \in Pauses /\ d # NoDecision
      /\ request.resume_id = d /\ request.interaction_id = d.pause /\ d.pause <= run.pause
  BY DecisionsAreTyped DEF Asked
<1>2. CASE ~Repeated(request) /\ Pertinent(request)
  <2>1. run.status = "paused" /\ run.pause = d.pause /\ run.pause \in Pauses
    BY <1>1, <1>2, DecisionsAreTyped DEF Pertinent, NoPause
  <2>2. /\ run' = [run EXCEPT !.status = "running"]
        /\ resolved' = [resolved EXCEPT ![d.pause] = d]
        /\ resumes' = resumes \cup {d}
    BY <1>1, <1>2, <2>1 DEF Effect
  <2>3. \A p \in Pauses : (Passed(p) => Passed(p)') /\ (~Passed(p)' => ~Passed(p))
    BY <2>1, <2>2, DecisionsAreTyped DEF Passed, Runtime
  <2>4. Passed(d.pause)' /\ ~Passed(d.pause)
    BY <1>1, <2>1, <2>2, DecisionsAreTyped DEF Passed, Runtime
  <2>5. \A e \in Decisions : e \in resumes' <=> resolved'[e.pause] = e
    BY <1>1, <2>2, <2>4, DecisionsAreTyped DEF Runtime
  <2>6. \A p \in Pauses : ~Passed(p)' => resolved'[p] = NoDecision
    BY <1>1, <2>2, <2>3, <2>4 DEF Runtime
  <2>7. DecisionsMeetTheirPause'
    BY <1>1, <2>2, DecisionsAreTyped DEF Runtime, DecisionsMeetTheirPause
  <2>8. Runtime'
    BY <1>1, <2>1, <2>2, <2>5, <2>6, <2>7 DEF Runtime
  <2>9. Onward
    BY <1>1, <2>1, <2>2, <2>3, <2>4, DecisionsAreTyped DEF Runtime, Onward
  <2>10. resolved'[d.pause] = d
    BY <1>1, <2>2 DEF Runtime
  <2>11. QED
    BY <1>2, <2>8, <2>9, <2>10
<1>3. CASE Repeated(request) \/ ~Pertinent(request)
  <2>1. UNCHANGED runtime
    BY <1>3 DEF Effect
  <2>2. Runtime' /\ Onward
    BY <2>1, Unmoved
  <2>3. Repeated(request) => resolved'[d.pause] = d
    BY <1>1, <2>1 DEF Runtime, Repeated, runtime
  <2>4. ~Repeated(request) => resolved'[d.pause] # d
    BY <1>1, <2>1 DEF Runtime, Repeated, runtime
  <2>5. ~Pertinent(request) => Passed(d.pause)'
    BY <1>1, <2>1 DEF Pertinent, Passed, runtime
  <2>6. QED
    BY <1>3, <2>2, <2>3, <2>4, <2>5
<1>4. QED
  BY <1>2, <1>3

\* Answers on their way stay true whatever the runtime does next.
LEMMA AnswersStand ==
  ASSUME Runtime, Onward, Answered, NEW answer \in answers, faults' \in {faults, faults + 1},
         faults \in Nat
  PROVE  /\ answer \in [decision : Decisions, try : Nat \ {0}, status : Statuses, body : Bodies]
         /\ answer.try <= faults' + 1
         /\ ~Failed(answer) => resolved'[answer.decision.pause] = answer.decision
         /\ Failed(answer) /\ ClientError(answer.status) =>
              Passed(answer.decision.pause)' /\ resolved'[answer.decision.pause] # answer.decision
         /\ Failed(answer) /\ ~ClientError(answer.status) => answer.try <= faults'
<1>1. answer.decision \in Decisions /\ answer.try \in Nat
  BY DEF Answered
<1>2. QED
  BY <1>1, TruthStands DEF Answered

\* A new answer is as good as the others, if it tells what was done or is a fault.
LEMMA ReplyIsTrue ==
  ASSUME Runtime, Onward, Answered, Asked, Tries, Hosts,
         NEW request \in requests, NEW code \in Statuses, NEW body \in Bodies,
         Reply(request, code, body), faults' \in {faults, faults + 1},
         code = 200 /\ body = "run" => resolved'[request.decision.pause] = request.decision,
         code = 409 =>
           Passed(request.decision.pause)' /\ resolved'[request.decision.pause] # request.decision,
         code # 409 /\ ~(code = 200 /\ body = "run") => faults' = faults + 1
  PROVE  Answered'
<1>. DEFINE new == [decision |-> request.decision, try |-> request.try,
                    status |-> code, body |-> body]
<1>1. /\ request.decision \in Decisions /\ request.try \in Nat \ {0}
      /\ request.try <= faults + 1 /\ faults \in Nat
  BY DecisionsAreTyped DEF Asked, Tries, Hosts
<1>2. /\ new \in [decision : Decisions, try : Nat \ {0}, status : Statuses, body : Bodies]
      /\ new.decision = request.decision /\ new.try = request.try
      /\ new.status = code /\ new.body = body
  BY <1>1
<1>3. /\ ~Failed(new) <=> code = 200 /\ body = "run"
      /\ ClientError(new.status) <=> code = 409
  BY <1>2, Refusals DEF Statuses
<1>4. answers' = answers \cup {new}
  BY DEF Reply
<1>. HIDE DEF new
<1>5. ASSUME NEW answer \in answers'
      PROVE  /\ answer \in [decision : Decisions, try : Nat \ {0}, status : Statuses, body : Bodies]
             /\ answer.try <= faults' + 1
             /\ ~Failed(answer) => resolved'[answer.decision.pause] = answer.decision
             /\ Failed(answer) /\ ClientError(answer.status) =>
                  /\ Passed(answer.decision.pause)'
                  /\ resolved'[answer.decision.pause] # answer.decision
             /\ Failed(answer) /\ ~ClientError(answer.status) => answer.try <= faults'
  <2>1. CASE answer \in answers
    BY <1>1, <2>1, AnswersStand
  <2>2. CASE answer = new
    BY <1>1, <1>2, <1>3, <2>2
  <2>3. QED
    BY <1>4, <1>5, <2>1, <2>2
<1>6. QED
  BY <1>5 DEF Answered, Failed, ClientError, Passed

LEMMA FewerAnswers ==
  ASSUME Runtime, Onward, Answered, answers' \subseteq answers, faults' \in {faults, faults + 1},
         faults \in Nat
  PROVE  Answered'
<1>1. ASSUME NEW answer \in answers'
      PROVE  /\ answer \in [decision : Decisions, try : Nat \ {0}, status : Statuses, body : Bodies]
             /\ answer.try <= faults' + 1
             /\ ~Failed(answer) => resolved'[answer.decision.pause] = answer.decision
             /\ Failed(answer) /\ ClientError(answer.status) =>
                  /\ Passed(answer.decision.pause)'
                  /\ resolved'[answer.decision.pause] # answer.decision
             /\ Failed(answer) /\ ~ClientError(answer.status) => answer.try <= faults'
  BY <1>1, AnswersStand
<1>2. QED
  BY <1>1 DEF Answered, Failed, ClientError, Passed

\* What the hosts have stands when the runtime goes on.
LEMMA HostsStand ==
  ASSUME IInv, Onward, requests' \subseteq requests, UNCHANGED <<at, cursor, about, try, told>>,
         faults' \in {faults, faults + 1}, faults' <= MaxFaults,
         run'.pause \in Nat
  PROVE  Hosts' /\ Reading' /\ Tries' /\ Told' /\ Asked'
<1>1. Hosts'
  BY DecisionsAreTyped DEF IInv, Hosts
<1>2. Reading'
  <2>1. ASSUME NEW a \in Actors PROVE about[a] <= run'.pause
    BY <2>1, DecisionsAreTyped DEF IInv, Hosts, Reading, Onward, Runtime
  <2>2. ASSUME NEW a \in Actors, NEW p \in Pauses, p <= cursor[a] PROVE Passed(p)'
    BY <2>2 DEF IInv, Reading, Onward
  <2>3. QED
    BY <2>1, <2>2 DEF IInv, Reading
<1>3. Tries'
  BY DecisionsAreTyped DEF IInv, Tries, Hosts
<1>4. Told'
  <2>1. ASSUME NEW d \in Decisions
        PROVE  /\ told'[d] = "resumed" => resolved'[d.pause] = d
               /\ told'[d] = "refused" => Passed(d.pause)' /\ resolved'[d.pause] # d
    BY <2>1, TruthStands DEF IInv, Told
  <2>2. QED
    BY <2>1 DEF Told
<1>5. Asked'
  BY DecisionsAreTyped DEF IInv, Asked, Onward, Runtime, Decisions
<1>6. QED
  BY <1>1, <1>2, <1>3, <1>4, <1>5

\* A step of the runtime of its own accord.
LEMMA RuntimeGoesOn ==
  ASSUME IInv, Pause \/ Complete \/ Cancel
  PROVE  IInv'
<1>1. /\ \A p \in Pauses : (Passed(p) => Passed(p)') /\ (~Passed(p)' => ~Passed(p) \/ p > run.pause)
      /\ run.pause <= run'.pause
  BY DecisionsAreTyped DEF IInv, Runtime, Passed, Pause, Complete, Cancel
<1>2. /\ run' \in [status : {"running", "paused", "completed", "cancelled"}, pause : 0 .. MaxPauses]
      /\ run'.status = "paused" => run'.pause \in Pauses
  BY DecisionsAreTyped DEF IInv, Runtime, Pause, Complete, Cancel, Pauses
<1>3. UNCHANGED <<resolved, resumes, requests, answers, at, cursor, about, try, told, faults>>
  BY DEF Pause, Complete, Cancel, network
<1>4. \A p \in Pauses : ~Passed(p)' => ~Passed(p)
  BY <1>1
<1>5. Runtime' /\ Onward
  BY <1>1, <1>2, <1>3, <1>4 DEF IInv, Runtime, Onward, DecisionsMeetTheirPause
<1>6. faults \in Nat /\ faults <= MaxFaults /\ run'.pause \in Nat
  BY <1>2, DecisionsAreTyped DEF IInv, Hosts
<1>7. Hosts' /\ Reading' /\ Tries' /\ Told' /\ Asked'
  BY <1>3, <1>5, <1>6, HostsStand
<1>8. Answered'
  BY <1>3, <1>5, <1>6, FewerAnswers DEF IInv
<1>9. QED
  BY <1>5, <1>7, <1>8 DEF IInv

\* An answer of the runtime, of something before it, or of neither kind.
LEMMA RuntimeAnswers ==
  ASSUME IInv, NEW request \in requests,
         Answer(request) \/ TurnAway(request) \/ AnswerBadly(request)
  PROVE  IInv'
<1>1. /\ faults \in Nat /\ faults' \in {faults, faults + 1} /\ faults' <= MaxFaults
      /\ UNCHANGED <<at, cursor, about, try, told>> /\ requests' \subseteq requests
  BY DecisionsAreTyped DEF IInv, Hosts, Answer, TurnAway, AnswerBadly, Fail, Reply
<1>2. /\ Runtime' /\ Onward
  BY EffectIsRight, Unmoved DEF IInv, Answer, TurnAway, AnswerBadly
<1>3. run'.pause \in Nat
  BY <1>2, DecisionsAreTyped DEF Runtime
<1>4. Answered'
  <2>1. CASE Answer(request)
    <3>1. CASE Repeated(request) \/ Pertinent(request)
      <4>1. Reply(request, 200, "run")
        BY <2>1, <3>1 DEF Answer
      <4>2. resolved'[request.decision.pause] = request.decision
        BY <2>1, <3>1, EffectIsRight DEF IInv, Answer
      <4>3. QED
        BY <1>1, <1>2, <4>1, <4>2, ReplyIsTrue DEF IInv, Statuses, Bodies
    <3>2. CASE ~(Repeated(request) \/ Pertinent(request))
      <4>1. Reply(request, 409, "run")
        BY <2>1, <3>2 DEF Answer
      <4>2. Passed(request.decision.pause)' /\ resolved'[request.decision.pause] # request.decision
        BY <2>1, <3>2, EffectIsRight DEF IInv, Answer
      <4>3. QED
        BY <1>1, <1>2, <4>1, <4>2, ReplyIsTrue DEF IInv, Statuses, Bodies
    <3>3. QED
      BY <3>1, <3>2
  <2>2. CASE TurnAway(request)
    <3>1. PICK code \in {302, 503} : Reply(request, code, "garbled")
      BY <2>2 DEF TurnAway
    <3>2. faults' = faults + 1
      BY <2>2 DEF TurnAway, Fail
    <3>3. QED
      BY <1>1, <1>2, <3>1, <3>2, ReplyIsTrue DEF IInv, Statuses, Bodies
  <2>3. CASE AnswerBadly(request)
    <3>1. PICK code \in {200, 503}, body \in {"empty", "garbled"} : Reply(request, code, body)
      BY <2>3 DEF AnswerBadly
    <3>2. faults' = faults + 1
      BY <2>3 DEF AnswerBadly, Fail
    <3>3. QED
      BY <1>1, <1>2, <3>1, <3>2, ReplyIsTrue DEF IInv, Statuses, Bodies
  <2>4. QED
    BY <2>1, <2>2, <2>3
<1>5. QED
  BY <1>1, <1>2, <1>3, <1>4, HostsStand DEF IInv

\* What a step of an actor leaves alone: the runtime, and answers but one taken.
LEMMA RuntimeStands ==
  ASSUME IInv, UNCHANGED runtime, answers' \subseteq answers, faults' \in {faults, faults + 1}
  PROVE  /\ Runtime' /\ Onward /\ Answered' /\ run'.pause \in Nat
         /\ \A p \in Pauses : Passed(p)' <=> Passed(p)
         /\ \A d \in Decisions :
              /\ told[d] = "resumed" => resolved'[d.pause] = d
              /\ told[d] = "refused" => Passed(d.pause)' /\ resolved'[d.pause] # d
<1>1. Runtime' /\ Onward
  BY Unmoved DEF IInv
<1>2. faults \in Nat
  BY DecisionsAreTyped DEF IInv, Hosts
<1>3. Answered'
  BY <1>1, <1>2, FewerAnswers DEF IInv
<1>4. QED
  BY <1>1, <1>3, DecisionsAreTyped DEF IInv, Runtime, Told, Passed, runtime

\* An actor reads of a pause.
LEMMA ReadsAreRight ==
  ASSUME IInv, NEW a \in Actors, Read(a) \/ ReadSnapshot(a)
  PROVE  IInv'
<1>1. /\ UNCHANGED <<runtime, requests, answers, try, told, faults>>
      /\ at[a] = "idle"
  BY DEF Read, ReadSnapshot, network
<1>2. /\ Runtime' /\ Answered'
      /\ \A p \in Pauses : Passed(p)' <=> Passed(p)
  BY <1>1, RuntimeStands DEF IInv
<1>3. Told' /\ Asked'
  BY <1>1, <1>2, DecisionsAreTyped DEF IInv, Told, Asked, runtime
<1>4. CASE \E n \in cursor[a] + 1 .. run.pause :
             about' = [about EXCEPT ![a] = n] /\ Goto(a, "deciding") /\ UNCHANGED cursor
  <2>1. PICK n \in cursor[a] + 1 .. run.pause : about' = [about EXCEPT ![a] = n]
    BY <1>4
  <2>2. n \in 0 .. MaxPauses /\ n # 0 /\ cursor[a] < n /\ n <= run.pause
    BY <2>1, DecisionsAreTyped DEF IInv, Hosts, Runtime
  <2>3. Hosts'
    BY <1>1, <1>4, <2>1, <2>2 DEF IInv, Hosts, Goto
  <2>4. Reading'
    BY <1>1, <1>2, <1>4, <2>1, <2>2 DEF IInv, Hosts, Reading, Goto, runtime
  <2>5. Tries'
    BY <1>1, <1>4, <2>1, DecisionsAreTyped DEF IInv, Hosts, Tries, Goto
  <2>6. QED
    BY <1>2, <1>3, <2>3, <2>4, <2>5 DEF IInv
<1>5. CASE ReadSnapshot(a) /\ run.status # "paused"
  <2>1. cursor' = [cursor EXCEPT ![a] = run.pause] /\ UNCHANGED <<at, about>>
    BY <1>5 DEF ReadSnapshot
  <2>2. run.pause \in 0 .. MaxPauses /\ cursor[a] <= run.pause
    BY DecisionsAreTyped DEF IInv, Runtime, Hosts, Reading, Passed, Pauses
  <2>3. \A p \in Pauses : p <= run.pause => Passed(p)
    BY <1>5 DEF Passed
  <2>4. Hosts'
    BY <1>1, <2>1, <2>2 DEF IInv, Hosts
  <2>5. Reading'
    BY <1>1, <1>2, <2>1, <2>2, <2>3, DecisionsAreTyped DEF IInv, Hosts, Reading, runtime
  <2>6. \A e \in Decisions : cursor'[e.actor] < e.pause => cursor[e.actor] < e.pause
    <3>1. ASSUME NEW b \in Actors PROVE cursor[b] <= cursor'[b] /\ cursor[b] \in Int /\ cursor'[b] \in Int
      BY <2>1, <2>2, <2>4 DEF IInv, Hosts
    <3>2. ASSUME NEW e \in Decisions, cursor'[e.actor] < e.pause
          PROVE  cursor[e.actor] < e.pause
      <4>1. e.actor \in Actors /\ e.pause \in Int
        BY <3>2, DecisionsAreTyped
      <4>2. QED
        BY <3>1, <3>2, <4>1
    <3>3. QED
      BY <3>2
  <2>7. Tries'
    BY <1>1, <2>1, <2>6 DEF IInv, Tries
  <2>8. QED
    BY <1>2, <1>3, <2>4, <2>5, <2>7 DEF IInv
<1>6. CASE ReadSnapshot(a) /\ run.status = "paused"
  <2>1. run.pause \in Pauses /\ ~Passed(run.pause)
    BY <1>6 DEF IInv, Runtime, Passed
  <2>2. cursor[a] < run.pause
    <3>1. ~(run.pause <= cursor[a])
      BY <2>1 DEF IInv, Reading
    <3>2. run.pause \in Int /\ cursor[a] \in Int
      BY <2>1, DecisionsAreTyped DEF IInv, Hosts
    <3>3. QED
      BY <3>1, <3>2
  <2>3. run.pause \in cursor[a] + 1 .. run.pause
    <3>1. run.pause \in Int /\ cursor[a] \in Int
      BY <2>1, DecisionsAreTyped DEF IInv, Hosts
    <3>2. QED
      BY <2>2, <3>1
  <2>4. QED
    BY <1>4, <1>6, <2>3 DEF ReadSnapshot
<1>7. CASE Read(a)
  <2>1. After(cursor[a]) = cursor[a]
    BY DecisionsAreTyped DEF IInv, Hosts, After
  <2>2. QED
    BY <1>4, <1>7, <2>1 DEF Read
<1>8. QED
  BY <1>5, <1>6, <1>7

\* An actor sends its decision, for the first time or again.
LEMMA SendsAreRight ==
  ASSUME IInv, NEW a \in Actors, at[a] \in {"deciding", "failed"}, Send(a)
  PROVE  IInv'
<1>. DEFINE d == Decision(a)
            new == [decision |-> d, try |-> try[d] + 1, resume_id |-> d, interaction_id |-> d.pause]
<1>1. /\ about[a] \in Pauses /\ about[a] <= run.pause /\ cursor[a] < about[a]
      /\ d \in Decisions /\ d.actor = a /\ d.pause = about[a]
  BY DecisionsAreTyped DEF IInv, Hosts, Reading, Decision, Decisions, Pauses
<1>2. try[d] \in Nat /\ try[d] <= faults
  BY <1>1 DEF IInv, Hosts, Tries
<1>3. /\ UNCHANGED <<run, resolved, resumes, answers, cursor, about, told, faults>>
      /\ at' = [at EXCEPT ![a] = "waiting"]
      /\ try' = [try EXCEPT ![d] = try[d] + 1]
      /\ requests' = requests \cup {new}
  BY DEF Send, Goto, Payload, runtime
<1>4. /\ Runtime' /\ Answered'
      /\ \A p \in Pauses : Passed(p)' <=> Passed(p)
  BY <1>3, RuntimeStands DEF IInv, runtime
<1>5. Told'
  BY <1>3, <1>4, DecisionsAreTyped DEF IInv, Told
<1>6. Hosts'
  BY <1>1, <1>2, <1>3 DEF IInv, Hosts
<1>7. Reading'
  BY <1>1, <1>3, <1>4 DEF IInv, Hosts, Reading
<1>8. Tries'
  <2>1. ASSUME NEW e \in Decisions
        PROVE  /\ try'[e] <= faults + 1
               /\ cursor[e.actor] < e.pause /\ ~(at'[e.actor] = "waiting" /\ about[e.actor] = e.pause)
                    => try'[e] <= faults
    <3>1. CASE e = d
      BY <1>1, <1>2, <1>3, <3>1, DecisionsAreTyped DEF IInv, Hosts
    <3>2. CASE e # d
      <4>1. e.actor = a => e.pause # about[a]
        BY <1>1, <2>1, <3>2 DEF Decisions
      <4>2. try'[e] = try[e]
        BY <1>3, <2>1, <3>2 DEF IInv, Hosts
      <4>3. at'[e.actor] = "waiting" /\ about[e.actor] = e.pause => at[e.actor] = "waiting"
        BY <1>3, <2>1, <4>1, DecisionsAreTyped DEF IInv, Hosts
      <4>4. at[e.actor] = "waiting" => at'[e.actor] = "waiting"
        BY <1>3, <2>1, DecisionsAreTyped DEF IInv, Hosts
      <4>5. QED
        BY <2>1, <4>2, <4>4 DEF IInv, Tries
    <3>3. QED
      BY <3>1, <3>2
  <2>2. QED
    BY <1>3, <2>1 DEF Tries
<1>9. Asked'
  <2>1. new \in [decision : Decisions, try : Nat \ {0},
                 resume_id : Decisions \cup {NoDecision}, interaction_id : 0 .. MaxPauses]
    BY <1>1, <1>2, DecisionsAreTyped DEF Pauses
  <2>2. ASSUME NEW request \in requests
        PROVE  request.try <= try'[request.decision]
    BY <1>1, <1>2, <1>3, <2>2 DEF IInv, Asked, Hosts
  <2>3. new.try <= try'[new.decision] /\ new.decision.pause <= run.pause
    BY <1>1, <1>2, <1>3 DEF IInv, Hosts
  <2>4. QED
    BY <1>3, <2>1, <2>2, <2>3 DEF IInv, Asked
<1>10. QED
  BY <1>4, <1>5, <1>6, <1>7, <1>8, <1>9 DEF IInv

\* An actor receives an answer: it is done with the pause, or the call has failed.
LEMMA ReceivesAreRight ==
  ASSUME IInv, NEW a \in Actors, Receive(a)
  PROVE  IInv'
<1>. DEFINE d == Decision(a)
<1>1. at[a] = "waiting" /\ UNCHANGED <<runtime, requests, try, faults>>
  BY DEF Receive
<1>2. PICK answer \in answers :
        /\ answer.decision = d /\ answer.try = try[d]
        /\ \/ ~Failed(answer) /\ Conclude(a, "resumed")
           \/ Failed(answer) /\ ClientError(answer.status) /\ Conclude(a, "refused")
           \/ /\ Failed(answer) /\ ~ClientError(answer.status)
              /\ Goto(a, "failed")
              /\ UNCHANGED <<told, cursor, about>>
        /\ answers' = answers \ {answer}
  BY DEF Receive
<1>3. /\ about[a] \in Pauses /\ about[a] <= run.pause /\ cursor[a] < about[a]
      /\ d \in Decisions /\ d.actor = a /\ d.pause = about[a] /\ d # NoDecision
  BY <1>1, DecisionsAreTyped DEF IInv, Hosts, Reading, Decision, Decisions, Pauses
<1>4. /\ Runtime' /\ Answered'
      /\ \A p \in Pauses : Passed(p)' <=> Passed(p)
  BY <1>1, <1>2, RuntimeStands DEF IInv
<1>5. Asked'
  BY <1>1 DEF IInv, Asked, runtime
<1>6. ASSUME NEW outcome \in {"resumed", "refused"}, Conclude(a, outcome), Passed(about[a]),
             outcome = "resumed" => resolved[d.pause] = d,
             outcome = "refused" => resolved[d.pause] # d
      PROVE  IInv'
  <2>1. /\ told' = [told EXCEPT ![d] = outcome]
        /\ cursor' = [cursor EXCEPT ![a] = about[a]]
        /\ about' = [about EXCEPT ![a] = 0]
        /\ at' = [at EXCEPT ![a] = "idle"]
    BY <1>6 DEF Conclude, Goto
  <2>2. Hosts'
    BY <1>1, <1>3, <2>1, DecisionsAreTyped DEF IInv, Hosts
  <2>3. \A p \in Pauses : p <= about[a] => Passed(p)
    <3>1. run.pause \in Int /\ about[a] \in Int /\ \A p \in Pauses : p \in Int
      BY <1>3, DecisionsAreTyped DEF IInv, Runtime
    <3>2. QED
      BY <1>3, <1>6, <3>1 DEF Passed
  <2>4. Reading'
    BY <1>1, <1>3, <1>4, <2>1, <2>3, DecisionsAreTyped DEF IInv, Hosts, Reading, runtime, Runtime
  <2>5. Tries'
    <3>1. ASSUME NEW e \in Decisions,
                 cursor'[e.actor] < e.pause,
                 ~(at'[e.actor] = "waiting" /\ about'[e.actor] = e.pause)
          PROVE  try[e] <= faults
      <4>1. CASE e.actor = a
        <5>1. /\ about[a] < e.pause /\ cursor[a] < e.pause
              /\ about[a] \in Int /\ e.pause \in Int
          <6>1. e.pause \in Int /\ about[a] \in Int /\ cursor[a] \in Int
            BY <3>1, DecisionsAreTyped DEF IInv, Hosts
          <6>2. about[a] < e.pause
            BY <2>1, <3>1, <4>1 DEF IInv, Hosts
          <6>3. QED
            BY <1>3, <6>1, <6>2
        <5>2. about[a] # e.pause
          BY <5>1
        <5>3. QED
          BY <3>1, <4>1, <5>1, <5>2 DEF IInv, Tries
      <4>2. CASE e.actor # a
        <5>1. /\ cursor'[e.actor] = cursor[e.actor] /\ at'[e.actor] = at[e.actor]
              /\ about'[e.actor] = about[e.actor]
          BY <2>1, <3>1, <4>2, DecisionsAreTyped DEF IInv, Hosts
        <5>2. QED
          BY <3>1, <5>1 DEF IInv, Tries
      <4>3. QED
        BY <4>1, <4>2
    <3>2. QED
      BY <1>1, <3>1 DEF IInv, Tries
  <2>6. Told'
    <3>1. ASSUME NEW e \in Decisions
          PROVE  /\ told'[e] = "resumed" => resolved[e.pause] = e
                 /\ told'[e] = "refused" => Passed(e.pause) /\ resolved[e.pause] # e
      <4>1. CASE e = d
        BY <1>3, <1>6, <2>1, <4>1 DEF IInv, Hosts
      <4>2. CASE e # d
        BY <2>1, <3>1, <4>2 DEF IInv, Hosts, Told
      <4>3. QED
        BY <4>1, <4>2
    <3>2. QED
      BY <1>1, <1>4, <3>1, DecisionsAreTyped DEF Told, runtime
  <2>7. QED
    BY <1>4, <1>5, <2>2, <2>4, <2>5, <2>6 DEF IInv
<1>7. CASE ~Failed(answer) /\ Conclude(a, "resumed")
  <2>1. resolved[d.pause] = d
    BY <1>2, <1>7 DEF IInv, Answered
  <2>2. Passed(about[a])
    BY <1>3, <2>1 DEF IInv, Runtime
  <2>3. QED
    BY <1>6, <1>7, <2>1, <2>2
<1>8. CASE Failed(answer) /\ ClientError(answer.status) /\ Conclude(a, "refused")
  BY <1>2, <1>3, <1>6, <1>8 DEF IInv, Answered
<1>9. CASE /\ Failed(answer) /\ ~ClientError(answer.status)
           /\ Goto(a, "failed")
           /\ UNCHANGED <<told, cursor, about>>
  <2>1. try[d] <= faults
    BY <1>2, <1>9 DEF IInv, Answered
  <2>2. at' = [at EXCEPT ![a] = "failed"]
    BY <1>9 DEF Goto
  <2>3. Hosts'
    BY <1>1, <1>9, <2>2 DEF IInv, Hosts
  <2>4. Reading'
    BY <1>1, <1>4, <1>9, <2>2 DEF IInv, Hosts, Reading, runtime
  <2>5. Tries'
    <3>1. \A e \in Decisions : e.actor = a /\ e.pause = about[a] => e = d
      BY <1>3 DEF Decisions
    <3>2. QED
      BY <1>1, <1>9, <2>1, <2>2, <3>1, DecisionsAreTyped DEF IInv, Hosts, Tries
  <2>6. Told'
    BY <1>1, <1>4, <1>9, DecisionsAreTyped DEF IInv, Told, runtime
  <2>7. QED
    BY <1>4, <1>5, <2>3, <2>4, <2>5, <2>6 DEF IInv
<1>10. QED
  BY <1>2, <1>7, <1>8, <1>9

\* A call fails, a process crashes, or a cursor is lost.
LEMMA FaultsAreCounted ==
  ASSUME IInv, NEW a \in Actors, BreakConnection(a) \/ Crash(a) \/ CursorMissing(a)
  PROVE  IInv'
<1>1. /\ UNCHANGED <<runtime, answers, try, told>> /\ requests' \subseteq requests
      /\ faults' = faults + 1 /\ faults \in Nat /\ faults' \in 0 .. MaxFaults
  BY DecisionsAreTyped DEF IInv, Hosts, BreakConnection, Crash, CursorMissing, Fail, network
<1>2. /\ Runtime' /\ Answered'
      /\ \A p \in Pauses : Passed(p)' <=> Passed(p)
  BY <1>1, RuntimeStands DEF IInv
<1>3. Told' /\ Asked'
  BY <1>1, <1>2, DecisionsAreTyped DEF IInv, Told, Asked, runtime
<1>4. Hosts'
  <2>1. CASE BreakConnection(a)
    BY <1>1, <2>1 DEF IInv, Hosts, BreakConnection, Goto
  <2>2. CASE Crash(a)
    BY <1>1, <2>2, DecisionsAreTyped DEF IInv, Hosts, Crash, Goto
  <2>3. CASE CursorMissing(a)
    BY <1>1, <2>3, DecisionsAreTyped DEF IInv, Hosts, CursorMissing
  <2>4. QED
    BY <2>1, <2>2, <2>3
<1>5. Reading'
  BY <1>1, <1>2, DecisionsAreTyped
     DEF IInv, Hosts, Reading, BreakConnection, Crash, CursorMissing, Goto, runtime, Runtime
<1>6. Tries'
  <2>1. \A e \in Decisions : try'[e] <= faults'
    BY <1>1, DecisionsAreTyped DEF IInv, Hosts, Tries
  <2>2. QED
    BY <1>1, <2>1, DecisionsAreTyped DEF IInv, Hosts, Tries
<1>7. QED
  BY <1>2, <1>3, <1>4, <1>5, <1>6 DEF IInv

-----------------------------------------------------------------------------
(* The resumes: the invariant. *)

LEMMA Initially == Init => IInv
<1>1. SUFFICES ASSUME Init PROVE IInv
  OBVIOUS
<1>2. Runtime
  BY <1>1, DecisionsAreTyped DEF Init, Runtime, Passed, DecisionsMeetTheirPause
<1>3. Hosts
  BY <1>1, DecisionsAreTyped DEF Init, Hosts
<1>4. Reading /\ Tries
  BY <1>1, DecisionsAreTyped DEF Init, Reading, Tries
<1>5. Asked /\ Answered /\ Told
  BY <1>1 DEF Init, Asked, Answered, Told
<1>6. QED
  BY <1>2, <1>3, <1>4, <1>5 DEF IInv

LEMMA Inductive == IInv /\ [Next]_vars => IInv'
<1>1. SUFFICES ASSUME IInv, [Next]_vars PROVE IInv'
  OBVIOUS
<1>2. CASE Pause \/ Complete \/ Cancel
  BY <1>1, <1>2, RuntimeGoesOn
<1>3. ASSUME NEW request \in requests,
             Answer(request) \/ TurnAway(request) \/ AnswerBadly(request)
      PROVE  IInv'
  BY <1>1, <1>3, RuntimeAnswers
<1>4. ASSUME NEW a \in Actors, Read(a) \/ ReadSnapshot(a) PROVE IInv'
  BY <1>1, <1>4, ReadsAreRight
<1>5. ASSUME NEW a \in Actors, Decide(a) \/ Retry(a) PROVE IInv'
  BY <1>1, <1>5, SendsAreRight DEF Decide, Retry
<1>6. ASSUME NEW a \in Actors, Receive(a) PROVE IInv'
  BY <1>1, <1>6, ReceivesAreRight
<1>7. ASSUME NEW a \in Actors, BreakConnection(a) \/ Crash(a) \/ CursorMissing(a) PROVE IInv'
  BY <1>1, <1>7, FaultsAreCounted
<1>8. CASE UNCHANGED vars
  <2>1. /\ UNCHANGED <<run, resolved, resumes, requests, answers, at, cursor, about, try, told,
                       faults>>
    BY <1>8 DEF vars
  <2>2. Runtime' /\ Reading'
    BY <1>1, <2>1 DEF IInv, Runtime, Reading, Passed, DecisionsMeetTheirPause
  <2>3. Hosts' /\ Tries' /\ Asked'
    BY <1>1, <2>1 DEF IInv, Hosts, Tries, Asked
  <2>4. Answered' /\ Told'
    BY <1>1, <2>1 DEF IInv, Answered, Told, Passed, Failed, ClientError
  <2>5. QED
    BY <2>2, <2>3, <2>4 DEF IInv
<1>9. QED
  BY <1>1, <1>2, <1>3, <1>4, <1>5, <1>6, <1>7, <1>8 DEF Next, Step, Finished

LEMMA Always == Spec => []IInv
BY Initially, Inductive, PTL DEF Spec

-----------------------------------------------------------------------------
(* The resumes: theorems. *)

\* The variables keep their types, which bounds the tries of a decision: a call is
\* repeated only where a fault made it fail or forgotten (client.py:57-59, 420-453).
THEOREM ResumesAreTyped == Spec => []TypeOK
BY Always, Implies, PTL

\* A pause is resolved by a decision about its own interaction, for any number of
\* actors, retries and pauses (client.py:376-412).
THEOREM ResumesAreCorrelated == Spec => []DecisionsMeetTheirPause
BY Always, Implies, PTL

\* A call that returns has resumed the run, and one that raises a client error has
\* not (client.py:57-59, 367-374, 420-453).  The only client error of RunResume is the
\* service's own refusal, 409.
THEOREM CallsTellTheTruth == Spec => []ToldTheTruth
BY Always, Implies, PTL

-----------------------------------------------------------------------------
(* The event stream: the inductive invariant. *)

\* What the wire may hold.
Parts == {"whole", "head", "tail", "cut"}
Pieces == {DataLine(part, doc) : part \in Parts, doc \in Documents}
Lines == {Blank, Other} \cup {EventLine(t) : t \in Types \cup {NoType}} \cup Pieces

Acceptable == {doc \in Documents : doc.type \in Types /\ doc.identified}

\* Sequences of what they should be, and a blank line at the end of the wire at most.
Shape ==
  /\ status \in {"connecting", "open", "done", "refused", "failed", "broken"}
  /\ wire \in Seq(Lines) /\ ended \in BOOLEAN
  /\ event_type \in Types \cup {NoType} /\ data_lines \in Seq(Pieces)
  /\ emitted \in Seq(Acceptable) /\ sent \in Seq(Documents)
  /\ frames \in 0 .. MaxFrames /\ flawed \in BOOLEAN
  /\ \A i \in 1 .. Len(wire) - 1 : wire[i] # Blank

\* Before the body ends, what is on the wire is a frame with its blank line.
EndsBlank == wire # <<>> /\ wire[Len(wire)] = Blank

\* Everything the server meant was yielded, and no data is on its way.  Before the
\* body ends, no event line outlives its frame.
Quiet ==
  /\ emitted = sent /\ data_lines = <<>>
  /\ \A i \in 1 .. Len(wire) : wire[i] \notin Pieces
  /\ ended \/ EndsBlank \/ (event_type = NoType /\ wire \in {<<>>, <<Other>>})

\* The layouts that can be read.
Readable == {<<"whole">>, <<"head", "tail">>}

\* The data of one document is on its way, all of it: n of its lines were read, and
\* the others come after o other lines and before at most one.
Divided(doc, layout, n, o) ==
  /\ n <= Len(layout) /\ Len(data_lines) = n
  /\ \A i \in 1 .. n : data_lines[i] = DataLine(layout[i], doc)
  /\ Len(wire) \in {o + Len(layout) - n, o + Len(layout) - n + 1}
  /\ \A i \in n + 1 .. Len(layout) : wire[o + i - n] = DataLine(layout[i], doc)
  /\ Len(wire) = o + Len(layout) - n + 1 => wire[Len(wire)] \in {Blank, Other}

\* One document is on its way behind its event line (if o = 1), and nothing else.
Coming(doc, t, layout, n, o) ==
  /\ sent = Append(emitted, Typed(doc, t))
  /\ Accepts(Typed(doc, t)) \/ flawed
  /\ Divided(doc, layout, n, o)
  /\ \/ o = 0 /\ event_type = t
     \/ o = 1 /\ n = 0 /\ wire[1] = EventLine(t)
  /\ ended \/ (EndsBlank /\ Len(wire) = o + Len(layout) - n + 1)

SomethingComes ==
  \E doc \in Documents, t \in Types \cup {NoType}, layout \in Readable, n \in 0 .. 2, o \in 0 .. 1 :
    Coming(doc, t, layout, n, o)

\* What is left of a frame cannot be read.  Either its document is not meant any
\* more, for the body ends, or there is data left that the iterator will fail on.
Unreadable(line) == line \in Pieces => line.part \in {"head", "cut"}

Hopeless ==
  /\ flawed
  /\ \A i \in 1 .. Len(data_lines) : Unreadable(data_lines[i])
  /\ \A i \in 1 .. Len(wire) : Unreadable(wire[i])
  /\ \/ ended /\ sent = emitted
     \/ /\ \E doc \in Documents : sent = Append(emitted, doc)
        /\ data_lines # <<>> \/ \E i \in 1 .. Len(wire) : wire[i] \in Pieces
        /\ ended \/ EndsBlank

StreamIInv ==
  /\ Shape /\ EmittedAsSent /\ DoneIsComplete /\ FailsForCause
  /\ status \in {"connecting", "open"} => Quiet \/ SomethingComes \/ Hopeless

\* Where the iteration is, as long as it goes on.
Underway == Quiet \/ SomethingComes \/ Hopeless

-----------------------------------------------------------------------------
(* The event stream: lemmas about lines and sequences. *)

\* A line is known by its field, and a data line by its part and document.
LEMMA LinesDiffer ==
  ASSUME NEW line \in Lines
  PROVE  /\ line.field = "" <=> line = Blank
         /\ line.field = "other" <=> line = Other
         /\ line.field = "data" <=> line \in Pieces
         /\ line.field = "event" =>
              line.type \in Types \cup {NoType} /\ line = EventLine(line.type)
<1>1. Blank.field = "" /\ Other.field = "other"
  BY DEF Blank, Other
<1>2. \A t : EventLine(t).field = "event" /\ EventLine(t).type = t
  BY DEF EventLine
<1>3. \A piece \in Pieces : piece.field = "data"
  BY DEF Pieces, DataLine
<1>4. CASE line \in {Blank, Other}
  BY <1>1, <1>3, <1>4
<1>5. CASE line \in {EventLine(t) : t \in Types \cup {NoType}}
  <2>1. PICK t \in Types \cup {NoType} : line = EventLine(t)
    BY <1>5
  <2> QED
    BY <1>1, <1>2, <1>3, <2>1
<1>6. CASE line \in Pieces
  BY <1>1, <1>3, <1>6
<1> QED
  BY <1>4, <1>5, <1>6 DEF Lines

LEMMA PiecesAreData ==
  /\ \A piece \in Pieces : piece.part \in Parts /\ piece.doc \in Documents
  /\ \A part, doc : DataLine(part, doc).part = part /\ DataLine(part, doc).doc = doc
  /\ \A part \in Parts, doc \in Documents : DataLine(part, doc) \in Pieces
BY DEF Pieces, DataLine

LEMMA LinesAre ==
  /\ Blank \in Lines /\ Other \in Lines /\ Pieces \subseteq Lines
  /\ Blank \notin Pieces /\ Other \notin Pieces /\ Blank # Other
  /\ \A t \in Types \cup {NoType} :
       /\ EventLine(t) \in Lines /\ EventLine(t) \notin Pieces
       /\ EventLine(t) # Blank /\ EventLine(t) # Other
<1>1. Blank.field = "" /\ Other.field = "other"
  BY DEF Blank, Other
<1>2. \A t : EventLine(t).field = "event" /\ EventLine(t).type = t
  BY DEF EventLine
<1>3. \A piece \in Pieces : piece.field = "data"
  BY DEF Pieces, DataLine
<1>4. Blank \in Lines /\ Other \in Lines /\ Pieces \subseteq Lines
  BY DEF Lines
<1>5. \A t \in Types \cup {NoType} : EventLine(t) \in Lines
  BY DEF Lines
<1>6. Blank \notin Pieces /\ Other \notin Pieces /\ Blank # Other
  BY <1>1, <1>3
<1>7. \A t : EventLine(t) \notin Pieces /\ EventLine(t) # Blank /\ EventLine(t) # Other
  BY <1>1, <1>2, <1>3
<1> QED
  BY <1>4, <1>5, <1>6, <1>7

LEMMA TypedIsDocument ==
  ASSUME NEW doc \in Documents, NEW t \in Types \cup {NoType}
  PROVE  /\ Typed(doc, t) \in Documents
         /\ Accepts(Typed(doc, t)) => Typed(doc, t) \in Acceptable
BY DEF Typed, Documents, Accepts, Acceptable

\* A document that can be read is on one line or on two.
LEMMA Readables ==
  ASSUME NEW layout \in Readable
  PROVE  \/ Len(layout) = 1 /\ layout[1] = "whole"
         \/ Len(layout) = 2 /\ layout[1] = "head" /\ layout[2] = "tail"
<1>1. CASE layout = <<"whole">>
  BY <1>1
<1>2. CASE layout = <<"head", "tail">>
  BY <1>2
<1> QED
  BY <1>1, <1>2 DEF Readable

\* What was yielded is a prefix of itself and of itself with one more.
LEMMA PrefixOfItself ==
  ASSUME NEW S, NEW s \in Seq(S)
  PROVE  IsPrefix(s, s)
BY LenProperties DEF IsPrefix

LEMMA PrefixGrows ==
  ASSUME NEW S, NEW T, NEW s \in Seq(S), NEW x \in T, S \subseteq T
  PROVE  /\ IsPrefix(s, s)
         /\ IsPrefix(s, Append(s, x))
         /\ Front(Append(s, x)) = s /\ Append(s, x) # s
<1>1. s \in Seq(T)
  BY SeqMonotonic
<1>2. SubSeq(s, 1, Len(s)) = s /\ Len(s) \in Nat
  BY <1>1, SubSeqFull, LenProperties
<1>3. /\ Append(s, x) \in Seq(T) /\ Len(Append(s, x)) = Len(s) + 1
      /\ \A i \in 1 .. Len(s) : Append(s, x)[i] = s[i]
  BY <1>1, AppendProperties
<1>4. \A i \in 1 .. Len(s) : s[i] \in T
  BY <1>1, ElementOfSeq
<1>5. \A i \in 1 .. Len(s) : Append(s, x)[i] \in T
  BY <1>3, <1>4
<1> DEFINE front == SubSeq(Append(s, x), 1, Len(s))
<1>6. /\ front \in Seq(T) /\ Len(front) = Len(s)
      /\ \A i \in 1 .. Len(s) : front[i] = s[i]
  <2>1. Len(s) \in Int /\ 1 \in Int
    BY <1>2
  <2> QED
    BY <1>2, <1>3, <1>5, <2>1, SubSeqProperties
<1>7. front = s
  BY <1>1, <1>6, SeqEqual
<1>8. IsPrefix(s, s)
  BY <1>2 DEF IsPrefix
<1>9. IsPrefix(s, Append(s, x))
  <2>1. Len(s) <= Len(Append(s, x)) /\ SubSeq(s, 1, Len(s)) = SubSeq(Append(s, x), 1, Len(s))
    BY <1>2, <1>3, <1>7
  <2> QED
    BY <2>1 DEF IsPrefix
<1>10. Append(s, x) # s
  <2>1. Len(s) \in Nat /\ Len(Append(s, x)) = Len(s) + 1
    BY <1>2, <1>3
  <2>2. Len(Append(s, x)) # Len(s)
    BY <2>1
  <2> QED
    BY <2>2
<1>11. Front(Append(s, x)) = s
  <2>1. Len(Append(s, x)) - 1 = Len(s)
    BY <1>2, <1>3
  <2> QED
    BY <1>7, <2>1 DEF Front
<1> QED
  BY <1>8, <1>9, <1>10, <1>11

-----------------------------------------------------------------------------
(* The event stream: what the steps do to the wire. *)

\* The reader's lines are taken from the front of the wire.
LEMMA Taken ==
  ASSUME NEW kind, Shape, Take(kind)
  PROVE  /\ Len(wire) \in Nat \ {0} /\ wire[1] \in Lines /\ wire[1].field = kind
         /\ Head(wire) = wire[1]
         /\ wire' \in Seq(Lines) /\ Len(wire') = Len(wire) - 1
         /\ \A i \in 1 .. Len(wire') : wire'[i] = wire[i + 1]
         /\ \A i \in 1 .. Len(wire') - 1 : wire'[i] # Blank
         /\ status = "open" /\ UNCHANGED <<ended, sent, frames, flawed>>
<1>1. wire \in Seq(Lines) /\ wire # <<>> /\ wire' = Tail(wire) /\ Head(wire).field = kind
  BY DEF Shape, Take
<1>2. Len(wire) \in Nat \ {0}
  BY <1>1, EmptySeq
<1>3. wire[1] \in Lines /\ Head(wire) = wire[1]
  BY <1>1, <1>2, ElementOfSeq
<1>4. /\ wire' \in Seq(Lines) /\ Len(wire') = Len(wire) - 1
      /\ \A i \in 1 .. Len(wire') : wire'[i] = wire[i + 1]
  BY <1>1, HeadTailProperties
<1>5. \A i \in 1 .. Len(wire') - 1 : wire'[i] # Blank
  BY <1>2, <1>4 DEF Shape
<1> QED
  BY <1>1, <1>2, <1>3, <1>4, <1>5 DEF Take

\* What still ends with a blank line ends with it after another line was taken.
LEMMA TakenEndsBlank ==
  ASSUME NEW kind \in {"event", "data", "other"}, Shape, Take(kind), EndsBlank
  PROVE  EndsBlank' /\ Len(wire) > 1
<1>1. /\ Len(wire) \in Nat \ {0} /\ wire[1] \in Lines /\ wire[1].field = kind
      /\ Len(wire') = Len(wire) - 1
      /\ \A i \in 1 .. Len(wire') : wire'[i] = wire[i + 1]
  BY Taken
<1>2. wire[1] # Blank /\ wire[Len(wire)] = Blank
  <2>1. wire[1] # Blank
    BY <1>1, LinesDiffer
  <2> QED
    BY <2>1 DEF EndsBlank
<1>3. Len(wire) > 1
  BY <1>1, <1>2
<1>4. Len(wire') \in Nat \ {0} /\ wire'[Len(wire')] = wire[Len(wire)]
  BY <1>1, <1>3
<1>5. wire' # <<>>
  BY <1>4, EmptySeq
<1> QED
  BY <1>2, <1>3, <1>4, <1>5 DEF EndsBlank

\* The body ends after k lines and a piece of the next one; if data is missed, so is
\* the document.
Cut(k) ==
  /\ Len(wire') \in {k, k + 1}
  /\ \A i \in 1 .. k : wire'[i] = wire[i]
  /\ Len(wire') = k + 1 =>
       /\ k < Len(wire)
       /\ \/ wire'[k + 1] = Other
          \/ wire[k + 1] \in Pieces /\ wire'[k + 1] = DataLine("cut", wire[k + 1].doc)
  /\ \/ /\ \E i \in k + 1 .. Len(wire) : wire[i] \in Pieces
        /\ sent' = Front(sent) /\ flawed'
     \/ /\ \A i \in k + 1 .. Len(wire) : wire[i] \notin Pieces
        /\ sent' = sent /\ flawed' = flawed

LEMMA EndsCut ==
  ASSUME Shape, End
  PROVE  /\ \E k \in 0 .. Len(wire) : Cut(k)
         /\ wire' \in Seq(Lines) /\ ended'
         /\ \A i \in 1 .. Len(wire') - 1 : wire'[i] # Blank
<1>1. /\ wire \in Seq(Lines) /\ Len(wire) \in Nat
      /\ \A i \in 1 .. Len(wire) : wire[i] \in Lines
  BY LenProperties, ElementOfSeq DEF Shape
<1> DEFINE left(k) == SubSeq(wire, 1, k)
           missed(k) == SubSeq(wire, k + 1, Len(wire))
           cut(k) == \E l \in Range(missed(k)) : l.field = "data"
           pieces(k) == IF missed(k) = <<>> THEN {}
                        ELSE {Other} \cup
                             {DataLine("cut", l.doc) :
                                l \in {m \in {missed(k)[1]} : m.field = "data"}}
<1>2. PICK k \in 0 .. Len(wire) :
        /\ wire' \in {left(k)} \cup {Append(left(k), piece) : piece \in pieces(k)}
        /\ sent' = IF cut(k) THEN Front(sent) ELSE sent
        /\ flawed' = (flawed \/ cut(k))
  BY DEF End
<1>3. /\ left(k) \in Seq(Lines) /\ Len(left(k)) = k
      /\ \A i \in 1 .. k : left(k)[i] = wire[i]
  <2>1. k \in Int /\ 1 \in Int /\ \A i \in 1 .. k : wire[i] \in Lines
    BY <1>1
  <2> QED
    BY <1>1, <2>1, SubSeqProperties
<1>4. /\ missed(k) \in Seq(Lines) /\ Len(missed(k)) = Len(wire) - k
      /\ \A i \in 1 .. Len(wire) - k : missed(k)[i] = wire[k + i]
  <2>1. /\ k + 1 \in Int /\ Len(wire) \in Int
        /\ \A i \in k + 1 .. Len(wire) : wire[i] \in Lines
    BY <1>1
  <2> QED
    BY <1>1, <2>1, SubSeqProperties
<1>5. cut(k) <=> \E i \in k + 1 .. Len(wire) : wire[i] \in Pieces
  <2>1. Range(missed(k)) = {missed(k)[i] : i \in 1 .. Len(wire) - k}
    BY <1>4, RangeEquality
  <2>2. cut(k) <=> \E i \in 1 .. Len(wire) - k : wire[k + i].field = "data"
    BY <1>4, <2>1
  <2>3. cut(k) <=> \E i \in k + 1 .. Len(wire) : wire[i].field = "data"
    <3>1. ASSUME NEW i \in k + 1 .. Len(wire)
          PROVE  i - k \in 1 .. Len(wire) - k /\ k + (i - k) = i
      BY <1>1
    <3>2. ASSUME NEW i \in 1 .. Len(wire) - k
          PROVE  k + i \in k + 1 .. Len(wire)
      BY <1>1
    <3> QED
      BY <2>2, <3>1, <3>2
  <2>4. \A i \in k + 1 .. Len(wire) : wire[i].field = "data" <=> wire[i] \in Pieces
    <3>1. SUFFICES ASSUME NEW i \in k + 1 .. Len(wire)
                   PROVE  wire[i].field = "data" <=> wire[i] \in Pieces
      OBVIOUS
    <3>2. i \in 1 .. Len(wire)
      BY <1>1
    <3>3. wire[i] \in Lines
      BY <1>1, <3>2
    <3> QED
      BY <3>3, LinesDiffer
  <2> QED
    BY <2>3, <2>4
<1>6. \A piece \in pieces(k) :
        /\ k < Len(wire) /\ piece \in Lines
        /\ \/ piece = Other
           \/ wire[k + 1] \in Pieces /\ piece = DataLine("cut", wire[k + 1].doc)
  <2>1. SUFFICES ASSUME NEW piece \in pieces(k)
                 PROVE  /\ k < Len(wire) /\ piece \in Lines
                        /\ \/ piece = Other
                           \/ /\ wire[k + 1] \in Pieces
                              /\ piece = DataLine("cut", wire[k + 1].doc)
    OBVIOUS
  <2>2. missed(k) # <<>>
    BY <2>1
  <2>3. k < Len(wire) /\ missed(k)[1] = wire[k + 1] /\ wire[k + 1] \in Lines
    BY <1>1, <1>4, <2>2, EmptySeq
  <2>4. \/ piece = Other
        \/ wire[k + 1].field = "data" /\ piece = DataLine("cut", wire[k + 1].doc)
    BY <2>1, <2>2, <2>3
  <2>5. \/ piece = Other
        \/ wire[k + 1] \in Pieces /\ piece = DataLine("cut", wire[k + 1].doc)
    BY <2>3, <2>4, LinesDiffer
  <2>6. piece \in Lines
    BY <2>5, LinesAre, PiecesAreData DEF Parts
  <2> QED
    BY <2>3, <2>5, <2>6
<1> HIDE DEF pieces, cut, left, missed
<1>7. \/ wire' = left(k)
      \/ \E piece \in pieces(k) : wire' = Append(left(k), piece)
  BY <1>2
<1>8. /\ wire' \in Seq(Lines) /\ Len(wire') \in {k, k + 1}
      /\ \A i \in 1 .. k : wire'[i] = wire[i]
      /\ Len(wire') = k + 1 => wire'[k + 1] \in pieces(k)
  <2>1. CASE wire' = left(k)
    BY <1>3, <2>1
  <2>2. ASSUME NEW piece \in pieces(k), wire' = Append(left(k), piece)
        PROVE  <1>8
    <3>1. piece \in Lines
      BY <1>6
    <3> QED
      BY <1>3, <2>2, <3>1, AppendProperties
  <2> QED
    BY <1>7, <2>1, <2>2
<1>9. Cut(k)
  <2>1. \/ (\E i \in k + 1 .. Len(wire) : wire[i] \in Pieces) /\ sent' = Front(sent) /\ flawed'
        \/ /\ \A i \in k + 1 .. Len(wire) : wire[i] \notin Pieces
           /\ sent' = sent /\ flawed' = flawed
    BY <1>2, <1>5 DEF Shape
  <2> QED
    BY <1>6, <1>8, <2>1 DEF Cut
<1>10. \A i \in 1 .. Len(wire') - 1 : wire'[i] # Blank
  <2>1. SUFFICES ASSUME NEW i \in 1 .. Len(wire') - 1 PROVE wire'[i] # Blank
    OBVIOUS
  <2>2. i \in 1 .. k /\ i \in 1 .. Len(wire) - 1
    BY <1>1, <1>9 DEF Cut
  <2> QED
    BY <1>8, <2>2 DEF Shape
<1> QED
  BY <1>8, <1>9, <1>10 DEF End

LEMMA IsSequence ==
  ASSUME NEW S, NEW n \in Nat, NEW f \in [1 .. n -> S]
  PROVE  f \in Seq(S) /\ Len(f) = n /\ DOMAIN f = 1 .. n
OBVIOUS

LEMMA Single ==
  ASSUME NEW S, NEW x \in S
  PROVE  <<x>> \in Seq(S) /\ Len(<<x>>) = 1 /\ <<x>>[1] = x
OBVIOUS

\* A frame: lines before the data, the data, and a blank line.
Frame(lead, data) == lead \o data \o <<Blank>>

LEMMA Framed ==
  ASSUME NEW lead \in Seq(Lines), NEW data \in Seq(Lines),
         \A i \in 1 .. Len(lead) : lead[i] # Blank,
         \A i \in 1 .. Len(data) : data[i] # Blank
  PROVE  /\ Frame(lead, data) \in Seq(Lines) /\ Len(Frame(lead, data)) = Len(lead) + Len(data) + 1
         /\ \A i \in 1 .. Len(lead) : Frame(lead, data)[i] = lead[i]
         /\ \A i \in 1 .. Len(data) : Frame(lead, data)[Len(lead) + i] = data[i]
         /\ Frame(lead, data) # <<>> /\ Frame(lead, data)[Len(Frame(lead, data))] = Blank
         /\ \A i \in 1 .. Len(Frame(lead, data)) - 1 : Frame(lead, data)[i] # Blank
<1>1. Len(lead) \in Nat /\ Len(data) \in Nat
  BY LenProperties
<1>2. /\ lead \o data \in Seq(Lines) /\ Len(lead \o data) = Len(lead) + Len(data)
      /\ \A i \in 1 .. Len(lead) + Len(data) :
           (lead \o data)[i] = IF i <= Len(lead) THEN lead[i] ELSE data[i - Len(lead)]
  BY ConcatProperties
<1>3. <<Blank>> \in Seq(Lines) /\ Len(<<Blank>>) = 1 /\ <<Blank>>[1] = Blank
  BY Single, LinesAre
<1> DEFINE front == lead \o data
           frame == Frame(lead, data)
<1>eq. frame = front \o <<Blank>>
  BY DEF Frame
<1> HIDE DEF front, frame
<1>4. /\ frame \in Seq(Lines) /\ Len(frame) = Len(front) + 1
      /\ \A i \in 1 .. Len(front) + 1 :
           frame[i] = IF i <= Len(front) THEN front[i] ELSE <<Blank>>[i - Len(front)]
  BY <1>2, <1>3, <1>eq, ConcatProperties DEF front
<1>5. Len(frame) = Len(lead) + Len(data) + 1
  BY <1>2, <1>4 DEF front
<1>6. \A i \in 1 .. Len(lead) + Len(data) :
        frame[i] = IF i <= Len(lead) THEN lead[i] ELSE data[i - Len(lead)]
  BY <1>1, <1>2, <1>4 DEF front
<1>7. frame[Len(frame)] = Blank
  <2>1. Len(front) \in Nat
    BY <1>1, <1>2 DEF front
  <2>2. Len(frame) \in 1 .. Len(front) + 1 /\ Len(frame) - Len(front) = 1
        /\ ~(Len(frame) <= Len(front))
    BY <1>4, <2>1
  <2> QED
    BY <1>3, <1>4, <2>2
<1>8. \A i \in 1 .. Len(lead) : frame[i] = lead[i]
  BY <1>1, <1>6
<1>9. \A i \in 1 .. Len(data) : frame[Len(lead) + i] = data[i]
  <2>1. SUFFICES ASSUME NEW i \in 1 .. Len(data) PROVE frame[Len(lead) + i] = data[i]
    OBVIOUS
  <2>2. /\ Len(lead) + i \in 1 .. Len(lead) + Len(data) /\ ~(Len(lead) + i <= Len(lead))
        /\ (Len(lead) + i) - Len(lead) = i
    BY <1>1
  <2> QED
    BY <1>6, <2>2
<1>10. \A i \in 1 .. Len(frame) - 1 : frame[i] # Blank
  <2>1. SUFFICES ASSUME NEW i \in 1 .. Len(lead) + Len(data) PROVE frame[i] # Blank
    BY <1>1, <1>5
  <2>2. CASE i <= Len(lead)
    BY <1>1, <1>8, <2>2
  <2>3. CASE i > Len(lead)
    <3>1. i - Len(lead) \in 1 .. Len(data) /\ ~(i <= Len(lead))
      BY <1>1, <2>3
    <3> QED
      BY <1>6, <3>1
  <2> QED
    BY <1>1, <2>2, <2>3
<1>11. frame # <<>>
  BY <1>1, <1>5, EmptySeq
<1> QED
  BY <1>4, <1>5, <1>7, <1>8, <1>9, <1>10, <1>11 DEF frame

-----------------------------------------------------------------------------
(* The event stream: the steps. *)

LEMMA UnderwayIsPrefix == Shape /\ Underway => EmittedAsSent
<1>1. SUFFICES ASSUME Shape, Underway PROVE EmittedAsSent
  OBVIOUS
<1>2. emitted \in Seq(Acceptable) /\ Acceptable \subseteq Documents
  BY <1>1 DEF Shape, Acceptable
<1>3. PICK doc \in Documents : sent \in {emitted, Append(emitted, doc)}
  <2>1. [id |-> 1, type |-> NoType, identified |-> TRUE] \in Documents
    <3>1. 1 \in 1 .. MaxFrames
      BY StreamAssumption
    <3> QED
      BY <3>1 DEF Documents
  <2>2. CASE Quiet
    BY <2>1, <2>2 DEF Quiet
  <2>3. CASE SomethingComes
    BY <2>3, TypedIsDocument DEF SomethingComes, Coming
  <2>4. CASE Hopeless
    BY <2>1, <2>4 DEF Hopeless
  <2> QED
    BY <1>1, <2>2, <2>3, <2>4 DEF Underway
<1>4. IsPrefix(emitted, emitted) /\ IsPrefix(emitted, Append(emitted, doc))
  BY <1>2, PrefixGrows
<1> QED
  BY <1>3, <1>4 DEF EmittedAsSent

\* A step after which the iteration goes on keeps the invariant.
LEMMA GoesOn ==
  Shape' /\ Underway' /\ status' \in {"connecting", "open"} => StreamIInv'
<1>1. Shape' /\ Underway' => EmittedAsSent'
  BY UnderwayIsPrefix, PTL
<1> QED
  BY <1>1 DEF StreamIInv, Underway, DoneIsComplete, FailsForCause

LEMMA StreamInitially == StreamInit => StreamIInv
<1>1. SUFFICES ASSUME StreamInit PROVE StreamIInv
  OBVIOUS
<1>2. Len(wire) = 0 /\ \A S : <<>> \in Seq(S)
  BY <1>1, EmptySeq DEF StreamInit
<1>3. Shape
  <2>1. \A i \in 1 .. Len(wire) - 1 : wire[i] # Blank
    BY <1>2
  <2>2. frames \in 0 .. MaxFrames
    BY <1>1, StreamAssumption DEF StreamInit
  <2>3. /\ wire \in Seq(Lines) /\ data_lines \in Seq(Pieces)
        /\ emitted \in Seq(Acceptable) /\ sent \in Seq(Documents)
    BY <1>1, <1>2 DEF StreamInit
  <2> QED
    BY <1>1, <2>1, <2>2, <2>3 DEF StreamInit, Shape
<1>4. Quiet
  BY <1>1, <1>2 DEF StreamInit, Quiet
<1>5. EmittedAsSent
  BY <1>3, <1>4, UnderwayIsPrefix DEF Underway
<1> QED
  BY <1>1, <1>3, <1>4, <1>5 DEF StreamInit, StreamIInv, DoneIsComplete, FailsForCause

\* The server writes only when there is nothing on its way.
LEMMA WritesWhenQuiet ==
  ASSUME Underway, wire = <<>>, ~ended
  PROVE  Quiet /\ event_type = NoType
BY DEF Underway, Quiet, SomethingComes, Coming, Hopeless, EndsBlank

LEMMA WritesEvent ==
  ASSUME StreamIInv, WriteEvent
  PROVE  StreamIInv'
<1>1. /\ Shape /\ status = "open" /\ wire = <<>> /\ ~ended /\ Quiet /\ event_type = NoType
      /\ frames < MaxFrames /\ frames' = frames + 1
      /\ UNCHANGED <<status, event_type, data_lines, emitted, ended>>
  <2>1. /\ status = "open" /\ wire = <<>> /\ ~ended /\ frames < MaxFrames
        /\ frames' = frames + 1 /\ UNCHANGED <<status, event_type, data_lines, emitted, ended>>
    BY DEF WriteEvent, reader
  <2> QED
    BY <2>1, WritesWhenQuiet DEF StreamIInv, Underway
<1>2. PICK t \in Types \cup {NoType}, doc \in Documents, layout \in Layouts, named \in BOOLEAN :
        /\ ~named => t = NoType
        /\ wire' = (IF named THEN <<EventLine(t)>> ELSE <<>>) \o DataLines(layout, doc)
                     \o <<Blank>>
        /\ sent' = Append(sent, Typed(doc, t))
        /\ flawed' = (flawed \/ ~Accepts(Typed(doc, t)) \/ layout = <<"cracked">>)
  BY DEF WriteEvent
<1> DEFINE lead == IF named THEN <<EventLine(t)>> ELSE <<>>
           o == IF named THEN 1 ELSE 0
<1>3. /\ lead \in Seq(Lines) /\ Len(lead) = o
      /\ named => lead[1] = EventLine(t)
      /\ \A i \in 1 .. Len(lead) : lead[i] # Blank /\ lead[i] \notin Pieces
  <2>1. CASE named
    <3>1. lead = <<EventLine(t)>> /\ o = 1
      BY <2>1
    <3>2. lead \in Seq(Lines) /\ Len(lead) = 1 /\ lead[1] = EventLine(t)
      BY <3>1, LinesAre, Single
    <3> QED
      BY <3>1, <3>2, LinesAre
  <2>2. CASE ~named
    <3>1. lead = <<>> /\ o = 0
      BY <2>2
    <3>2. lead \in Seq(Lines) /\ Len(lead) = 0
      BY <3>1, EmptySeq
    <3> QED
      BY <2>2, <3>1, <3>2
  <2> QED
    BY <2>1, <2>2
<1>4. sent' = Append(emitted, Typed(doc, t)) /\ sent' \in Seq(Documents)
  <2>1. Typed(doc, t) \in Documents /\ emitted = sent
    BY <1>1, TypedIsDocument DEF Quiet
  <2> QED
    BY <1>1, <1>2, <2>1, AppendProperties DEF Shape
<1>5. frames' \in 0 .. MaxFrames
  BY <1>1, StreamAssumption DEF Shape
<1>6. flawed' \in BOOLEAN
  BY <1>1, <1>2 DEF Shape
<1>frame. wire' = Frame(lead, DataLines(layout, doc))
  BY <1>2 DEF Frame
<1>lines. o \in 0 .. 1 /\ (named => o = 1) /\ (~named => o = 0)
  OBVIOUS
<1> HIDE DEF lead, o
<1>7. CASE layout # <<"cracked">>
  <2>1. layout \in Readable
    BY <1>7 DEF Layouts, Readable
  <2>2. Len(layout) \in 1 .. 2 /\ \A i \in 1 .. Len(layout) : layout[i] \in Parts
    BY <2>1, Readables DEF Parts
  <2>3. DataLines(layout, doc) = [i \in 1 .. Len(layout) |-> DataLine(layout[i], doc)]
    <3>1. DOMAIN layout = 1 .. Len(layout)
      BY <2>1 DEF Readable
    <3> QED
      BY <1>7, <3>1 DEF DataLines
  <2>4. \A i \in 1 .. Len(layout) : DataLine(layout[i], doc) \in Pieces
    BY <2>2, PiecesAreData
  <2>5. DataLines(layout, doc) \in [1 .. Len(layout) -> Lines]
    BY <2>3, <2>4, LinesAre
  <2>6. DataLines(layout, doc) \in Seq(Lines) /\ Len(DataLines(layout, doc)) = Len(layout)
    BY <2>2, <2>5, IsSequence
  <2>7. \A i \in 1 .. Len(layout) :
          /\ DataLines(layout, doc)[i] = DataLine(layout[i], doc)
          /\ DataLines(layout, doc)[i] # Blank
    BY <2>3, <2>4, LinesAre
  <2>8. /\ wire' \in Seq(Lines) /\ Len(wire') = o + Len(layout) + 1
        /\ \A i \in 1 .. o : wire'[i] = lead[i]
        /\ \A i \in 1 .. Len(layout) : wire'[o + i] = DataLine(layout[i], doc)
        /\ wire' # <<>> /\ wire'[Len(wire')] = Blank
        /\ \A i \in 1 .. Len(wire') - 1 : wire'[i] # Blank
    <3> DEFINE data == DataLines(layout, doc)
    <3>1. /\ \A i \in 1 .. Len(lead) : lead[i] # Blank
          /\ \A i \in 1 .. Len(data) : data[i] # Blank
      BY <1>3, <2>6, <2>7
    <3>2. lead \in Seq(Lines) /\ data \in Seq(Lines) /\ wire' = Frame(lead, data)
      BY <1>3, <1>frame, <2>6, <2>7
    <3> HIDE DEF data
    <3>3. /\ wire' \in Seq(Lines) /\ Len(wire') = Len(lead) + Len(data) + 1
          /\ \A i \in 1 .. Len(lead) : wire'[i] = lead[i]
          /\ \A i \in 1 .. Len(data) : wire'[Len(lead) + i] = data[i]
          /\ wire' # <<>> /\ wire'[Len(wire')] = Blank
          /\ \A i \in 1 .. Len(wire') - 1 : wire'[i] # Blank
      BY <3>1, <3>2, Framed
    <3> QED
      BY <1>3, <2>6, <2>7, <3>3 DEF data
  <2>9. Coming(doc, t, layout, 0, o)'
    <3>1. Accepts(Typed(doc, t)) \/ flawed'
      BY <1>2
    <3>2. Divided(doc, layout, 0, o)'
      <4>1. Len(data_lines') = 0
        BY <1>1, EmptySeq DEF Quiet
      <4>2. \A i \in 0 + 1 .. Len(layout) : wire'[o + i - 0] = DataLine(layout[i], doc)
        BY <1>lines, <2>2, <2>8
      <4> QED
        BY <1>lines, <2>2, <2>8, <4>1, <4>2 DEF Divided
    <3>3. (o = 0 /\ event_type' = t) \/ (o = 1 /\ wire'[1] = EventLine(t))
      BY <1>1, <1>2, <1>3, <1>lines, <2>8
    <3>4. EndsBlank' /\ Len(wire') = o + Len(layout) - 0 + 1
      BY <1>lines, <2>2, <2>8 DEF EndsBlank
    <3> QED
      BY <1>1, <1>4, <3>1, <3>2, <3>3, <3>4 DEF Coming
  <2>10. SomethingComes'
    <3>1. 0 \in 0 .. 2 /\ o \in 0 .. 1
      BY <1>lines
    <3> QED
      BY <2>1, <2>9, <3>1 DEF SomethingComes
  <2>11. Shape'
    BY <1>1, <1>4, <1>5, <1>6, <2>8 DEF Shape
  <2> QED
    BY <1>1, <2>10, <2>11, GoesOn DEF Underway
<1>8. CASE layout = <<"cracked">>
  <2>1. DataLines(layout, doc) = <<DataLine("cut", doc), Other>>
    BY <1>8 DEF DataLines
  <2>2. DataLine("cut", doc) \in Pieces /\ DataLine("cut", doc).part = "cut"
    BY PiecesAreData DEF Parts
  <2>3. /\ DataLines(layout, doc) \in Seq(Lines) /\ Len(DataLines(layout, doc)) = 2
        /\ DataLines(layout, doc)[1] = DataLine("cut", doc)
        /\ DataLines(layout, doc)[2] = Other
    BY <2>1, <2>2, LinesAre
  <2>4. \A i \in 1 .. 2 : DataLines(layout, doc)[i] # Blank
    BY <2>2, <2>3, LinesAre
  <2>5. /\ wire' \in Seq(Lines) /\ Len(wire') = o + 2 + 1
        /\ \A i \in 1 .. o : wire'[i] = lead[i]
        /\ \A i \in 1 .. 2 : wire'[o + i] = DataLines(layout, doc)[i]
        /\ wire' # <<>> /\ wire'[Len(wire')] = Blank
        /\ \A i \in 1 .. Len(wire') - 1 : wire'[i] # Blank
    <3> DEFINE data == DataLines(layout, doc)
    <3>1. /\ \A i \in 1 .. Len(lead) : lead[i] # Blank
          /\ \A i \in 1 .. Len(data) : data[i] # Blank
      BY <1>3, <2>3, <2>4
    <3>2. lead \in Seq(Lines) /\ data \in Seq(Lines) /\ wire' = Frame(lead, data)
      BY <1>3, <1>frame, <2>3, <2>4
    <3> HIDE DEF data
    <3>3. /\ wire' \in Seq(Lines) /\ Len(wire') = Len(lead) + Len(data) + 1
          /\ \A i \in 1 .. Len(lead) : wire'[i] = lead[i]
          /\ \A i \in 1 .. Len(data) : wire'[Len(lead) + i] = data[i]
          /\ wire' # <<>> /\ wire'[Len(wire')] = Blank
          /\ \A i \in 1 .. Len(wire') - 1 : wire'[i] # Blank
      BY <3>1, <3>2, Framed
    <3> QED
      BY <1>3, <2>3, <2>4, <3>3 DEF data
  <2>6. wire'[o + 1] = DataLine("cut", doc) /\ wire'[o + 2] = Other /\ wire'[o + 3] = Blank
    BY <1>lines, <2>3, <2>5
  <2>7. \A i \in 1 .. Len(wire') : Unreadable(wire'[i])
    <3>1. SUFFICES ASSUME NEW i \in 1 .. o + 3 PROVE Unreadable(wire'[i])
      BY <1>lines, <2>5
    <3>2. i \in 1 .. o \/ i \in {o + 1, o + 2, o + 3}
      BY <1>lines
    <3>3. CASE i \in 1 .. o
      BY <1>3, <2>5, <3>3 DEF Unreadable
    <3>4. CASE i \in {o + 1, o + 2, o + 3}
      BY <2>2, <2>6, <3>4, LinesAre DEF Unreadable
    <3> QED
      BY <3>2, <3>3, <3>4
  <2>8. o + 1 \in 1 .. Len(wire') /\ wire'[o + 1] \in Pieces
    BY <1>lines, <2>2, <2>5, <2>6
  <2>9. Hopeless'
    <3>1. flawed'
      BY <1>2, <1>8
    <3>2. \A i \in 1 .. Len(data_lines') : Unreadable(data_lines'[i])
      BY <1>1, EmptySeq DEF Quiet
    <3>3. \E d \in Documents : sent' = Append(emitted', d)
      BY <1>1, <1>4, TypedIsDocument
    <3>4. \E i \in 1 .. Len(wire') : wire'[i] \in Pieces
      BY <2>8
    <3>5. EndsBlank'
      BY <2>5 DEF EndsBlank
    <3> QED
      BY <2>7, <3>1, <3>2, <3>3, <3>4, <3>5 DEF Hopeless
  <2>10. Shape'
    BY <1>1, <1>4, <1>5, <1>6, <2>5 DEF Shape
  <2> QED
    BY <1>1, <2>9, <2>10, GoesOn DEF Underway
<1> QED
  BY <1>7, <1>8

LEMMA WritesOther ==
  ASSUME StreamIInv, WriteOther
  PROVE  StreamIInv'
<1>1. /\ Shape /\ status = "open" /\ wire = <<>> /\ ~ended /\ Quiet /\ event_type = NoType
      /\ frames < MaxFrames /\ frames' = frames + 1
      /\ UNCHANGED <<status, event_type, data_lines, emitted, ended, sent, flawed>>
  <2>1. /\ status = "open" /\ wire = <<>> /\ ~ended /\ frames < MaxFrames
        /\ frames' = frames + 1
        /\ UNCHANGED <<status, event_type, data_lines, emitted, ended, sent, flawed>>
    BY DEF WriteOther, reader
  <2> QED
    BY <2>1, WritesWhenQuiet DEF StreamIInv, Underway
<1>2. PICK t \in Types :
        wire' \in {<<Other>>, <<EventLine(t), Blank>>, <<EventLine(t), Other, Blank>>}
  BY DEF WriteOther
<1>3. /\ wire' \in Seq(Lines) /\ \A i \in 1 .. Len(wire') : wire'[i] \notin Pieces
      /\ \A i \in 1 .. Len(wire') - 1 : wire'[i] # Blank
      /\ wire' = <<Other>> \/ EndsBlank'
  <2>1. CASE wire' = <<Other>>
    <3>1. wire' \in Seq(Lines) /\ Len(wire') = 1 /\ wire'[1] = Other
      BY <2>1, LinesAre
    <3> QED
      BY <2>1, <3>1, LinesAre
  <2>2. CASE wire' = <<EventLine(t), Blank>>
    <3>1. /\ wire' \in Seq(Lines) /\ Len(wire') = 2 /\ wire' # <<>>
          /\ wire'[1] = EventLine(t) /\ wire'[2] = Blank
      BY <2>2, LinesAre
    <3> QED
      BY <3>1, LinesAre DEF EndsBlank
  <2>3. CASE wire' = <<EventLine(t), Other, Blank>>
    <3>1. /\ wire' \in Seq(Lines) /\ Len(wire') = 3 /\ wire' # <<>>
          /\ wire'[1] = EventLine(t) /\ wire'[2] = Other /\ wire'[3] = Blank
      BY <2>3, LinesAre
    <3> QED
      BY <3>1, LinesAre DEF EndsBlank
  <2> QED
    BY <1>2, <2>1, <2>2, <2>3
<1>4. Quiet'
  BY <1>1, <1>3 DEF Quiet
<1>5. frames' \in 0 .. MaxFrames
  BY <1>1, StreamAssumption DEF Shape
<1>6. Shape'
  BY <1>1, <1>3, <1>5 DEF Shape
<1> QED
  BY <1>1, <1>4, <1>6, GoesOn DEF Underway

-----------------------------------------------------------------------------
(* The event stream: the reader. *)

\* What the reader finds first, while a document is on its way.
LEMMA ComingStarts ==
  ASSUME Shape, NEW doc, NEW t, NEW layout \in Readable, NEW n \in 0 .. 2, NEW o \in 0 .. 1,
         Coming(doc, t, layout, n, o), wire # <<>>
  PROVE  \/ o = 1 /\ n = 0 /\ wire[1] = EventLine(t)
         \/ /\ o = 0 /\ n < Len(layout) /\ event_type = t
            /\ wire[1] = DataLine(layout[n + 1], doc)
         \/ /\ o = 0 /\ n = Len(layout) /\ event_type = t
            /\ Len(wire) = 1 /\ wire[1] \in {Blank, Other}
<1>1. Len(wire) \in Nat \ {0} /\ Len(layout) \in 1 .. 2 /\ n <= Len(layout)
  BY EmptySeq, Readables DEF Shape, Coming, Divided
<1>2. CASE o = 1
  BY <1>2 DEF Coming
<1>3. CASE o = 0 /\ n < Len(layout)
  <2>1. n + 1 \in n + 1 .. Len(layout) /\ o + (n + 1) - n = 1
    BY <1>1, <1>3
  <2>2. wire[1] = DataLine(layout[n + 1], doc)
    BY <2>1 DEF Coming, Divided
  <2> QED
    BY <1>3, <2>2 DEF Coming
<1>4. CASE o = 0 /\ n = Len(layout)
  <2>1. Len(wire) \in {o + Len(layout) - n, o + Len(layout) - n + 1}
    BY DEF Coming, Divided
  <2>2. o + Len(layout) - n = 0 /\ o + Len(layout) - n + 1 = 1
    BY <1>1, <1>4
  <2>3. Len(wire) = 1
    BY <1>1, <2>1, <2>2
  <2>4. wire[Len(wire)] \in {Blank, Other}
    BY <2>2, <2>3 DEF Coming, Divided
  <2> QED
    BY <1>4, <2>3, <2>4 DEF Coming
<1> QED
  BY <1>1, <1>2, <1>3, <1>4

\* The reader gets no further with a frame that cannot be read.
LEMMA HopelessStands ==
  ASSUME NEW kind \in {"event", "data", "other"}, Shape, Take(kind), Hopeless,
         data_lines' = IF kind = "data" THEN Append(data_lines, Head(wire)) ELSE data_lines,
         emitted' = emitted
  PROVE  Hopeless'
<1>1. /\ Len(wire) \in Nat \ {0} /\ wire[1] \in Lines /\ wire[1].field = kind
      /\ Head(wire) = wire[1] /\ Len(wire') = Len(wire) - 1
      /\ \A i \in 1 .. Len(wire') : wire'[i] = wire[i + 1]
      /\ UNCHANGED <<ended, sent, flawed>>
  BY Taken
<1>2. \A i \in 1 .. Len(wire') : i + 1 \in 1 .. Len(wire)
  BY <1>1
<1>3. \A i \in 1 .. Len(wire') : Unreadable(wire'[i])
  BY <1>1, <1>2 DEF Hopeless
<1>4. ended \/ EndsBlank => ended' \/ EndsBlank'
  BY <1>1, TakenEndsBlank
<1>5. CASE kind = "data"
  <2>1. wire[1] \in Pieces /\ Unreadable(wire[1])
    <3>1. wire[1] \in Pieces
      BY <1>1, <1>5, LinesDiffer
    <3>2. 1 \in 1 .. Len(wire)
      BY <1>1
    <3> QED
      BY <3>1, <3>2 DEF Hopeless
  <2>2. data_lines \in Seq(Pieces) /\ data_lines' = Append(data_lines, wire[1])
    BY <1>1, <1>5 DEF Shape
  <2>3. /\ data_lines' # <<>> /\ Len(data_lines') = Len(data_lines) + 1
        /\ \A i \in 1 .. Len(data_lines) : data_lines'[i] = data_lines[i]
        /\ data_lines'[Len(data_lines) + 1] = wire[1] /\ Len(data_lines) \in Nat
    BY <2>1, <2>2, AppendProperties, LenProperties
  <2>4. \A i \in 1 .. Len(data_lines') : Unreadable(data_lines'[i])
    <3>1. \A i \in 1 .. Len(data_lines') : i \in 1 .. Len(data_lines) \/ i = Len(data_lines) + 1
      BY <2>3
    <3> QED
      BY <2>1, <2>3, <3>1 DEF Hopeless
  <2> QED
    BY <1>1, <1>3, <1>4, <2>3, <2>4 DEF Hopeless
<1>6. CASE kind \in {"event", "other"}
  <2>1. wire[1] \notin Pieces /\ data_lines' = data_lines
    BY <1>1, <1>6, LinesDiffer
  <2>2. ASSUME NEW i \in 1 .. Len(wire), wire[i] \in Pieces
        PROVE  \E j \in 1 .. Len(wire') : wire'[j] \in Pieces
    <3>1. i > 1
      BY <1>1, <2>1, <2>2
    <3>2. i - 1 \in 1 .. Len(wire') /\ (i - 1) + 1 = i
      BY <1>1, <3>1
    <3>3. wire'[i - 1] = wire[i]
      BY <1>1, <3>2
    <3> QED
      BY <2>2, <3>2, <3>3
  <2> QED
    BY <1>1, <1>3, <1>4, <2>1, <2>2 DEF Hopeless
<1> QED
  BY <1>5, <1>6

\* What a step leaves alone, with what is read of a line.
LEMMA ReadShape ==
  ASSUME NEW kind, Shape, Take(kind), event_type' \in Types \cup {NoType},
         data_lines' \in Seq(Pieces), UNCHANGED <<status, emitted>>
  PROVE  Shape'
<1>1. /\ wire' \in Seq(Lines) /\ \A i \in 1 .. Len(wire') - 1 : wire'[i] # Blank
      /\ UNCHANGED <<ended, sent, frames, flawed>>
  BY Taken
<1> QED
  BY <1>1 DEF Shape

LEMMA ReadsEvent ==
  ASSUME StreamIInv, ReadEvent
  PROVE  StreamIInv'
<1>1. /\ Shape /\ Take("event") /\ event_type' = Head(wire).type
      /\ UNCHANGED <<status, data_lines, emitted>>
  BY DEF ReadEvent, StreamIInv
<1>2. /\ Len(wire) \in Nat \ {0} /\ wire[1] \in Lines /\ wire[1].field = "event"
      /\ Head(wire) = wire[1] /\ Len(wire') = Len(wire) - 1
      /\ \A i \in 1 .. Len(wire') : wire'[i] = wire[i + 1]
      /\ status = "open" /\ UNCHANGED <<ended, sent, frames, flawed>>
  BY <1>1, Taken
<1>3. event_type' \in Types \cup {NoType} /\ wire[1] = EventLine(event_type')
  BY <1>1, <1>2, LinesDiffer
<1>4. wire[1] \notin Pieces \cup {Blank, Other}
  BY <1>2, <1>3, LinesDiffer
<1>5. ended \/ EndsBlank => ended' \/ EndsBlank'
  BY <1>1, <1>2, TakenEndsBlank
<1>6. Shape'
  BY <1>1, <1>3, ReadShape DEF Shape
<1>7. wire # <<>> /\ wire # <<Other>>
  <2>1. <<Other>>[1] = Other
    OBVIOUS
  <2> QED
    BY <1>2, <1>4, <2>1, EmptySeq
<1>8. ASSUME Quiet PROVE Quiet'
  <2>1. \A i \in 1 .. Len(wire') : i + 1 \in 1 .. Len(wire)
    BY <1>2
  <2> QED
    BY <1>1, <1>2, <1>5, <1>7, <1>8, <2>1 DEF Quiet
<1>9. ASSUME SomethingComes PROVE SomethingComes'
  <2>1. PICK doc \in Documents, t \in Types \cup {NoType}, layout \in Readable,
             n \in 0 .. 2, o \in 0 .. 1 : Coming(doc, t, layout, n, o)
    BY <1>9 DEF SomethingComes
  <2>2. n < Len(layout) => wire[1] # DataLine(layout[n + 1], doc)
    <3>1. n < Len(layout) => layout[n + 1] \in Parts
      BY Readables DEF Parts
    <3> QED
      BY <1>4, <3>1, PiecesAreData
  <2>3. o = 1 /\ n = 0 /\ wire[1] = EventLine(t)
    BY <1>1, <1>4, <1>7, <2>1, <2>2, ComingStarts
  <2>4. event_type' = t
    BY <1>3, <2>3 DEF EventLine
  <2>5. Len(layout) \in 1 .. 2
    BY Readables
  <2>6. Divided(doc, layout, 0, 0)'
    <3>1. /\ Len(data_lines') = 0 /\ Len(wire) \in {1 + Len(layout), 1 + Len(layout) + 1}
          /\ \A i \in 1 .. Len(layout) : wire[1 + i] = DataLine(layout[i], doc)
          /\ Len(wire) = 1 + Len(layout) + 1 => wire[Len(wire)] \in {Blank, Other}
      BY <1>1, <2>1, <2>3, <2>5 DEF Coming, Divided
    <3>2. \A i \in 1 .. Len(layout) : wire'[i] = DataLine(layout[i], doc)
      BY <1>2, <2>5, <3>1
    <3>3. Len(wire') = Len(layout) + 1 => wire'[Len(wire')] \in {Blank, Other}
      BY <1>2, <2>5, <3>1
    <3> QED
      BY <1>2, <2>5, <3>1, <3>2, <3>3 DEF Divided
  <2>7. ended' \/ (EndsBlank' /\ Len(wire') = 0 + Len(layout) - 0 + 1)
    BY <1>2, <1>5, <2>1, <2>3, <2>5 DEF Coming
  <2>8. Coming(doc, t, layout, 0, 0)'
    BY <1>1, <1>2, <2>1, <2>4, <2>6, <2>7 DEF Coming
  <2> QED
    BY <2>8 DEF SomethingComes
<1>10. ASSUME Hopeless PROVE Hopeless'
  BY <1>1, <1>10, HopelessStands
<1> QED
  BY <1>1, <1>2, <1>6, <1>8, <1>9, <1>10, GoesOn DEF StreamIInv, Underway

LEMMA ReadsOther ==
  ASSUME StreamIInv, ReadOther
  PROVE  StreamIInv'
<1>1. /\ Shape /\ Take("other") /\ UNCHANGED <<status, event_type, data_lines, emitted>>
  BY DEF ReadOther, StreamIInv, reader
<1>2. /\ Len(wire) \in Nat \ {0} /\ wire[1] \in Lines /\ wire[1].field = "other"
      /\ Len(wire') = Len(wire) - 1 /\ wire' \in Seq(Lines)
      /\ \A i \in 1 .. Len(wire') : wire'[i] = wire[i + 1]
      /\ status = "open" /\ UNCHANGED <<ended, sent, frames, flawed>>
  BY <1>1, Taken
<1>3. wire[1] = Other /\ wire # <<>>
  BY <1>2, LinesDiffer, EmptySeq
<1>4. ended \/ EndsBlank => ended' \/ EndsBlank'
  BY <1>1, <1>2, TakenEndsBlank
<1>5. Shape'
  BY <1>1, ReadShape DEF Shape
<1>6. wire = <<Other>> => wire' = <<>>
  BY <1>2, EmptySeq
<1>7. ASSUME Quiet PROVE Quiet'
  <2>1. \A i \in 1 .. Len(wire') : i + 1 \in 1 .. Len(wire)
    BY <1>2
  <2> QED
    BY <1>1, <1>2, <1>3, <1>4, <1>6, <1>7, <2>1 DEF Quiet
<1>8. ASSUME SomethingComes PROVE SomethingComes'
  <2>1. PICK doc \in Documents, t \in Types \cup {NoType}, layout \in Readable,
             n \in 0 .. 2, o \in 0 .. 1 : Coming(doc, t, layout, n, o)
    BY <1>8 DEF SomethingComes
  <2>2. n < Len(layout) => wire[1] # DataLine(layout[n + 1], doc)
    <3>1. n < Len(layout) => layout[n + 1] \in Parts
      BY Readables DEF Parts
    <3> QED
      BY <1>3, <3>1, PiecesAreData, LinesAre
  <2>3. o = 0 /\ n = Len(layout) /\ event_type = t /\ Len(wire) = 1
    BY <1>1, <1>3, <2>1, <2>2, ComingStarts, LinesAre
  <2>4. Len(layout) \in 1 .. 2 /\ Len(wire') = 0
    BY <1>2, <2>3, Readables
  <2>5. ended
    <3>1. ~EndsBlank
      BY <1>3, <2>3, LinesAre DEF EndsBlank
    <3> QED
      BY <2>1, <3>1 DEF Coming
  <2>6. Divided(doc, layout, n, 0)'
    <3>1. /\ n <= Len(layout) /\ Len(data_lines') = n
          /\ \A i \in 1 .. n : data_lines'[i] = DataLine(layout[i], doc)
      BY <1>1, <2>1 DEF Coming, Divided
    <3>2. Len(wire') = 0 + Len(layout) - n /\ Len(wire') # 0 + Len(layout) - n + 1
      BY <2>3, <2>4
    <3>3. \A i \in n + 1 .. Len(layout) : FALSE
      BY <2>3, <2>4
    <3> QED
      BY <3>1, <3>2, <3>3 DEF Divided
  <2>7. Coming(doc, t, layout, n, 0)'
    BY <1>1, <1>2, <2>1, <2>3, <2>5, <2>6 DEF Coming
  <2> QED
    BY <2>7 DEF SomethingComes
<1>9. ASSUME Hopeless PROVE Hopeless'
  BY <1>1, <1>9, HopelessStands
<1> QED
  BY <1>1, <1>2, <1>5, <1>7, <1>8, <1>9, GoesOn DEF StreamIInv, Underway

LEMMA ReadsData ==
  ASSUME StreamIInv, ReadData
  PROVE  StreamIInv'
<1>1. /\ Shape /\ Take("data") /\ data_lines' = Append(data_lines, Head(wire))
      /\ UNCHANGED <<status, event_type, emitted>>
  BY DEF ReadData, StreamIInv
<1>2. /\ Len(wire) \in Nat \ {0} /\ wire[1] \in Lines /\ wire[1].field = "data"
      /\ Head(wire) = wire[1] /\ Len(wire') = Len(wire) - 1
      /\ \A i \in 1 .. Len(wire') : wire'[i] = wire[i + 1]
      /\ status = "open" /\ UNCHANGED <<ended, sent, frames, flawed>>
  BY <1>1, Taken
<1>3. wire[1] \in Pieces /\ wire # <<>> /\ 1 \in 1 .. Len(wire)
  <2>1. wire[1] \in Pieces
    BY <1>2, LinesDiffer
  <2>2. wire # <<>>
    BY <1>2, EmptySeq
  <2> QED
    BY <1>2, <2>1, <2>2
<1>4. /\ data_lines' \in Seq(Pieces) /\ Len(data_lines') = Len(data_lines) + 1
      /\ \A i \in 1 .. Len(data_lines) : data_lines'[i] = data_lines[i]
      /\ data_lines'[Len(data_lines) + 1] = wire[1]
  <2>1. data_lines \in Seq(Pieces) /\ data_lines' = Append(data_lines, wire[1])
    BY <1>1, <1>2 DEF Shape
  <2> QED
    BY <1>3, <2>1, AppendProperties
<1>5. ended \/ EndsBlank => ended' \/ EndsBlank'
  BY <1>1, <1>2, TakenEndsBlank
<1>6. Shape'
  BY <1>1, <1>4, ReadShape DEF Shape
<1>7. ~Quiet
  BY <1>3 DEF Quiet
<1>8. ASSUME SomethingComes PROVE SomethingComes'
  <2>1. PICK doc \in Documents, t \in Types \cup {NoType}, layout \in Readable,
             n \in 0 .. 2, o \in 0 .. 1 : Coming(doc, t, layout, n, o)
    BY <1>8 DEF SomethingComes
  <2>2. /\ o = 0 /\ n < Len(layout) /\ event_type = t
        /\ wire[1] = DataLine(layout[n + 1], doc)
    BY <1>1, <1>3, <2>1, ComingStarts, LinesAre
  <2>3. Len(layout) \in 1 .. 2 /\ n + 1 \in 0 .. 2 /\ n + 1 <= Len(layout)
    BY <2>2, Readables
  <2>4. /\ Len(data_lines) = n /\ \A i \in 1 .. n : data_lines[i] = DataLine(layout[i], doc)
        /\ Len(wire) \in {Len(layout) - n, Len(layout) - n + 1}
        /\ \A i \in n + 1 .. Len(layout) : wire[i - n] = DataLine(layout[i], doc)
        /\ Len(wire) = Len(layout) - n + 1 => wire[Len(wire)] \in {Blank, Other}
    <3>1. 0 + Len(layout) - n = Len(layout) - n /\ \A i \in n + 1 .. Len(layout) : 0 + i - n = i - n
      BY <2>3
    <3> QED
      BY <2>1, <2>2, <3>1 DEF Coming, Divided
  <2>5. Divided(doc, layout, n + 1, 0)'
    <3>1. \A i \in 1 .. n + 1 : data_lines'[i] = DataLine(layout[i], doc)
      <4>1. \A i \in 1 .. n + 1 : i \in 1 .. n \/ i = n + 1
        OBVIOUS
      <4>2. \A i \in 1 .. n : data_lines'[i] = DataLine(layout[i], doc)
        BY <1>4, <2>4
      <4>3. data_lines'[n + 1] = DataLine(layout[n + 1], doc)
        BY <1>4, <2>2, <2>4
      <4> QED
        BY <4>1, <4>2, <4>3
    <3>2. \A i \in (n + 1) + 1 .. Len(layout) :
            wire'[0 + i - (n + 1)] = DataLine(layout[i], doc)
      <4>1. SUFFICES ASSUME NEW i \in (n + 1) + 1 .. Len(layout)
                     PROVE  wire'[0 + i - (n + 1)] = DataLine(layout[i], doc)
        OBVIOUS
      <4>2. /\ 0 + i - (n + 1) \in 1 .. Len(wire') /\ (0 + i - (n + 1)) + 1 = i - n
            /\ i \in n + 1 .. Len(layout)
        BY <1>2, <2>3, <2>4
      <4> QED
        BY <1>2, <2>4, <4>2
    <3>3. Len(wire') \in {0 + Len(layout) - (n + 1), 0 + Len(layout) - (n + 1) + 1}
      BY <1>2, <2>3, <2>4
    <3>4. Len(wire') = 0 + Len(layout) - (n + 1) + 1 => wire'[Len(wire')] \in {Blank, Other}
      BY <1>2, <2>3, <2>4
    <3> QED
      BY <1>4, <2>3, <2>4, <3>1, <3>2, <3>3, <3>4 DEF Divided
  <2>6. ended' \/ (EndsBlank' /\ Len(wire') = 0 + Len(layout) - (n + 1) + 1)
    BY <1>2, <1>5, <2>1, <2>2, <2>3 DEF Coming
  <2>7. Coming(doc, t, layout, n + 1, 0)'
    BY <1>1, <1>2, <2>1, <2>2, <2>5, <2>6 DEF Coming
  <2> QED
    BY <2>3, <2>7 DEF SomethingComes
<1>9. ASSUME Hopeless PROVE Hopeless'
  BY <1>1, <1>9, HopelessStands
<1> QED
  BY <1>1, <1>2, <1>6, <1>7, <1>8, <1>9, GoesOn DEF StreamIInv, Underway

\* At the end of a frame that has data, either its document is whole, and with it
\* everything that was sent is yielded, or the iterator raises for a cause.
LEMMA Dispatches ==
  ASSUME StreamIInv, status = "open", NEW next, Dispatch(next), Len(data_lines) > 0,
         (wire = <<>> /\ ended) \/ (wire # <<>> /\ wire[1] = Blank)
  PROVE  \/ status' = "failed" /\ emitted' = emitted /\ flawed
         \/ status' = next /\ emitted' = sent /\ emitted' \in Seq(Acceptable)
<1>1. Shape /\ Underway /\ data_lines \in Seq(Pieces) /\ Len(data_lines) \in Nat
  BY LenProperties DEF StreamIInv, Underway, Shape
<1>2. \A i \in 1 .. Len(data_lines) : data_lines[i] \in Pieces
  BY <1>1, ElementOfSeq
<1>3. ~Quiet
  <2>1. data_lines # <<>>
    BY <1>1, EmptySeq
  <2> QED
    BY <2>1 DEF Quiet
<1>4. CASE SomethingComes
  <2>1. PICK doc \in Documents, t \in Types \cup {NoType}, layout \in Readable,
             n \in 0 .. 2, o \in 0 .. 1 : Coming(doc, t, layout, n, o)
    BY <1>4 DEF SomethingComes
  <2>2. o = 0 /\ n = Len(layout) /\ event_type = t
    <3>1. CASE wire = <<>>
      <4>1. Len(wire) = 0 /\ Len(layout) \in 1 .. 2
        BY <3>1, EmptySeq, Readables
      <4>2. n <= Len(layout) /\ Len(wire) \in {o + Len(layout) - n, o + Len(layout) - n + 1}
        BY <2>1 DEF Coming, Divided
      <4>3. o = 0 /\ n = Len(layout)
        BY <4>1, <4>2
      <4> QED
        BY <2>1, <4>3 DEF Coming
    <3>2. CASE wire # <<>> /\ wire[1] = Blank
      <4>1. n < Len(layout) => DataLine(layout[n + 1], doc) # Blank
        <5>1. n < Len(layout) => layout[n + 1] \in Parts
          BY Readables DEF Parts
        <5> QED
          BY <5>1, PiecesAreData, LinesAre
      <4> QED
        BY <1>1, <2>1, <3>2, <4>1, ComingStarts, LinesAre
    <3> QED
      BY <3>1, <3>2
  <2>3. /\ Len(data_lines) = Len(layout)
        /\ \A i \in 1 .. Len(layout) : data_lines[i] = DataLine(layout[i], doc)
    BY <2>1, <2>2 DEF Coming, Divided
  <2>4. Parses(data_lines) /\ data_lines[1].doc = doc
    <3>1. CASE Len(layout) = 1 /\ layout[1] = "whole"
      <4>1. data_lines[1] = DataLine("whole", doc)
        BY <2>3, <3>1
      <4> QED
        BY <2>3, <3>1, <4>1, PiecesAreData DEF Parses
    <3>2. CASE Len(layout) = 2 /\ layout[1] = "head" /\ layout[2] = "tail"
      <4>1. data_lines[1] = DataLine("head", doc) /\ data_lines[2] = DataLine("tail", doc)
        BY <2>3, <3>2
      <4> QED
        BY <2>3, <3>2, <4>1, PiecesAreData DEF Parses
    <3> QED
      BY <3>1, <3>2, Readables
  <2>5. sent = Append(emitted, Typed(doc, t)) /\ (Accepts(Typed(doc, t)) \/ flawed)
    BY <2>1 DEF Coming
  <2>6. CASE Accepts(Typed(doc, t))
    <3>1. emitted' = sent /\ status' = next
      BY <2>2, <2>4, <2>5, <2>6 DEF Dispatch
    <3>2. Typed(doc, t) \in Acceptable
      BY <2>6, TypedIsDocument
    <3>3. Append(emitted, Typed(doc, t)) \in Seq(Acceptable)
      BY <1>1, <3>2, AppendProperties DEF Shape
    <3> QED
      BY <2>5, <3>1, <3>3
  <2>7. CASE ~Accepts(Typed(doc, t))
    BY <2>2, <2>4, <2>5, <2>7 DEF Dispatch
  <2> QED
    BY <2>6, <2>7
<1>5. CASE Hopeless
  <2>1. \A i \in 1 .. Len(data_lines) : data_lines[i].part \in {"head", "cut"}
    BY <1>2, <1>5 DEF Hopeless, Unreadable
  <2>2. ~Parses(data_lines)
    BY <2>1 DEF Parses
  <2> QED
    BY <1>5, <2>2 DEF Dispatch, Hopeless
<1> QED
  BY <1>1, <1>3, <1>4, <1>5 DEF Underway

LEMMA ReadsBlank ==
  ASSUME StreamIInv, ReadBlank
  PROVE  StreamIInv'
<1>1. /\ Shape /\ Underway /\ Take("") /\ status = "open"
      /\ event_type' = NoType /\ data_lines' = <<>>
      /\ IF data_lines # <<>> THEN Dispatch("open") ELSE UNCHANGED <<status, emitted>>
  BY DEF ReadBlank, Take, StreamIInv, Underway
<1>2. /\ Len(wire) \in Nat \ {0} /\ Len(wire') = Len(wire) - 1 /\ wire' \in Seq(Lines)
      /\ UNCHANGED <<ended, sent, frames, flawed>>
  BY <1>1, Taken
<1>3. wire[1] = Blank /\ wire # <<>>
  <2>1. wire[1] \in Lines /\ wire[1].field = ""
    BY <1>1, Taken
  <2>2. wire[1] = Blank
    BY <2>1, LinesDiffer
  <2> QED
    BY <1>2, <2>2, EmptySeq
\* A blank line ends what is on the wire.
<1>4. Len(wire) = 1 /\ wire' = <<>>
  <2>1. Len(wire) > 1 => wire[1] # Blank
    <3>1. Len(wire) > 1 => 1 \in 1 .. Len(wire) - 1
      BY <1>2
    <3> QED
      BY <1>1, <3>1 DEF Shape
  <2>2. \A n \in Nat \ {0} : n > 1 \/ n = 1
    OBVIOUS
  <2>3. Len(wire) = 1
    BY <1>2, <1>3, <2>1, <2>2
  <2>4. Len(wire') = 0
    BY <1>2, <2>3
  <2> QED
    BY <1>2, <2>3, <2>4, EmptySeq
<1>5. Len(wire') = 0 /\ Len(data_lines') = 0 /\ data_lines' \in Seq(Pieces)
  BY <1>1, <1>4, EmptySeq
<1>6. status' \in {"open", "failed"} /\ emitted' \in Seq(Acceptable) => Shape'
  <2>1. \A i \in 1 .. Len(wire') - 1 : wire'[i] # Blank
    BY <1>5
  <2> QED
    BY <1>1, <1>2, <1>5, <2>1 DEF Shape
<1>7. emitted' = sent' => Quiet'
  <2>1. \A i \in 1 .. Len(wire') : wire'[i] \notin Pieces
    BY <1>5
  <2> QED
    BY <1>1, <1>4, <2>1 DEF Quiet
<1>8. CASE data_lines = <<>>
  <2>1. UNCHANGED <<status, emitted>>
    BY <1>1, <1>8
  <2>2. Shape'
    BY <1>1, <1>6, <2>1 DEF Shape
  <2>3. ~SomethingComes
    <3>1. SUFFICES ASSUME NEW doc \in Documents, NEW t \in Types \cup {NoType},
                          NEW layout \in Readable, NEW n \in 0 .. 2, NEW o \in 0 .. 1,
                          Coming(doc, t, layout, n, o)
                   PROVE  FALSE
      BY DEF SomethingComes
    <3>2. n = 0 /\ Len(layout) \in 1 .. 2
      BY <1>8, <3>1, EmptySeq, Readables DEF Coming, Divided
    <3>3. DataLine(layout[n + 1], doc) # Blank
      <4>1. layout[n + 1] \in Parts
        BY <3>2, Readables DEF Parts
      <4> QED
        BY <4>1, PiecesAreData, LinesAre
    <3>4. EventLine(t) # Blank
      BY LinesAre
    <3>5. \/ wire[1] = EventLine(t)
          \/ wire[1] = DataLine(layout[n + 1], doc)
          \/ n = Len(layout)
      BY <1>1, <1>3, <3>1, ComingStarts
    <3>6. n < Len(layout)
      BY <3>2
    <3> QED
      BY <1>3, <3>3, <3>4, <3>5, <3>6
  <2>4. emitted = sent
    <3>1. CASE Hopeless
      <4>1. \A i \in 1 .. Len(wire) : wire[i] \notin Pieces
        BY <1>3, <1>4, LinesAre
      <4> QED
        BY <1>8, <3>1, <4>1 DEF Hopeless
    <3> QED
      BY <1>1, <2>3, <3>1 DEF Underway, Quiet
  <2> QED
    BY <1>1, <1>2, <1>7, <2>1, <2>2, <2>4, GoesOn DEF Underway
<1>9. CASE data_lines # <<>>
  <2>1. Dispatch("open") /\ Len(data_lines) > 0
    <3>1. Dispatch("open")
      BY <1>1, <1>9
    <3>2. Len(data_lines) \in Nat \ {0}
      BY <1>1, <1>9, EmptySeq DEF Shape
    <3>3. Len(data_lines) > 0
      BY <3>2
    <3> QED
      BY <3>1, <3>3
  <2>2. \/ status' = "failed" /\ emitted' = emitted /\ flawed
        \/ status' = "open" /\ emitted' = sent /\ emitted' \in Seq(Acceptable)
    BY <1>1, <1>3, <2>1, Dispatches
  <2>3. CASE status' = "failed" /\ emitted' = emitted /\ flawed
    <3>1. Shape'
      BY <1>1, <1>6, <2>3 DEF Shape
    <3>2. EmittedAsSent'
      BY <1>2, <2>3 DEF StreamIInv, EmittedAsSent
    <3> QED
      BY <1>2, <2>3, <3>1, <3>2 DEF StreamIInv, DoneIsComplete, FailsForCause
  <2>4. CASE status' = "open" /\ emitted' = sent /\ emitted' \in Seq(Acceptable)
    BY <1>2, <1>6, <1>7, <2>4, GoesOn DEF Underway
  <2> QED
    BY <2>2, <2>3, <2>4
<1> QED
  BY <1>8, <1>9

LEMMA EndsBody ==
  ASSUME StreamIInv, EndOfBody
  PROVE  StreamIInv'
<1>1. /\ Shape /\ Underway /\ status = "open" /\ ended /\ wire = <<>>
      /\ IF data_lines # <<>> THEN Dispatch("done") ELSE status' = "done" /\ UNCHANGED emitted
      /\ UNCHANGED <<wire, ended, event_type, data_lines, sent, frames, flawed>>
  BY DEF EndOfBody, StreamIInv, Underway
<1>2. emitted' \in Seq(Acceptable) /\ status' \in {"done", "failed"} => Shape'
  BY <1>1 DEF Shape
<1>3. CASE data_lines = <<>>
  <2>1. status' = "done" /\ UNCHANGED emitted
    BY <1>1, <1>3
  <2>2. Shape'
    BY <1>1, <1>2, <2>1 DEF Shape
  <2>3. ~SomethingComes
    <3>1. SUFFICES ASSUME NEW doc \in Documents, NEW t \in Types \cup {NoType},
                          NEW layout \in Readable, NEW n \in 0 .. 2, NEW o \in 0 .. 1,
                          Coming(doc, t, layout, n, o)
                   PROVE  FALSE
      BY DEF SomethingComes
    <3>2. n = 0 /\ Len(layout) \in 1 .. 2
      BY <1>3, <3>1, EmptySeq, Readables DEF Coming, Divided
    <3>3. Len(wire) = 0 /\ Len(wire) \in {o + Len(layout) - n, o + Len(layout) - n + 1}
      BY <1>1, <3>1, EmptySeq DEF Coming, Divided
    <3>4. o + Len(layout) - n > 0
      BY <3>2
    <3> QED
      BY <3>2, <3>3, <3>4
  <2>4. emitted = sent
    <3>1. CASE Hopeless
      <4>1. \A i \in 1 .. Len(wire) : FALSE
        BY <1>1, EmptySeq
      <4> QED
        BY <1>3, <3>1, <4>1 DEF Hopeless
    <3> QED
      BY <1>1, <2>3, <3>1 DEF Underway, Quiet
  <2>5. EmittedAsSent'
    BY <1>1, <2>1 DEF StreamIInv, EmittedAsSent
  <2> QED
    BY <1>1, <2>1, <2>2, <2>4, <2>5 DEF StreamIInv, DoneIsComplete, FailsForCause
<1>4. CASE data_lines # <<>>
  <2>1. Dispatch("done") /\ Len(data_lines) > 0
    <3>1. Len(data_lines) \in Nat \ {0}
      BY <1>1, <1>4, EmptySeq DEF Shape
    <3> QED
      BY <1>1, <1>4, <3>1
  <2>2. \/ status' = "failed" /\ emitted' = emitted /\ flawed
        \/ status' = "done" /\ emitted' = sent /\ emitted' \in Seq(Acceptable)
    BY <1>1, <2>1, Dispatches
  <2>3. Shape'
    BY <1>1, <1>2, <2>2 DEF Shape
  <2>4. EmittedAsSent'
    <3>1. CASE emitted' = emitted
      BY <1>1, <3>1 DEF StreamIInv, EmittedAsSent
    <3>2. CASE emitted' = sent
      <4>1. IsPrefix(sent, sent)
        BY <1>1, PrefixOfItself DEF Shape
      <4> QED
        BY <1>1, <3>2, <4>1 DEF EmittedAsSent
    <3> QED
      BY <2>2, <3>1, <3>2
  <2> QED
    BY <1>1, <2>2, <2>3, <2>4 DEF StreamIInv, DoneIsComplete, FailsForCause
<1> QED
  BY <1>3, <1>4

-----------------------------------------------------------------------------
(* The event stream: the end of the body. *)

\* What the cut body holds are lines from before, or a line that holds no part.
LEMMA CutLines ==
  ASSUME Shape, NEW k \in 0 .. Len(wire), Cut(k), wire' \in Seq(Lines)
  PROVE  \A i \in 1 .. Len(wire') :
           \/ i \in 1 .. k /\ i \in 1 .. Len(wire) /\ wire'[i] = wire[i]
           \/ i = k + 1 /\ i \in 1 .. Len(wire) /\ wire'[i] = Other
           \/ /\ i = k + 1 /\ i \in 1 .. Len(wire) /\ wire[i] \in Pieces
              /\ wire'[i] \in Pieces /\ wire'[i].part = "cut"
<1>1. SUFFICES ASSUME NEW i \in 1 .. Len(wire')
               PROVE  \/ i \in 1 .. k /\ i \in 1 .. Len(wire) /\ wire'[i] = wire[i]
                      \/ i = k + 1 /\ i \in 1 .. Len(wire) /\ wire'[i] = Other
                      \/ /\ i = k + 1 /\ i \in 1 .. Len(wire) /\ wire[i] \in Pieces
                         /\ wire'[i] \in Pieces /\ wire'[i].part = "cut"
  OBVIOUS
<1>2. Len(wire) \in Nat /\ Len(wire') \in Nat
  BY LenProperties DEF Shape
<1>3. Len(wire') \in {k, k + 1} /\ k \in Nat /\ k <= Len(wire)
  BY <1>2 DEF Cut
<1>4. CASE i <= k
  <2>1. i \in 1 .. k /\ i \in 1 .. Len(wire)
    BY <1>2, <1>3, <1>4
  <2> QED
    BY <2>1 DEF Cut
<1>5. CASE i > k
  <2>1. i = k + 1 /\ Len(wire') = k + 1
    BY <1>2, <1>3, <1>5
  <2>2. k < Len(wire)
    BY <2>1 DEF Cut
  <2>3. i \in 1 .. Len(wire)
    BY <1>2, <1>3, <2>1, <2>2
  <2>4. \/ wire'[i] = Other
        \/ wire[i] \in Pieces /\ wire'[i] = DataLine("cut", wire[i].doc)
    BY <2>1 DEF Cut
  <2>5. ASSUME wire[i] \in Pieces
        PROVE  /\ DataLine("cut", wire[i].doc) \in Pieces
               /\ DataLine("cut", wire[i].doc).part = "cut"
    BY <2>5, PiecesAreData DEF Parts
  <2> QED
    BY <2>1, <2>3, <2>4, <2>5
<1> QED
  BY <1>2, <1>3, <1>4, <1>5

\* If data is missed, its document is not meant any more.
LEMMA MissedIsTakenBack ==
  ASSUME Shape, NEW k \in 0 .. Len(wire), Cut(k), wire' \in Seq(Lines), ended',
         UNCHANGED <<data_lines, emitted>>,
         NEW doc \in Documents, sent = Append(emitted, doc),
         \E i \in k + 1 .. Len(wire) : wire[i] \in Pieces,
         \A i \in 1 .. Len(data_lines) : Unreadable(data_lines[i]),
         \A i \in 1 .. k : Unreadable(wire[i])
  PROVE  Hopeless' /\ sent' \in Seq(Documents)
<1>1. sent' = Front(sent) /\ flawed'
  BY DEF Cut
<1>2. emitted \in Seq(Acceptable) /\ Acceptable \subseteq Documents
  BY DEF Shape, Acceptable
<1>3. sent' = emitted
  BY <1>1, <1>2, PrefixGrows
<1>4. sent' \in Seq(Documents)
  BY <1>2, <1>3, SeqMonotonic
<1>5. \A i \in 1 .. Len(wire') : Unreadable(wire'[i])
  BY CutLines, LinesAre DEF Unreadable
<1> QED
  BY <1>1, <1>3, <1>4, <1>5 DEF Hopeless

LEMMA Ends ==
  ASSUME StreamIInv, End
  PROVE  StreamIInv'
<1>1. /\ Shape /\ Underway /\ status = "open" /\ ~ended
      /\ UNCHANGED <<status, event_type, data_lines, emitted, frames>>
  BY DEF End, StreamIInv, Underway, reader
<1>2. PICK k \in 0 .. Len(wire) : Cut(k)
  BY <1>1, EndsCut
<1>3. wire' \in Seq(Lines) /\ ended' /\ \A i \in 1 .. Len(wire') - 1 : wire'[i] # Blank
  BY <1>1, EndsCut
<1>4. Len(wire) \in Nat /\ Len(wire') \in Nat /\ k \in Nat /\ k <= Len(wire)
  BY <1>1, <1>3, LenProperties DEF Shape
<1>5. flawed' \in BOOLEAN /\ (flawed => flawed')
  BY <1>1 DEF End, Shape
<1>6. ended' \in BOOLEAN
  BY DEF End
<1>7. SUFFICES sent' \in Seq(Documents) /\ Underway'
  <2>1. ASSUME sent' \in Seq(Documents) PROVE Shape'
    BY <1>1, <1>3, <1>5, <1>6, <2>1 DEF Shape
  <2> QED
    BY <1>1, <2>1, GoesOn
<1>8. CASE Quiet
  <2>1. \A i \in 1 .. Len(wire) : wire[i] \notin Pieces
    BY <1>8 DEF Quiet
  <2>2. sent' = sent
    <3>1. \A i \in k + 1 .. Len(wire) : i \in 1 .. Len(wire)
      BY <1>4
    <3> QED
      BY <1>2, <2>1, <3>1 DEF Cut
  <2>3. \A i \in 1 .. Len(wire') : wire'[i] \notin Pieces
    BY <1>1, <1>2, <1>3, <2>1, CutLines, LinesAre
  <2>4. Quiet'
    BY <1>1, <1>3, <1>8, <2>2, <2>3 DEF Quiet
  <2> QED
    BY <1>1, <2>2, <2>4 DEF Shape, Underway
<1>9. CASE SomethingComes
  <2>1. PICK doc \in Documents, t \in Types \cup {NoType}, layout \in Readable,
             n \in 0 .. 2, o \in 0 .. 1 : Coming(doc, t, layout, n, o)
    BY <1>9 DEF SomethingComes
  <2>2. /\ sent = Append(emitted, Typed(doc, t)) /\ Typed(doc, t) \in Documents
        /\ Accepts(Typed(doc, t)) \/ flawed
        /\ n <= Len(layout) /\ Len(data_lines) = n
        /\ \A i \in 1 .. n : data_lines[i] = DataLine(layout[i], doc)
        /\ \A i \in n + 1 .. Len(layout) : wire[o + i - n] = DataLine(layout[i], doc)
        /\ Len(wire) = o + Len(layout) - n + 1 /\ wire[Len(wire)] = Blank
    BY <1>1, <2>1, TypedIsDocument DEF Coming, Divided, EndsBlank
  <2>3. Len(layout) \in 1 .. 2 /\ \A i \in 1 .. Len(layout) : layout[i] \in Parts
    BY Readables DEF Parts
  <2>4. o = 1 => n = 0 /\ wire[1] = EventLine(t)
    BY <2>1 DEF Coming
  \* The lines of the body, one by one.
  <2>5. \A i \in 1 .. Len(wire) :
          \/ i <= o /\ wire[i] = EventLine(t)
          \/ /\ i - o + n \in n + 1 .. Len(layout)
             /\ wire[i] = DataLine(layout[i - o + n], doc)
          \/ i = Len(wire) /\ wire[i] = Blank
    <3>1. SUFFICES ASSUME NEW i \in 1 .. Len(wire)
                   PROVE  \/ i <= o /\ wire[i] = EventLine(t)
                          \/ /\ i - o + n \in n + 1 .. Len(layout)
                             /\ wire[i] = DataLine(layout[i - o + n], doc)
                          \/ i = Len(wire) /\ wire[i] = Blank
      OBVIOUS
    <3>2. CASE i <= o
      <4>1. i = 1 /\ o = 1
        BY <3>2
      <4> QED
        BY <2>4, <3>2, <4>1
    <3>3. CASE i > o /\ i < Len(wire)
      <4>1. i - o + n \in n + 1 .. Len(layout) /\ o + (i - o + n) - n = i
        BY <1>4, <2>2, <2>3, <3>3
      <4> QED
        BY <2>2, <4>1
    <3>4. CASE i = Len(wire)
      BY <2>2, <3>4
    <3> QED
      BY <1>4, <3>2, <3>3, <3>4
  <2>6. CASE \E i \in k + 1 .. Len(wire) : wire[i] \in Pieces
    <3>1. PICK j \in k + 1 .. Len(wire) : wire[j] \in Pieces
      BY <2>6
    <3>2. j \in 1 .. Len(wire)
      BY <1>4
    <3>3. j - o + n \in n + 1 .. Len(layout)
      BY <2>5, <3>1, <3>2, LinesAre
    <3>4. n < Len(layout) /\ k - o + n < Len(layout)
      BY <1>4, <2>3, <3>3
    <3>5. \A i \in 1 .. Len(layout) - 1 : layout[i] = "head"
      <4>1. CASE Len(layout) = 1
        BY <4>1
      <4>2. CASE Len(layout) = 2 /\ layout[1] = "head"
        BY <4>2
      <4> QED
        BY <4>1, <4>2, Readables
    <3>6. \A i \in 1 .. Len(data_lines) : Unreadable(data_lines[i])
      <4>1. \A i \in 1 .. Len(data_lines) :
              i \in 1 .. n /\ i \in 1 .. Len(layout) - 1
        BY <2>2, <2>3, <3>4
      <4>2. \A i \in 1 .. Len(data_lines) : data_lines[i] = DataLine("head", doc)
        BY <2>2, <3>5, <4>1
      <4> QED
        BY <4>2, PiecesAreData DEF Unreadable
    <3>7. \A i \in 1 .. k : Unreadable(wire[i])
      <4>1. SUFFICES ASSUME NEW i \in 1 .. k, wire[i] \in Pieces
                     PROVE  wire[i].part \in {"head", "cut"}
        BY DEF Unreadable
      <4>2. i \in 1 .. Len(wire)
        BY <1>4
      <4>3. /\ i - o + n \in n + 1 .. Len(layout)
            /\ wire[i] = DataLine(layout[i - o + n], doc)
        BY <2>5, <4>1, <4>2, LinesAre
      <4>4. i - o + n \in 1 .. Len(layout) - 1
        BY <1>4, <2>3, <3>4, <4>3
      <4> QED
        BY <3>5, <4>3, <4>4, PiecesAreData
    <3>8. Hopeless' /\ sent' \in Seq(Documents)
      BY <1>1, <1>2, <1>3, <2>2, <2>6, <3>6, <3>7, MissedIsTakenBack
    <3> QED
      BY <3>8 DEF Underway
  <2>7. CASE \A i \in k + 1 .. Len(wire) : wire[i] \notin Pieces
    <3> DEFINE m == o + Len(layout) - n
    <3>1. m \in Nat /\ Len(wire) = m + 1 /\ m <= k
      <4>1. CASE n = Len(layout)
        <5>1. o = 0
          BY <2>3, <2>4, <4>1
        <5> QED
          BY <1>4, <2>2, <2>3, <4>1, <5>1
      <4>2. CASE n < Len(layout)
        <5>1. /\ Len(layout) \in n + 1 .. Len(layout)
              /\ m \in Nat /\ m \in 1 .. Len(wire) /\ Len(wire) = m + 1
          BY <2>2, <2>3, <4>2
        <5>2. wire[m] = DataLine(layout[Len(layout)], doc)
          BY <2>2, <5>1
        <5>3. wire[m] \in Pieces
          <6>1. layout[Len(layout)] \in Parts
            <7>1. CASE Len(layout) = 1
              BY <7>1, Readables DEF Parts
            <7>2. CASE Len(layout) = 2
              BY <7>2, Readables DEF Parts
            <7> QED
              BY <7>1, <7>2, Readables
          <6> QED
            BY <5>2, <6>1, PiecesAreData
        <5>4. ~(m \in k + 1 .. Len(wire))
          BY <2>7, <5>3
        <5> QED
          BY <1>4, <5>1, <5>4
      <4> QED
        BY <2>2, <2>3, <4>1, <4>2
    <3>2. sent' = sent /\ flawed' = flawed
      BY <1>2, <2>7 DEF Cut
    <3>3. \A i \in 1 .. m : wire'[i] = wire[i]
      BY <1>2, <1>4, <3>1 DEF Cut
    <3>4. Len(wire') \in {m, m + 1}
      BY <1>2, <1>4, <3>1 DEF Cut
    <3>5. Len(wire') = m + 1 => wire'[Len(wire')] \in {Blank, Other}
      <4>1. SUFFICES ASSUME Len(wire') = m + 1 PROVE wire'[m + 1] \in {Blank, Other}
        OBVIOUS
      <4>2. m + 1 \in 1 .. Len(wire') /\ wire[m + 1] = Blank
        BY <2>2, <3>1, <4>1
      <4> QED
        BY <1>1, <1>2, <1>3, <4>2, CutLines, LinesAre
    <3>6. \A i \in n + 1 .. Len(layout) : o + i - n \in 1 .. m
      BY <2>3
    <3>7. Divided(doc, layout, n, o)'
      <4>1. \A i \in n + 1 .. Len(layout) : wire'[o + i - n] = DataLine(layout[i], doc)
        BY <2>2, <3>3, <3>6
      <4> QED
        BY <1>1, <2>2, <3>4, <3>5, <4>1 DEF Divided
    <3>8. o = 1 => wire'[1] = wire[1]
      <4>1. o = 1 => 1 \in 1 .. m
        BY <2>3, <2>4
      <4> QED
        BY <3>3, <4>1
    <3>9. (o = 0 /\ event_type' = t) \/ (o = 1 /\ n = 0 /\ wire'[1] = EventLine(t))
      BY <1>1, <2>1, <3>8 DEF Coming
    <3>10. Coming(doc, t, layout, n, o)'
      BY <1>1, <1>3, <2>2, <3>2, <3>7, <3>9 DEF Coming
    <3>11. SomethingComes'
      BY <3>10 DEF SomethingComes
    <3> QED
      BY <1>1, <3>2, <3>11 DEF Shape, Underway
  <2> QED
    BY <2>6, <2>7
<1>10. CASE Hopeless
  <2>1. /\ flawed
        /\ data_lines # <<>> \/ \E i \in 1 .. Len(wire) : wire[i] \in Pieces
        /\ \A i \in 1 .. Len(data_lines) : Unreadable(data_lines[i])
        /\ \A i \in 1 .. Len(wire) : Unreadable(wire[i])
    BY <1>1, <1>10 DEF Hopeless
  <2>2. PICK doc \in Documents : sent = Append(emitted, doc)
    BY <1>1, <1>10 DEF Hopeless
  <2>3. \A i \in 1 .. k : i \in 1 .. Len(wire)
    BY <1>4
  <2>4. CASE \E i \in k + 1 .. Len(wire) : wire[i] \in Pieces
    <3>1. \A i \in 1 .. k : Unreadable(wire[i])
      BY <2>1, <2>3
    <3>2. Hopeless' /\ sent' \in Seq(Documents)
      BY <1>1, <1>2, <1>3, <2>1, <2>2, <2>4, <3>1, MissedIsTakenBack
    <3> QED
      BY <3>2 DEF Underway
  <2>5. CASE \A i \in k + 1 .. Len(wire) : wire[i] \notin Pieces
    <3>1. sent' = sent
      BY <1>2, <2>5 DEF Cut
    <3>2. \A i \in 1 .. Len(wire') : Unreadable(wire'[i])
      BY <1>1, <1>2, <1>3, <2>1, CutLines, LinesAre DEF Unreadable
    <3>3. ASSUME NEW i \in 1 .. Len(wire), wire[i] \in Pieces
          PROVE  \E j \in 1 .. Len(wire') : wire'[j] \in Pieces
      <4>1. i \in 1 .. k
        BY <1>4, <2>5, <3>3
      <4>2. i \in 1 .. Len(wire') /\ wire'[i] = wire[i]
        BY <1>2, <1>4, <4>1 DEF Cut
      <4> QED
        BY <3>3, <4>2
    <3>4. flawed' /\ ended' /\ sent' = Append(emitted', doc)
      BY <1>1, <1>3, <1>5, <2>1, <2>2, <3>1
    <3>5. \A i \in 1 .. Len(data_lines') : Unreadable(data_lines'[i])
      BY <1>1, <2>1
    <3>6. data_lines' # <<>> \/ \E i \in 1 .. Len(wire') : wire'[i] \in Pieces
      BY <1>1, <2>1, <3>3
    <3>7. Hopeless'
      BY <3>2, <3>4, <3>5, <3>6 DEF Hopeless
    <3> QED
      BY <1>1, <3>1, <3>7 DEF Shape, Underway
  <2> QED
    BY <2>4, <2>5
<1> QED
  BY <1>1, <1>8, <1>9, <1>10 DEF Underway

-----------------------------------------------------------------------------
(* The event stream: the invariant is inductive. *)

\* A step that only ends the connection, or begins it.
LEMMA Connects ==
  ASSUME StreamIInv, status \in {"connecting", "open"},
         status' \in {"open", "refused", "broken"},
         UNCHANGED <<wire, ended, event_type, data_lines, emitted, sent, frames, flawed>>
  PROVE  StreamIInv'
<1>1. Shape' /\ EmittedAsSent'
  BY DEF StreamIInv, Shape, EmittedAsSent
<1>2. Underway'
  BY DEF StreamIInv, Underway, Quiet, EndsBlank, SomethingComes, Coming, Divided, Hopeless
<1> QED
  BY <1>1, <1>2 DEF StreamIInv, Underway, DoneIsComplete, FailsForCause

LEMMA StreamInductive == StreamIInv /\ [StreamNext]_stream_vars => StreamIInv'
<1>1. SUFFICES ASSUME StreamIInv, [StreamNext]_stream_vars PROVE StreamIInv'
  OBVIOUS
<1>2. CASE Connect \/ Break
  BY <1>1, <1>2, Connects DEF Connect, Break
<1>3. CASE Server
  BY <1>1, <1>3, WritesEvent, WritesOther, Ends DEF Server
<1>4. CASE Reader
  BY <1>1, <1>4, ReadsBlank, ReadsEvent, ReadsData, ReadsOther, EndsBody DEF Reader
<1>5. CASE UNCHANGED stream_vars
  <2>1. UNCHANGED <<status, wire, ended, event_type, data_lines, emitted, sent, frames, flawed>>
    BY <1>5 DEF stream_vars
  <2>2. Shape' /\ EmittedAsSent' /\ DoneIsComplete' /\ FailsForCause'
    BY <1>1, <2>1 DEF StreamIInv, Shape, EmittedAsSent, DoneIsComplete, FailsForCause
  <2>3. status \in {"connecting", "open"} => Underway'
    BY <1>1, <2>1
       DEF StreamIInv, Underway, Quiet, EndsBlank, SomethingComes, Coming, Divided, Hopeless
  <2> QED
    BY <2>1, <2>2, <2>3 DEF StreamIInv, Underway
<1> QED
  BY <1>1, <1>2, <1>3, <1>4, <1>5 DEF StreamNext, Over

LEMMA StreamAlways == StreamSpec => []StreamIInv
BY StreamInitially, StreamInductive, PTL DEF StreamSpec

LEMMA ShapeIsTyped == Shape => StreamTypeOK
<1>1. SUFFICES ASSUME Shape PROVE StreamTypeOK
  OBVIOUS
<1>2. \A l \in Range(wire) : l \in Lines
  BY <1>1, RangeOfSeq DEF Shape
<1>3. \A l \in Range(data_lines) : l \in Pieces
  BY <1>1, RangeOfSeq DEF Shape
<1>4. \A e \in Range(emitted) : e \in Acceptable
  BY <1>1, RangeOfSeq DEF Shape
<1>5. Range(sent) \subseteq Documents
  BY <1>1, RangeOfSeq DEF Shape
<1>6. \A l \in Range(wire) : l.field \in {"", "event", "data", "other"}
  <2>1. Blank.field = "" /\ Other.field = "other"
    BY DEF Blank, Other
  <2>2. \A t : EventLine(t).field = "event"
    BY DEF EventLine
  <2>3. \A piece \in Pieces : piece.field = "data"
    BY DEF Pieces, DataLine
  <2> QED
    BY <1>2, <2>1, <2>2, <2>3 DEF Lines
<1>7. \A l \in Range(data_lines) : l.field = "data"
  BY <1>3 DEF Pieces, DataLine
<1>8. \A e \in Range(emitted) : e \in Documents /\ e.type \in Types /\ e.identified
  BY <1>4 DEF Acceptable
<1> QED
  BY <1>1, <1>5, <1>6, <1>7, <1>8 DEF Shape, StreamTypeOK

-----------------------------------------------------------------------------
(* The event stream: theorems. *)

\* The variables keep their types; in particular, what is yielded has a type, an
\* app_id and a run_id (client.py:307-352, events.py:168-177).
THEOREM StreamIsTyped == StreamSpec => []StreamTypeOK
<1>1. StreamIInv => StreamTypeOK
  BY ShapeIsTyped DEF StreamIInv
<1> QED
  BY <1>1, StreamAlways, PTL

\* For any event types and any number of frames: what is yielded is what the server
\* meant, each event with its own type and in order (client.py:325-345).
THEOREM StreamKeepsOrder == StreamSpec => []EmittedAsSent
<1>1. StreamIInv => EmittedAsSent
  BY DEF StreamIInv
<1> QED
  BY <1>1, StreamAlways, PTL

\* An iteration that returns has yielded everything that arrived, the frame whose
\* blank line is missing included (client.py:346-350).
THEOREM ReturningIsComplete == StreamSpec => []DoneIsComplete
<1>1. StreamIInv => DoneIsComplete
  BY DEF StreamIInv
<1> QED
  BY <1>1, StreamAlways, PTL

\* An iteration that raises met a frame that has no usable document or that did not
\* arrive whole (client.py:330-333, events.py:174-176).
THEOREM FailingHasACause == StreamSpec => []FailsForCause
<1>1. StreamIInv => FailsForCause
  BY DEF StreamIInv
<1> QED
  BY <1>1, StreamAlways, PTL
=============================================================================
