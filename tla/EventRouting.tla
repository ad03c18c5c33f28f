----------------------------- MODULE EventRouting -----------------------------
(***************************************************************************)
(* Which service receives which events: the subjects and the start-up of    *)
(* src/agent_runtime/nats.py.  Several services of several apps connect,    *)
(* make sure that the stream exists, subscribe to a durable each, and are   *)
(* handed the events that match it.  What they do with an event is the      *)
(* subject of NatsConsumer.                                                 *)
(*                                                                         *)
(* An id is the sequence of its pieces, words and separators; a subject is  *)
(* the sequence of its tokens, which are such sequences too.  The server's   *)
(* part is external: it refuses a stream that exists with other subjects,    *)
(* and a durable that exists stays as it is.                                *)
(***************************************************************************)
EXTENDS Integers, Sequences, FiniteSets, SequencesExt

CONSTANTS
  Services,   \* the processes
  Config,     \* the NATSConsumerConfig of each: see Configs
  Apps,       \* the app ids that events are published for
  Runs,       \* the run ids
  MaxEvents,  \* bound: how many events are published
  MaxFaults   \* bound: how many calls fail or tasks are cancelled

NoStream == {}  \* the stream does not exist; one that exists has subjects
NoDurable == [filter |-> <<>>, handed |-> {}]

-----------------------------------------------------------------------------
(* Subjects. *)

Family(version) ==
  <<<<"agent-runtime">>, <<"events">>>> \o (IF version = "v2" THEN <<<<"v2">>>> ELSE <<>>)

\* nats_token: white space and the characters that NATS or a path give a meaning,
\* except the dot, become "_", and so does an empty id.
Token(id) ==
  IF id = <<>> THEN <<"_">>
  ELSE [i \in DOMAIN id |-> IF id[i] \in {" ", "/", "*", ">"} THEN "_" ELSE id[i]]

\* Mutant: the dot stays.
AppToken_Dotted(id) == Token(id)

\* nats_app_token: the dot, too.
AppToken(id) == [i \in DOMAIN Token(id) |-> IF Token(id)[i] = "." THEN "_" ELSE Token(id)[i]]

\* The server reads a dot inside a token as the end of it: the nth token is what is
\* after n - 1 dots, up to the next one.
SplitDots(token) ==
  LET dots == {i \in DOMAIN token : token[i] = "."}
      Pieces(n) == {i \in DOMAIN token \ dots : Cardinality({d \in dots : d < i}) = n - 1}
  IN [n \in 1 .. Cardinality(dots) + 1 |->
        [k \in 1 .. Cardinality(Pieces(n)) |-> token[Min(Pieces(n)) + k - 1]]]

\* Mutant: the filter of a v2 service is the one of v1.
AppEvents_V1(version, app) == Family("v1") \o <<AppToken(app)>>

\* app_event_subject and v2_app_event_subject, without the ">" at their end.
AppEvents(version, app) == Family(version) \o <<AppToken(app)>>

\* A token that NATS takes as one.
Legal(token) == token # <<>> /\ Range(token) \cap {".", " ", "/", "*", ">"} = {}

Matches(filter, subject) == IsStrictPrefix(filter, subject)

Events == [app : Apps, run : Runs, version : {"v1", "v2"}]

\* Mutant: the subject has the app id as it is.
Subject_Dotted ==
  [e \in Events |->
     Family(e.version) \o SplitDots(Token(e.app)) \o SplitDots(Token(e.run)) \o <<<<"type">>>>]

\* render_nats_subject with the template of a version.
Subject ==
  [e \in Events |->
     Family(e.version) \o <<AppToken(e.app)>> \o SplitDots(Token(e.run)) \o <<<<"type">>>>]

Families == {Family("v1"), Family("v2")}

\* How a service is configured: its app, the version whose events it wants, its
\* durable, the stream's subjects, and what it has of the connection.
Configs ==
  [app : Apps, version : {"v1", "v2"}, durable : STRING,
   subjects : SUBSET Families, source : {"url", "connection"}]

ASSUME RoutingAssumption ==
  /\ Apps \subseteq Seq(STRING) /\ Runs \subseteq Seq(STRING)
  /\ \A s \in Services : Config[s] \in Configs /\ Config[s].subjects # NoStream
  /\ MaxEvents \in Nat /\ MaxFaults \in Nat

\* What keeps the services of a deployment apart, and the code does not check: no two
\* apps have one token and none has that of the v2 family, and only services that
\* want the same events share a durable.
Separated ==
  /\ \A a, b \in Apps : AppToken(a) = AppToken(b) => a = b
  /\ \A a \in Apps : AppToken(a) # <<"v2">>
  /\ \A s, t \in Services : Config[s].durable = Config[t].durable =>
       Config[s].app = Config[t].app /\ Config[s].version = Config[t].version

Durables == {Config[s].durable : s \in Services}

\* __post_init__: a consumer that was given only a URL looks after the stream.
Ensures(s) == Config[s].source = "url"

VARIABLES
  stream,      \* server: the subjects of the stream
  log,         \* server: the events it stored
  durables,    \* server: the filter of each durable and what it handed out
  at,          \* how far the run() of each service is
  connection,  \* the connection that run() uses
  got,         \* history: the events that each service was handed
  faults       \* how many faults happened

vars == <<stream, log, durables, at, connection, got, faults>>
server == <<stream, log, durables>>

TypeOK ==
  /\ stream \in SUBSET Families
  /\ log \in Seq(Events) /\ Len(log) <= MaxEvents
  /\ \A d \in Durables : /\ durables[d].handed \subseteq DOMAIN log
                         /\ \A token \in Range(durables[d].filter) : Legal(token)
  /\ at \in [Services -> {"new", "checking", "adding", "subscribing", "looping", "ended"}]
  /\ connection \in [Services -> {"none", "lent", "open", "drained"}]
  /\ got \in [Services -> SUBSET (1 .. MaxEvents)]
  /\ faults \in 0 .. MaxFaults

Init ==
  /\ stream = NoStream
  /\ log = <<>>
  /\ durables = [d \in Durables |-> NoDurable]
  /\ at = [s \in Services |-> "new"]
  /\ connection = [s \in Services |-> "none"]
  /\ got = [s \in Services |-> {}]
  /\ faults = 0

Goto(s, label) == at' = [at EXCEPT ![s] = label]

-----------------------------------------------------------------------------
\* The runtime publishes an event; without a stream nothing keeps it.
Publish ==
  /\ Len(log) < MaxEvents
  /\ \E e \in Events :
       /\ \E filter \in stream : Matches(filter, Subject[e])
       /\ log' = Append(log, e)
  /\ UNCHANGED <<stream, durables, at, connection, got, faults>>

-----------------------------------------------------------------------------
(* run(), up to its loop. *)

\* _jetstream: connect to the URL, or use what the configuration holds.
Connect(s) ==
  /\ at[s] = "new"
  /\ connection' = [connection EXCEPT ![s] = IF Config[s].source = "url" THEN "open" ELSE "lent"]
  /\ Goto(s, IF Ensures(s) THEN "checking" ELSE "subscribing")
  /\ UNCHANGED <<server, got, faults>>

\* The first request of ensure_nats_stream; the subjects are not compared.
FindStream(s) ==
  /\ at[s] = "checking"
  /\ Goto(s, IF stream = NoStream THEN "adding" ELSE "subscribing")
  /\ UNCHANGED <<server, connection, got, faults>>

\* The second one: another service may have been faster, with equal subjects.
AddStream(s) ==
  /\ at[s] = "adding"
  /\ stream \in {NoStream, Config[s].subjects}
  /\ stream' = Config[s].subjects
  /\ Goto(s, "subscribing")
  /\ UNCHANGED <<log, durables, connection, got, faults>>

\* The subject that the configuration of a service has by default or by advice.
Filter(s) == AppEvents(Config[s].version, Config[s].app)

\* The server accepts the subscription: the durable exists, or can be created for
\* it lies within the stream.
Subscribable(s) ==
  /\ stream # NoStream
  /\ \/ durables[Config[s].durable] # NoDurable
     \/ \E subjects \in stream : IsPrefix(subjects, Filter(s))

\* _subscribe: the durable is created with this service's filter, or used as it is.
Subscribe(s) ==
  /\ at[s] = "subscribing"
  /\ Subscribable(s)
  /\ LET d == Config[s].durable IN
       durables' = IF durables[d] # NoDurable THEN durables
                   ELSE [durables EXCEPT ![d].filter = Filter(s)]
  /\ Goto(s, "looping")
  /\ UNCHANGED <<stream, log, connection, got, faults>>

\* The durable hands the service an event that it handed to no other.
Receive(s) ==
  /\ at[s] = "looping"
  /\ LET d == Config[s].durable IN
       \E i \in DOMAIN log \ durables[d].handed :
         /\ Matches(durables[d].filter, Subject[log[i]])
         /\ durables' = [durables EXCEPT ![d].handed = @ \cup {i}]
         /\ got' = [got EXCEPT ![s] = @ \cup {i}]
  /\ UNCHANGED <<stream, log, at, connection, faults>>

\* There is nothing to hand out.
FetchTimeout(s) ==
  /\ at[s] = "looping"
  /\ UNCHANGED vars

\* Mutant: only the loop is inside the try.
Leave_LoopOnly(s) ==
  /\ Goto(s, "ended")
  /\ connection' = [connection EXCEPT ![s] =
       IF @ = "open" /\ at[s] = "looping" THEN "drained" ELSE @]

\* The exception leaves run(), which drains the connection that it opened itself.
Leave(s) ==
  /\ Goto(s, "ended")
  /\ connection' = [connection EXCEPT ![s] = IF @ = "open" THEN "drained" ELSE @]

\* A call of the server raises, or the task is cancelled.
Fail(s) ==
  /\ faults < MaxFaults
  /\ at[s] # "ended"
  /\ Leave(s)
  /\ faults' = faults + 1
  /\ UNCHANGED <<server, got>>

\* The server refuses: the stream has other subjects, or the durable cannot be.
Refuse(s) ==
  /\ \/ at[s] = "adding" /\ stream \notin {NoStream, Config[s].subjects}
     \/ at[s] = "subscribing" /\ ~Subscribable(s)
  /\ Leave(s)
  /\ UNCHANGED <<server, got, faults>>

\* A supervisor starts the service again.
Restart(s) ==
  /\ at[s] = "ended"
  /\ Goto(s, "new")
  /\ connection' = [connection EXCEPT ![s] = "none"]
  /\ UNCHANGED <<server, got, faults>>

-----------------------------------------------------------------------------
StartUp(s) == Connect(s) \/ FindStream(s) \/ AddStream(s) \/ Subscribe(s)

Next ==
  \/ Publish
  \/ \E s \in Services : StartUp(s) \/ Receive(s) \/ FetchTimeout(s)
  \/ \E s \in Services : Fail(s) \/ Refuse(s) \/ Restart(s)

\* Services start and are restarted, and a fetch returns if there is a message.
Fairness ==
  \A s \in Services :
    WF_vars(StartUp(s) \/ Refuse(s) \/ Restart(s)) /\ WF_vars(Receive(s))

Spec == Init /\ [][Next]_vars

FairSpec == Spec /\ Fairness

-----------------------------------------------------------------------------
Wants(s, e) == e.app = Config[s].app /\ e.version = Config[s].version

\* Services that are kept apart are handed events of their own app and version only,
\* in whatever order they start and whichever of them creates the stream and the
\* durables (nats.py:158-178, 210-246).
OwnEventsOnly == \A s \in Services : \A i \in got[s] : Wants(s, log[i])

\* Every event that the stream stores reaches a service that wants it, if there is
\* one, though services race for the stream and fail (nats.py:79-87, 181-207).
NothingIsMissed ==
  \A i \in 1 .. MaxEvents :
    (i \in DOMAIN log /\ \E s \in Services : Wants(s, log[i]))
      ~> (i \in DOMAIN log /\ \E s \in Services : Wants(s, log[i]) /\ i \in got[s])

\* Whatever ends run(), the connection that it opened is drained and one that it
\* was lent is not (nats.py:77-82, 101-103).
ConnectionsAreLeftRight ==
  \A s \in Services : at[s] = "ended" =>
    connection[s] \in (IF Config[s].source = "url" THEN {"none", "drained"} ELSE {"none", "lent"})

\* nats.py:215 says of v2_app_event_subject "Return the isolated v2 subject family
\* for one host app": a v2 service receives no event of another app.
FamilyIsIsolated ==
  \A s \in Services : Config[s].version = "v2" =>
    \A i \in got[s] : log[i].app = Config[s].app
=============================================================================
