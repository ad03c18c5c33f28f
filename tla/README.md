# Verification of agent-runtime-python

`agent-runtime-python` is the SDK with which a host application talks to the
Agent Runtime service: it calls the service, receives the events of its runs,
serves the service's callbacks, and logs in to the providers whose credentials
the runs use. This directory holds TLA+ modules of its parts that keep state or
that talk to something that may fail, configurations that model-check them with
TLC, and proofs that TLAPS checks. `PROJECT.json` lists the runs, the lines
behind every definition, the mutants that show that a property can fail, the
hazards and the theorems.

To check a run: `tlc -config Nats.cfg MCNatsConsumer`. To check the
proofs: `tlapm NatsConsumer_proofs.tla`.

## The system

### Components

**NATS consumer** (`agent_runtime/nats.py:70-178`). A host process runs
`NATSConsumer.run`: it subscribes to a durable JetStream consumer and repeats
fetch, process, acknowledge. Its own state is the batch it is working on. The
rest is the server's: how often each event was delivered, which are outstanding,
and when a delayed one is due. Several processes may share the durable.
*Operations*: `run`, `process_message` (parse, handle, ack or nak),
`retry_delay`. *Hard*: the ack wait runs while a batch waits; processes die with
messages in hand; acks and naks are late or lost; retries end at `max_deliver`,
which client and server both count and may count differently: a durable keeps
the configuration of whoever created it. *Correct if* every event is acked for a
reason, or lost by a fault or by such a difference, gets all its retries, and waits according to the
backoff list.

**NATS start-up and subjects** (`nats.py:139-267`). `ensure_nats_stream` creates
the stream if it is missing; `_subscribe` creates or joins a durable; the subject
functions turn ids into tokens. The state is the server's (the stream's subjects,
a filter per durable) and the connection of each `run()`. *Hard*: services of
several apps and versions start at once, between the look for the stream and its
creation; a durable that exists keeps its filter; a start may fail anywhere.
*Correct if* a host receives its own app's events only, none is missed, and each
connection is drained by who opened it.

**ChatGPT device login** (`chatgpt_auth.py:75-133`). `start_device_login` returns
a `DeviceSession`, which the host keeps in a database row and passes to
`poll_device_login` until that returns a token or raises. The session's interval
and its `next_poll_at` change in place. *Hard*: several processes poll; the
change is made before the request and saved after it; answers are slow; 429
backs off; the session expires. *Correct if* polls keep their distance, an approval yields one token, and every login ends.

**Credential refresh** (`chatgpt_auth.py:117-133`, `mcp_oauth.py:311-397`,
`adapter.py:308-330`). A run whose access token was refused calls the host back,
whose handler refreshes the token under a row lock, or answers with a token that
another callback has refreshed. *Hard*: concurrent callbacks, rotation of the
refresh token, answers that are lost after the provider rotated, and errors of
every kind that the route turns into one. *Correct if* the host never loses a
live refresh token by its own doing, one refresh serves all runs, and each run
ends with a token that works or the demand to reconnect.

**MCP OAuth discovery** (`mcp_oauth.py:129-204`, `399-484`). `discover` asks up to
five places for two documents and returns a configuration. Its state is the
progress of two loops. *Hard*: every place may give any answer. *Correct if* what
is returned was checked and comes from one chain, and nothing is given up early.

**MCP OAuth registration and authorization** (`mcp_oauth.py:206-309`). `register`
makes the app a client, `new_authorization_request` yields the URL to which the
user is sent, `exchange_code` turns the code of the callback into a token. The
host keeps the state and the verifier in between. *Hard*: several installations
are connected at once; a browser repeats a callback; the server answers a
registration as it likes, and the client is checked in two places. *Correct if* a
code is sent once, with the verifier of its own request, and what the first check
lets pass does not fail after the user has consented.

**Event stream client** (`client.py:312-352`, `events.py:167-177`).
`iter_run_events` parses server-sent events line by line. Its state is the event
type and data lines of the current frame. *Hard*: frames are cut in any way and
the body may end anywhere. *Correct if* it yields what the server meant, in its
order, and ends without an exception only if nothing is missing.

**REST client** (`client.py:41-480`). Requests without a state of their own. Those
that resume a run (`resume_run`, `approve_run`, `request_changes`) carry fields by
which the service can tell a repeated one and one that is about an interaction of
the past; the host learns of interactions from pages of events, which it reads
after a cursor that it keeps, or from a snapshot of the stream. *Hard*: an answer is
lost or is an error although the request was carried out; a request arrives after
its sender has given up on it; a process crashes and replays what it had decided;
a page comes without its cursor. *Correct if* a decision acts once and on the
interaction it is about, and what a call returns or raises is what has happened.

**Host callback routers** (`adapter.py`). Each checks a token, calls the host's
handler on the process's event loop, awaits what the handler returns if that can be
awaited, and answers. A process's state is its token and whose turn it is on its
loop; each open request has its own. *Hard*: a handler that calls the synchronous
client holds the loop, and the runtime may have to call back before it answers;
processes restart with another token; answers are lost, and an event is sent again;
each route turns its handler's result into an answer in its own way. *Correct if* no
event is taken for delivered that was not handled, an answer tells what the handler
came to, and every callback ends.

**Events, models, constants** (`events.py`, `models.py`, `constants.py`). Data.

### Interactions

The service publishes a run's events over three ways: the JetStream stream (NATS
consumer), the live stream (event stream client), and the callback route. All
three build an `EventEnvelope`; only the first two require an identity and a
type. A refused model call makes the service call the credential route, behind
which the host's handler calls `refresh`. Device login and MCP discovery produce
the credentials that the refresh keeps alive. The host's database serializes
polls and refreshes; the SDK's docstrings and `src/README.md` (lines 60-61,
302-320) ask that of the host, and the models take it from there.

## The modules

| module | models | role |
|---|---|---|
| `NatsConsumer` | consumer and JetStream's part in it | detailed specification |
| `EventFate` | what a host may rely on | abstract specification |
| `EventRouting` | start-up, subjects, and which service gets which event | |
| `DeviceLogin` | device login, host row, provider | |
| `CredentialRefresh` | both refreshes, host row, callback route, provider | |
| `CallbackRoutes` | all callback routes, the event loops they run on, the runtime | |
| `RunResume` | replaying a run's events and resuming it, with retries; the runtime's part in it | |
| `EventStream` | SSE reader and envelope parser | |
| `McpDiscovery` | discovery | |
| `McpAuthorization` | registration, authorization request, code exchange, callback route, server | |
| `NatsConsumer_proofs` | | its invariants, and that it implements `EventFate` |
| `EventRouting_proofs`, `DeviceLogin_proofs`, `CredentialRefresh_proofs`, `CallbackRoutes_proofs`, `McpDiscovery_proofs`, `McpAuthorization_proofs` | | invariants of the module in the name |
| `AgentRuntimeClient_proofs` | | invariants of `RunResume` and `EventStream`, the two modules of the class `AgentRuntimeClient` |
| `MC...` | small instances | for TLC |

A definition whose name ends in `_Something` and whose comment begins with
"Mutant" is a plausible bug. It is used by no specification, only to show that a
property notices it.

### NatsConsumer

`Config` is the configuration of each process, `durable` the one on the server.
`delivered`, `status` and `due` are the server's record of an event: its
`num_delivered`, whether it is queued, outstanding or acked, and the delay the
last nak asked for. `up` and `batch` are the client processes. `verdict` records
what `process_message` made of each delivery (a pair of event and delivery
number), `judged` in which process its handler ended, and `lost` which deliveries a
fault took; all three are history. `Start` creates the durable from
the configuration of the process or joins the one that exists, which it leaves as it
is; from then on the process compares the deliveries with its own `max_deliver` and
the server with the durable's.

`Fetch`, `Handle`, `HandlerReturns`, `Ack` and `Nak` are the steps of the loop
where other processes and the server can come in between: the fetch, the handler
(which may be awaited), and the acknowledgement. `AfterFailure` is the comparison
with `max_deliver`, `RetryDelay` the backoff list. `Handle` of a malformed event
concludes it at once, as the parser does. `Stop` is any end of `run()`: a crash,
a cancellation, an exception of `ack()`. `FetchFails` is the logged exception of
a fetch, of which the server does not know. `SettlementLost` is an ack or nak
that never arrives.

The server is external and modelled from the configuration that `_subscribe`
gives it. Three points matter: `max_ack_pending` holds back new events and counts
those that wait for a retry; an ack or nak of an old delivery is about the event,
so it also settles or requeues one that was handed out again; an event with
`max_deliver` deliveries is not delivered any more and nobody is told. A batch is
a set: its order does not matter to the properties, and `Handle` picks any
message. What a fetch hands over are deliveries made for it.

### EventFate

An event has a number of tries, a set of verdicts and a fate: pending, settled
or stranded. How often an event may be tried is settled once, by the first process
(`Open`), among the limits that the processes have. An event is settled only on a final verdict, stranded only after its last
try, and both are for good; verdicts may still come in from tries that were
overtaken.

### EventRouting

An id is a sequence of pieces, words and separators, so that what `nats_token`
and `nats_app_token` do to a dot or a space can be told; a subject is a sequence
of tokens, and a dot that is left inside a token ends it (`SplitDots`). `Separated`
says what keeps the services of a deployment apart: the ids of the apps give different
tokens, none of which is `v2`, and services share a durable only if they want the same
events. The code checks none of it. `stream`
is the set of subject families of the stream, `durables` the filter of each
durable with the events it handed out, `at` and `connection` how far the `run()`
of a service is and whose connection it uses. `Connect`, `FindStream`,
`AddStream`, `Subscribe` and `Receive` are the requests of a start and of the
loop; `Refuse` and `Fail` are the exceptions, after both of which `Leave` is the
`finally`; `Restart` is a supervisor. The server is external: it stores an event
only if the stream takes its subject, refuses a second stream with other
subjects, creates a durable only within the stream, and leaves one that exists as
it is. A durable hands each event to one service; what then becomes of it is
`NatsConsumer`.

### DeviceLogin

`row` is the stored session, `lock` the row lock, `mem` the `DeviceSession`
object that each process works on; `startedAt` is the local `now` of
`poll_device_login`. Time is discrete and passes between any two steps.
`PollExpired`, `PollTooEarly` and `PollSends` are the lines up to the request,
`Answer...` the branches after it. `AnswerApproved` leads into the exchange of the code:
the provider issues a token (`Issue`), whose answer is as it should be (`Exchange`), or
`ExchangeFails` raises, before the token was issued or after, when the answer is lost,
unusable or names no account. In the latter case the token is gone, as it is when the
process crashes before the save: `minted` counts the tokens that were issued, `wasted`
these.
`Save` and `Crash` are the host's: it must save what a poll returned (also after
None), and may or may not save when the poll raised. The provider asks for
`required`, the interval it advertised plus the step for each 429, as far as the
clamp follows it.

### CredentialRefresh

`row` holds the access and the refresh token, `tok` the access token each run
uses, `issued`, `expired` and `live` what the provider knows: tokens are numbered,
and a refresh may rotate the refresh token, which spends the old one. `Reuse` and
`CallRefresh` are the comparison of fingerprints under the lock, `Refreshed`,
`AnswerLost`, `RefreshRefused` and `Unavailable` the outcomes of one token request,
`SaveToken` the commit, `Respond` and `Reject` the route's two answers. `protocol`
selects the refresh: without rotation ChatGPT's returns the previous refresh
token and MCP's an empty one.

### EventStream

The server writes frames: an optional event line, a document on one or two data
lines, a blank line. `sent` is what it meant by them. `End` cuts the body after
any line or inside one. `ReadBlank`, `ReadEvent`, `ReadData`, `ReadOther` and
`EndOfBody` are the branches of the loop and the code after it; `Dispatch` is the
part that both share. A document is reduced to its number, its type, and whether
it has an app id and a run id. A "cracked" document contains a line separator
(such as U+0085) at which `iter_lines` splits it. The specification is `StreamSpec`,
its parts are `StreamInit`, `StreamNext` and `stream_vars`, and the type invariant is
`StreamTypeOK`, so that one module can extend this one and `RunResume`.

### RunResume

`run`, `resolved` and `resumes` are the service's: the status of the run, which
decision resolved each of its pauses, and the resume ids it has carried out.
`requests` and `answers` are the network. `at` is where each actor of the host is,
`cursor` the sequence number that it has saved, `about` the pause it has read of,
`try` how often a decision was sent and `told` what its actor knows of it. A decision
is named after its actor and its pause.

`Read` is a page of `list_v2_events` after the cursor, from which the actor takes up
the newest interaction; `ReadSnapshot` is `get_v2_stream_state`. Either may be out of
date when the actor decides. `Payload` are the correlation fields of a resume, `Send`
the request, `Failed` and `ClientError` the distinctions of `_request`,
`_raise_for_response` and `client_error`, by which `Receive` goes. `Conclude` saves the
cursor. `Retry` is the host's: it repeats a call that raised anything but a client
error, with the same `resume_id`, as `src/README.md:143-152` intends.
`BreakConnection`, `TurnAway` and `AnswerBadly` are a request that fails with its fate
unknown, an error for a request that did nothing, and an unusable answer to one that
was carried out. After a `Crash` an actor reads again from its saved cursor and may
decide again about what it had decided; `CursorMissing` is a page without
`next_sequence_no`, for which the client has the default 0, so that the host reads
from the beginning.

The service is external: it answers a resume whose id it knows without acting,
and refuses with 409 one whose interaction is not pending. Client errors
of other causes, such as 401, 408 or 429, are left out, though `client_error` takes them
in: a host that takes those as final may be refused while an earlier try is still on
its way. `ToldTheTruth`, `RunGoesOn` and `CallsTellTheTruth` hold under this restriction.
Of `cancel_run` there is only the effect on the run (`Cancel`), at any time.

### CallbackRoutes

`expected` is the token that each process was started with, `loop` the request whose
handler its loop is running, `request`, `at`, `place`, `result` and `status` an open
request with where it is, who serves it, what its handler came to and how it was
answered; `caller` names the request whose handler waits for the runtime, which needs
this one first. `delivered` is the runtime's: which events it need not send again;
`handled` is history.

`Enter` is a route up to the handler's call: the two refusals (`Verified`, `Admitted`),
or the handler begins. `Suspend` and `Resume` are `_resolve`: an awaitable gives the
loop to others. `Call`, `CallReturns` and `CallTimesOut` are a handler that uses the
synchronous client, and keeps the loop while it waits. `Finish` is the end of the
handler, and `Status` with an operator per router what the route makes of its result. A handler
that raises an `HTTPException` of its own, with which FastAPI would answer, counts as
one that raises: such an answer is the handler's word.
`Send` and `Receive` are the runtime's, which is external; it may nest a request in
the call of a handler. `Rotate` changes the runtime's token, `Redeploy` restarts a
process with either one, `AnswerLost` breaks a connection.

### McpDiscovery

A URL is a site and a document on it. `candidates` and `asked` are the progress
of the loop at hand. `TryNext` is everything that the `except ... continue` and
the missing fields come to, `TakeResource` and `TakeServer` the answers that end a
loop, `Validate` and `Refusal` the checks. Answers are chosen freely.

### McpAuthorization

`at` is how far each login is, `client` what `register` returned for it, `saved`
the host's store of logins by the hash of their state, `callbacks` what the
browser may bring, `code` the code that a login was handed, `unspent` what the
server would take, and `expired` what it does not take any more. A code is named after the login whose user it was issued to.
`Register` and `RegisterRefused` are `register` with any answer of the endpoint,
in which the sizes of the id and the secret are empty, fit or oversized;
`Redirect` is `new_authorization_request` with the save before the redirect that
`src/README.md:55-56` asks for; `Exchange` is `exchange_code` up to its request, and
`Granted`, `Rejected` and `AnswerLost` are the outcomes. `Break` is everything else
that ends a login: a request that does not get through, an address that
`validate_url` does not take, a crash.

External are the user and the server (`Decide`, `Expire`), the token endpoint
(`Acceptable`), and the callback route (`Consume`, `TurnDown`), which consumes the
state atomically (`src/README.md:59`). Each login registers a client of its own,
as in the README's example. A server that names no method is taken to have
registered the client as it was asked to, with "none".

## The runs

| run | question | bounds |
|---|---|---|
| `Nats` | Is every retry given, every stranded event a fault's or a differing `max_deliver`'s, every delay in the list? Has a process that is alone the last word? Is `EventFate` implemented, and is every event resolved? | 2 processes, with `max_deliver` 2 and 3 and `max_ack_pending` 1 and 2; a good and a malformed event, 1 fault, batch 2 |
| `NatsDropRerun` | Is a dropped event never run again? It is. | 2 processes, 1 event |
| `Routing` | Do services get their own events, all of them, whoever starts first, and are connections drained? | 3 services of 2 versions, 2 apps, 2 events, 1 fault |
| `RoutingTwins` | Does a v2 service get no events of another app? It does if the ids are alike. | 2 services, 1 event |
| `Login` | Do polls keep their distance, does a login yield one token, and is each that is issued accounted for? Does every login end? | 2 processes, intervals to 4, lifetime 7, 3 issued tokens, 1 crash |
| `LoginThrottle` | Does a 429 always defer the next poll? It does not. | 1 process |
| `Refresh` | Does the refresh token survive, with one refresh per expiry and a new token in each answer? Does every run recover? | 3 runs, both protocols, 2 expiries, 1 failure |
| `Resume` | Do retried, late and replayed resumes act on the pause they are about, do calls tell the truth, does the run go on? | 2 actors, 2 pauses, 2 faults |
| `Callbacks` | Does the runtime forget no event, are answers true, does every callback end? | 1 process, 2 requests, 6 kinds of routes, an own and a foreign event, 2 faults |
| `StreamFrames` | Are the yielded events the ones that were sent? | 3 frames, 2 types |
| `Discovery` | Is what discovery returns checked, and is nothing given up early? | own site, an allowed one, a stranger |
| `Authorization` | Does each code meet its verifier, and is nothing refused that was let pass? Does every login end? | 2 logins, 1 fault, every answer to a registration |

The bounds are enough for the cases that matter. In `Nats` either process may
create the durable, so the other one's limits are above or below it. With two events
and a `max_ack_pending` of 1 an event that waits for its retry blocks the other; with
three deliveries and a backoff list of two entries the last entry is reused, and an
event can be in the hands of two processes while it is queued for a third delivery;
a fault can hit any delivery, the last one included. In the login the intervals of
-1, 1 and 9 are clamped to 1 and 4, one back-off is capped, and expiry falls between
two polls. Three runs and two expiries let two callbacks wait behind a refresh that
fails, and a run come back with a token that is two refreshes old. Two pauses let a
late resume meet the next one, and two faults fail a resume twice, turn away both
actors, or crash an actor after it was answered badly. In `Callbacks` two requests
on one loop are enough for one to wait for the loop that the other one holds while
the runtime waits for the first; the six routes answer in all the ways there are, and
the others are like `context`. In the routing, two workers share a durable, of whom
only one looks after the stream, and the third service creates a stream that is too
narrow for them. In the stream, three frames let a frame be disturbed by the one
before, with a comment in between. Two logins are enough for a callback to overtake
another and to be repeated.
The bounds that only cap a counter are `MaxFaults`, `LimitBound`, `MaxEvents`,
`Horizon`, `MaxIssued`, `MaxCrashes`, `MaxExpiries`, `MaxFailures`, `MaxPauses` and `MaxFrames`.
Symmetry is used for the types in `StreamFrames`, where no liveness is checked.

### What the three violations show

`NatsDropRerun`: the docstring of `DropEvent` says "Acknowledge an event without
running it again". When the ack wait expires while the handler runs, the server
gives the event to another process, and the ack of the drop does not stop that
one. The consumer does not extend the ack wait. `FinalIsFinal` shows that it takes
a second process or a fault.

`RoutingTwins`: the docstring of `v2_app_event_subject` calls its family
"isolated ... for one host app". The token of an app id has "_" in place of a dot,
so `helpin.stage` and `helpin_stage` have the same family, and each gets the
other's events. `Routing` has ids with distinct tokens, none of them `v2` (`MCIsSeparated`,
which TLC evaluates), and separate durables, as `src/README.md:140-141` advises. That this
suffices is proved for any services: `SeparatedServicesGetTheirOwn`. An app with the id
`v2` would be another counterexample, which came up in that proof: the v1 family
`agent-runtime.events.v2.>` that `app_event_subject` gives it takes in the v2 events of
every app.

`LoginThrottle`: `next_poll_at` after a 429 is computed from the time before the
request. If the answer takes as long as the new interval, the session says to
poll at once. A test asserts the contrary, for an answer that takes no time.
`PollSpacing` still holds: the distance is kept from the start of the request.

### Fairness

*NatsConsumer.* The event loop runs a process that is up and a supervisor
restarts one that is not (`Start`); a fetch returns when there is a message;
handlers end; the server's timers fire. All weakly fair: nothing but the
process's own steps disables them for ever. Faults have no fairness.

*EventRouting.* A service that is not up goes on with its start, is refused or
is restarted; a fetch returns if the durable has an event that it may hand out.
Weakly fair; publications and faults have no fairness.

*DeviceLogin.* Time passes; the host polls as long as the login is open; requests
end, for the client has a timeout of 20 seconds. The user need never decide.

*CredentialRefresh.* The runtime calls back, a request ends, the route answers.
The handler is strongly fair: it waits for a row lock that others take and
release over and over, and a database grants the lock to each waiter in time.

*RunResume.* An actor reads the events after its cursor, decides and calls, again
if the call raised; the service answers the requests that reach it. Weakly fair; pauses, the end of the
run and faults have no fairness.

*CallbackRoutes.* Entering a route, resuming a handler and ending it are strongly
fair: others take the loop in between, but asyncio takes up what is ready in the order
in which it became ready. That `Finish` is fair says that handlers end. A call of the
client ends by an answer or by its timeout of 30 seconds, and answers arrive: weakly
fair. Neither requests nor faults are.

*McpAuthorization.* The process of a login takes its next step, and the browser
delivers some callback whose state awaits one. Weakly fair; the user need never
decide, and faults have no fairness.

## The proofs

`NatsConsumer_proofs` proves for any events, processes, configurations, backoff
list and number of faults:

* `TypeCorrect`;
* `DeliveriesAreExclusive`: no delivery is in two hands, no process works on two;
* `AcksAreEarned`: an event is acked on a final verdict only; one that always failed,
  because a process gave it up, and each process that did so did it at a delivery that
  its own `max_deliver` had reached (`judged` tells which process that was);
* `StrandingHasACause`: an event that is given up unacked lost its last delivery to
  a fault, or was naked by a process that has a higher `max_deliver` than the durable;
* `DelaysFollowSchedule`: a delay is an entry of the backoff list that the
  deliveries so far have reached.

None of these is inductive alone. `IInv` adds: every delivery in a batch was made
by the server (`MadeByServer`), so a delivery number never exceeds the count and a
new one is in no batch yet; a verdict fits its delivery and the limit of the process
that made it (`VerdictsFit`): "exhausted" occurs at that limit or after it, "retry"
before it; and
the last delivery of an unacked event is in a hand, lost, or naked
(`LastIsHeldOrLost`). The last part carries `StrandingHasACause`: a batch loses a
delivery by an ack, after which the event is acked, by a nak, which is about a last
delivery only if the process allows more than the durable, or by a fault. `VerdictsFit`
gives the process that allows more: the one that made the verdict. `DurableLimit` types the durable's limit.

`FinalVerdictsAreFinal` is `FinalIsFinal` for any events, batches and deliveries: a
consumer that is alone and meets no fault has the last word. The argument is about the
one process (`SoloInv`): what it holds is the latest delivery of an event that is not
acked (`InHandIsLatest`), for it fetches only with empty hands, so an event that it has
in hand is not delivered again whatever ack waits expire; and a final verdict stays in
hand until its ack has settled the event (`FinalIsInHand`). So no delivery comes after
a final verdict (`NothingFollows`). That the processes counted by `FinalIsFinal` are one
needs that finitely many are up (`UpHolds`), for the cardinality of an infinite set says
nothing.

The same module proves the refinement, `ConsumerImplementsFate`: with
`IInv`, the first `Start` is `Open`, `Fetch` and `FetchFails` are `Try`, the parser and
the handler are `Conclude`, `Ack` is `Settle` or a stutter, `Nak`, `Stop` and
`SettlementLost` are `Strand` or a stutter, and the rest are stutters.

The assumptions are those of `ConfigAssumption`, which `__post_init__`
guarantees except that delays are positive natural numbers.

`DeviceLogin_proofs` proves for any workers, intervals and timing:

* `LoginIsTyped`: in particular that every interval is within the clamp;
* `OneTokenPerLogin`: a login yields one token at most, and every token that was issued
  to it is in hand, saved, or wasted by an exchange that failed after it was issued or
  by a crash;
* `PollsAreSpaced`: while every update was saved, polls of any workers keep the
  distance that the provider asked for.

The newest session is the one of the worker that polls, who holds the lock alone
(`Locked`), or else the row; as long as no update was lost it respects what the
provider asks for (`Spaced`), and a request is sent only if the session's
`next_poll_at` has come. That the clamp and the back-off keep the order of two
intervals (`ClampBounds`, `BackoffGrows`) carries this over a 429. The tokens are counted (`Counted`): one is in
hand only with the worker that holds the lock, and only while the login is open, so
none is added to one that was saved. The assumption is
`TimingAssumption`.

`CredentialRefresh_proofs` proves for both protocols, any runs, and any number of
expiries and failures:

* `TokensAreTyped`: in particular that the tokens stay within the numbers of the
  model, which is a bound on how many are issued;
* `RefreshTokenIsKept`: outside a transaction the row holds the live refresh
  token, unless a rotated one was lost on its way;
* `RefreshesAreShared`: no more tokens are issued than expired, failures aside;
* `AnswersAreNew`: the answer to a callback is newer than the token it is about.

Its invariant is about the lock, the program counters and the row together. Who
is in a transaction holds the lock alone (`Locking`), for a token of the row that
has expired; nothing the runs hold is newer than the row, and the row is no newer
than what was issued (`Numbered`), so a token that differs from the row's is an
older one; what is about to be saved is the latest token, and the live refresh
token is in it or, if it holds none, in the row (`Carried`), from which the commit
restores `Kept`; and an expired token in the row that nobody has replaced yet is
good for one more token (`Credit`), which makes the count of refreshes inductive.
The one assumption is `ProtocolAssumption`.

`McpAuthorization_proofs` proves for any number of logins and faults:

* `LoginsAreTyped`;
* `OnlyExpiryRefuses`: a login that `register` let pass is refused at the token
  request only if its code expired;
* `CodesArePaired`: a code is sent by the login it was issued to, before it is
  spent, and no other login has it.

Its invariant follows a code from the server to the request. The host keeps a
login only under its own state and only while it waits (`StatesAreOwn`); a callback
has the state of the login that its code was issued to, and the code is not spent
until that login has asked for its token (`CallbacksArePaired`); so a login is handed no
code but its own, unspent (`CodesAreOwn`). With `ClientsAreRegistered`, which
carries the first check of the client to the second, `Exchange` cannot refuse it,
and `Rejected` only if the code expired. The assumption is `LoginsAssumption`: the markers for
"no login" and "no code" are not logins.

`CallbackRoutes_proofs` proves for any processes, requests, routes and events, and any
number of faults:

* `RoutesAreTyped`: in particular that a loop runs one handler, of a request that it
  serves;
* `DeliveriesAreHandled`: the runtime takes no event for delivered that was not
  handled, and none of another app is handled;
* `RoutesTellTheTruth`: what an answer says of the handler is so.

Its invariant says that a request whose handler runs has passed the checks
(`Guarded`), that there is a result only with an answer (`Unanswered`), and that an
event answered with 200 has been handled (`Heard`), which the runtime's `Receive`
takes over. The assumption is `CallbacksAssumption`.

`EventRouting_proofs` proves for any services, configurations, app ids and run ids:

* `RoutingIsTyped`;
* `ConnectionsAreHandledRight`: a connection that `run()` opened is closed with it, and
  one that it was given is left open;
* `SeparatedServicesGetTheirOwn`: under `Separated`, services are handed events of their
  own app and version only.

A durable that exists has the filter of some service that is configured with it
(`DurablesAreAskedFor`), not of the one that joins it; what a service got matches such a
filter (`GotWhatMatches`). The rest is about subjects. A v2 event in a v1 family, or a v1
event in a v2 family, would need an app with the token `v2`, and two families of one
version differ in the token of the app. That a token is not empty
and has no wildcard in it is proved of the substitutions of `nats_token` (`TokenIsWord`). `Separated` is a
hypothesis of the theorem, not an assumption on the constants: the code lets it be
violated, and `RoutingTwins` is the instance where it is. The assumption is
`RoutingAssumption`.

`AgentRuntimeClient_proofs` proves of `RunResume`, for any actors, pauses and faults:

* `ResumesAreTyped`: in particular that a decision is sent once, and once more for
  each fault;
* `ResumesAreCorrelated`: a pause is resolved by a decision about itself;
* `CallsTellTheTruth`: who is told nothing bad has resumed the run, and who is told a
  client error has not.

The second half of the last one needs that a refusal is for good. A decision is
refused only when its pause is over (`Passed`), and what is over is resolved by nobody
any more, so that the answers on their way (`Answered`) and what was told (`Told`)
remain so. An actor is done only with pauses that are over (`Reading`), which is why a
lost cursor does no harm, and the tries are counted against the faults (`Tries`): an
answer that is no client error but a failure has cost one. The assumption is
`BoundsAssumption`.

Of `EventStream` it proves, for any event types and any number of frames:

* `StreamIsTyped`: in particular that what is yielded has a type and an identity;
* `StreamKeepsOrder`: the iterator yields a prefix of what the server meant, each event
  with its own type;
* `ReturningIsComplete`: an iteration that returns has yielded all of it;
* `FailingHasACause`: one that raises met a frame that cannot be read or did not arrive.

None of the last three is inductive: what the iterator makes of a blank line depends on
the lines it has collected, and these on what the server wrote before. While the
connection is open, `StreamIInv` says, one of three things is the case (`Underway`).
`Quiet`: everything that was meant is yielded and no data is on its way, nor, before the
body ends, an event line that could outlive its frame. `SomethingComes`: one document
is on its way, the first `n` of its data lines have been read and the others are on the
wire, in order, with the event line before them or already read, and the blank line
after them unless the body ended. `Hopeless`: what is left of a frame cannot be read, and
the frame counts as flawed. The steps carry one into another: `WriteEvent` leaves
`Quiet` for `SomethingComes`, or for `Hopeless` if the document is cracked; the reads
move the line where the document is divided; `ReadBlank` and `EndOfBody` make an end of
it; and `End` may turn `SomethingComes` into `Hopeless` by cutting the data. The
invariant was checked by TLC on an instance before it was proved. The assumption is
`StreamAssumption`.

`McpDiscovery_proofs` proves for any sites and any answers:

* `DiscoveryIsTyped`;
* `ConfigurationsAreChecked`: a configuration that is returned was checked;
* `GivingUpIsExhaustive`: `discover` gives up for want of metadata only when every place
  that it may ask has been asked.

In the second loop the checks of the resource document were passed (`ChainIsChecked`),
and a loop that goes on has asked every allowed candidate that it is past, and heard
nothing of use (`NothingSkipped`). The assumption is `SitesAssumption`.

Only model-checked: the liveness properties (`Resolution`, `LoginEnds`,
`RunsRecover`, `NothingIsMissed`, `LoginsConclude`, `RunGoesOn`, `CallbacksConclude`),
which the prover cannot do. Every invariant and every action property of the passing
runs is stated by a theorem.

## Not modelled

The rest of the REST client and the data classes keep no state. `start_run` has no
key by which a repeated request could be recognized. In `CallbackRoutes` the routers
are configured with a token and an app id, and a request has a body of the right
shape: FastAPI's refusal of others (422) changes nothing, and an envelope without a
`run_id`, which the event route lets pass, is the handler's affair. The credential
route answers every exception of its handler with the demand to reconnect
(`adapter.py:326-328`), also an outage of the provider: both models follow the code in
this, and `AnswersAreTrue` has to except it. `process_message` is modelled with an
abstract handler, so what a host does with an event is out of scope, idempotence
included. nats-py is assumed to deliver to a fetch what was asked for by it;
messages that arrive after a fetch has timed out are covered by `FetchFails`, as
lost, but not as handed over late. In `NatsConsumer` an ack wait may expire at any
time, whatever it was configured to be, and so the durable's `ack_wait` is not told
from the process's. `EventRouting` leaves out the event type in a subject, and subjects
and templates that a host sets itself. In `McpDiscovery` paths, issuer normalization
and the size limits are not distinguished, and exceptions that `discover` does not
catch are left out. In `McpAuthorization` scopes and the resource indicator are left
out.

## Plan

Next modules, in this order:

1. `McpConnection`: `McpDiscovery`, `McpAuthorization` and the MCP side of
   `CredentialRefresh` composed, from an address to a credential that is kept.
2. `EventIntake`: an event on its three ways to the host, and what each accepts.
3. `CredentialRefresh` with the client's calls that hand a credential to the runtime
   (`client.py:148-171`).

Abstract specifications worth stating: a credential that is always usable or
reported broken, implemented by `CredentialRefresh`; an event log that a reader
sees a prefix of, implemented by `EventStream`.

Theorems to come: that what `RoutingTwins` shows takes two apps with one token or an app
`v2` (the converse of `SeparatedServicesGetTheirOwn`), and the safety part of the
abstract specifications above as refinements.
