---------------------------- MODULE MCEventRouting ----------------------------
(***************************************************************************)
(* Small instances of EventRouting for TLC.                                *)
(***************************************************************************)
EXTENDS EventRouting, TLC

CONSTANTS s1, s2, s3

Stage == <<"helpin", ".", "stage">>
Underscored == <<"helpin", "_", "stage">>
Other == <<"acme">>

MCRuns == {<<"run", "/", "1", ".", "2">>}
MCApps == {Stage, Other}
MCTwins == {Stage, Underscored}

Service(app, version, durable, source) ==
  [app |-> app, version |-> version, durable |-> durable,
   subjects |-> {Family("v1")}, source |-> source]

Narrow(service) == [service EXCEPT !.subjects = {Family("v2")}]

\* Two workers of one app on one durable, and a service of another version of it
\* that keeps v2 events only if it creates the stream.
MCConfig ==
  s1 :> Service(Stage, "v1", "stage", "url") @@
  s2 :> Service(Stage, "v1", "stage", "connection") @@
  s3 :> Narrow(Service(Stage, "v2", "stage-v2", "url"))

ASSUME MCIsSeparated == Config = MCConfig => Separated

\* Services of two apps whose ids differ in a dot and an underscore.
MCTwinConfig ==
  s1 :> Service(Stage, "v2", "stage", "url") @@
  s2 :> Service(Underscored, "v2", "twin", "url")
=============================================================================
