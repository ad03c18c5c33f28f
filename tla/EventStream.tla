----------------------------- MODULE EventStream -----------------------------
(***************************************************************************)
(* The live event stream of a run: iter_run_events of                       *)
(* src/agent_runtime/client.py, which reads server-sent events line by line *)
(* and yields the envelopes that parse_event_envelope of                    *)
(* src/agent_runtime/events.py accepts.                                     *)
(*                                                                         *)
(* The server writes frames: an optional event line, a JSON document on one *)
(* or two data lines, and a blank line, with comments in between.  The body *)
(* may end cleanly anywhere, also inside a line, and the connection may     *)
(* break.                                                                   *)
(*                                                                         *)
(* Init, Next, Spec and TypeOK bear the prefix Stream, so that this module    *)
(* and RunResume, the other one of AgentRuntimeClient, can be extended        *)
(* together.                                                                *)
(***************************************************************************)
EXTENDS Integers, Sequences, SequencesExt

CONSTANTS
  Types,     \* the event types
  NoType,    \* an event or "type" that is missing or empty
  MaxFrames  \* bound: how many frames the server writes

ASSUME StreamAssumption == NoType \notin Types /\ MaxFrames \in Nat \ {0}

VARIABLES
  status,      \* how far the iteration is, and how it ended
  wire,        \* the lines of the body that iter_lines has yet to yield
  ended,       \* whether the body ends after them
  event_type,  \* the value of the last event line of this frame
  data_lines,  \* its data lines
  emitted,     \* what the iterator yielded
  sent,        \* history: the events the server meant, as far as they arrived
  frames,      \* history: how many frames the server wrote
  flawed       \* history: whether one of them cannot be read

stream_vars == <<status, wire, ended, event_type, data_lines, emitted, sent, frames, flawed>>
reader == <<status, event_type, data_lines, emitted>>

\* A document: which one it is, its "type", and whether it has an app_id and a run_id.
Documents == [id : 1 .. MaxFrames, type : Types \cup {NoType}, identified : BOOLEAN]

\* The data lines a document may be on, by the part of it each one holds.  Text
\* with a line separator other than CR and LF is "cracked": iter_lines breaks it.
Layouts == {<<"whole">>, <<"head", "tail">>, <<"cracked">>}

StreamTypeOK ==
  /\ status \in {"connecting", "open", "done", "refused", "failed", "broken"}
  /\ \A l \in Range(wire) : l.field \in {"", "event", "data", "other"}
  /\ ended \in BOOLEAN
  /\ event_type \in Types \cup {NoType}
  /\ \A l \in Range(data_lines) : l.field = "data"
  /\ \A e \in Range(emitted) : e \in Documents /\ e.type \in Types /\ e.identified
  /\ Range(sent) \subseteq Documents
  /\ frames \in 0 .. MaxFrames
  /\ flawed \in BOOLEAN

StreamInit ==
  /\ status = "connecting"
  /\ wire = <<>>
  /\ ended = FALSE
  /\ event_type = NoType
  /\ data_lines = <<>>
  /\ emitted = <<>>
  /\ sent = <<>>
  /\ frames = 0
  /\ flawed = FALSE

-----------------------------------------------------------------------------
(* Lines. *)

Blank == [field |-> ""]
Other == [field |-> "other"]
EventLine(t) == [field |-> "event", type |-> t]
DataLine(part, doc) == [field |-> "data", part |-> part, doc |-> doc]

DataLines(layout, doc) ==
  IF layout = <<"cracked">> THEN <<DataLine("cut", doc), Other>>
  ELSE [i \in DOMAIN layout |-> DataLine(layout[i], doc)]

-----------------------------------------------------------------------------
(* What the reader makes of a frame. *)

\* json.loads of the data lines, joined, returns an object.
Parses(lines) ==
  \/ Len(lines) = 1 /\ lines[1].part = "whole"
  \/ /\ Len(lines) = 2
     /\ lines[1].part = "head" /\ lines[2].part = "tail"
     /\ lines[1].doc = lines[2].doc

\* The document's own type has precedence over the event line.
Typed(doc, t) == IF doc.type = NoType THEN [doc EXCEPT !.type = t] ELSE doc

\* Mutant: the envelope is not checked after it was parsed.
Accepts_All(doc) == doc \in Documents

\* parse_event_envelope requires app_id, run_id and type.
Accepts(doc) == doc.identified /\ doc.type # NoType

\* Yield the envelope, or let the exception out of the iterator.
Dispatch(next) ==
  LET doc == Typed(data_lines[1].doc, event_type)
  IN  \/ /\ Parses(data_lines) /\ Accepts(doc)
         /\ emitted' = Append(emitted, doc)
         /\ status' = next
      \/ /\ ~(Parses(data_lines) /\ Accepts(doc))
         /\ status' = "failed"
         /\ UNCHANGED emitted

-----------------------------------------------------------------------------
(* The server and the network. *)

Connect ==
  /\ status = "connecting"
  /\ status' \in {"open", "refused"}
  /\ UNCHANGED <<wire, ended, event_type, data_lines, emitted, sent, frames, flawed>>

\* A frame with a document; one at a time is on the wire.
WriteEvent ==
  /\ status = "open" /\ ~ended /\ wire = <<>>
  /\ frames < MaxFrames
  /\ \E t \in Types \cup {NoType}, doc \in Documents, layout \in Layouts, named \in BOOLEAN :
       /\ doc.id = frames + 1
       /\ ~named => t = NoType
       /\ wire' = (IF named THEN <<EventLine(t)>> ELSE <<>>) \o DataLines(layout, doc) \o <<Blank>>
       /\ sent' = Append(sent, Typed(doc, t))
       /\ flawed' = (flawed \/ ~Accepts(Typed(doc, t)) \/ layout = <<"cracked">>)
  /\ frames' = frames + 1
  /\ UNCHANGED <<reader, ended>>

\* A comment to keep the connection alive, or a frame without a document.
WriteOther ==
  /\ status = "open" /\ ~ended /\ wire = <<>>
  /\ frames < MaxFrames
  /\ \E t \in Types : wire' \in {<<Other>>, <<EventLine(t), Blank>>, <<EventLine(t), Other, Blank>>}
  /\ frames' = frames + 1
  /\ UNCHANGED <<reader, ended, sent, flawed>>

\* The body ends: after k more lines and perhaps a piece of the next one.
End ==
  /\ status = "open" /\ ~ended
  /\ ended' = TRUE
  /\ \E k \in 0 .. Len(wire) :
       LET left == SubSeq(wire, 1, k)
           missed == SubSeq(wire, k + 1, Len(wire))
           cut == \E l \in Range(missed) : l.field = "data"
           pieces == IF missed = <<>> THEN {}
                     ELSE {Other} \cup
                          {DataLine("cut", l.doc) : l \in {m \in {missed[1]} : m.field = "data"}}
       IN  /\ wire' \in {left} \cup {Append(left, piece) : piece \in pieces}
           /\ sent' = IF cut THEN Front(sent) ELSE sent
           /\ flawed' = (flawed \/ cut)
  /\ UNCHANGED <<reader, frames>>

\* httpx raises a RequestError, which is passed on as an AgentRuntimeError.
Break ==
  /\ status \in {"connecting", "open"}
  /\ status' = "broken"
  /\ UNCHANGED <<wire, ended, event_type, data_lines, emitted, sent, frames, flawed>>

-----------------------------------------------------------------------------
(* The loop of iter_run_events. *)

\* The reader takes the next line, which is of this kind.
Take(field) ==
  /\ status = "open"
  /\ wire # <<>>
  /\ Head(wire).field = field
  /\ wire' = Tail(wire)
  /\ UNCHANGED <<ended, sent, frames, flawed>>

\* Mutant: an event line stays in force for later frames.
ReadBlank_KeepsType ==
  /\ Take("")
  /\ IF data_lines # <<>> THEN Dispatch("open") ELSE UNCHANGED <<status, emitted>>
  /\ data_lines' = <<>>
  /\ UNCHANGED event_type

\* Mutant: the data lines of a frame that was dispatched stay.
ReadBlank_KeepsData ==
  /\ Take("")
  /\ IF data_lines # <<>> THEN Dispatch("open") ELSE UNCHANGED <<status, emitted>>
  /\ event_type' = NoType
  /\ UNCHANGED data_lines

\* The end of a frame: dispatch it if it has data, and begin a new one.
ReadBlank ==
  /\ Take("")
  /\ IF data_lines # <<>> THEN Dispatch("open") ELSE UNCHANGED <<status, emitted>>
  /\ event_type' = NoType
  /\ data_lines' = <<>>

ReadEvent ==
  /\ Take("event")
  /\ event_type' = Head(wire).type
  /\ UNCHANGED <<status, data_lines, emitted>>

ReadData ==
  /\ Take("data")
  /\ data_lines' = Append(data_lines, Head(wire))
  /\ UNCHANGED <<status, event_type, emitted>>

\* Comments and other fields.
ReadOther ==
  /\ Take("other")
  /\ UNCHANGED reader

\* Mutant: a frame without its blank line is discarded.
EndOfBody_Discards ==
  /\ status = "open"
  /\ ended /\ wire = <<>>
  /\ status' = "done"
  /\ UNCHANGED <<wire, ended, event_type, data_lines, emitted, sent, frames, flawed>>

\* The body is over: the last frame needs no blank line.
EndOfBody ==
  /\ status = "open"
  /\ ended /\ wire = <<>>
  /\ IF data_lines # <<>> THEN Dispatch("done") ELSE status' = "done" /\ UNCHANGED emitted
  /\ UNCHANGED <<wire, ended, event_type, data_lines, sent, frames, flawed>>

-----------------------------------------------------------------------------
Server == WriteEvent \/ WriteOther \/ End
Reader == ReadBlank \/ ReadEvent \/ ReadData \/ ReadOther \/ EndOfBody

\* The iterator returned or raised.
Over ==
  /\ status \notin {"connecting", "open"}
  /\ UNCHANGED stream_vars

StreamNext == Connect \/ Server \/ Reader \/ Break \/ Over

StreamSpec == StreamInit /\ [][StreamNext]_stream_vars

-----------------------------------------------------------------------------
\* The iterator yields the events the server meant, each with its own type and
\* in their order, however frames are cut into lines and whatever is written
\* between them (client.py:325-345).
EmittedAsSent == IsPrefix(emitted, sent)

\* An iteration that ends without an exception has skipped nothing that arrived,
\* the frame whose blank line is missing included (client.py:346-350).
DoneIsComplete == status = "done" => emitted = sent

\* The iterator raises for a cause only: some frame has no usable document, or
\* not all of it arrived (client.py:330-333, events.py:174-176).
FailsForCause == status = "failed" => flawed
=============================================================================
