--------------------------- MODULE VideoRouting ---------------------------
(***************************************************************************)
(* What the media worker promises about encoded video: which sinks are     *)
(* attached to which stream, and which streams are fed by a source.  Every *)
(* command takes effect at once; the task queue, the send streams, the     *)
(* stream senders and the pointers between them are not visible here.      *)
(* HybirdWorkerVideo is shown to implement this specification.             *)
(***************************************************************************)
CONSTANTS
  Streams,    \* stream ids handed out by MediaService::GenerateStreamId
  Sinks       \* encoded video sinks

VARIABLES
  active,     \* the streams that have a video source
  route       \* <<stream, sink>>: the sink is attached to the stream

vars == <<active, route>>

Init ==
  /\ active = {}
  /\ route = {}

AddSource(id) ==
  /\ active' = active \cup {id}
  /\ UNCHANGED route

\* The stream goes away together with the sinks attached to it.
RemoveSource(id) ==
  /\ id \in active
  /\ active' = active \ {id}
  /\ route' = route \ ({id} \X Sinks)

AddSink(sink, id) ==
  /\ route' = route \cup {<<id, sink>>}
  /\ UNCHANGED active

\* A sink is detached from every stream, whatever stream the caller names.
RemoveSink(sink) ==
  /\ route' = route \ (Streams \X {sink})
  /\ UNCHANGED active

Next ==
  \/ \E id \in Streams : AddSource(id) \/ RemoveSource(id)
  \/ \E sink \in Sinks, id \in Streams : AddSink(sink, id)
  \/ \E sink \in Sinks : RemoveSink(sink)

Spec == Init /\ [][Next]_vars

\* The pairs over which an encoded image is delivered.
Deliverable == {p \in route : p[1] \in active}
=============================================================================
