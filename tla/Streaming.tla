----------------------------- MODULE Streaming -----------------------------
(***************************************************************************)
(* What the program promises to those that watch: the RTSP server starts   *)
(* to listen and never stops, the camera's images and the sound reach it,  *)
(* each by its own stream, once and for ever, and for every client that    *)
(* connects a key frame is requested, once, of the camera's stream.  A     *)
(* request that comes before that stream asks nobody: the stream, once it  *)
(* is there, begins with a key frame (VideoStreamEncoder).                 *)
(*                                                                         *)
(* No thread, looper or message is visible here.  Conductor is shown to    *)
(* implement this specification.                                           *)
(***************************************************************************)
EXTENDS Naturals

CONSTANTS
  Camera,       \* the stream of the camera
  Sound,        \* the stream of the sound
  VideoSink,    \* the RTSP server's queue of images
  MaxClients    \* bound: connections the RTSP library reports

VARIABLES
  started,      \* the server listens
  active,       \* the streams that have a video source
  route,        \* <<stream, sink>>: the sink is attached to the stream
  audio_route,  \* the streams whose packets reach the server
  connected,    \* clients that have connected
  key_frames,   \* key frames requested of the camera's stream
  unasked       \* requests that came before it

vars == <<started, active, route, audio_route, connected, key_frames, unasked>>

Init ==
  /\ started = FALSE
  /\ active = {}
  /\ route = {}
  /\ audio_route = {}
  /\ connected = 0
  /\ key_frames = 0
  /\ unasked = 0

ServerListens ==
  /\ ~started
  /\ started' = TRUE
  /\ UNCHANGED <<active, route, audio_route, connected, key_frames, unasked>>

CameraAdded ==
  /\ active = {}
  /\ active' = {Camera}
  /\ UNCHANGED <<started, route, audio_route, connected, key_frames, unasked>>

\* Only a stream that has its source gets a sink.
CameraRouted ==
  /\ active = {Camera}
  /\ route = {}
  /\ route' = {<<Camera, VideoSink>>}
  /\ UNCHANGED <<started, active, audio_route, connected, key_frames, unasked>>

SoundRouted ==
  /\ audio_route = {}
  /\ audio_route' = {Sound}
  /\ UNCHANGED <<started, active, route, connected, key_frames, unasked>>

ClientConnects ==
  /\ started
  /\ connected < MaxClients
  /\ connected' = connected + 1
  /\ UNCHANGED <<started, active, route, audio_route, key_frames, unasked>>

\* A client that connected has its key frame requested.
KeyFrameRequested ==
  /\ key_frames + unasked < connected
  /\ active = {Camera}
  /\ key_frames' = key_frames + 1
  /\ UNCHANGED <<started, active, route, audio_route, connected, unasked>>

RequestFindsNoStream ==
  /\ key_frames + unasked < connected
  /\ active = {}
  /\ unasked' = unasked + 1
  /\ UNCHANGED <<started, active, route, audio_route, connected, key_frames>>

Next ==
  \/ ServerListens
  \/ CameraAdded
  \/ CameraRouted
  \/ SoundRouted
  \/ ClientConnects
  \/ KeyFrameRequested
  \/ RequestFindsNoStream

\* No client has to come; all else does.
Fairness ==
  /\ WF_vars(ServerListens)
  /\ WF_vars(CameraAdded)
  /\ WF_vars(CameraRouted)
  /\ WF_vars(SoundRouted)
  /\ WF_vars(KeyFrameRequested \/ RequestFindsNoStream)

Safety == Init /\ [][Next]_vars
Spec == Safety /\ Fairness
=============================================================================
