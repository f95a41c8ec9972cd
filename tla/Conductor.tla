----------------------------- MODULE Conductor -----------------------------
(***************************************************************************)
(* Conductor (app/conductor.cc) and the parts it owns, put together: four  *)
(* threads of control that only post to each other.                        *)
(*                                                                         *)
(*   conductor looper --Start, RequestXSink--> RTSP looper                 *)
(*   RTSP looper      --notify_-------------> conductor looper             *)
(*   conductor looper --AddX, RequesteKeyFrame--> media looper             *)
(*   media looper     --tasks---------------> worker runner                *)
(*   worker's encoders --OnFrame------------> the RTSP server's queues     *)
(*                                                                         *)
(* RtspServer and MediaService are the modules of those names; the worker  *)
(* is VideoRouting, which HybirdWorkerVideo implements, fed by its queue.  *)
(***************************************************************************)
EXTENDS Naturals, Sequences, SequencesExt

CONSTANTS
  MaxClients,     \* bound: connections the RTSP library reports
  MaxQueue        \* bound: images (packets) waiting in a queue

ASSUME ConductorAssumption == MaxClients \in Nat /\ MaxQueue \in Nat

VARIABLES
  conductor_looper,   \* looper_: the message handled, if any, and those waiting
  starting,           \* how far OnStart has come
  max_stream_id,      \* max_stream_id_
  rtsp_looper, rtsp_delayed, started, channel, audio_format,
  video_queue, audio_queue, connected, left,
  media_looper, audio_sinks, check_failed, worker_tasks,
  active, route,      \* the worker's video routing
  audio_route,        \* audio streams whose packets reach audio_queue_
  key_frames,         \* key frame requests with which the worker asked its streams
  unasked             \* ... and those that found it without a stream

rtspVars == <<rtsp_looper, rtsp_delayed, started, channel, audio_format,
              video_queue, audio_queue, connected, left>>
mediaVars == <<media_looper, audio_sinks, check_failed, worker_tasks>>
workerVars == <<active, route, audio_route, key_frames, unasked>>
vars == <<conductor_looper, starting, max_stream_id, rtspVars, mediaVars, workerVars>>

\* One stream for the sound, one for the camera.
StreamIds == 1..2
AudioCodecs == {"AAC"}
VideoCodecs == {"H264"}
AudioFormats == {[rate |-> 44100, channels |-> 2]}
AudioSinks == {"audio_queue"}      \* RtspServer::audio_queue_
Streams == StreamIds
Sinks == {"video_queue"}           \* RtspServer::video_queue_, wrapped

Rtsp == INSTANCE RtspServer WITH notify <- conductor_looper
Media == INSTANCE MediaService
Routing == INSTANCE VideoRouting

\* What all of it is for (GenerateStreamId: the sound is the first stream).
Promise == INSTANCE Streaming
             WITH Camera <- 2, Sound <- 1, VideoSink <- "video_queue"

-----------------------------------------------------------------------------
(* The conductor's handlers.                                                *)

Handling(what) ==
  /\ ~check_failed
  /\ conductor_looper # <<>>
  /\ Head(conductor_looper).what = what

Done(posted) == conductor_looper' = Tail(conductor_looper) \o posted

\* OnStart calls the RTSP server twice and then opens the camera, while the
\* server, its clients and the media service go on.  The message being handled
\* stays at the head of the queue until the handler returns.
OnStartServer ==
  /\ Handling("Start")
  /\ starting = "server"
  /\ starting' = "sound"
  /\ Rtsp!PostRtsp(Rtsp!Plain("Start"))
  /\ UNCHANGED <<conductor_looper, max_stream_id, rtsp_delayed, started, channel,
                 audio_format, video_queue, audio_queue, connected, left,
                 mediaVars, workerVars>>

OnStartSound ==
  LET id == max_stream_id + 1
      format == [rate |-> 44100, channels |-> 2]
  IN
  /\ Handling("Start")
  /\ starting = "sound"
  /\ starting' = "camera"
  /\ max_stream_id' = id
  /\ Rtsp!PostRtsp(Rtsp!RequestAudioSinkMsg(id, "AAC", format))
  /\ UNCHANGED <<conductor_looper, rtsp_delayed, started, channel, audio_format,
                 video_queue, audio_queue, connected, left, mediaVars, workerVars>>

\* AddCameraSource: the camera's capturer is posted to the conductor itself,
\* behind what has been posted meanwhile.
OnStartCamera ==
  LET id == max_stream_id + 1
  IN
  /\ Handling("Start")
  /\ starting = "camera"
  /\ starting' = "done"
  /\ max_stream_id' = id
  /\ Done(<<[what |-> "AddVideoSource", id |-> id]>>)
  /\ UNCHANGED <<rtspVars, mediaVars, workerVars>>

\* kWhatAddVideoSource: the media service gets the source before the RTSP
\* server is asked for a sink.
OnAddVideoSource ==
  LET id == Head(conductor_looper).id
  IN
  /\ Handling("AddVideoSource")
  /\ Media!AddVideoSource(id)
  /\ Rtsp!PostRtsp(Rtsp!RequestVideoSinkMsg(id, "H264"))
  /\ Done(<<>>)
  /\ UNCHANGED <<starting, max_stream_id, rtsp_delayed, started, channel,
                 audio_format, video_queue, audio_queue, connected, left, workerVars>>

OnAudioSinkAdded ==
  LET msg == Head(conductor_looper)
  IN
  /\ Handling("AudioSinkAdded")
  /\ Media!AddEncodedAudioSink("audio_queue", msg.id, msg.codec)
  /\ Done(<<>>)
  /\ UNCHANGED <<starting, max_stream_id, rtspVars, workerVars>>

OnVideoSinkAdded ==
  /\ Handling("VideoSinkAdded")
  /\ Media!AddVideoSink(Head(conductor_looper).id)
  /\ Done(<<>>)
  /\ UNCHANGED <<starting, max_stream_id, rtspVars, workerVars>>

\* Mutant: a client is ignored.
IgnoresClients ==
  /\ Handling("ClientConnectedNotify")
  /\ Done(<<>>)
  /\ UNCHANGED <<starting, max_stream_id, rtspVars, mediaVars, workerVars>>

OnClientConnectedNotify ==
  /\ Handling("ClientConnectedNotify")
  /\ Media!RequesteKeyFrame
  /\ Done(<<>>)
  /\ UNCHANGED <<starting, max_stream_id, rtspVars, workerVars>>

\* Mutant: a client that leaves has a key frame requested too.
AnyClientRequestsKeyFrame ==
  /\ Handling("ClientDisconnectedNotify")
  /\ Media!RequesteKeyFrame
  /\ Done(<<>>)
  /\ UNCHANGED <<starting, max_stream_id, rtspVars, workerVars>>

\* Any other notification is ignored.
OnOtherNotify ==
  /\ Handling("ClientDisconnectedNotify")
  /\ Done(<<>>)
  /\ UNCHANGED <<starting, max_stream_id, rtspVars, mediaVars, workerVars>>

-----------------------------------------------------------------------------
(* The worker's runner, one task at a time.                                 *)

Running(what) ==
  /\ ~check_failed
  /\ worker_tasks # <<>>
  /\ Head(worker_tasks).what = what
  /\ worker_tasks' = Tail(worker_tasks)
  /\ UNCHANGED <<conductor_looper, starting, max_stream_id, rtspVars,
                 media_looper, audio_sinks, check_failed>>

WorkerAddsSource ==
  /\ Running("AddVideoSource")
  /\ Routing!AddSource(Head(worker_tasks).id)
  /\ UNCHANGED <<audio_route, key_frames, unasked>>

WorkerAddsSink ==
  /\ Running("AddEncodedVideoSink")
  /\ Routing!AddSink("video_queue", Head(worker_tasks).id)
  /\ UNCHANGED <<audio_route, key_frames, unasked>>

WorkerAddsAudioSink ==
  /\ Running("AddEncodedAudioSink")
  /\ audio_route' = audio_route \cup {Head(worker_tasks).id}
  /\ UNCHANGED <<active, route, key_frames, unasked>>

\* Every stream there is is asked for a key frame.
WorkerRequestsKeyFrame ==
  /\ Running("RequestKeyFrame")
  /\ \/ /\ active # {}
        /\ key_frames' = key_frames + 1
        /\ UNCHANGED unasked
     \/ /\ active = {}
        /\ unasked' = unasked + 1
        /\ UNCHANGED key_frames
  /\ UNCHANGED <<active, route, audio_route>>

\* An encoder hands an image (a packet) to the sinks of its stream.
ImageEncoded ==
  /\ ~check_failed
  /\ Routing!Deliverable # {}
  /\ Rtsp!VideoOnFrame
  /\ UNCHANGED <<starting, max_stream_id, mediaVars, workerVars>>

PacketEncoded ==
  /\ ~check_failed
  /\ audio_route # {}
  /\ Rtsp!AudioOnFrame
  /\ UNCHANGED <<starting, max_stream_id, mediaVars, workerVars>>

-----------------------------------------------------------------------------
\* main calls Init and then Start once: its message is the first.
Init ==
  /\ conductor_looper = <<[what |-> "Start"]>>
  /\ starting = "server"
  /\ max_stream_id = 0
  /\ rtsp_looper = <<>>
  /\ rtsp_delayed = [p \in Rtsp!Pulls |-> 0]
  /\ started = FALSE
  /\ channel = [c \in {0, 1} |-> Rtsp!None]
  /\ audio_format = [rate |-> 0, channels |-> 0]
  /\ video_queue = 0
  /\ audio_queue = 0
  /\ connected = 0
  /\ left = 0
  /\ Media!Init
  /\ Routing!Init
  /\ audio_route = {}
  /\ key_frames = 0
  /\ unasked = 0

\* One turn of each thread.
ConductorLoop ==
  \/ OnStartServer
  \/ OnStartSound
  \/ OnStartCamera
  \/ OnAddVideoSource
  \/ OnAudioSinkAdded
  \/ OnVideoSinkAdded
  \/ OnClientConnectedNotify
  \/ OnOtherNotify

RtspAlone == UNCHANGED <<starting, max_stream_id, mediaVars, workerVars>>

RtspLoop == ~check_failed /\ Rtsp!Loop /\ RtspAlone
PullDue(p) == ~check_failed /\ Rtsp!PullDue(p) /\ RtspAlone
Clients ==
  ~check_failed /\ (Rtsp!ClientConnects \/ Rtsp!ClientDisconnects) /\ RtspAlone

MediaLoop ==
  /\ Media!Loop
  /\ UNCHANGED <<conductor_looper, starting, max_stream_id, rtspVars, workerVars>>

Worker ==
  \/ WorkerAddsSource
  \/ WorkerAddsSink
  \/ WorkerAddsAudioSink
  \/ WorkerRequestsKeyFrame

Next ==
  \/ ConductorLoop
  \/ RtspLoop
  \/ \E p \in Rtsp!Pulls : PullDue(p)
  \/ Clients
  \/ MediaLoop
  \/ Worker
  \/ ImageEncoded
  \/ PacketEncoded

\* Every looper's and runner's thread keeps running and every delay ends.
Fairness ==
  /\ WF_vars(ConductorLoop)
  /\ WF_vars(RtspLoop)
  /\ \A p \in Rtsp!Pulls : WF_vars(PullDue(p))
  /\ WF_vars(MediaLoop)
  /\ WF_vars(Worker)

Spec == Init /\ [][Next]_vars /\ Fairness

-----------------------------------------------------------------------------
(* Properties.                                                              *)

ConductorMessage ==
  [what : {"Start"}] \cup [what : {"AddVideoSource"}, id : StreamIds]
    \cup Rtsp!Notification

TypeOK ==
  /\ conductor_looper \in Seq(ConductorMessage)
  /\ starting \in {"server", "sound", "camera", "done"}
  /\ max_stream_id \in 0..2
  /\ Rtsp!TypeOK
  /\ Media!TypeOK
  /\ active \subseteq StreamIds
  /\ route \subseteq StreamIds \X Sinks
  /\ audio_route \subseteq StreamIds
  /\ key_frames \in Nat
  /\ unasked \in Nat

CountOf(queue, what) == Cardinality({i \in DOMAIN queue : queue[i].what = what})

\* The AVE_CHECKs of MediaService hold for the messages of this program: no
\* audio sink is added twice and every message carries what its handler wants.
ChecksHold == ~check_failed

\* A sink reaches the worker only after the source of its stream, although
\* the two travel by different routes: the source by way of the media looper,
\* the sink by way of the RTSP looper, the conductor and the media looper.
SourceBeforeSink == \A p \in route : p[1] \in active

\* No key frame request is lost or repeated between the RTSP callback and the
\* worker, three loopers further on, which runs it with the streams it has.
KeyFramesConserved ==
  connected = CountOf(rtsp_looper, "ClientConnected")
              + CountOf(conductor_looper, "ClientConnectedNotify")
              + CountOf(media_looper, "RequestKeyFrame")
              + CountOf(worker_tasks, "RequestKeyFrame")
              + (key_frames + unasked)

\* OnStart has not asked for the sound's sink yet.
SoundToAsk == IF starting \in {"server", "sound"} THEN 1 ELSE 0

\* Each queue of the RTSP server is pulled by one chain, from the moment its sink is
\* asked for and for ever: there are never two, however many clients come, and none
\* dies at a pull that finds the server not started, though the server is started by
\* one message and pulled because of others (rtsp_server.cc:282, conductor.cc:171-176 and 223).
ChainsConserved ==
  /\ SoundToAsk + CountOf(rtsp_looper, "RequestAudioSink") + Rtsp!Outstanding("PullAudio") = 1
  /\ CountOf(conductor_looper, "Start") + CountOf(conductor_looper, "AddVideoSource")
       + CountOf(rtsp_looper, "RequestVideoSink") + Rtsp!Outstanding("PullVideo") = 1

\* The program implements Streaming: whatever the order in which its threads run,
\* also while OnStart has not come to the camera, the camera's stream gets its source
\* and then its sink, the sound's stream its sink, each once; a stream is never wired
\* to the other's sink, nothing set up is ever taken away, the server never stops, and
\* no key frame is requested but for a client, of the camera's stream or, when it is
\* not there yet, of nobody (conductor.cc:93-179 and 203-225, hybird_worker.cc:42-207).
StreamingSpec == Promise!Safety

\* ... and all of it comes about: the server listens, the camera's images and the sound
\* reach it for ever, and for every client that connects the worker runs a request.
StreamingProgress == Promise!Fairness

\* An image or a packet put in a queue is followed by a moment at which the
\* queue is shorter: the queues are drained for ever.
QueuesDrained ==
  /\ [](video_queue = MaxQueue => <>(video_queue < MaxQueue))
  /\ [](audio_queue = MaxQueue => <>(audio_queue < MaxQueue))
=============================================================================
