---------------------------- MODULE MediaService ----------------------------
(***************************************************************************)
(* MediaService (media/media_service.cc): a handler on a looper of its own *)
(* between the Conductor and the media worker.  Its public operations run  *)
(* on the caller's thread and post a message; its handlers unpack the      *)
(* message and hand the request to the worker, which posts it on its task  *)
(* runner.  A failing AVE_CHECK ends the process.                          *)
(*                                                                         *)
(* No operation posts kWhatRemoveVideoSource or                            *)
(* kWhatRemoveEncodedVideoSink, so their handlers are not reachable.       *)
(***************************************************************************)
EXTENDS Naturals, Sequences, SequencesExt

CONSTANTS
  StreamIds,      \* stream ids
  AudioCodecs,    \* codecs of audio sinks
  AudioSinks      \* audio sinks (shared_ptr identity)

VARIABLES
  media_looper,   \* messages waiting in looper_
  audio_sinks,    \* the sinks wrapped in audio_sinks_
  check_failed,   \* an AVE_CHECK has ended the process
  worker_tasks    \* the worker's task runner (HybirdWorkerVideo, first half)

vars == <<media_looper, audio_sinks, check_failed, worker_tasks>>

\* The names under which an audio message carries its sink.
AudioSinkKey == "encoded_audio_sink"
VideoSinkKey == "encoded_video_sink"

VideoMessage == [what : {"AddVideoSource", "AddEncodedVideoSink"}, id : StreamIds]
AudioMessage ==
  [what : {"AddAudioRenderSink"}, key : {AudioSinkKey, VideoSinkKey},
   sink : AudioSinks, id : StreamIds, codec : AudioCodecs]
    \cup [what : {"RemoveAudioRenderSink"}, key : {AudioSinkKey, VideoSinkKey},
          sink : AudioSinks, codec : AudioCodecs]
MediaMessage == VideoMessage \cup AudioMessage \cup [what : {"RequestKeyFrame"}]

WorkerTask ==
  VideoMessage
    \cup [what : {"AddEncodedAudioSink"}, sink : AudioSinks, id : StreamIds,
          codec : AudioCodecs]
    \cup [what : {"RemoveEncodedAudioSink"}, sink : AudioSinks, codec : AudioCodecs]
    \cup [what : {"RequestKeyFrame"}]

-----------------------------------------------------------------------------
(* Public operations, on the caller's thread.                               *)

\* Mutant: a message is posted in front of those that wait.
PostsInFront(msg) == media_looper' = <<msg>> \o media_looper

PostMedia(msg) == media_looper' = Append(media_looper, msg)

AddVideoSource(id) ==
  /\ PostMedia([what |-> "AddVideoSource", id |-> id])
  /\ UNCHANGED <<audio_sinks, check_failed, worker_tasks>>

\* The sink is wrapped before it is posted.
AddVideoSink(id) ==
  /\ PostMedia([what |-> "AddEncodedVideoSink", id |-> id])
  /\ UNCHANGED <<audio_sinks, check_failed, worker_tasks>>

RequesteKeyFrame ==
  /\ PostMedia([what |-> "RequestKeyFrame"])
  /\ UNCHANGED <<audio_sinks, check_failed, worker_tasks>>

\* AVE_CHECK(it == audio_sinks_.end()): no sink is added twice.
AddEncodedAudioSink(sink, id, codec) ==
  /\ IF sink \in audio_sinks
     THEN /\ check_failed' = TRUE
          /\ UNCHANGED <<media_looper, audio_sinks>>
     ELSE /\ audio_sinks' = audio_sinks \cup {sink}
          /\ PostMedia([what |-> "AddAudioRenderSink", key |-> AudioSinkKey,
                        sink |-> sink, id |-> id, codec |-> codec])
          /\ UNCHANGED check_failed
  /\ UNCHANGED worker_tasks

\* The sink is put in the message under the name of a video sink.
RemoveEncodedAudioSink(sink, codec) ==
  /\ IF sink \notin audio_sinks
     THEN /\ check_failed' = TRUE
          /\ UNCHANGED <<media_looper, audio_sinks>>
     ELSE /\ audio_sinks' = audio_sinks \ {sink}
          /\ PostMedia([what |-> "RemoveAudioRenderSink", key |-> VideoSinkKey,
                        sink |-> sink, codec |-> codec])
          /\ UNCHANGED check_failed
  /\ UNCHANGED worker_tasks

-----------------------------------------------------------------------------
(* Handlers, on the looper's thread.                                        *)

MediaHandling(what) ==
  /\ ~check_failed
  /\ media_looper # <<>>
  /\ Head(media_looper).what = what

\* The handler hands the request to every worker (there is one).
ForWorkers(task) ==
  /\ media_looper' = Tail(media_looper)
  /\ worker_tasks' = Append(worker_tasks, task)
  /\ UNCHANGED <<audio_sinks, check_failed>>

OnAddVideoSource ==
  /\ MediaHandling("AddVideoSource")
  /\ ForWorkers(Head(media_looper))

OnAddEncodedVideoSink ==
  /\ MediaHandling("AddEncodedVideoSink")
  /\ ForWorkers(Head(media_looper))

OnRequestKeyFrame ==
  /\ MediaHandling("RequestKeyFrame")
  /\ ForWorkers(Head(media_looper))

\* AVE_CHECK(message->findObject("encoded_audio_sink", obj)).
FindAudioSink(msg) == msg.key = AudioSinkKey

CheckFails ==
  /\ media_looper' = Tail(media_looper)
  /\ check_failed' = TRUE
  /\ UNCHANGED <<audio_sinks, worker_tasks>>

OnAddAudioRenderSink ==
  LET msg == Head(media_looper)
  IN
  /\ MediaHandling("AddAudioRenderSink")
  /\ IF FindAudioSink(msg)
     THEN ForWorkers([what |-> "AddEncodedAudioSink", sink |-> msg.sink,
                      id |-> msg.id, codec |-> msg.codec])
     ELSE CheckFails

OnRemoveAudioRenderSink ==
  LET msg == Head(media_looper)
  IN
  /\ MediaHandling("RemoveAudioRenderSink")
  /\ IF FindAudioSink(msg)
     THEN ForWorkers([what |-> "RemoveEncodedAudioSink", sink |-> msg.sink,
                      codec |-> msg.codec])
     ELSE CheckFails

-----------------------------------------------------------------------------
Init ==
  /\ media_looper = <<>>
  /\ audio_sinks = {}
  /\ check_failed = FALSE
  /\ worker_tasks = <<>>

Loop ==
  \/ OnAddVideoSource
  \/ OnAddEncodedVideoSink
  \/ OnRequestKeyFrame
  \/ OnAddAudioRenderSink
  \/ OnRemoveAudioRenderSink

TypeOK ==
  /\ media_looper \in Seq(MediaMessage)
  /\ audio_sinks \subseteq AudioSinks
  /\ check_failed \in BOOLEAN
  /\ worker_tasks \in Seq(WorkerTask)
=============================================================================
