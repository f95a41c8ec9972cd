---------------------------- MODULE RtspServer ----------------------------
(***************************************************************************)
(* RtspServer (rtsp/rtsp_server.cc): a handler on a looper of its own.     *)
(* Clients of the class post messages; the RTSP library's threads post a   *)
(* message when a client connects or leaves; the encoder's threads put     *)
(* images and packets in the two queues; a chain of delayed messages per   *)
(* sink ("pull") takes one element at a time out of a queue and pushes it  *)
(* to the RTSP session.                                                    *)
(*                                                                         *)
(* The looper takes messages one at a time in the order they were posted;  *)
(* a message posted with a delay joins the queue when it is due.           *)
(***************************************************************************)
EXTENDS Naturals, Sequences, SequencesExt

CONSTANTS
  StreamIds,      \* stream ids a sink may be requested for
  AudioCodecs,    \* CodecIds an audio sink may be requested with
  VideoCodecs,    \* CodecIds a video sink may be requested with
  AudioFormats,   \* [rate, channels] an audio sink may be requested with
  MaxClients,     \* bound: connections the library reports
  MaxQueue        \* bound: images (packets) the encoder has in the queue

ASSUME RtspServerAssumption ==
  /\ MaxClients \in Nat
  /\ MaxQueue \in Nat
  /\ AudioFormats \subseteq [rate : Nat, channels : Nat]

VARIABLES
  rtsp_looper,    \* messages waiting in looper_
  rtsp_delayed,   \* pull messages posted with a delay and not yet due
  started,        \* started_, and the library listening on its port
  channel,        \* what media_session_ carries on channel_0 and channel_1
  audio_format,   \* sample rate and channel count of audio_queue_
  video_queue,    \* number of images in video_queue_
  audio_queue,    \* number of packets in audio_queue_
  connected,      \* connections the library has reported so far
  left,           \* how many of them it has reported as closed
  notify          \* messages posted to the owner through notify_

vars == <<rtsp_looper, rtsp_delayed, started, channel, audio_format,
          video_queue, audio_queue, connected, left, notify>>

None == "none"
Pulls == {"PullAudio", "PullVideo"}
PlainMessage ==
  [what : {"Start", "Stop", "ClientConnected", "ClientDisconnected"} \cup Pulls]
AudioRequest == [what : {"RequestAudioSink"}, id : StreamIds,
                 codec : AudioCodecs, format : AudioFormats]
VideoRequest == [what : {"RequestVideoSink"}, id : StreamIds, codec : VideoCodecs]
RtspMessage == PlainMessage \cup AudioRequest \cup VideoRequest

\* What the owner is told through notify_.
Notification ==
  [what : {"ClientConnectedNotify", "ClientDisconnectedNotify"}]
    \cup [what : {"AudioSinkAdded"}, id : StreamIds, codec : AudioCodecs]
    \cup [what : {"VideoSinkAdded"}, id : StreamIds]

Plain(what) == [what |-> what]

-----------------------------------------------------------------------------
(* The public operations and the library's callbacks only post.             *)

PostRtsp(msg) == rtsp_looper' = Append(rtsp_looper, msg)

RequestAudioSinkMsg(id, codec, format) ==
  [what |-> "RequestAudioSink", id |-> id, codec |-> codec, format |-> format]

RequestVideoSinkMsg(id, codec) ==
  [what |-> "RequestVideoSink", id |-> id, codec |-> codec]

\* A client connects to the listening server; its callback posts.
ClientConnects ==
  /\ started
  /\ connected < MaxClients
  /\ connected' = connected + 1
  /\ PostRtsp(Plain("ClientConnected"))
  /\ UNCHANGED <<rtsp_delayed, started, channel, audio_format, video_queue,
                 audio_queue, left, notify>>

ClientDisconnects ==
  /\ left < connected
  /\ left' = left + 1
  /\ PostRtsp(Plain("ClientDisconnected"))
  /\ UNCHANGED <<rtsp_delayed, started, channel, audio_format, video_queue,
                 audio_queue, connected, notify>>

-----------------------------------------------------------------------------
(* The handlers, in the order of onMessageReceived.                         *)

Handling(what) == rtsp_looper # <<>> /\ Head(rtsp_looper).what = what

\* The handler returns, leaving the messages it has posted to itself.
Done(posted) == rtsp_looper' = Tail(rtsp_looper) \o posted

\* Mutant: the pulls are restarted with the server.
StartsPulls ==
  /\ Handling("Start")
  /\ started' = TRUE
  /\ Done(<<Plain("PullAudio"), Plain("PullVideo")>>)
  /\ UNCHANGED <<rtsp_delayed, channel, audio_format, video_queue,
                 audio_queue, connected, left, notify>>

OnStart ==
  /\ Handling("Start")
  /\ started' = TRUE
  /\ Done(<<>>)
  /\ UNCHANGED <<rtsp_delayed, channel, audio_format, video_queue,
                 audio_queue, connected, left, notify>>

OnStop ==
  /\ Handling("Stop")
  /\ started' = FALSE
  /\ Done(<<>>)
  /\ UNCHANGED <<rtsp_delayed, channel, audio_format, video_queue,
                 audio_queue, connected, left, notify>>

OnClientConnected ==
  /\ Handling("ClientConnected")
  /\ notify' = Append(notify, [what |-> "ClientConnectedNotify"])
  /\ Done(<<>>)
  /\ UNCHANGED <<rtsp_delayed, started, channel, audio_format, video_queue,
                 audio_queue, connected, left>>

OnClientDisconnected ==
  /\ Handling("ClientDisconnected")
  /\ notify' = Append(notify, [what |-> "ClientDisconnectedNotify"])
  /\ Done(<<>>)
  /\ UNCHANGED <<rtsp_delayed, started, channel, audio_format, video_queue,
                 audio_queue, connected, left>>

\* "xop::rtsp only support 8000hz, 1 channel" for G.711 A-law.
NegotiatedFormat(codec, format) ==
  IF codec = "PCM_ALAW" THEN [rate |-> 8000, channels |-> 1] ELSE format

\* Mutant: the owner is told before and after the channel is set up.
NotifiesTwice ==
  LET msg == Head(rtsp_looper)
      notice == [what |-> "AudioSinkAdded", id |-> msg.id, codec |-> msg.codec]
  IN
  /\ Handling("RequestAudioSink")
  /\ channel' = [channel EXCEPT ![1] = msg.codec]
  /\ audio_format' = NegotiatedFormat(msg.codec, msg.format)
  /\ notify' = notify \o <<notice, notice>>
  /\ Done(<<Plain("PullAudio")>>)
  /\ UNCHANGED <<rtsp_delayed, started, video_queue, audio_queue, connected, left>>

OnRequestAudioSink ==
  LET msg == Head(rtsp_looper)
      format == NegotiatedFormat(msg.codec, msg.format)
  IN
  /\ Handling("RequestAudioSink")
  /\ channel' = IF msg.codec \in {"AAC", "PCM_ALAW"}
                THEN [channel EXCEPT ![1] = msg.codec] ELSE channel
  /\ audio_format' = format
  /\ notify' = Append(notify, [what |-> "AudioSinkAdded", id |-> msg.id,
                               codec |-> msg.codec])
  /\ Done(<<Plain("PullAudio")>>)
  /\ UNCHANGED <<rtsp_delayed, started, video_queue, audio_queue, connected, left>>

OnRequestVideoSink ==
  LET msg == Head(rtsp_looper)
  IN
  /\ Handling("RequestVideoSink")
  /\ channel' = IF msg.codec \in {"H264", "VP8"}
                THEN [channel EXCEPT ![0] = msg.codec] ELSE channel
  /\ notify' = Append(notify, [what |-> "VideoSinkAdded", id |-> msg.id])
  /\ Done(<<Plain("PullVideo")>>)
  /\ UNCHANGED <<rtsp_delayed, started, audio_format, video_queue,
                 audio_queue, connected, left>>

\* Mutant: the next pull is posted only when there was something to send.
ContinuesWhenFull(what, queue) ==
  rtsp_delayed' = IF started /\ queue > 0
                  THEN [rtsp_delayed EXCEPT ![what] = @ + 1] ELSE rtsp_delayed

\* Mutant: the next pull is posted whether the server is started or not.
ContinuesForEver(what, queue) ==
  rtsp_delayed' = [rtsp_delayed EXCEPT ![what] = @ + 1]

\* The end of a pull: the next one is posted with a delay while started_.
ContinuePull(what, queue) ==
  rtsp_delayed' = IF started
                  THEN [rtsp_delayed EXCEPT ![what] = @ + 1] ELSE rtsp_delayed

\* front and pop of a queue, when it is not empty.
Pop(queue) == IF queue = 0 THEN 0 ELSE queue - 1

OnPullAudioSource ==
  /\ Handling("PullAudio")
  /\ audio_queue' = Pop(audio_queue)
  /\ ContinuePull("PullAudio", audio_queue)
  /\ Done(<<>>)
  /\ UNCHANGED <<started, channel, audio_format, video_queue, connected, left, notify>>

OnPullVideoSource ==
  /\ Handling("PullVideo")
  /\ video_queue' = Pop(video_queue)
  /\ ContinuePull("PullVideo", video_queue)
  /\ Done(<<>>)
  /\ UNCHANGED <<started, channel, audio_format, audio_queue, connected, left, notify>>

\* A delayed pull is due and joins the messages.
PullDue(what) ==
  /\ rtsp_delayed[what] > 0
  /\ rtsp_delayed' = [rtsp_delayed EXCEPT ![what] = @ - 1]
  /\ PostRtsp(Plain(what))
  /\ UNCHANGED <<started, channel, audio_format, video_queue, audio_queue,
                 connected, left, notify>>

-----------------------------------------------------------------------------
(* VideoQueue::OnFrame and AudioQueue::OnFrame, on the encoders' threads.   *)
(* Nothing orders them with the looper's pop: a push that overlaps a pull   *)
(* is a data race, whose outcome here is that the element may be lost.      *)

Pushed(queue, pull) ==
  {queue + 1} \cup (IF Handling(pull) THEN {queue} ELSE {})

VideoOnFrame ==
  /\ video_queue < MaxQueue
  /\ video_queue' \in Pushed(video_queue, "PullVideo")
  /\ UNCHANGED <<rtsp_looper, rtsp_delayed, started, channel, audio_format,
                 audio_queue, connected, left, notify>>

AudioOnFrame ==
  /\ audio_queue < MaxQueue
  /\ audio_queue' \in Pushed(audio_queue, "PullAudio")
  /\ UNCHANGED <<rtsp_looper, rtsp_delayed, started, channel, audio_format,
                 video_queue, connected, left, notify>>

-----------------------------------------------------------------------------
Init ==
  /\ rtsp_looper = <<>>
  /\ rtsp_delayed = [p \in Pulls |-> 0]
  /\ started = FALSE
  /\ channel = [c \in {0, 1} |-> None]
  /\ audio_format = [rate |-> 0, channels |-> 0]
  /\ video_queue = 0
  /\ audio_queue = 0
  /\ connected = 0
  /\ left = 0
  /\ notify = <<>>

\* One turn of the looper's thread.
Loop ==
  \/ OnStart
  \/ OnStop
  \/ OnClientConnected
  \/ OnClientDisconnected
  \/ OnRequestAudioSink
  \/ OnRequestVideoSink
  \/ OnPullAudioSource
  \/ OnPullVideoSource

Timers == \E p \in Pulls : PullDue(p)

-----------------------------------------------------------------------------
\* The owner's looper, which notify stands for, is typed by the owner.
TypeOK ==
  /\ rtsp_looper \in Seq(RtspMessage)
  /\ rtsp_delayed \in [Pulls -> Nat]
  /\ started \in BOOLEAN
  /\ channel \in [{0, 1} -> AudioCodecs \cup VideoCodecs \cup {None}]
  /\ audio_format \in [rate : Nat, channels : Nat]
  /\ video_queue \in Nat
  /\ audio_queue \in Nat
  /\ connected \in 0..MaxClients
  /\ left \in 0..connected

\* Pull messages of a kind that will run: queued or delayed.
Outstanding(what) ==
  rtsp_delayed[what]
    + Cardinality({i \in DOMAIN rtsp_looper : rtsp_looper[i].what = what})
=============================================================================
