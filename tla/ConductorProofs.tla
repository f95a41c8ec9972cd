-------------------------- MODULE ConductorProofs --------------------------
(***************************************************************************)
(* Proofs about the composition: what the program posts from thread to     *)
(* thread is neither lost, repeated nor overtaken, and so what it does is  *)
(* what Streaming promises.                                                *)
(***************************************************************************)
EXTENDS Conductor, Integers, FiniteSets, SequenceTheorems, FiniteSetTheorems, TLAPS

\* The proofs about the server, for their lemmas on counting the messages of any
\* queue.  They do not depend on what the server's constants are, nor on its owner.
Server == INSTANCE RtspServerProofs
            WITH notify <- conductor_looper, AudioFormats <- {}, MaxClients <- 0,
                 MaxQueue <- 0, MaxRequests <- 0, MaxSwitches <- 0,
                 requests <- [p \in Rtsp!Pulls |-> 0], switches <- 0

LEMMA CountIsWaiting ==
  \A queue, what : CountOf(queue, what) = Server!Waiting(queue, what)
<1>1. \A S : Server!Cardinality(S) = Cardinality(S)
  BY DEF Cardinality, Server!Cardinality
<1> QED
  BY <1>1 DEF CountOf, Server!Waiting, Server!Positions

\* The messages this program sends to its media looper: it never removes
\* anything, and each audio message has its sink where the handler looks.
ProgramMedia ==
  Media!VideoMessage
    \cup [what : {"AddAudioRenderSink"}, key : {Media!AudioSinkKey},
          sink : AudioSinks, id : StreamIds, codec : AudioCodecs]
    \cup [what : {"RequestKeyFrame"}]

QueuesTyped ==
  /\ conductor_looper \in Seq(ConductorMessage)
  /\ rtsp_looper \in Seq(Rtsp!RtspMessage)
  /\ media_looper \in Seq(ProgramMedia)
  /\ worker_tasks \in Seq(Media!WorkerTask)

\* The only request for an audio sink: not made yet, asked for, answered, or
\* handed to the media service.
AudioSinkOnce ==
  SoundToAsk + Server!Waiting(rtsp_looper, "RequestAudioSink")
    + Server!Waiting(conductor_looper, "AudioSinkAdded") + (IF audio_sinks = {} THEN 0 ELSE 1) = 1

\* The streams OnStart has taken so far.
StreamsTaken ==
  max_stream_id = IF SoundToAsk = 1 THEN 0 ELSE IF starting = "camera" THEN 1 ELSE 2

\* The key frame requests the worker has run.
RequestsRun == key_frames + unasked

ProgramInv ==
  /\ TypeOK
  /\ QueuesTyped
  /\ AudioSinkOnce
  /\ StreamsTaken
  /\ ChecksHold
  /\ KeyFramesConserved

\* The value of a queue after a turn, and what it then has of each kind.
Takes(q, r, what) ==
  \A w : Server!Waiting(r, w) = IF w = what THEN Server!Waiting(q, w) - 1 ELSE Server!Waiting(q, w)
Posts(q, r, what) ==
  \A w : Server!Waiting(r, w) = IF w = what THEN Server!Waiting(q, w) + 1 ELSE Server!Waiting(q, w)

LEMMA CountsAreNat ==
  ASSUME QueuesTyped
  PROVE  \A w : /\ Server!Waiting(conductor_looper, w) \in Nat
                /\ Server!Waiting(rtsp_looper, w) \in Nat
                /\ Server!Waiting(media_looper, w) \in Nat
                /\ Server!Waiting(worker_tasks, w) \in Nat
  BY Server!WaitingIsNat DEF QueuesTyped

LEMMA KeyFramesAre ==
  KeyFramesConserved <=>
    connected = Server!Waiting(rtsp_looper, "ClientConnected")
                + Server!Waiting(conductor_looper, "ClientConnectedNotify")
                + Server!Waiting(media_looper, "RequestKeyFrame")
                + Server!Waiting(worker_tasks, "RequestKeyFrame") + RequestsRun
  BY CountIsWaiting DEF KeyFramesConserved, RequestsRun

-----------------------------------------------------------------------------
(* The conductor's turns.                                                   *)

\* A turn of the conductor that posts nothing to itself.
LEMMA ConductorTurn ==
  ASSUME QueuesTyped, NEW what, Handling(what), Done(<<>>)
  PROVE  /\ conductor_looper' \in Seq(ConductorMessage)
         /\ Takes(conductor_looper, conductor_looper', what)
         /\ Server!Waiting(conductor_looper, what) \in Nat \ {0}
         /\ Head(conductor_looper) \in ConductorMessage
<1>1. /\ conductor_looper \in Seq(ConductorMessage) /\ conductor_looper # <<>>
      /\ Head(conductor_looper).what = what
  BY DEF QueuesTyped, Handling
<1>2. conductor_looper' = Tail(conductor_looper)
  BY <1>1, HeadTailProperties, ConcatEmptySeq DEF Done
<1> QED
  BY <1>1, <1>2, Server!WaitingTaken, HeadTailProperties DEF Takes

\* A message posted to the media looper by the conductor.
LEMMA MediaPosted ==
  ASSUME QueuesTyped, NEW m \in ProgramMedia, media_looper' = Append(media_looper, m)
  PROVE  /\ media_looper' \in Seq(ProgramMedia)
         /\ Posts(media_looper, media_looper', m.what)
<1>1. media_looper \in Seq(ProgramMedia)
  BY DEF QueuesTyped
<1> QED
  BY <1>1, Server!WaitingPosted DEF Posts

LEMMA RtspPosted ==
  ASSUME QueuesTyped, NEW m \in Rtsp!RtspMessage, rtsp_looper' = Append(rtsp_looper, m)
  PROVE  /\ rtsp_looper' \in Seq(Rtsp!RtspMessage)
         /\ Posts(rtsp_looper, rtsp_looper', m.what)
<1>1. rtsp_looper \in Seq(Rtsp!RtspMessage)
  BY DEF QueuesTyped
<1> QED
  BY <1>1, Server!WaitingPosted DEF Posts

\* The media looper holds no message whose handler would fail its check.
LEMMA ProgramMediaTyped == \A q \in Seq(ProgramMedia) : q \in Seq(Media!MediaMessage)
<1>1. ProgramMedia \subseteq Media!MediaMessage
  BY DEF ProgramMedia, Media!MediaMessage, Media!AudioMessage
<1> QED
  BY <1>1

\* Everything the invariant counts.
Counted ==
  <<starting, Server!Waiting(rtsp_looper, "RequestAudioSink"),
    Server!Waiting(conductor_looper, "AudioSinkAdded"), audio_sinks, max_stream_id,
    Server!Waiting(rtsp_looper, "ClientConnected"),
      Server!Waiting(conductor_looper, "ClientConnectedNotify"),
    Server!Waiting(media_looper, "RequestKeyFrame"),
      Server!Waiting(worker_tasks, "RequestKeyFrame"),
    connected, key_frames, unasked>>

KeyFrameCounts ==
  <<Server!Waiting(rtsp_looper, "ClientConnected"),
    Server!Waiting(conductor_looper, "ClientConnectedNotify"),
    Server!Waiting(media_looper, "RequestKeyFrame"),
      Server!Waiting(worker_tasks, "RequestKeyFrame"),
    connected, key_frames, unasked>>

LEMMA KeyFramesKept ==
  ASSUME KeyFramesConserved, UNCHANGED KeyFrameCounts
  PROVE  KeyFramesConserved'
  BY CountIsWaiting DEF KeyFrameCounts, KeyFramesConserved

\* A step that changes none of it.
LEMMA QuietKeeps ==
  ASSUME ProgramInv, TypeOK', QueuesTyped', UNCHANGED Counted, UNCHANGED check_failed
  PROVE  ProgramInv'
<1>1. AudioSinkOnce'
  BY DEF ProgramInv, Counted, AudioSinkOnce, SoundToAsk
<1>2. KeyFramesConserved'
  BY CountIsWaiting DEF ProgramInv, Counted, KeyFramesConserved
<1>3. StreamsTaken'
  BY DEF ProgramInv, Counted, StreamsTaken, SoundToAsk
<1> QED
  BY <1>1, <1>2, <1>3 DEF ProgramInv, Counted, ChecksHold

\* The first message stays first until it is taken.
LEMMA HeadOfPosted ==
  ASSUME NEW M, NEW q \in Seq(M), NEW m \in M
  PROVE  /\ Append(q, m) # <<>>
         /\ Head(Append(q, m)) = IF q = <<>> THEN m ELSE Head(q)
<1> DEFINE a == Append(q, m)
<1>1. /\ Len(q) \in Nat /\ a \in Seq(M) /\ Len(a) = Len(q) + 1
      /\ \A i \in 1..Len(q) : a[i] = q[i]
      /\ a[Len(q) + 1] = m
  BY AppendProperties, LenProperties
<1> SUFFICES a # <<>> /\ Head(a) = IF q = <<>> THEN m ELSE Head(q)
  OBVIOUS
<1> HIDE DEF a
<1>2. \A s \in Seq(M) : s # <<>> => Head(s) = s[1]
  BY HeadTailProperties
<1>3. \A s \in Seq(M) : s = <<>> <=> Len(s) = 0
  BY EmptySeq
<1>4. a # <<>> /\ Head(a) = a[1]
  <2>1. Len(a) # 0
    BY <1>1
  <2> QED
    BY <1>1, <1>2, <1>3, <2>1
<1>5. CASE q = <<>>
  <2>1. Len(q) = 0
    BY <1>3, <1>5
  <2> QED
    BY <1>1, <1>4, <1>5, <2>1
<1>6. CASE q # <<>>
  <2>1. Len(q) # 0
    BY <1>3, <1>6
  <2>2. a[1] = q[1]
    BY <1>1, <2>1
  <2> QED
    BY <1>2, <1>4, <1>6, <2>2
<1> QED
  BY <1>5, <1>6

\* What OnStart posts: to the RTSP server, twice, and to its own looper.
ListenMsg == [what |-> "Start"]
SoundRequest == [what |-> "RequestAudioSink", id |-> 1, codec |-> "AAC",
                 format |-> [rate |-> 44100, channels |-> 2]]
CameraSource == [what |-> "AddVideoSource", id |-> 2]

LEMMA StartMessages ==
  /\ ListenMsg \in Rtsp!RtspMessage /\ ListenMsg.what = "Start"
  /\ SoundRequest \in Rtsp!RtspMessage /\ SoundRequest.what = "RequestAudioSink"
  /\ SoundRequest.id = 1
  /\ CameraSource \in ConductorMessage /\ CameraSource.what = "AddVideoSource"
  /\ CameraSource.id = 2
  BY DEF ListenMsg, SoundRequest, CameraSource, ConductorMessage, StreamIds, Rtsp!RtspMessage,
     Rtsp!PlainMessage, Rtsp!AudioRequest, AudioCodecs, AudioFormats

\* What each of its steps makes of the queues.
LEMMA OnStartServerPosts ==
  ASSUME ProgramInv, OnStartServer
  PROVE  /\ starting = "server" /\ starting' = "sound" /\ SoundToAsk = 1 /\ SoundToAsk' = 1
         /\ UNCHANGED <<conductor_looper, max_stream_id, rtsp_delayed, started, channel,
                        audio_format, video_queue, audio_queue, connected, left, mediaVars,
                        workerVars>>
         /\ rtsp_looper' = Append(rtsp_looper, ListenMsg)
         /\ rtsp_looper' \in Seq(Rtsp!RtspMessage)
         /\ Posts(rtsp_looper, rtsp_looper', "Start")
<1>1. rtsp_looper' = Append(rtsp_looper, ListenMsg)
  BY DEF OnStartServer, Rtsp!PostRtsp, Rtsp!Plain, ListenMsg
<1>2. rtsp_looper' \in Seq(Rtsp!RtspMessage) /\ Posts(rtsp_looper, rtsp_looper', "Start")
  BY <1>1, StartMessages, RtspPosted DEF ProgramInv
<1>3. starting = "server" /\ starting' = "sound" /\ SoundToAsk = 1 /\ SoundToAsk' = 1
  BY DEF OnStartServer, SoundToAsk
<1> QED
  BY <1>1, <1>2, <1>3 DEF OnStartServer

LEMMA OnStartSoundPosts ==
  ASSUME ProgramInv, OnStartSound
  PROVE  /\ starting = "sound" /\ starting' = "camera" /\ SoundToAsk = 1 /\ SoundToAsk' = 0
         /\ max_stream_id = 0 /\ max_stream_id' = 1
         /\ UNCHANGED <<conductor_looper, rtsp_delayed, started, channel, audio_format,
                        video_queue, audio_queue, connected, left, mediaVars, workerVars>>
         /\ rtsp_looper' = Append(rtsp_looper, SoundRequest)
         /\ rtsp_looper' \in Seq(Rtsp!RtspMessage)
         /\ Posts(rtsp_looper, rtsp_looper', "RequestAudioSink")
<1>1. starting = "sound" /\ starting' = "camera" /\ SoundToAsk = 1 /\ SoundToAsk' = 0
  BY DEF OnStartSound, SoundToAsk
<1>2. max_stream_id = 0 /\ max_stream_id' = 1
  BY <1>1 DEF OnStartSound, ProgramInv, StreamsTaken
<1>3. rtsp_looper' = Append(rtsp_looper, SoundRequest)
  BY <1>2 DEF OnStartSound, Rtsp!PostRtsp, Rtsp!RequestAudioSinkMsg, SoundRequest
<1>4. /\ rtsp_looper' \in Seq(Rtsp!RtspMessage)
      /\ Posts(rtsp_looper, rtsp_looper', "RequestAudioSink")
  BY <1>3, StartMessages, RtspPosted DEF ProgramInv
<1> QED
  BY <1>1, <1>2, <1>3, <1>4 DEF OnStartSound

LEMMA OnStartCameraPosts ==
  ASSUME ProgramInv, OnStartCamera
  PROVE  /\ starting = "camera" /\ starting' = "done" /\ SoundToAsk = 0 /\ SoundToAsk' = 0
         /\ max_stream_id' = 2
         /\ UNCHANGED <<rtspVars, mediaVars, workerVars>>
         /\ conductor_looper # <<>>
         /\ conductor_looper' = Append(Tail(conductor_looper), CameraSource)
         /\ conductor_looper' \in Seq(ConductorMessage)
         /\ \A w : Server!Waiting(conductor_looper', w)
                    = IF w = "Start" THEN Server!Waiting(conductor_looper, w) - 1
                      ELSE IF w = "AddVideoSource" THEN Server!Waiting(conductor_looper, w) + 1
                      ELSE Server!Waiting(conductor_looper, w)
<1> DEFINE taken == Tail(conductor_looper)
<1>1. starting = "camera" /\ starting' = "done" /\ SoundToAsk = 0 /\ SoundToAsk' = 0
  BY DEF OnStartCamera, SoundToAsk
<1>2. max_stream_id = 1 /\ max_stream_id' = 2
  BY <1>1 DEF OnStartCamera, ProgramInv, StreamsTaken
<1>3. /\ conductor_looper \in Seq(ConductorMessage) /\ conductor_looper # <<>>
      /\ Head(conductor_looper).what = "Start"
  BY DEF ProgramInv, QueuesTyped, OnStartCamera, Handling
<1>4. taken \in Seq(ConductorMessage) /\ Takes(conductor_looper, taken, "Start")
  BY <1>3, Server!WaitingTaken DEF Takes
<1>5. conductor_looper' = taken \o <<CameraSource>>
  BY <1>2 DEF OnStartCamera, Done, CameraSource
<1> HIDE DEF taken
<1>6. /\ Append(taken, CameraSource) \in Seq(ConductorMessage)
      /\ taken \o <<CameraSource>> = Append(taken, CameraSource)
      /\ Posts(taken, Append(taken, CameraSource), "AddVideoSource")
  BY <1>4, StartMessages, Server!WaitingPosted DEF Posts
<1>7. conductor_looper' = Append(taken, CameraSource)
  BY <1>5, <1>6
<1>8. \A w : Server!Waiting(conductor_looper', w)
             = IF w = "Start" THEN Server!Waiting(conductor_looper, w) - 1
               ELSE IF w = "AddVideoSource" THEN Server!Waiting(conductor_looper, w) + 1
               ELSE Server!Waiting(conductor_looper, w)
  BY <1>4, <1>6, <1>7 DEF Takes, Posts
<1>9. /\ conductor_looper' = Append(Tail(conductor_looper), CameraSource)
      /\ conductor_looper' \in Seq(ConductorMessage)
  BY <1>6, <1>7 DEF taken
<1> QED
  BY <1>1, <1>2, <1>3, <1>8, <1>9 DEF OnStartCamera

LEMMA OnStartServerKeeps ==
  ASSUME ProgramInv, OnStartServer
  PROVE  ProgramInv'
<1> USE DEF ProgramInv
<1>1. /\ starting = "server" /\ starting' = "sound" /\ SoundToAsk = 1 /\ SoundToAsk' = 1
      /\ UNCHANGED <<conductor_looper, max_stream_id, rtsp_delayed, started, channel,
                     audio_format, video_queue, audio_queue, connected, left, media_looper,
                     audio_sinks, check_failed, worker_tasks, active, route, audio_route,
                     key_frames, unasked>>
      /\ rtsp_looper' \in Seq(Rtsp!RtspMessage)
  BY OnStartServerPosts DEF mediaVars, workerVars
<1>2. /\ Server!Waiting(rtsp_looper', "RequestAudioSink")
           = Server!Waiting(rtsp_looper, "RequestAudioSink")
      /\ Server!Waiting(rtsp_looper', "ClientConnected")
           = Server!Waiting(rtsp_looper, "ClientConnected")
  BY OnStartServerPosts DEF Posts
<1>3. AudioSinkOnce' /\ StreamsTaken'
  BY <1>1, <1>2 DEF AudioSinkOnce, StreamsTaken
<1>4. KeyFramesConserved'
  BY <1>1, <1>2, KeyFramesKept DEF KeyFrameCounts
<1>5. QueuesTyped' /\ TypeOK'
  BY <1>1 DEF QueuesTyped, TypeOK, Rtsp!TypeOK, Media!TypeOK
<1> QED
  BY <1>1, <1>3, <1>4, <1>5 DEF ChecksHold

LEMMA OnStartSoundKeeps ==
  ASSUME ProgramInv, OnStartSound
  PROVE  ProgramInv'
<1> USE DEF ProgramInv
<1>1. /\ starting' = "camera" /\ SoundToAsk = 1 /\ SoundToAsk' = 0 /\ max_stream_id' = 1
      /\ UNCHANGED <<conductor_looper, rtsp_delayed, started, channel,
                     audio_format, video_queue, audio_queue, connected, left, media_looper,
                     audio_sinks, check_failed, worker_tasks, active, route, audio_route,
                     key_frames, unasked>>
      /\ rtsp_looper' \in Seq(Rtsp!RtspMessage)
  BY OnStartSoundPosts DEF mediaVars, workerVars
<1>2. /\ Server!Waiting(rtsp_looper', "RequestAudioSink")
           = Server!Waiting(rtsp_looper, "RequestAudioSink") + 1
      /\ Server!Waiting(rtsp_looper', "ClientConnected")
           = Server!Waiting(rtsp_looper, "ClientConnected")
  BY OnStartSoundPosts DEF Posts
<1>3. AudioSinkOnce'
  <2>1. /\ Server!Waiting(rtsp_looper, "RequestAudioSink") \in Nat
        /\ Server!Waiting(conductor_looper, "AudioSinkAdded") \in Nat
    BY CountsAreNat
  <2> QED
    BY <1>1, <1>2, <2>1 DEF AudioSinkOnce
<1>4. KeyFramesConserved'
  BY <1>1, <1>2, KeyFramesKept DEF KeyFrameCounts
<1>5. QueuesTyped' /\ TypeOK' /\ StreamsTaken'
  BY <1>1 DEF QueuesTyped, TypeOK, Rtsp!TypeOK, Media!TypeOK, StreamsTaken
<1> QED
  BY <1>1, <1>3, <1>4, <1>5 DEF ChecksHold

LEMMA OnStartCameraKeeps ==
  ASSUME ProgramInv, OnStartCamera
  PROVE  ProgramInv'
<1> USE DEF ProgramInv
<1>1. /\ starting' = "done" /\ SoundToAsk = 0 /\ SoundToAsk' = 0 /\ max_stream_id' = 2
      /\ UNCHANGED <<rtsp_looper, rtsp_delayed, started, channel,
                     audio_format, video_queue, audio_queue, connected, left, media_looper,
                     audio_sinks, check_failed, worker_tasks, active, route, audio_route,
                     key_frames, unasked>>
      /\ conductor_looper' \in Seq(ConductorMessage)
  BY OnStartCameraPosts DEF rtspVars, mediaVars, workerVars
<1>2. /\ Server!Waiting(conductor_looper', "AudioSinkAdded")
           = Server!Waiting(conductor_looper, "AudioSinkAdded")
      /\ Server!Waiting(conductor_looper', "ClientConnectedNotify")
           = Server!Waiting(conductor_looper, "ClientConnectedNotify")
  BY OnStartCameraPosts
<1>3. AudioSinkOnce' /\ StreamsTaken'
  BY <1>1, <1>2 DEF AudioSinkOnce, StreamsTaken
<1>4. KeyFramesConserved'
  BY <1>1, <1>2, KeyFramesKept DEF KeyFrameCounts
<1>5. QueuesTyped' /\ TypeOK'
  BY <1>1 DEF QueuesTyped, TypeOK, Rtsp!TypeOK, Media!TypeOK
<1> QED
  BY <1>1, <1>3, <1>4, <1>5 DEF ChecksHold

\* What the conductor's turns leave alone.
LEMMA ConductorHead ==
  ASSUME QueuesTyped, conductor_looper # <<>>
  PROVE  /\ Head(conductor_looper).what \in {"AddVideoSource", "AudioSinkAdded", "VideoSinkAdded"}
              => Head(conductor_looper).id \in StreamIds
         /\ Head(conductor_looper).what = "AudioSinkAdded"
              => Head(conductor_looper).codec \in AudioCodecs
<1>1. Head(conductor_looper) \in ConductorMessage
  BY HeadTailProperties DEF QueuesTyped
<1> QED
  BY <1>1 DEF ConductorMessage, Rtsp!Notification

LEMMA OnAddVideoSourceKeeps ==
  ASSUME ProgramInv, OnAddVideoSource
  PROVE  ProgramInv'
<1> USE DEF ProgramInv
<1> DEFINE source == [what |-> "AddVideoSource", id |-> Head(conductor_looper).id]
           request == [what |-> "RequestVideoSink", id |-> Head(conductor_looper).id,
                       codec |-> "H264"]
<1>1. Handling("AddVideoSource") /\ Done(<<>>)
  BY DEF OnAddVideoSource
<1>2. Head(conductor_looper).id \in StreamIds
  BY <1>1, ConductorHead DEF Handling
<1>3. /\ source \in ProgramMedia /\ source.what = "AddVideoSource"
      /\ request \in Rtsp!RtspMessage /\ request.what = "RequestVideoSink"
  BY <1>2 DEF ProgramMedia, Media!VideoMessage, Rtsp!RtspMessage, Rtsp!VideoRequest, VideoCodecs
<1>4. /\ media_looper' = Append(media_looper, source)
      /\ rtsp_looper' = Append(rtsp_looper, request)
  BY DEF OnAddVideoSource, Media!AddVideoSource, Media!PostMedia, Rtsp!PostRtsp,
       Rtsp!RequestVideoSinkMsg
<1>5. UNCHANGED <<starting, max_stream_id, rtsp_delayed, started, channel, audio_format,
        video_queue,
                  audio_queue, connected, left, audio_sinks, check_failed, worker_tasks,
                  active, route, audio_route, key_frames, unasked>>
  BY DEF OnAddVideoSource, Media!AddVideoSource, workerVars
<1> HIDE DEF source, request
<1>6. /\ conductor_looper' \in Seq(ConductorMessage)
      /\ Takes(conductor_looper, conductor_looper', "AddVideoSource")
      /\ media_looper' \in Seq(ProgramMedia) /\ Posts(media_looper, media_looper', "AddVideoSource")
      /\ rtsp_looper' \in Seq(Rtsp!RtspMessage)
      /\ Posts(rtsp_looper, rtsp_looper', "RequestVideoSink")
  BY <1>1, <1>3, <1>4, ConductorTurn, MediaPosted, RtspPosted
<1>7. UNCHANGED Counted
  BY <1>5, <1>6 DEF Takes, Posts, Counted
<1>8. QueuesTyped' /\ TypeOK'
  BY <1>5, <1>6, ProgramMediaTyped DEF QueuesTyped, TypeOK, Rtsp!TypeOK, Media!TypeOK
<1> QED
  BY <1>5, <1>7, <1>8, QuietKeeps

LEMMA OnVideoSinkAddedKeeps ==
  ASSUME ProgramInv, OnVideoSinkAdded
  PROVE  ProgramInv'
<1> USE DEF ProgramInv
<1> DEFINE sink == [what |-> "AddEncodedVideoSink", id |-> Head(conductor_looper).id]
<1>1. Handling("VideoSinkAdded") /\ Done(<<>>)
  BY DEF OnVideoSinkAdded
<1>2. sink \in ProgramMedia /\ sink.what = "AddEncodedVideoSink"
  BY <1>1, ConductorHead DEF Handling, ProgramMedia, Media!VideoMessage
<1>3. media_looper' = Append(media_looper, sink)
  BY DEF OnVideoSinkAdded, Media!AddVideoSink, Media!PostMedia
<1>4. UNCHANGED <<starting, max_stream_id, rtspVars, audio_sinks, check_failed, worker_tasks,
        workerVars>>
  BY DEF OnVideoSinkAdded, Media!AddVideoSink
<1> HIDE DEF sink
<1>5. /\ conductor_looper' \in Seq(ConductorMessage)
      /\ Takes(conductor_looper, conductor_looper', "VideoSinkAdded")
      /\ media_looper' \in Seq(ProgramMedia)
      /\ Posts(media_looper, media_looper', "AddEncodedVideoSink")
  BY <1>1, <1>2, <1>3, ConductorTurn, MediaPosted
<1>6. UNCHANGED Counted
  BY <1>4, <1>5 DEF Takes, Posts, Counted, rtspVars, workerVars
<1>7. QueuesTyped' /\ TypeOK'
  BY <1>4, <1>5, ProgramMediaTyped
  DEF QueuesTyped, TypeOK, Rtsp!TypeOK, Media!TypeOK, rtspVars, workerVars
<1> QED
  BY <1>4, <1>6, <1>7, QuietKeeps

\* The one answer to the one request: the media service has no sink yet.
LEMMA OnAudioSinkAddedKeeps ==
  ASSUME ProgramInv, OnAudioSinkAdded
  PROVE  ProgramInv'
<1> USE DEF ProgramInv
<1> DEFINE msg == Head(conductor_looper)
           sink == [what |-> "AddAudioRenderSink", key |-> Media!AudioSinkKey,
                    sink |-> "audio_queue", id |-> msg.id, codec |-> msg.codec]
<1>1. Handling("AudioSinkAdded") /\ Done(<<>>)
  BY DEF OnAudioSinkAdded
<1>2. /\ conductor_looper' \in Seq(ConductorMessage)
      /\ Takes(conductor_looper, conductor_looper', "AudioSinkAdded")
      /\ Server!Waiting(conductor_looper, "AudioSinkAdded") \in Nat \ {0}
  BY <1>1, ConductorTurn
<1>3. /\ audio_sinks = {} /\ Server!Waiting(conductor_looper, "AudioSinkAdded") = 1
      /\ SoundToAsk = 0 /\ Server!Waiting(rtsp_looper, "RequestAudioSink") = 0
  <2>1. SoundToAsk \in {0, 1} /\ Server!Waiting(rtsp_looper, "RequestAudioSink") \in Nat
    BY CountsAreNat DEF SoundToAsk
  <2> QED
    BY <1>2, <2>1, SMTT(30) DEF AudioSinkOnce
<1>4. sink \in ProgramMedia /\ sink.what = "AddAudioRenderSink"
  BY <1>1, ConductorHead DEF Handling, ProgramMedia, AudioSinks
<1>5. media_looper' = Append(media_looper, sink) /\ audio_sinks' = {"audio_queue"}
  BY <1>3 DEF OnAudioSinkAdded, Media!AddEncodedAudioSink, Media!PostMedia
<1>6. UNCHANGED <<starting, max_stream_id, rtspVars, check_failed, worker_tasks, workerVars>>
  BY <1>3 DEF OnAudioSinkAdded, Media!AddEncodedAudioSink
<1> HIDE DEF sink
<1>7. media_looper' \in Seq(ProgramMedia)
        /\ Posts(media_looper, media_looper', "AddAudioRenderSink")
  BY <1>4, <1>5, MediaPosted
<1>8. AudioSinkOnce'
  <2>1. /\ SoundToAsk' = 0
        /\ Server!Waiting(conductor_looper', "AudioSinkAdded") = 0
        /\ Server!Waiting(rtsp_looper', "RequestAudioSink") = 0
    BY <1>2, <1>3, <1>6 DEF Takes, rtspVars, SoundToAsk
  <2> QED
    BY <1>5, <2>1 DEF AudioSinkOnce
<1>9. KeyFramesConserved'
  <2>1. UNCHANGED KeyFrameCounts
    BY <1>2, <1>6, <1>7 DEF KeyFrameCounts, Takes, Posts, rtspVars, workerVars
  <2> QED
    BY <2>1, KeyFramesKept
<1>10. QueuesTyped' /\ TypeOK'
  BY <1>2, <1>5, <1>6, <1>7, ProgramMediaTyped
  DEF QueuesTyped, TypeOK, Rtsp!TypeOK, Media!TypeOK, rtspVars, workerVars, AudioSinks
<1>11. StreamsTaken'
  BY <1>6 DEF StreamsTaken, SoundToAsk
<1> QED
  BY <1>6, <1>8, <1>9, <1>10, <1>11 DEF ChecksHold

\* A request moves from one queue to the next.
LEMMA KeyFrameMoves ==
  ASSUME QueuesTyped, KeyFramesConserved, NEW a \in Int, NEW b \in Int, NEW c \in Int,
         NEW d \in Int, NEW e \in Int,
         Server!Waiting(rtsp_looper', "ClientConnected")
           = Server!Waiting(rtsp_looper, "ClientConnected") + a,
         Server!Waiting(conductor_looper', "ClientConnectedNotify")
           = Server!Waiting(conductor_looper, "ClientConnectedNotify") + b,
         Server!Waiting(media_looper', "RequestKeyFrame")
           = Server!Waiting(media_looper, "RequestKeyFrame") + c,
         Server!Waiting(worker_tasks', "RequestKeyFrame")
           = Server!Waiting(worker_tasks, "RequestKeyFrame") + d,
         RequestsRun \in Int, RequestsRun' = RequestsRun + e,
         connected' = connected + (a + b + c + d + e)
  PROVE  KeyFramesConserved'
<1> DEFINE r == Server!Waiting(rtsp_looper, "ClientConnected")
           n == Server!Waiting(conductor_looper, "ClientConnectedNotify")
           m == Server!Waiting(media_looper, "RequestKeyFrame")
           t == Server!Waiting(worker_tasks, "RequestKeyFrame")
<1>1. r \in Int /\ n \in Int /\ m \in Int /\ t \in Int
  BY CountsAreNat
<1>2. connected = r + n + m + t + RequestsRun
  BY KeyFramesAre
<1> HIDE DEF r, n, m, t
<1>3. connected' = (r + a) + (n + b) + (m + c) + (t + d) + (RequestsRun + e)
  BY <1>1, <1>2
<1>4. connected' = Server!Waiting(rtsp_looper', "ClientConnected")
                   + Server!Waiting(conductor_looper', "ClientConnectedNotify")
                   + Server!Waiting(media_looper', "RequestKeyFrame")
                   + Server!Waiting(worker_tasks', "RequestKeyFrame") + RequestsRun'
  BY <1>3 DEF r, n, m, t
<1> QED
  BY <1>4, CountIsWaiting DEF KeyFramesConserved, RequestsRun

LEMMA OnClientConnectedNotifyKeeps ==
  ASSUME ProgramInv, OnClientConnectedNotify
  PROVE  ProgramInv'
<1> USE DEF ProgramInv
<1>1. Handling("ClientConnectedNotify") /\ Done(<<>>)
  BY DEF OnClientConnectedNotify
<1>2. media_looper' = Append(media_looper, [what |-> "RequestKeyFrame"])
  BY DEF OnClientConnectedNotify, Media!RequesteKeyFrame, Media!PostMedia
<1>3. UNCHANGED <<starting, max_stream_id, rtspVars, audio_sinks, check_failed, worker_tasks,
        workerVars>>
  BY DEF OnClientConnectedNotify, Media!RequesteKeyFrame
<1>4. [what |-> "RequestKeyFrame"] \in ProgramMedia
  BY DEF ProgramMedia
<1>5. /\ conductor_looper' \in Seq(ConductorMessage)
      /\ Takes(conductor_looper, conductor_looper', "ClientConnectedNotify")
      /\ media_looper' \in Seq(ProgramMedia)
      /\ Posts(media_looper, media_looper', "RequestKeyFrame")
  BY <1>1, <1>2, <1>4, ConductorTurn, MediaPosted
<1>6. KeyFramesConserved'
  <2>1. /\ Server!Waiting(conductor_looper', "ClientConnectedNotify")
             = Server!Waiting(conductor_looper, "ClientConnectedNotify") + (-1)
        /\ Server!Waiting(media_looper', "RequestKeyFrame")
             = Server!Waiting(media_looper, "RequestKeyFrame") + 1
        /\ Server!Waiting(rtsp_looper', "ClientConnected")
             = Server!Waiting(rtsp_looper, "ClientConnected") + 0
        /\ Server!Waiting(worker_tasks', "RequestKeyFrame")
             = Server!Waiting(worker_tasks, "RequestKeyFrame") + 0
    BY <1>3, <1>5, CountsAreNat DEF Takes, Posts, rtspVars
  <2>2. RequestsRun \in Int /\ RequestsRun' = RequestsRun + 0
          /\ connected' = connected + (0 + (-1) + 1 + 0 + 0)
    BY <1>3 DEF rtspVars, workerVars, TypeOK, Rtsp!TypeOK, RequestsRun
  <2> QED
    BY <2>1, <2>2, KeyFrameMoves
<1>7. /\ Server!Waiting(conductor_looper', "Start") = Server!Waiting(conductor_looper, "Start")
      /\ Server!Waiting(conductor_looper', "AudioSinkAdded")
           = Server!Waiting(conductor_looper, "AudioSinkAdded")
  BY <1>5 DEF Takes
<1>8. AudioSinkOnce'
  BY <1>3, <1>7 DEF AudioSinkOnce, rtspVars, SoundToAsk
<1>9. QueuesTyped' /\ TypeOK'
  BY <1>3, <1>5, ProgramMediaTyped
  DEF QueuesTyped, TypeOK, Rtsp!TypeOK, Media!TypeOK, rtspVars, workerVars
<1>10. StreamsTaken'
  BY <1>3 DEF StreamsTaken, SoundToAsk
<1> QED
  BY <1>3, <1>6, <1>8, <1>9, <1>10 DEF ChecksHold

LEMMA OnOtherNotifyKeeps ==
  ASSUME ProgramInv, OnOtherNotify
  PROVE  ProgramInv'
<1> USE DEF ProgramInv
<1>1. /\ Handling("ClientDisconnectedNotify") /\ Done(<<>>)
      /\ UNCHANGED <<starting, max_stream_id, rtspVars, mediaVars, workerVars>>
  BY DEF OnOtherNotify
<1>2. /\ conductor_looper' \in Seq(ConductorMessage)
      /\ Takes(conductor_looper, conductor_looper', "ClientDisconnectedNotify")
  BY <1>1, ConductorTurn
<1>3. UNCHANGED Counted
  BY <1>1, <1>2 DEF Takes, Counted, rtspVars, mediaVars, workerVars
<1>4. QueuesTyped' /\ TypeOK'
  BY <1>1, <1>2 DEF QueuesTyped, TypeOK, Rtsp!TypeOK, Media!TypeOK, rtspVars, mediaVars, workerVars
<1> QED
  BY <1>1, <1>3, <1>4, QuietKeeps DEF mediaVars

-----------------------------------------------------------------------------
(* The media looper's turns and the worker's tasks.                         *)

\* The media looper hands on what it has taken.
LEMMA MediaTurn ==
  ASSUME QueuesTyped, NEW what, Media!MediaHandling(what), NEW task \in Media!WorkerTask,
         Media!ForWorkers(task)
  PROVE  /\ media_looper' \in Seq(ProgramMedia) /\ Takes(media_looper, media_looper', what)
         /\ worker_tasks' \in Seq(Media!WorkerTask)
         /\ Posts(worker_tasks, worker_tasks', task.what)
<1>1. /\ media_looper \in Seq(ProgramMedia) /\ media_looper # <<>>
      /\ Head(media_looper).what = what /\ media_looper' = Tail(media_looper)
      /\ worker_tasks \in Seq(Media!WorkerTask) /\ worker_tasks' = Append(worker_tasks, task)
  BY DEF QueuesTyped, Media!MediaHandling, Media!ForWorkers
<1>2. media_looper' \in Seq(ProgramMedia) /\ Takes(media_looper, media_looper', what)
  BY <1>1, Server!WaitingTaken DEF Takes
<1>3. worker_tasks' \in Seq(Media!WorkerTask) /\ Posts(worker_tasks, worker_tasks', task.what)
  BY <1>1, Server!WaitingPosted DEF Posts
<1> QED
  BY <1>2, <1>3

LEMMA MediaHead ==
  ASSUME QueuesTyped, media_looper # <<>>
  PROVE  /\ Head(media_looper).what # "RemoveAudioRenderSink"
         /\ Head(media_looper).what # "AddAudioRenderSink"
              => Head(media_looper) \in Media!WorkerTask
         /\ Head(media_looper).what = "AddAudioRenderSink"
              => /\ Head(media_looper).key = Media!AudioSinkKey
                 /\ [what |-> "AddEncodedAudioSink", sink |-> Head(media_looper).sink,
                     id |-> Head(media_looper).id, codec |-> Head(media_looper).codec]
                      \in Media!WorkerTask
<1>1. Head(media_looper) \in ProgramMedia
  BY HeadTailProperties DEF QueuesTyped
<1> QED
  BY <1>1 DEF ProgramMedia, Media!WorkerTask, Media!VideoMessage

LEMMA MediaLoopKeeps ==
  ASSUME ProgramInv, MediaLoop
  PROVE  ProgramInv'
<1> USE DEF ProgramInv
<1> DEFINE task == IF Head(media_looper).what = "AddAudioRenderSink"
                   THEN [what |-> "AddEncodedAudioSink", sink |-> Head(media_looper).sink,
                         id |-> Head(media_looper).id, codec |-> Head(media_looper).codec]
                   ELSE Head(media_looper)
           what == Head(media_looper).what
<1>1. /\ Media!MediaHandling(what) /\ Media!ForWorkers(task) /\ task \in Media!WorkerTask
      /\ task.what = "RequestKeyFrame" <=> what = "RequestKeyFrame"
  <2>1. media_looper # <<>> /\ ~check_failed
    BY DEF MediaLoop, Media!Loop, Media!MediaHandling, Media!OnAddVideoSource,
       Media!OnAddEncodedVideoSink, Media!OnRequestKeyFrame, Media!OnAddAudioRenderSink,
       Media!OnRemoveAudioRenderSink
  <2>2. task \in Media!WorkerTask
    BY <2>1, MediaHead
  <2>3. task.what = "RequestKeyFrame" <=> what = "RequestKeyFrame"
    OBVIOUS
  <2>4. Media!ForWorkers(task)
    BY <2>1, MediaHead
    DEF MediaLoop, Media!Loop, Media!MediaHandling, Media!OnAddVideoSource,
        Media!OnAddEncodedVideoSink, Media!OnRequestKeyFrame, Media!OnAddAudioRenderSink,
        Media!OnRemoveAudioRenderSink, Media!FindAudioSink
  <2> QED
    BY <2>1, <2>2, <2>3, <2>4 DEF Media!MediaHandling
<1>2. UNCHANGED <<conductor_looper, starting, max_stream_id, rtspVars, workerVars, audio_sinks,
        check_failed>>
  BY <1>1 DEF MediaLoop, Media!ForWorkers
<1> HIDE DEF task, what
<1>3. /\ media_looper' \in Seq(ProgramMedia) /\ Takes(media_looper, media_looper', what)
      /\ worker_tasks' \in Seq(Media!WorkerTask) /\ Posts(worker_tasks, worker_tasks', task.what)
  BY <1>1, MediaTurn
<1>4. QueuesTyped' /\ TypeOK'
  BY <1>2, <1>3, ProgramMediaTyped
  DEF QueuesTyped, TypeOK, Rtsp!TypeOK, Media!TypeOK, rtspVars, workerVars
<1>5. CASE what = "RequestKeyFrame"
  <2>1. /\ Server!Waiting(conductor_looper', "ClientConnectedNotify")
             = Server!Waiting(conductor_looper, "ClientConnectedNotify") + 0
        /\ Server!Waiting(media_looper', "RequestKeyFrame")
             = Server!Waiting(media_looper, "RequestKeyFrame") + (-1)
        /\ Server!Waiting(rtsp_looper', "ClientConnected")
             = Server!Waiting(rtsp_looper, "ClientConnected") + 0
        /\ Server!Waiting(worker_tasks', "RequestKeyFrame")
             = Server!Waiting(worker_tasks, "RequestKeyFrame") + 1
    BY <1>1, <1>2, <1>3, <1>5, CountsAreNat, SMTT(30) DEF Takes, Posts, rtspVars
  <2>2. RequestsRun \in Int /\ RequestsRun' = RequestsRun + 0
          /\ connected' = connected + (0 + 0 + (-1) + 1 + 0)
    BY <1>2 DEF rtspVars, workerVars, TypeOK, Rtsp!TypeOK, RequestsRun
  <2>3. KeyFramesConserved'
    BY <2>1, <2>2, KeyFrameMoves
  <2>4. AudioSinkOnce' /\ StreamsTaken'
    BY <1>2 DEF AudioSinkOnce, StreamsTaken, rtspVars, SoundToAsk
  <2> QED
    BY <1>2, <1>4, <2>3, <2>4 DEF ChecksHold
<1>6. CASE what # "RequestKeyFrame"
  <2>1. UNCHANGED Counted
    BY <1>1, <1>2, <1>3, <1>6 DEF Takes, Posts, Counted, rtspVars, workerVars
  <2> QED
    BY <1>2, <1>4, <2>1, QuietKeeps
<1> QED
  BY <1>5, <1>6

LEMMA WorkerTurn ==
  ASSUME ProgramInv, NEW what, Running(what), active' \subseteq StreamIds,
         route' \subseteq StreamIds \X Sinks, audio_route' \subseteq StreamIds,
         key_frames' \in Nat, unasked' \in Nat,
         RequestsRun' = RequestsRun + (IF what = "RequestKeyFrame" THEN 1 ELSE 0),
         what # "RequestKeyFrame" => UNCHANGED <<key_frames, unasked>>
  PROVE  ProgramInv'
<1> USE DEF ProgramInv
<1>1. /\ worker_tasks \in Seq(Media!WorkerTask) /\ worker_tasks # <<>>
      /\ Head(worker_tasks).what = what /\ worker_tasks' = Tail(worker_tasks)
  BY DEF QueuesTyped, Running
<1>2. worker_tasks' \in Seq(Media!WorkerTask) /\ Takes(worker_tasks, worker_tasks', what)
  BY <1>1, Server!WaitingTaken DEF Takes
<1>3. UNCHANGED <<conductor_looper, starting, max_stream_id, rtspVars, media_looper, audio_sinks,
        check_failed>>
  BY DEF Running
<1>4. RequestsRun \in Int
  BY DEF TypeOK, RequestsRun
<1>5. QueuesTyped' /\ TypeOK'
  BY <1>2, <1>3 DEF QueuesTyped, TypeOK, Rtsp!TypeOK, Media!TypeOK, rtspVars
<1>6. CASE what = "RequestKeyFrame"
  <2>1. /\ Server!Waiting(conductor_looper', "ClientConnectedNotify")
             = Server!Waiting(conductor_looper, "ClientConnectedNotify") + 0
        /\ Server!Waiting(media_looper', "RequestKeyFrame")
             = Server!Waiting(media_looper, "RequestKeyFrame") + 0
        /\ Server!Waiting(rtsp_looper', "ClientConnected")
             = Server!Waiting(rtsp_looper, "ClientConnected") + 0
        /\ Server!Waiting(worker_tasks', "RequestKeyFrame")
             = Server!Waiting(worker_tasks, "RequestKeyFrame") + (-1)
    BY <1>2, <1>3, <1>6, CountsAreNat DEF Takes, rtspVars
  <2>2. RequestsRun' = RequestsRun + 1 /\ connected' = connected + (0 + 0 + 0 + (-1) + 1)
    BY <1>3, <1>6 DEF rtspVars, TypeOK, Rtsp!TypeOK
  <2>3. KeyFramesConserved'
    BY <1>4, <2>1, <2>2, KeyFrameMoves
  <2>4. AudioSinkOnce' /\ StreamsTaken'
    BY <1>3 DEF AudioSinkOnce, StreamsTaken, rtspVars, SoundToAsk
  <2> QED
    BY <1>3, <1>5, <2>3, <2>4 DEF ChecksHold
<1>7. CASE what # "RequestKeyFrame"
  <2>1. UNCHANGED Counted
    BY <1>2, <1>3, <1>7 DEF Takes, Counted, rtspVars
  <2> QED
    BY <1>3, <1>5, <2>1, QuietKeeps
<1> QED
  BY <1>6, <1>7

LEMMA WorkerHead ==
  ASSUME QueuesTyped, worker_tasks # <<>>,
         Head(worker_tasks).what \in {"AddVideoSource", "AddEncodedVideoSink",
           "AddEncodedAudioSink"}
  PROVE  Head(worker_tasks).id \in StreamIds
<1>1. Head(worker_tasks) \in Media!WorkerTask
  BY HeadTailProperties DEF QueuesTyped
<1> QED
  BY <1>1 DEF Media!WorkerTask, Media!VideoMessage

LEMMA WorkerKeeps ==
  ASSUME ProgramInv, Worker
  PROVE  ProgramInv'
<1>1. /\ QueuesTyped /\ key_frames \in Nat /\ unasked \in Nat /\ active \subseteq StreamIds
      /\ route \subseteq StreamIds \X Sinks /\ audio_route \subseteq StreamIds
  BY DEF ProgramInv, TypeOK
<1>0. UNCHANGED <<key_frames, unasked>>
        => /\ key_frames' \in Nat /\ unasked' \in Nat
           /\ RequestsRun' = RequestsRun + 0
  BY <1>1 DEF RequestsRun
<1>2. CASE WorkerAddsSource
  <2>1. active' \subseteq StreamIds /\ UNCHANGED <<route, audio_route, key_frames, unasked>>
    BY <1>1, <1>2, WorkerHead DEF WorkerAddsSource, Running, Routing!AddSource
  <2> QED
    BY <1>0, <1>1, <1>2, <2>1, WorkerTurn DEF WorkerAddsSource
<1>3. CASE WorkerAddsSink
  <2>1. Head(worker_tasks).id \in StreamIds
    BY <1>1, <1>3, WorkerHead DEF WorkerAddsSink, Running
  <2>2. route' \subseteq StreamIds \X Sinks
          /\ UNCHANGED <<active, audio_route, key_frames, unasked>>
    BY <1>1, <1>3, <2>1 DEF WorkerAddsSink, Routing!AddSink, Sinks
  <2> QED
    BY <1>0, <1>1, <1>3, <2>2, WorkerTurn DEF WorkerAddsSink
<1>4. CASE WorkerAddsAudioSink
  <2>1. audio_route' \subseteq StreamIds /\ UNCHANGED <<active, route, key_frames, unasked>>
    BY <1>1, <1>4, WorkerHead DEF WorkerAddsAudioSink, Running
  <2> QED
    BY <1>0, <1>1, <1>4, <2>1, WorkerTurn DEF WorkerAddsAudioSink
<1>5. CASE WorkerRequestsKeyFrame
  <2>1. Running("RequestKeyFrame") /\ UNCHANGED <<active, route, audio_route>>
    BY <1>5 DEF WorkerRequestsKeyFrame
  <2>2. /\ key_frames' \in Nat /\ unasked' \in Nat /\ RequestsRun' = RequestsRun + 1
    BY <1>1, <1>5 DEF WorkerRequestsKeyFrame, RequestsRun
  <2> QED
    BY <1>1, <2>1, <2>2, WorkerTurn
<1> QED
  BY <1>2, <1>3, <1>4, <1>5 DEF Worker

-----------------------------------------------------------------------------
(* The RTSP server's turns, its clients and its queues.                     *)

\* A turn of the RTSP looper that posts at most a pull and a notice.
LEMMA RtspTurn ==
  ASSUME QueuesTyped, NEW what, Rtsp!Handling(what),
         NEW posted \in {<<>>, <<Rtsp!Plain("PullAudio")>>, <<Rtsp!Plain("PullVideo")>>},
         Rtsp!Done(posted)
  PROVE  /\ rtsp_looper' \in Seq(Rtsp!RtspMessage)
         /\ \A w : w \notin Rtsp!Pulls =>
               Server!Waiting(rtsp_looper', w) = IF w = what THEN Server!Waiting(rtsp_looper, w) - 1
                                          ELSE Server!Waiting(rtsp_looper, w)
<1> DEFINE q == Tail(rtsp_looper)
<1>1. rtsp_looper \in Seq(Rtsp!RtspMessage) /\ rtsp_looper # <<>> /\ Head(rtsp_looper).what = what
  BY DEF QueuesTyped, Rtsp!Handling
<1>2. q \in Seq(Rtsp!RtspMessage) /\ Takes(rtsp_looper, q, what)
  BY <1>1, Server!WaitingTaken DEF Takes
<1>3. rtsp_looper' = q \o posted
  BY DEF Rtsp!Done
<1> HIDE DEF q
<1>4. CASE posted = <<>>
  <2>1. rtsp_looper' = q
    BY <1>2, <1>3, <1>4, ConcatEmptySeq
  <2> QED
    BY <1>2, <2>1 DEF Takes
<1>5. ASSUME NEW k \in Rtsp!Pulls, posted = <<Rtsp!Plain(k)>>
      PROVE  /\ rtsp_looper' \in Seq(Rtsp!RtspMessage)
             /\ \A w : w # k => Server!Waiting(rtsp_looper', w) = Server!Waiting(q, w)
  <2>1. Rtsp!Plain(k) \in Rtsp!RtspMessage /\ Rtsp!Plain(k).what = k
    BY DEF Rtsp!RtspMessage, Rtsp!PlainMessage, Rtsp!Plain
  <2> DEFINE m == Rtsp!Plain(k)
  <2> HIDE DEF m
  <2>2. /\ Append(q, m) \in Seq(Rtsp!RtspMessage) /\ q \o <<m>> = Append(q, m)
        /\ \A w : Server!Waiting(Append(q, m), w) = IF w = m.what THEN Server!Waiting(q, w) + 1
             ELSE Server!Waiting(q, w)
    BY <1>2, <2>1, Server!WaitingPosted DEF m
  <2>3. rtsp_looper' = Append(q, m)
    BY <1>3, <1>5, <2>2 DEF m
  <2>4. m.what = k
    BY <2>1 DEF m
  <2> QED
    BY <2>2, <2>3, <2>4
<1>6. posted = <<>> \/ \E k \in Rtsp!Pulls : posted = <<Rtsp!Plain(k)>>
  BY Zenon DEF Rtsp!Pulls
<1>7. CASE \E k \in Rtsp!Pulls : posted = <<Rtsp!Plain(k)>>
  BY <1>2, <1>5, <1>7 DEF Takes
<1> QED
  BY <1>4, <1>6, <1>7

\* A notice posted to the conductor.
LEMMA NoticePosted ==
  ASSUME QueuesTyped, NEW m \in Rtsp!Notification, conductor_looper' = Append(conductor_looper, m)
  PROVE  /\ conductor_looper' \in Seq(ConductorMessage)
         /\ Posts(conductor_looper, conductor_looper', m.what)
<1>1. conductor_looper \in Seq(ConductorMessage) /\ m \in ConductorMessage
  BY DEF QueuesTyped, ConductorMessage
<1> QED
  BY <1>1, Server!WaitingPosted DEF Posts

\* What is not the RTSP server's.
Others == <<starting, max_stream_id, mediaVars, workerVars>>

\* The server's members but its queue.
ServerTyped ==
  /\ rtsp_delayed \in [Rtsp!Pulls -> Nat]
  /\ started \in BOOLEAN
  /\ channel \in [{0, 1} -> AudioCodecs \cup VideoCodecs \cup {Rtsp!None}]
  /\ audio_format \in [rate : Nat, channels : Nat]
  /\ video_queue \in Nat
  /\ audio_queue \in Nat
  /\ connected \in 0..MaxClients
  /\ left \in 0..connected

LEMMA ServerIsTyped ==
  ASSUME QueuesTyped', ServerTyped', TypeOK, UNCHANGED Others
  PROVE  TypeOK'
  BY ProgramMediaTyped
  DEF QueuesTyped, ServerTyped, TypeOK, Rtsp!TypeOK, Media!TypeOK, Others, mediaVars, workerVars

\* A turn that neither is about a sound request nor about a client.
LEMMA PlainTurn ==
  ASSUME ProgramInv, ServerTyped',
         NEW what \in {"Start", "Stop", "ClientDisconnected", "RequestVideoSink",
                       "PullAudio", "PullVideo"},
         Rtsp!Handling(what),
         NEW posted \in {<<>>, <<Rtsp!Plain("PullAudio")>>, <<Rtsp!Plain("PullVideo")>>},
         Rtsp!Done(posted),
         \/ conductor_looper' = conductor_looper
         \/ \E m \in Rtsp!Notification :
              /\ conductor_looper' = Append(conductor_looper, m)
              /\ m.what \in {"ClientDisconnectedNotify", "VideoSinkAdded"},
         UNCHANGED Others, connected' = connected
  PROVE  ProgramInv'
<1>1. QueuesTyped
  BY DEF ProgramInv
<1>2. /\ rtsp_looper' \in Seq(Rtsp!RtspMessage)
      /\ \A w : w \notin Rtsp!Pulls =>
            Server!Waiting(rtsp_looper', w) = IF w = what THEN Server!Waiting(rtsp_looper, w) - 1
                                       ELSE Server!Waiting(rtsp_looper, w)
  BY <1>1, RtspTurn
<1>3. /\ Server!Waiting(rtsp_looper', "RequestAudioSink")
           = Server!Waiting(rtsp_looper, "RequestAudioSink")
      /\ Server!Waiting(rtsp_looper', "ClientConnected")
           = Server!Waiting(rtsp_looper, "ClientConnected")
  BY <1>2 DEF Rtsp!Pulls
<1>4. /\ conductor_looper' \in Seq(ConductorMessage)
      /\ \A w \in {"Start", "AudioSinkAdded", "ClientConnectedNotify"} :
           Server!Waiting(conductor_looper', w) = Server!Waiting(conductor_looper, w)
  <2>1. CASE conductor_looper' = conductor_looper
    BY <1>1, <2>1 DEF QueuesTyped
  <2>2. ASSUME NEW m \in Rtsp!Notification, conductor_looper' = Append(conductor_looper, m),
               m.what \in {"ClientDisconnectedNotify", "VideoSinkAdded"}
        PROVE  <1>4!1 /\ <1>4!2
    BY <1>1, <2>2, NoticePosted DEF Posts
  <2> QED
    BY <2>1, <2>2
<1>5. UNCHANGED Counted
  BY <1>3, <1>4 DEF Counted, Others, mediaVars, workerVars
<1>6. QueuesTyped' /\ check_failed' = check_failed
  BY <1>1, <1>2, <1>4 DEF QueuesTyped, Others, mediaVars
<1>7. TypeOK'
  BY <1>6, ServerIsTyped DEF ProgramInv
<1> QED
  BY <1>5, <1>6, <1>7, QuietKeeps

LEMMA OnRequestAudioSinkKeeps ==
  ASSUME ProgramInv, Rtsp!OnRequestAudioSink, UNCHANGED Others
  PROVE  ProgramInv'
<1> USE DEF ProgramInv
<1> DEFINE msg == Head(rtsp_looper)
           notice == [what |-> "AudioSinkAdded", id |-> msg.id, codec |-> msg.codec]
<1>1. /\ Rtsp!Handling("RequestAudioSink") /\ Rtsp!Done(<<Rtsp!Plain("PullAudio")>>)
      /\ conductor_looper' = Append(conductor_looper, notice)
  BY DEF Rtsp!OnRequestAudioSink
<1>2. msg \in Rtsp!AudioRequest
  <2>1. msg \in Rtsp!RtspMessage /\ msg.what = "RequestAudioSink"
    BY <1>1, HeadTailProperties DEF Rtsp!Handling, QueuesTyped
  <2> QED
    BY <2>1 DEF Rtsp!RtspMessage, Rtsp!PlainMessage, Rtsp!AudioRequest, Rtsp!VideoRequest,
         Rtsp!Pulls
<1>3. notice \in Rtsp!Notification /\ notice.what = "AudioSinkAdded"
  BY <1>2 DEF Rtsp!Notification, Rtsp!AudioRequest
<1>4. ServerTyped'
  <2>1. msg.codec = "AAC" /\ msg.format \in [rate : Nat, channels : Nat]
    BY <1>2 DEF Rtsp!AudioRequest, AudioCodecs, AudioFormats
  <2>2. audio_format' = msg.format
    BY <2>1 DEF Rtsp!OnRequestAudioSink, Rtsp!NegotiatedFormat
  <2>4. channel' = [channel EXCEPT ![1] = "AAC"]
    BY <2>1 DEF Rtsp!OnRequestAudioSink
  <2>3. UNCHANGED <<rtsp_delayed, started, video_queue, audio_queue, connected, left>>
    BY DEF Rtsp!OnRequestAudioSink
  <2> QED
    BY <2>1, <2>2, <2>3, <2>4 DEF TypeOK, Rtsp!TypeOK, ServerTyped, AudioCodecs
<1> HIDE DEF notice
<1>5. /\ conductor_looper' \in Seq(ConductorMessage)
      /\ Posts(conductor_looper, conductor_looper', "AudioSinkAdded")
  BY <1>1, <1>3, NoticePosted
<1>6. /\ rtsp_looper' \in Seq(Rtsp!RtspMessage)
      /\ Server!Waiting(rtsp_looper', "RequestAudioSink")
           = Server!Waiting(rtsp_looper, "RequestAudioSink") - 1
      /\ Server!Waiting(rtsp_looper', "ClientConnected")
           = Server!Waiting(rtsp_looper, "ClientConnected")
  <2>1. /\ rtsp_looper' \in Seq(Rtsp!RtspMessage)
        /\ \A w : w \notin Rtsp!Pulls =>
              Server!Waiting(rtsp_looper', w)
                = IF w = "RequestAudioSink" THEN Server!Waiting(rtsp_looper, w) - 1
                  ELSE Server!Waiting(rtsp_looper, w)
    BY <1>1, RtspTurn
  <2> QED
    BY <2>1 DEF Rtsp!Pulls
<1>7. QueuesTyped' /\ TypeOK'
  <2>1. QueuesTyped'
    BY <1>5, <1>6 DEF QueuesTyped, Others, mediaVars
  <2> QED
    BY <1>4, <2>1, ServerIsTyped
<1>8. /\ Server!Waiting(conductor_looper', "Start") = Server!Waiting(conductor_looper, "Start")
      /\ Server!Waiting(conductor_looper', "AudioSinkAdded")
           = Server!Waiting(conductor_looper, "AudioSinkAdded") + 1
      /\ Server!Waiting(conductor_looper', "ClientConnectedNotify")
           = Server!Waiting(conductor_looper, "ClientConnectedNotify")
  BY <1>5 DEF Posts
<1>9. AudioSinkOnce'
  <2>1. /\ SoundToAsk \in {0, 1}
        /\ Server!Waiting(rtsp_looper, "RequestAudioSink") \in Nat \ {0}
        /\ Server!Waiting(conductor_looper, "AudioSinkAdded") \in Nat
    <3>1. rtsp_looper # <<>> /\ rtsp_looper \in Seq(Rtsp!RtspMessage)
      BY <1>1 DEF Rtsp!Handling, QueuesTyped
    <3>2. Server!Waiting(rtsp_looper, Head(rtsp_looper).what) \in Nat \ {0}
      BY <3>1, Server!WaitingTaken
    <3> QED
      BY <1>1, <3>2, CountsAreNat DEF Rtsp!Handling, SoundToAsk
  <2>2. /\ SoundToAsk = 0
        /\ Server!Waiting(rtsp_looper, "RequestAudioSink") = 1
        /\ Server!Waiting(conductor_looper, "AudioSinkAdded") = 0 /\ audio_sinks = {}
    BY <2>1 DEF AudioSinkOnce
  <2>3. SoundToAsk' = SoundToAsk /\ audio_sinks' = audio_sinks
    BY DEF Others, mediaVars, SoundToAsk
  <2> QED
    BY <1>6, <1>8, <2>2, <2>3 DEF AudioSinkOnce
<1>10. KeyFramesConserved'
  <2>1. UNCHANGED KeyFrameCounts
    BY <1>6, <1>8 DEF KeyFrameCounts, Others, mediaVars, workerVars, Rtsp!OnRequestAudioSink
  <2> QED
    BY <2>1, KeyFramesKept
<1>11. StreamsTaken'
  BY DEF StreamsTaken, SoundToAsk, Others
<1> QED
  BY <1>7, <1>9, <1>10, <1>11 DEF ChecksHold, Others, mediaVars

LEMMA OnClientConnectedKeeps ==
  ASSUME ProgramInv, Rtsp!OnClientConnected, UNCHANGED Others
  PROVE  ProgramInv'
<1> USE DEF ProgramInv
<1> DEFINE notice == [what |-> "ClientConnectedNotify"]
<1>1. /\ Rtsp!Handling("ClientConnected") /\ Rtsp!Done(<<>>)
      /\ conductor_looper' = Append(conductor_looper, notice)
      /\ UNCHANGED <<rtsp_delayed, started, channel, audio_format, video_queue, audio_queue,
                     connected, left>>
  BY DEF Rtsp!OnClientConnected
<1>2. notice \in Rtsp!Notification /\ notice.what = "ClientConnectedNotify"
  BY DEF Rtsp!Notification
<1> HIDE DEF notice
<1>3. /\ conductor_looper' \in Seq(ConductorMessage)
      /\ Posts(conductor_looper, conductor_looper', "ClientConnectedNotify")
  BY <1>1, <1>2, NoticePosted
<1>4. /\ rtsp_looper' \in Seq(Rtsp!RtspMessage)
      /\ Server!Waiting(rtsp_looper', "RequestAudioSink")
           = Server!Waiting(rtsp_looper, "RequestAudioSink")
      /\ Server!Waiting(rtsp_looper', "ClientConnected")
           = Server!Waiting(rtsp_looper, "ClientConnected") - 1
  <2>1. /\ rtsp_looper' \in Seq(Rtsp!RtspMessage)
        /\ \A w : w \notin Rtsp!Pulls =>
              Server!Waiting(rtsp_looper', w)
                = IF w = "ClientConnected" THEN Server!Waiting(rtsp_looper, w) - 1
                  ELSE Server!Waiting(rtsp_looper, w)
    BY <1>1, RtspTurn
  <2> QED
    BY <2>1 DEF Rtsp!Pulls
<1>5. QueuesTyped' /\ TypeOK'
  <2>1. QueuesTyped' /\ ServerTyped'
    BY <1>1, <1>3, <1>4 DEF QueuesTyped, Others, mediaVars, TypeOK, Rtsp!TypeOK, ServerTyped
  <2> QED
    BY <2>1, ServerIsTyped
<1>6. /\ Server!Waiting(conductor_looper', "Start") = Server!Waiting(conductor_looper, "Start")
      /\ Server!Waiting(conductor_looper', "AudioSinkAdded")
           = Server!Waiting(conductor_looper, "AudioSinkAdded")
  BY <1>3 DEF Posts
<1>7. KeyFramesConserved'
  <2>1. /\ Server!Waiting(conductor_looper', "ClientConnectedNotify")
             = Server!Waiting(conductor_looper, "ClientConnectedNotify") + 1
        /\ Server!Waiting(media_looper', "RequestKeyFrame")
             = Server!Waiting(media_looper, "RequestKeyFrame") + 0
        /\ Server!Waiting(rtsp_looper', "ClientConnected")
             = Server!Waiting(rtsp_looper, "ClientConnected") + (-1)
        /\ Server!Waiting(worker_tasks', "RequestKeyFrame")
             = Server!Waiting(worker_tasks, "RequestKeyFrame") + 0
    <3>1. \A w : /\ Server!Waiting(rtsp_looper, w) \in Int
                 /\ Server!Waiting(media_looper, w) \in Int
                 /\ Server!Waiting(worker_tasks, w) \in Int
      BY CountsAreNat
    <3>2. UNCHANGED <<media_looper, worker_tasks>>
      BY DEF Others, mediaVars
    <3> QED
      BY <1>3, <1>4, <3>1, <3>2 DEF Posts
  <2>2. RequestsRun \in Int /\ RequestsRun' = RequestsRun + 0
          /\ connected' = connected + ((-1) + 1 + 0 + 0 + 0)
    BY <1>1 DEF Others, workerVars, TypeOK, Rtsp!TypeOK, RequestsRun
  <2> QED
    BY <2>1, <2>2, KeyFrameMoves
<1>8. AudioSinkOnce' /\ StreamsTaken'
  BY <1>4, <1>6 DEF AudioSinkOnce, StreamsTaken, SoundToAsk, Others, mediaVars
<1> QED
  BY <1>5, <1>7, <1>8 DEF ChecksHold, Others, mediaVars

LEMMA ClientConnectsKeeps ==
  ASSUME ProgramInv, Rtsp!ClientConnects, UNCHANGED Others
  PROVE  ProgramInv'
<1> USE DEF ProgramInv
<1> DEFINE m == Rtsp!Plain("ClientConnected")
<1>1. /\ rtsp_looper' = Append(rtsp_looper, m) /\ connected < MaxClients
      /\ connected' = connected + 1
      /\ UNCHANGED <<conductor_looper, rtsp_delayed, started, channel, audio_format, video_queue,
                     audio_queue, left>>
  BY DEF Rtsp!ClientConnects, Rtsp!PostRtsp
<1>2. m \in Rtsp!RtspMessage /\ m.what = "ClientConnected"
  BY DEF Rtsp!RtspMessage, Rtsp!PlainMessage, Rtsp!Plain
<1> HIDE DEF m
<1>3. rtsp_looper' \in Seq(Rtsp!RtspMessage) /\ Posts(rtsp_looper, rtsp_looper', "ClientConnected")
  BY <1>1, <1>2, RtspPosted
<1>4. QueuesTyped' /\ TypeOK'
  <2>1. QueuesTyped'
    BY <1>1, <1>3 DEF QueuesTyped, Others, mediaVars
  <2>2. ServerTyped'
    BY <1>1, ConductorAssumption DEF TypeOK, Rtsp!TypeOK, ServerTyped
  <2> QED
    BY <2>1, <2>2, ServerIsTyped
<1>5. KeyFramesConserved'
  <2>1. /\ Server!Waiting(conductor_looper', "ClientConnectedNotify")
             = Server!Waiting(conductor_looper, "ClientConnectedNotify") + 0
        /\ Server!Waiting(media_looper', "RequestKeyFrame")
             = Server!Waiting(media_looper, "RequestKeyFrame") + 0
        /\ Server!Waiting(rtsp_looper', "ClientConnected")
             = Server!Waiting(rtsp_looper, "ClientConnected") + 1
        /\ Server!Waiting(worker_tasks', "RequestKeyFrame")
             = Server!Waiting(worker_tasks, "RequestKeyFrame") + 0
    BY <1>1, <1>3, CountsAreNat DEF Posts, Others, mediaVars
  <2>2. RequestsRun \in Int /\ RequestsRun' = RequestsRun + 0
          /\ connected' = connected + (1 + 0 + 0 + 0 + 0)
    BY <1>1 DEF Others, workerVars, TypeOK, Rtsp!TypeOK, RequestsRun
  <2> QED
    BY <2>1, <2>2, KeyFrameMoves
<1>6. AudioSinkOnce'
  <2>1. Server!Waiting(rtsp_looper', "RequestAudioSink")
          = Server!Waiting(rtsp_looper, "RequestAudioSink")
    BY <1>3 DEF Posts
  <2> QED
    BY <1>1, <2>1 DEF AudioSinkOnce, SoundToAsk, Others, mediaVars
<1>7. StreamsTaken'
  BY DEF StreamsTaken, SoundToAsk, Others
<1> QED
  BY <1>4, <1>5, <1>6, <1>7 DEF ChecksHold, Others, mediaVars

\* A message of no interest to the counts is posted to the RTSP looper, or none.
LEMMA QuietServer ==
  ASSUME ProgramInv, ServerTyped', UNCHANGED <<Others, conductor_looper, connected>>,
         \/ rtsp_looper' = rtsp_looper
         \/ \E what \in {"ClientDisconnected"} \cup Rtsp!Pulls :
              rtsp_looper' = Append(rtsp_looper, Rtsp!Plain(what))
  PROVE  ProgramInv'
<1> USE DEF ProgramInv
<1>1. /\ rtsp_looper' \in Seq(Rtsp!RtspMessage)
      /\ Server!Waiting(rtsp_looper', "RequestAudioSink")
           = Server!Waiting(rtsp_looper, "RequestAudioSink")
      /\ Server!Waiting(rtsp_looper', "ClientConnected")
           = Server!Waiting(rtsp_looper, "ClientConnected")
  <2>1. ASSUME NEW what \in {"ClientDisconnected"} \cup Rtsp!Pulls,
               rtsp_looper' = Append(rtsp_looper, Rtsp!Plain(what))
        PROVE  /\ rtsp_looper' \in Seq(Rtsp!RtspMessage) /\ Posts(rtsp_looper, rtsp_looper', what)
               /\ what # "RequestAudioSink" /\ what # "ClientConnected"
    <3> DEFINE m == Rtsp!Plain(what)
    <3>1. m \in Rtsp!RtspMessage /\ m.what = what
      BY DEF Rtsp!RtspMessage, Rtsp!PlainMessage, Rtsp!Plain
    <3>2. rtsp_looper' = Append(rtsp_looper, m)
      BY <2>1
    <3>3. what # "RequestAudioSink" /\ what # "ClientConnected"
      BY DEF Rtsp!Pulls
    <3> HIDE DEF m
    <3> QED
      BY <3>1, <3>2, <3>3, RtspPosted
  <2> QED
    BY <2>1 DEF QueuesTyped, Posts
<1>2. QueuesTyped' /\ TypeOK'
  <2>1. QueuesTyped'
    BY <1>1 DEF QueuesTyped, Others, mediaVars
  <2> QED
    BY <2>1, ServerIsTyped
<1>3. UNCHANGED Counted /\ UNCHANGED check_failed
  BY <1>1 DEF Counted, Others, mediaVars, workerVars
<1> QED
  BY <1>2, <1>3, QuietKeeps

LEMMA RtspLoopKeeps ==
  ASSUME ProgramInv, RtspLoop
  PROVE  ProgramInv'
<1> UNCHANGED Others
  BY DEF RtspLoop, RtspAlone, Others
<1>1. ServerTyped
  BY DEF ProgramInv, TypeOK, Rtsp!TypeOK, ServerTyped
<1>2. CASE Rtsp!OnStart
  <2>1. ServerTyped'
    BY <1>1, <1>2 DEF ServerTyped, Rtsp!OnStart
  <2> QED
    BY <1>2, <2>1, PlainTurn DEF Rtsp!OnStart
<1>3. CASE Rtsp!OnStop
  <2>1. ServerTyped'
    BY <1>1, <1>3 DEF ServerTyped, Rtsp!OnStop
  <2> QED
    BY <1>3, <2>1, PlainTurn DEF Rtsp!OnStop
<1>4. CASE Rtsp!OnClientConnected
  BY <1>4, OnClientConnectedKeeps
<1>5. CASE Rtsp!OnClientDisconnected
  <2>1. ServerTyped'
    BY <1>1, <1>5 DEF ServerTyped, Rtsp!OnClientDisconnected
  <2>2. [what |-> "ClientDisconnectedNotify"] \in Rtsp!Notification
    BY DEF Rtsp!Notification
  <2>3. \E m \in Rtsp!Notification :
          /\ conductor_looper' = Append(conductor_looper, m)
          /\ m.what \in {"ClientDisconnectedNotify", "VideoSinkAdded"}
    BY <1>5, <2>2 DEF Rtsp!OnClientDisconnected
  <2> QED
    BY <1>5, <2>1, <2>3, PlainTurn DEF Rtsp!OnClientDisconnected
<1>6. CASE Rtsp!OnRequestAudioSink
  BY <1>6, OnRequestAudioSinkKeeps
<1>7. CASE Rtsp!OnRequestVideoSink
  <2> DEFINE msg == Head(rtsp_looper)
             notice == [what |-> "VideoSinkAdded", id |-> msg.id]
  <2>1. msg \in Rtsp!VideoRequest
    <3>1. msg \in Rtsp!RtspMessage /\ msg.what = "RequestVideoSink"
      BY <1>7, HeadTailProperties DEF Rtsp!OnRequestVideoSink, Rtsp!Handling, QueuesTyped,
           ProgramInv
    <3> QED
      BY <3>1 DEF Rtsp!RtspMessage, Rtsp!PlainMessage, Rtsp!AudioRequest, Rtsp!VideoRequest,
           Rtsp!Pulls
  <2>2. notice \in Rtsp!Notification /\ notice.what = "VideoSinkAdded"
    BY <2>1 DEF Rtsp!Notification, Rtsp!VideoRequest
  <2>3. \E m \in Rtsp!Notification :
          /\ conductor_looper' = Append(conductor_looper, m)
          /\ m.what \in {"ClientDisconnectedNotify", "VideoSinkAdded"}
    BY <1>7, <2>2 DEF Rtsp!OnRequestVideoSink
  <2>4. msg.codec \in VideoCodecs
    BY <2>1 DEF Rtsp!VideoRequest
  <2>5. channel' \in [{0, 1} -> AudioCodecs \cup VideoCodecs \cup {Rtsp!None}]
    BY <1>1, <1>7, <2>4 DEF ServerTyped, Rtsp!OnRequestVideoSink
  <2>6. ServerTyped'
    BY <1>1, <1>7, <2>5 DEF ServerTyped, Rtsp!OnRequestVideoSink
  <2> HIDE DEF msg, notice
  <2> QED
    BY <1>7, <2>3, <2>6, PlainTurn DEF Rtsp!OnRequestVideoSink
<1>8. CASE Rtsp!OnPullAudioSource
  <2>1. rtsp_delayed' \in [Rtsp!Pulls -> Nat]
    BY <1>1, <1>8 DEF ServerTyped, Rtsp!OnPullAudioSource, Rtsp!ContinuePull, Rtsp!Pulls
  <2>2. audio_queue' \in Nat
    BY <1>1, <1>8 DEF ServerTyped, Rtsp!OnPullAudioSource, Rtsp!Pop
  <2>3. ServerTyped'
    BY <1>1, <1>8, <2>1, <2>2 DEF ServerTyped, Rtsp!OnPullAudioSource
  <2> QED
    BY <1>8, <2>3, PlainTurn DEF Rtsp!OnPullAudioSource
<1>9. CASE Rtsp!OnPullVideoSource
  <2>1. rtsp_delayed' \in [Rtsp!Pulls -> Nat]
    BY <1>1, <1>9 DEF ServerTyped, Rtsp!OnPullVideoSource, Rtsp!ContinuePull, Rtsp!Pulls
  <2>2. video_queue' \in Nat
    BY <1>1, <1>9 DEF ServerTyped, Rtsp!OnPullVideoSource, Rtsp!Pop
  <2>3. ServerTyped'
    BY <1>1, <1>9, <2>1, <2>2 DEF ServerTyped, Rtsp!OnPullVideoSource
  <2> QED
    BY <1>9, <2>3, PlainTurn DEF Rtsp!OnPullVideoSource
<1> QED
  BY <1>2, <1>3, <1>4, <1>5, <1>6, <1>7, <1>8, <1>9 DEF RtspLoop, Rtsp!Loop

LEMMA ServerKeeps ==
  ASSUME ProgramInv,
         (\E p \in Rtsp!Pulls : PullDue(p)) \/ Clients \/ ImageEncoded \/ PacketEncoded
  PROVE  ProgramInv'
<1>1. ServerTyped
  BY DEF ProgramInv, TypeOK, Rtsp!TypeOK, ServerTyped
<1>2. UNCHANGED Others
  BY DEF PullDue, Clients, ImageEncoded, PacketEncoded, RtspAlone, Others
<1>3. ASSUME NEW p \in Rtsp!Pulls, PullDue(p) PROVE ProgramInv'
  <2>1. rtsp_delayed' \in [Rtsp!Pulls -> Nat]
    BY <1>1, <1>3 DEF ServerTyped, PullDue, Rtsp!PullDue
  <2>2. ServerTyped'
    BY <1>1, <1>3, <2>1 DEF ServerTyped, PullDue, Rtsp!PullDue
  <2> QED
    BY <1>2, <1>3, <2>2, QuietServer DEF PullDue, Rtsp!PullDue, Rtsp!PostRtsp
<1>4. CASE Clients
  <2>1. CASE Rtsp!ClientConnects
    BY <1>2, <2>1, ClientConnectsKeeps
  <2>2. CASE Rtsp!ClientDisconnects
    <3>1. ServerTyped'
      BY <1>1, <2>2 DEF ServerTyped, Rtsp!ClientDisconnects
    <3> QED
      BY <1>2, <2>2, <3>1, QuietServer DEF Rtsp!ClientDisconnects, Rtsp!PostRtsp
  <2> QED
    BY <1>4, <2>1, <2>2 DEF Clients
<1>5. CASE ImageEncoded
  <2>1. ServerTyped'
    <3>1. video_queue' \in Nat
      <4>1. video_queue' = video_queue \/ video_queue' = video_queue + 1
        BY <1>5, Zenon DEF ImageEncoded, Rtsp!VideoOnFrame, Rtsp!Pushed
      <4> QED
        BY <1>1, <4>1 DEF ServerTyped
    <3> QED
      BY <1>1, <1>5, <3>1 DEF ServerTyped, ImageEncoded, Rtsp!VideoOnFrame
  <2> QED
    BY <1>2, <1>5, <2>1, QuietServer DEF ImageEncoded, Rtsp!VideoOnFrame
<1>6. CASE PacketEncoded
  <2>1. ServerTyped'
    <3>1. audio_queue' \in Nat
      <4>1. audio_queue' = audio_queue \/ audio_queue' = audio_queue + 1
        BY <1>6, Zenon DEF PacketEncoded, Rtsp!AudioOnFrame, Rtsp!Pushed
      <4> QED
        BY <1>1, <4>1 DEF ServerTyped
    <3> QED
      BY <1>1, <1>6, <3>1 DEF ServerTyped, PacketEncoded, Rtsp!AudioOnFrame
  <2> QED
    BY <1>2, <1>6, <2>1, QuietServer DEF PacketEncoded, Rtsp!AudioOnFrame
<1> QED
  BY <1>3, <1>4, <1>5, <1>6

-----------------------------------------------------------------------------
LEMMA Initially == Init => ProgramInv
<1> SUFFICES ASSUME Init PROVE ProgramInv
  OBVIOUS
<1> DEFINE start == [what |-> "Start"]
<1>1. start \in ConductorMessage /\ conductor_looper = <<start>> /\ <<start>> = Append(<<>>, start)
  BY DEF Init, ConductorMessage
<1>2. QueuesTyped
  BY <1>1 DEF Init, Media!Init, QueuesTyped
<1>3. TypeOK
  <2>1. Rtsp!TypeOK
    <3>1. /\ rtsp_looper \in Seq(Rtsp!RtspMessage) /\ rtsp_delayed \in [Rtsp!Pulls -> Nat]
          /\ started \in BOOLEAN
      BY <1>2 DEF Init, QueuesTyped
    <3>2. channel \in [{0, 1} -> AudioCodecs \cup VideoCodecs \cup {Rtsp!None}]
      BY DEF Init
    <3>3. /\ audio_format \in [rate : Nat, channels : Nat]
          /\ video_queue \in Nat /\ audio_queue \in Nat
      BY DEF Init
    <3>4. connected \in 0..MaxClients /\ left \in 0..connected
      BY ConductorAssumption DEF Init
    <3> QED
      BY <3>1, <3>2, <3>3, <3>4 DEF Rtsp!TypeOK
  <2>2. Media!TypeOK
    BY <1>2, ProgramMediaTyped DEF Init, Media!Init, QueuesTyped, Media!TypeOK
  <2> QED
    BY <1>2, <2>1, <2>2 DEF Init, Routing!Init, QueuesTyped, TypeOK
<1>4. \A w : /\ Server!Waiting(rtsp_looper, w) = 0 /\ Server!Waiting(media_looper, w) = 0
             /\ Server!Waiting(worker_tasks, w) = 0
  BY Server!WaitingEmpty DEF Init, Media!Init
<1>5. \A w : Server!Waiting(conductor_looper, w) = IF w = "Start" THEN 1 ELSE 0
  <2>1. <<>> \in Seq(ConductorMessage) /\ start.what = "Start"
    OBVIOUS
  <2> HIDE DEF start
  <2>2. \A w : Server!Waiting(Append(<<>>, start), w)
          = IF w = "Start" THEN Server!Waiting(<<>>, w) + 1
            ELSE Server!Waiting(<<>>, w)
    BY <1>1, <2>1, Server!WaitingPosted
  <2>3. \A w : Server!Waiting(<<>>, w) = 0
    BY Server!WaitingEmpty
  <2> QED
    BY <1>1, <2>2, <2>3
<1>6. AudioSinkOnce
  BY <1>4, <1>5 DEF AudioSinkOnce, SoundToAsk, Init, Media!Init
<1>7. KeyFramesConserved
  <2>1. /\ Server!Waiting(rtsp_looper, "ClientConnected") = 0
        /\ Server!Waiting(conductor_looper, "ClientConnectedNotify") = 0
        /\ Server!Waiting(media_looper, "RequestKeyFrame") = 0
        /\ Server!Waiting(worker_tasks, "RequestKeyFrame") = 0
        /\ connected = 0 /\ RequestsRun = 0
    BY <1>4, <1>5 DEF Init, RequestsRun
  <2> QED
    BY <2>1, KeyFramesAre
<1>8. StreamsTaken
  BY DEF StreamsTaken, SoundToAsk, Init
<1> QED
  BY <1>2, <1>3, <1>6, <1>7, <1>8 DEF ProgramInv, ChecksHold, Init, Media!Init

LEMMA Step == ProgramInv /\ [Next]_vars => ProgramInv'
<1> SUFFICES ASSUME ProgramInv, [Next]_vars PROVE ProgramInv'
  OBVIOUS
<1>1. CASE ConductorLoop
  BY <1>1, OnStartServerKeeps, OnStartSoundKeeps, OnStartCameraKeeps, OnAddVideoSourceKeeps,
     OnAudioSinkAddedKeeps, OnVideoSinkAddedKeeps, OnClientConnectedNotifyKeeps,
     OnOtherNotifyKeeps DEF ConductorLoop
<1>2. CASE RtspLoop
  BY <1>2, RtspLoopKeeps
<1>3. CASE (\E p \in Rtsp!Pulls : PullDue(p)) \/ Clients \/ ImageEncoded \/ PacketEncoded
  BY <1>3, ServerKeeps
<1>4. CASE MediaLoop
  BY <1>4, MediaLoopKeeps
<1>5. CASE Worker
  BY <1>5, WorkerKeeps
<1>6. CASE UNCHANGED vars
  <2>1. UNCHANGED Counted /\ UNCHANGED check_failed
    BY <1>6 DEF vars, rtspVars, mediaVars, workerVars, Counted
  <2>2. TypeOK' /\ QueuesTyped'
    BY <1>6 DEF vars, rtspVars, mediaVars, workerVars, ProgramInv, TypeOK, Rtsp!TypeOK,
                Media!TypeOK, QueuesTyped
  <2> QED
    BY <2>1, <2>2, QuietKeeps
<1> QED
  BY <1>1, <1>2, <1>3, <1>4, <1>5, <1>6 DEF Next

LEMMA Invariance == Spec => []ProgramInv
  BY Initially, Step, PTL DEF Spec

-----------------------------------------------------------------------------
(* A sink never overtakes its source.                                       *)

IsSource(m, id) == m.what = "AddVideoSource" /\ m.id = id

\* The streams whose source waits in a queue of the media service or worker.
Sources(q) == {id \in StreamIds : \E i \in DOMAIN q : IsSource(q[i], id)}

\* Every sink in the queue comes after its source, or its source is in done.
Ordered(q, done) ==
  \A i \in DOMAIN q : q[i].what = "AddEncodedVideoSink" =>
    q[i].id \in done \/ \E j \in DOMAIN q : j < i /\ IsSource(q[j], q[i].id)

\* Every message of a kind is about one of these streams.
AllIn(q, what, ids) == \A i \in DOMAIN q : q[i].what = what => q[i].id \in ids

LEMMA OrderedPosted ==
  ASSUME NEW M, NEW q \in Seq(M), NEW m \in M, NEW done, Ordered(q, done),
         m.what = "AddEncodedVideoSink" => m.id \in done \/ m.id \in Sources(q)
  PROVE  Ordered(Append(q, m), done)
<1> DEFINE r == Append(q, m)
<1>1. /\ DOMAIN q = 1..Len(q) /\ Len(q) \in Nat /\ DOMAIN r = 1..(Len(q) + 1)
      /\ \A i \in 1..Len(q) : r[i] = q[i]
      /\ r[Len(q) + 1] = m
  BY AppendProperties, LenProperties
<1> HIDE DEF r
<1> SUFFICES ASSUME NEW i \in DOMAIN r, r[i].what = "AddEncodedVideoSink", r[i].id \notin done
             PROVE  \E j \in DOMAIN r : j < i /\ IsSource(r[j], r[i].id)
  BY DEF Ordered, r
<1>2. CASE i \in DOMAIN q
  <2>1. PICK j \in DOMAIN q : j < i /\ IsSource(q[j], q[i].id)
    BY <1>1, <1>2 DEF Ordered
  <2> QED
    BY <1>1, <1>2, <2>1
<1>3. CASE i = Len(q) + 1
  <2>1. PICK j \in DOMAIN q : IsSource(q[j], m.id)
    BY <1>1, <1>3 DEF Sources
  <2>2. j \in DOMAIN r /\ j < i /\ r[j] = q[j] /\ r[i] = m
    BY <1>1, <1>3, <2>1
  <2> QED
    BY <2>1, <2>2
<1> QED
  BY <1>1, <1>2, <1>3

LEMMA OrderedTaken ==
  ASSUME NEW M, NEW q \in Seq(M), q # <<>>, NEW done, NEW more, Ordered(q, done),
         done \subseteq more, Head(q).what = "AddVideoSource" => Head(q).id \in more
  PROVE  Ordered(Tail(q), more)
<1> DEFINE r == Tail(q)
<1>1. /\ DOMAIN q = 1..Len(q) /\ Len(q) \in Nat \ {0} /\ DOMAIN r = 1..(Len(q) - 1)
      /\ \A i \in 1..(Len(q) - 1) : r[i] = q[i + 1]
      /\ Head(q) = q[1]
  BY LenProperties, HeadTailProperties, EmptySeq
<1> HIDE DEF r
<1> SUFFICES ASSUME NEW i \in DOMAIN r, r[i].what = "AddEncodedVideoSink", r[i].id \notin more
             PROVE  \E j \in DOMAIN r : j < i /\ IsSource(r[j], r[i].id)
  BY DEF Ordered, r
<1>2. i + 1 \in DOMAIN q /\ q[i + 1] = r[i]
  BY <1>1
<1>3. PICK k \in DOMAIN q : k < i + 1 /\ IsSource(q[k], r[i].id)
  BY <1>2 DEF Ordered
<1>4. k # 1
  BY <1>1, <1>3 DEF IsSource
<1>5. k - 1 \in DOMAIN r /\ k - 1 < i /\ r[k - 1] = q[k]
  BY <1>1, <1>3, <1>4
<1> QED
  BY <1>3, <1>5

LEMMA OrderedMore ==
  ASSUME NEW q, NEW done, NEW more, Ordered(q, done), done \subseteq more
  PROVE  Ordered(q, more)
  BY DEF Ordered

LEMMA OrderedHead ==
  ASSUME NEW M, NEW q \in Seq(M), q # <<>>, NEW done, Ordered(q, done),
         Head(q).what = "AddEncodedVideoSink"
  PROVE  Head(q).id \in done
<1>1. DOMAIN q = 1..Len(q) /\ Len(q) \in Nat \ {0} /\ Head(q) = q[1]
  BY LenProperties, HeadTailProperties, EmptySeq
<1> QED
  BY <1>1 DEF Ordered

LEMMA SourcesPosted ==
  ASSUME NEW M, NEW q \in Seq(M), NEW m \in M
  PROVE  /\ Sources(q) \subseteq Sources(Append(q, m))
         /\ \A id \in StreamIds : IsSource(m, id) => id \in Sources(Append(q, m))
<1>1. /\ DOMAIN q = 1..Len(q) /\ Len(q) \in Nat /\ DOMAIN Append(q, m) = 1..(Len(q) + 1)
      /\ \A i \in 1..Len(q) : Append(q, m)[i] = q[i]
      /\ Append(q, m)[Len(q) + 1] = m
  BY AppendProperties, LenProperties
<1>2. DOMAIN q \subseteq DOMAIN Append(q, m) /\ Len(q) + 1 \in DOMAIN Append(q, m)
  BY <1>1
<1> QED
  BY <1>1, <1>2 DEF Sources

LEMMA SourcesTaken ==
  ASSUME NEW M, NEW q \in Seq(M), q # <<>>, NEW id \in Sources(q), ~IsSource(Head(q), id)
  PROVE  id \in Sources(Tail(q))
<1> DEFINE r == Tail(q)
<1>1. /\ DOMAIN q = 1..Len(q) /\ Len(q) \in Nat \ {0} /\ DOMAIN r = 1..(Len(q) - 1)
      /\ \A i \in 1..(Len(q) - 1) : r[i] = q[i + 1]
      /\ Head(q) = q[1]
  BY LenProperties, HeadTailProperties, EmptySeq
<1> HIDE DEF r
<1>2. PICK k \in DOMAIN q : IsSource(q[k], id)
  BY DEF Sources
<1>3. k - 1 \in DOMAIN r /\ r[k - 1] = q[k]
  BY <1>1, <1>2
<1> QED
  BY <1>2, <1>3 DEF Sources, r

LEMMA AllInPosted ==
  ASSUME NEW M, NEW q \in Seq(M), NEW m \in M, NEW what, NEW ids, AllIn(q, what, ids),
         m.what = what => m.id \in ids
  PROVE  AllIn(Append(q, m), what, ids)
<1>1. /\ DOMAIN q = 1..Len(q) /\ Len(q) \in Nat /\ DOMAIN Append(q, m) = 1..(Len(q) + 1)
      /\ \A i \in 1..Len(q) : Append(q, m)[i] = q[i]
      /\ Append(q, m)[Len(q) + 1] = m
  BY AppendProperties, LenProperties
<1> QED
  BY <1>1 DEF AllIn

LEMMA AllInTaken ==
  ASSUME NEW M, NEW q \in Seq(M), q # <<>>, NEW what, NEW ids, AllIn(q, what, ids)
  PROVE  /\ AllIn(Tail(q), what, ids)
         /\ Head(q).what = what => Head(q).id \in ids
<1>1. /\ DOMAIN q = 1..Len(q) /\ Len(q) \in Nat \ {0} /\ DOMAIN Tail(q) = 1..(Len(q) - 1)
      /\ \A i \in 1..(Len(q) - 1) : Tail(q)[i] = q[i + 1]
      /\ Head(q) = q[1]
  BY LenProperties, HeadTailProperties, EmptySeq
<1> QED
  BY <1>1 DEF AllIn

LEMMA AllInMore ==
  ASSUME NEW q, NEW what, NEW ids, NEW more, AllIn(q, what, ids), ids \subseteq more
  PROVE  AllIn(q, what, more)
  BY DEF AllIn

\* The streams whose source is with the worker or on its way to it.
Sourced == active \cup Sources(worker_tasks) \cup Sources(media_looper)

OrderInv ==
  /\ Ordered(worker_tasks, active)
  /\ Ordered(media_looper, active \cup Sources(worker_tasks))
  /\ AllIn(conductor_looper, "VideoSinkAdded", Sourced)
  /\ AllIn(rtsp_looper, "RequestVideoSink", Sourced)
  /\ SourceBeforeSink

\* A turn of a looper that takes a message and may post another.
LEMMA AllInTurn ==
  ASSUME NEW M, NEW q \in Seq(M), q # <<>>, NEW m \in M, NEW what, NEW ids, NEW more,
         AllIn(q, what, ids), ids \subseteq more, m.what = what => m.id \in more
  PROVE  AllIn(Append(Tail(q), m), what, more)
<1>1. Tail(q) \in Seq(M) /\ AllIn(Tail(q), what, ids)
  BY AllInTaken, HeadTailProperties
<1>2. AllIn(Tail(q), what, more)
  BY <1>1, AllInMore
<1> QED
  BY <1>1, <1>2, AllInPosted

\* A step of the conductor hands at most one message to the media looper and
\* takes its own message.
LEMMA ConductorOrder ==
  ASSUME QueuesTyped, QueuesTyped', OrderInv, UNCHANGED <<worker_tasks, workerVars>>,
         conductor_looper # <<>>, conductor_looper' = Tail(conductor_looper),
         \/ media_looper' = media_looper
         \/ \E m \in ProgramMedia :
              /\ media_looper' = Append(media_looper, m)
              /\ m.what = "AddEncodedVideoSink" => m.id \in Sourced,
         \/ rtsp_looper' = rtsp_looper
         \/ \E m \in Rtsp!RtspMessage :
              /\ rtsp_looper' = Append(rtsp_looper, m)
              /\ m.what = "RequestVideoSink" => m.id \in Sourced'
  PROVE  OrderInv'
<1> USE DEF OrderInv, QueuesTyped, workerVars
<1>1. Sources(media_looper) \subseteq Sources(media_looper)'
  BY SourcesPosted
<1>2. Sourced \subseteq Sourced'
  BY <1>1 DEF Sourced
<1>3. Ordered(media_looper, active \cup Sources(worker_tasks))'
  <2>1. ASSUME NEW m \in ProgramMedia, media_looper' = Append(media_looper, m),
               m.what = "AddEncodedVideoSink" => m.id \in Sourced
        PROVE  Ordered(media_looper', active \cup Sources(worker_tasks))
    BY <2>1, OrderedPosted DEF Sourced
  <2>2. Ordered(media_looper', active \cup Sources(worker_tasks))
    BY <2>1
  <2> QED
    BY <2>2
<1>4. AllIn(conductor_looper, "VideoSinkAdded", Sourced)'
  <2>1. AllIn(Tail(conductor_looper), "VideoSinkAdded", Sourced)
    BY AllInTaken
  <2> QED
    BY <1>2, <2>1, AllInMore
<1>5. AllIn(rtsp_looper, "RequestVideoSink", Sourced)'
  <2>1. AllIn(rtsp_looper, "RequestVideoSink", Sourced')
    BY <1>2, AllInMore
  <2>2. ASSUME NEW m \in Rtsp!RtspMessage, rtsp_looper' = Append(rtsp_looper, m),
               m.what = "RequestVideoSink" => m.id \in Sourced'
        PROVE  AllIn(rtsp_looper', "RequestVideoSink", Sourced')
    BY <2>1, <2>2, AllInPosted
  <2> QED
    BY <2>1, <2>2
<1>6. Ordered(worker_tasks, active)' /\ SourceBeforeSink'
  BY DEF SourceBeforeSink
<1> QED
  BY <1>3, <1>4, <1>5, <1>6

\* A step that leaves the media service and the worker alone.
LEMMA ServerOrder ==
  ASSUME OrderInv, UNCHANGED <<mediaVars, workerVars>>,
         AllIn(conductor_looper', "VideoSinkAdded", Sourced),
         AllIn(rtsp_looper', "RequestVideoSink", Sourced)
  PROVE  OrderInv'
<1>1. UNCHANGED <<media_looper, worker_tasks, active, route>>
  BY DEF mediaVars, workerVars
<1>2. Sourced' = Sourced
  BY <1>1 DEF Sourced
<1> QED
  BY <1>1, <1>2 DEF OrderInv, SourceBeforeSink

LEMMA ConductorLoopOrder ==
  ASSUME ProgramInv, ProgramInv', OrderInv, ConductorLoop
  PROVE  OrderInv'
<1>1. QueuesTyped /\ QueuesTyped'
  BY DEF ProgramInv
<1>3. conductor_looper # <<>> /\ Done(<<>>) => conductor_looper' = Tail(conductor_looper)
  BY <1>1, HeadTailProperties, ConcatEmptySeq DEF Done, QueuesTyped
<1>4. CASE OnStartServer \/ OnStartSound
  <2>1. PICK m \in {ListenMsg, SoundRequest} : rtsp_looper' = Append(rtsp_looper, m)
    BY <1>4, OnStartServerPosts, OnStartSoundPosts
  <2>2. UNCHANGED <<conductor_looper, mediaVars, workerVars>>
    BY <1>4, OnStartServerPosts, OnStartSoundPosts
  <2>3. m \in Rtsp!RtspMessage /\ m.what # "RequestVideoSink"
    BY StartMessages
  <2>4. /\ rtsp_looper \in Seq(Rtsp!RtspMessage)
        /\ AllIn(rtsp_looper, "RequestVideoSink", Sourced)
        /\ AllIn(conductor_looper, "VideoSinkAdded", Sourced)
    BY <1>1 DEF QueuesTyped, OrderInv
  <2>5. AllIn(rtsp_looper', "RequestVideoSink", Sourced)
    BY <2>1, <2>3, <2>4, AllInPosted
  <2> QED
    BY <2>2, <2>4, <2>5, ServerOrder
<1>10. CASE OnStartCamera
  <2>1. /\ UNCHANGED <<rtsp_looper, mediaVars, workerVars>>
        /\ conductor_looper # <<>>
        /\ conductor_looper' = Append(Tail(conductor_looper), CameraSource)
    BY <1>10, OnStartCameraPosts DEF rtspVars
  <2>2. /\ conductor_looper \in Seq(ConductorMessage)
        /\ AllIn(rtsp_looper, "RequestVideoSink", Sourced)
        /\ AllIn(conductor_looper, "VideoSinkAdded", Sourced)
    BY <1>1 DEF QueuesTyped, OrderInv
  <2>3. AllIn(conductor_looper', "VideoSinkAdded", Sourced)
    BY <2>1, <2>2, StartMessages, AllInTurn
  <2> QED
    BY <2>1, <2>2, <2>3, ServerOrder
<1>11. OnAddVideoSource \/ OnVideoSinkAdded \/ OnAudioSinkAdded \/ OnClientConnectedNotify
         \/ OnOtherNotify => conductor_looper # <<>>
  BY DEF OnAddVideoSource, OnAudioSinkAdded, OnVideoSinkAdded, OnClientConnectedNotify,
     OnOtherNotify, Handling
<1>5. CASE OnAddVideoSource
  <2> DEFINE id == Head(conductor_looper).id
             source == [what |-> "AddVideoSource", id |-> id]
             request == [what |-> "RequestVideoSink", id |-> id, codec |-> "H264"]
  <2>1. id \in StreamIds
    BY <1>1, <1>11, <1>5, ConductorHead DEF OnAddVideoSource, Handling
  <2>2. /\ source \in ProgramMedia /\ source.what = "AddVideoSource" /\ IsSource(source, id)
        /\ request \in Rtsp!RtspMessage /\ request.id = id
    BY <2>1 DEF ProgramMedia, Media!VideoMessage, Rtsp!RtspMessage, Rtsp!VideoRequest, VideoCodecs,
         IsSource
  <2>3. /\ media_looper' = Append(media_looper, source)
        /\ rtsp_looper' = Append(rtsp_looper, request)
        /\ UNCHANGED <<worker_tasks, workerVars>> /\ Done(<<>>)
    BY <1>5 DEF OnAddVideoSource, Media!AddVideoSource, Media!PostMedia, Rtsp!PostRtsp,
         Rtsp!RequestVideoSinkMsg
  <2> HIDE DEF id, source, request
  <2>4. id \in Sourced'
    <3>1. id \in Sources(Append(media_looper, source))
      BY <1>1, <2>1, <2>2, SourcesPosted DEF QueuesTyped
    <3> QED
      BY <2>3, <3>1 DEF Sourced
  <2> QED
    BY <1>1, <1>11, <1>3, <1>5, <2>2, <2>3, <2>4, ConductorOrder
<1>6. CASE OnVideoSinkAdded
  <2> DEFINE sink == [what |-> "AddEncodedVideoSink", id |-> Head(conductor_looper).id]
  <2>1. sink.id \in Sourced
    BY <1>1, <1>11, <1>6, AllInTaken DEF OnVideoSinkAdded, Handling, OrderInv, QueuesTyped
  <2>2. sink \in ProgramMedia
    BY <1>1, <1>11, <1>6, ConductorHead DEF OnVideoSinkAdded, Handling, ProgramMedia,
         Media!VideoMessage
  <2>3. /\ media_looper' = Append(media_looper, sink) /\ rtsp_looper' = rtsp_looper
        /\ UNCHANGED <<worker_tasks, workerVars>> /\ Done(<<>>)
    BY <1>6 DEF OnVideoSinkAdded, Media!AddVideoSink, Media!PostMedia, rtspVars
  <2> HIDE DEF sink
  <2> QED
    BY <1>1, <1>11, <1>3, <1>6, <2>1, <2>2, <2>3, ConductorOrder
<1>7. CASE OnAudioSinkAdded
  <2> DEFINE msg == Head(conductor_looper)
             sink == [what |-> "AddAudioRenderSink", key |-> Media!AudioSinkKey,
                      sink |-> "audio_queue", id |-> msg.id, codec |-> msg.codec]
  <2>1. sink \in ProgramMedia /\ sink.what # "AddEncodedVideoSink"
    BY <1>1, <1>11, <1>7, ConductorHead DEF OnAudioSinkAdded, Handling, ProgramMedia, AudioSinks
  <2>2. /\ media_looper' = media_looper \/ media_looper' = Append(media_looper, sink)
        /\ rtsp_looper' = rtsp_looper
        /\ UNCHANGED <<worker_tasks, workerVars>> /\ Done(<<>>)
    BY <1>7 DEF OnAudioSinkAdded, Media!AddEncodedAudioSink, Media!PostMedia, rtspVars
  <2> HIDE DEF sink
  <2> QED
    BY <1>1, <1>11, <1>3, <1>7, <2>1, <2>2, ConductorOrder
<1>8. CASE OnClientConnectedNotify
  <2> DEFINE m == [what |-> "RequestKeyFrame"]
  <2>1. m \in ProgramMedia /\ m.what # "AddEncodedVideoSink"
    BY DEF ProgramMedia
  <2>2. /\ media_looper' = Append(media_looper, m) /\ rtsp_looper' = rtsp_looper
        /\ UNCHANGED <<worker_tasks, workerVars>> /\ Done(<<>>)
    BY <1>8 DEF OnClientConnectedNotify, Media!RequesteKeyFrame, Media!PostMedia, rtspVars
  <2> HIDE DEF m
  <2> QED
    BY <1>1, <1>11, <1>3, <1>8, <2>1, <2>2, ConductorOrder
<1>9. CASE OnOtherNotify
  BY <1>1, <1>11, <1>3, <1>9, ConductorOrder DEF OnOtherNotify, rtspVars, mediaVars
<1> QED
  BY <1>4, <1>5, <1>6, <1>7, <1>8, <1>9, <1>10 DEF ConductorLoop

\* The media looper hands its first message to the worker, in order.
LEMMA MediaLoopOrder ==
  ASSUME ProgramInv, ProgramInv', OrderInv, MediaLoop
  PROVE  OrderInv'
<1> DEFINE first == Head(media_looper)
           task == IF first.what = "AddAudioRenderSink"
                   THEN [what |-> "AddEncodedAudioSink", sink |-> first.sink,
                         id |-> first.id, codec |-> first.codec]
                   ELSE first
<1>1. /\ QueuesTyped /\ QueuesTyped' /\ media_looper \in Seq(ProgramMedia)
      /\ worker_tasks \in Seq(Media!WorkerTask)
  BY DEF ProgramInv, QueuesTyped
<1>2. media_looper # <<>>
  BY DEF MediaLoop, Media!Loop, Media!MediaHandling, Media!OnAddVideoSource,
     Media!OnAddEncodedVideoSink, Media!OnRequestKeyFrame, Media!OnAddAudioRenderSink,
     Media!OnRemoveAudioRenderSink
<1>3. task \in Media!WorkerTask
  BY <1>1, <1>2, MediaHead
<1>4. /\ media_looper' = Tail(media_looper) /\ worker_tasks' = Append(worker_tasks, task)
      /\ UNCHANGED <<conductor_looper, rtsp_looper, active, route>>
  BY <1>1, <1>2, MediaHead
  DEF MediaLoop, Media!Loop, Media!MediaHandling, Media!OnAddVideoSource,
      Media!OnAddEncodedVideoSink, Media!OnRequestKeyFrame, Media!OnAddAudioRenderSink,
      Media!OnRemoveAudioRenderSink, Media!FindAudioSink, Media!ForWorkers, rtspVars, workerVars
<1>5. /\ \A id \in StreamIds : IsSource(first, id) => IsSource(task, id)
      /\ task.what = "AddEncodedVideoSink" => task = first
  BY DEF IsSource
<1>6. first.what = "AddVideoSource" => first.id \in StreamIds /\ IsSource(first, first.id)
  <2>1. first \in ProgramMedia
    BY <1>1, <1>2, HeadTailProperties
  <2> QED
    BY <2>1 DEF ProgramMedia, Media!VideoMessage, IsSource
<1> HIDE DEF task, first
<1>7. /\ Sources(worker_tasks) \subseteq Sources(worker_tasks')
      /\ \A id \in StreamIds : IsSource(task, id) => id \in Sources(worker_tasks')
  BY <1>1, <1>3, <1>4, SourcesPosted
<1>8. Sourced \subseteq Sourced'
  <2>1. ASSUME NEW id \in Sources(media_looper) PROVE id \in Sourced'
    <3>1. id \in StreamIds
      BY DEF Sources
    <3>2. CASE IsSource(first, id)
      BY <1>5, <1>7, <3>1, <3>2 DEF Sourced
    <3>3. CASE ~IsSource(first, id)
      <4>1. id \in Sources(Tail(media_looper))
        BY <1>1, <1>2, <3>3, SourcesTaken DEF first
      <4> QED
        BY <1>4, <4>1 DEF Sourced
    <3> QED
      BY <3>2, <3>3
  <2> QED
    BY <1>4, <1>7, <2>1 DEF Sourced
<1>9. Ordered(worker_tasks, active)'
  <2>1. task.what = "AddEncodedVideoSink" => task.id \in active \/ task.id \in Sources(worker_tasks)
    BY <1>1, <1>2, <1>5, OrderedHead DEF OrderInv, first
  <2>2. Ordered(Append(worker_tasks, task), active)
    BY <1>1, <1>3, <2>1, OrderedPosted DEF OrderInv
  <2> QED
    BY <1>4, <2>2
<1>10. Ordered(media_looper, active \cup Sources(worker_tasks))'
  <2>1. active \cup Sources(worker_tasks) \subseteq active \cup Sources(worker_tasks')
    BY <1>7
  <2>2. first.what = "AddVideoSource" => first.id \in active \cup Sources(worker_tasks')
    BY <1>5, <1>6, <1>7
  <2>3. Ordered(Tail(media_looper), active \cup Sources(worker_tasks'))
    BY <1>1, <1>2, <2>1, <2>2, OrderedTaken DEF OrderInv, first
  <2> QED
    BY <1>4, <2>3
<1>11. AllIn(conductor_looper, "VideoSinkAdded", Sourced)'
         /\ AllIn(rtsp_looper, "RequestVideoSink", Sourced)'
  BY <1>4, <1>8, AllInMore DEF OrderInv
<1> QED
  BY <1>4, <1>9, <1>10, <1>11 DEF OrderInv, SourceBeforeSink

\* The worker runs its first task; only then does a source count as active.
LEMMA WorkerOrder ==
  ASSUME ProgramInv, ProgramInv', OrderInv, Worker
  PROVE  OrderInv'
<1> DEFINE first == Head(worker_tasks)
<1>1. /\ QueuesTyped /\ worker_tasks \in Seq(Media!WorkerTask) /\ worker_tasks # <<>>
      /\ worker_tasks' = Tail(worker_tasks)
      /\ UNCHANGED <<conductor_looper, rtsp_looper, media_looper>>
  BY DEF ProgramInv, QueuesTyped, Worker, WorkerAddsSource, WorkerAddsSink, WorkerAddsAudioSink,
         WorkerRequestsKeyFrame, Running, rtspVars
<1>2. /\ active \subseteq active'
      /\ first.what = "AddVideoSource" => first.id \in active'
  BY DEF Worker, WorkerAddsSource, WorkerAddsSink, WorkerAddsAudioSink,
         WorkerRequestsKeyFrame, Running, Routing!AddSource, Routing!AddSink
<1>3. \/ route' = route
      \/ (first.what = "AddEncodedVideoSink" /\ route' = route \cup {<<first.id, "video_queue">>})
  BY DEF Worker, WorkerAddsSource, WorkerAddsSink, WorkerAddsAudioSink,
         WorkerRequestsKeyFrame, Running, Routing!AddSource, Routing!AddSink
<1> HIDE DEF first
<1>4. active \cup Sources(worker_tasks) \subseteq active' \cup Sources(worker_tasks')
  <2>1. ASSUME NEW id \in Sources(worker_tasks) PROVE id \in active' \cup Sources(worker_tasks')
    <3>1. CASE IsSource(first, id)
      BY <1>2, <3>1 DEF IsSource
    <3>2. CASE ~IsSource(first, id)
      BY <1>1, <3>2, SourcesTaken DEF first
    <3> QED
      BY <3>1, <3>2
  <2> QED
    BY <1>2, <2>1
<1>5. Sourced \subseteq Sourced'
  BY <1>1, <1>4 DEF Sourced
<1>6. Ordered(worker_tasks, active)'
  <2>1. Ordered(Tail(worker_tasks), active')
    BY <1>1, <1>2, OrderedTaken DEF OrderInv, first
  <2> QED
    BY <1>1, <2>1
<1>7. Ordered(media_looper, active \cup Sources(worker_tasks))'
  BY <1>1, <1>4, OrderedMore DEF OrderInv
<1>8. AllIn(conductor_looper, "VideoSinkAdded", Sourced)'
        /\ AllIn(rtsp_looper, "RequestVideoSink", Sourced)'
  BY <1>1, <1>5, AllInMore DEF OrderInv
<1>9. SourceBeforeSink'
  <2>1. first.what = "AddEncodedVideoSink" => first.id \in active
    BY <1>1, OrderedHead DEF OrderInv, first
  <2> QED
    BY <1>2, <1>3, <2>1 DEF OrderInv, SourceBeforeSink
<1> QED
  BY <1>6, <1>7, <1>8, <1>9 DEF OrderInv

LEMMA RtspLoopOrder ==
  ASSUME ProgramInv, ProgramInv', OrderInv, RtspLoop
  PROVE  OrderInv'
<1> USE DEF Rtsp!Loop, Rtsp!OnStart, Rtsp!OnStop, Rtsp!OnClientConnected, Rtsp!OnClientDisconnected,
            Rtsp!OnRequestAudioSink, Rtsp!OnRequestVideoSink, Rtsp!OnPullAudioSource,
            Rtsp!OnPullVideoSource
<1> DEFINE first == Head(rtsp_looper)
<1>1. /\ rtsp_looper \in Seq(Rtsp!RtspMessage) /\ conductor_looper \in Seq(ConductorMessage)
      /\ conductor_looper' \in Seq(ConductorMessage)
      /\ AllIn(conductor_looper, "VideoSinkAdded", Sourced)
      /\ AllIn(rtsp_looper, "RequestVideoSink", Sourced)
  BY DEF ProgramInv, QueuesTyped, OrderInv
<1>2. rtsp_looper # <<>> /\ UNCHANGED Others
  BY DEF RtspLoop, RtspAlone, Others, Rtsp!Handling
<1>3. first.what = "RequestVideoSink" => first.id \in Sourced
  BY <1>1, <1>2, AllInTaken
<1>4. \/ conductor_looper' = conductor_looper
      \/ \E m : /\ conductor_looper' = Append(conductor_looper, m)
                /\ m.what = "VideoSinkAdded" => first.what = "RequestVideoSink" /\ m.id = first.id
                /\ m \in Rtsp!Notification
  <2>1. CASE Rtsp!OnStart \/ Rtsp!OnStop \/ Rtsp!OnPullAudioSource \/ Rtsp!OnPullVideoSource
    BY <2>1
  <2>2. CASE Rtsp!OnClientConnected \/ Rtsp!OnClientDisconnected
    BY <2>2 DEF Rtsp!Notification
  <2>3. first \in Rtsp!RtspMessage
    BY <1>1, <1>2, HeadTailProperties
  <2>4. CASE Rtsp!OnRequestAudioSink
    <3>1. first \in Rtsp!AudioRequest
      BY <2>3, <2>4 DEF Rtsp!Handling, Rtsp!RtspMessage, Rtsp!PlainMessage, Rtsp!AudioRequest,
                        Rtsp!VideoRequest, Rtsp!Pulls
    <3>2. [what |-> "AudioSinkAdded", id |-> first.id, codec |-> first.codec] \in Rtsp!Notification
      BY <3>1 DEF Rtsp!AudioRequest, Rtsp!Notification
    <3> QED
      BY <2>4, <3>2
  <2>5. CASE Rtsp!OnRequestVideoSink
    <3>1. first \in Rtsp!VideoRequest
      BY <2>3, <2>5 DEF Rtsp!Handling, Rtsp!RtspMessage, Rtsp!PlainMessage, Rtsp!AudioRequest,
                        Rtsp!VideoRequest, Rtsp!Pulls
    <3>2. [what |-> "VideoSinkAdded", id |-> first.id] \in Rtsp!Notification
      BY <3>1 DEF Rtsp!VideoRequest, Rtsp!Notification
    <3> QED
      BY <2>5, <3>2 DEF Rtsp!Handling
  <2> QED
    BY <2>1, <2>2, <2>4, <2>5 DEF RtspLoop
<1>5. AllIn(conductor_looper', "VideoSinkAdded", Sourced)
  <2>1. ASSUME NEW m \in Rtsp!Notification, conductor_looper' = Append(conductor_looper, m),
               m.what = "VideoSinkAdded" => m.id \in Sourced
        PROVE  AllIn(conductor_looper', "VideoSinkAdded", Sourced)
    <3>1. m \in ConductorMessage
      BY DEF ConductorMessage
    <3> QED
      BY <1>1, <2>1, <3>1, AllInPosted
  <2> HIDE DEF first
  <2> QED
    BY <1>1, <1>3, <1>4, <2>1
<1>6. \/ rtsp_looper' = Tail(rtsp_looper)
      \/ \E k \in Rtsp!Pulls : rtsp_looper' = Append(Tail(rtsp_looper), Rtsp!Plain(k))
  <2>1. \A k \in Rtsp!Pulls : Rtsp!Plain(k) \in Rtsp!RtspMessage
    BY DEF Rtsp!RtspMessage, Rtsp!PlainMessage, Rtsp!Plain
  <2>2. Tail(rtsp_looper) \in Seq(Rtsp!RtspMessage)
    BY <1>1, <1>2, HeadTailProperties
  <2>3. Tail(rtsp_looper) \o <<>> = Tail(rtsp_looper)
    BY <2>2, ConcatEmptySeq
  <2>4. \A k \in Rtsp!Pulls : Tail(rtsp_looper) \o <<Rtsp!Plain(k)>>
          = Append(Tail(rtsp_looper), Rtsp!Plain(k))
    BY <2>1, <2>2, AppendIsConcat
  <2>5. \/ rtsp_looper' = Tail(rtsp_looper) \o <<>>
        \/ \E k \in Rtsp!Pulls : rtsp_looper' = Tail(rtsp_looper) \o <<Rtsp!Plain(k)>>
    BY Zenon DEF RtspLoop, Rtsp!Done, Rtsp!Pulls
  <2> QED
    BY <2>3, <2>4, <2>5, Zenon
<1>7. AllIn(rtsp_looper', "RequestVideoSink", Sourced)
  <2>1. ASSUME NEW k \in Rtsp!Pulls
        PROVE  AllIn(Append(Tail(rtsp_looper), Rtsp!Plain(k)), "RequestVideoSink", Sourced)
    <3>1. Rtsp!Plain(k) \in Rtsp!RtspMessage /\ Rtsp!Plain(k).what # "RequestVideoSink"
      BY DEF Rtsp!RtspMessage, Rtsp!PlainMessage, Rtsp!Plain, Rtsp!Pulls
    <3> QED
      BY <1>1, <1>2, <3>1, AllInTurn
  <2>2. AllIn(Tail(rtsp_looper), "RequestVideoSink", Sourced)
    BY <1>1, <1>2, AllInTaken
  <2> QED
    BY <1>6, <2>1, <2>2
<1> QED
  BY <1>2, <1>5, <1>7, ServerOrder DEF Others

LEMMA ServerRestOrder ==
  ASSUME ProgramInv, OrderInv,
         (\E p \in Rtsp!Pulls : PullDue(p)) \/ Clients \/ ImageEncoded \/ PacketEncoded
  PROVE  OrderInv'
<1>1. UNCHANGED Others /\ conductor_looper' = conductor_looper
  BY DEF PullDue, Clients, ImageEncoded, PacketEncoded, RtspAlone, Others, Rtsp!PullDue,
         Rtsp!ClientConnects, Rtsp!ClientDisconnects, Rtsp!VideoOnFrame, Rtsp!AudioOnFrame
<1>2. \/ rtsp_looper' = rtsp_looper
      \/ \E what \in {"ClientConnected", "ClientDisconnected"} \cup Rtsp!Pulls :
           rtsp_looper' = Append(rtsp_looper, Rtsp!Plain(what))
  BY DEF PullDue, Clients, ImageEncoded, PacketEncoded, Rtsp!PullDue, Rtsp!PostRtsp,
         Rtsp!ClientConnects, Rtsp!ClientDisconnects, Rtsp!VideoOnFrame, Rtsp!AudioOnFrame
<1>3. /\ rtsp_looper \in Seq(Rtsp!RtspMessage)
      /\ AllIn(rtsp_looper, "RequestVideoSink", Sourced)
      /\ AllIn(conductor_looper, "VideoSinkAdded", Sourced)
  BY DEF ProgramInv, QueuesTyped, OrderInv
<1>4. AllIn(rtsp_looper', "RequestVideoSink", Sourced)
  <2>1. ASSUME NEW what \in {"ClientConnected", "ClientDisconnected"} \cup Rtsp!Pulls
        PROVE  AllIn(Append(rtsp_looper, Rtsp!Plain(what)), "RequestVideoSink", Sourced)
    <3>1. Rtsp!Plain(what) \in Rtsp!RtspMessage /\ Rtsp!Plain(what).what # "RequestVideoSink"
      BY DEF Rtsp!RtspMessage, Rtsp!PlainMessage, Rtsp!Plain, Rtsp!Pulls
    <3> QED
      BY <1>3, <3>1, AllInPosted
  <2> QED
    BY <1>2, <1>3, <2>1
<1> QED
  BY <1>1, <1>3, <1>4, ServerOrder DEF Others

LEMMA InitiallyOrdered == Init => OrderInv
<1> SUFFICES ASSUME Init PROVE OrderInv
  OBVIOUS
<1>1. /\ worker_tasks = <<>> /\ media_looper = <<>> /\ rtsp_looper = <<>> /\ route = {}
      /\ conductor_looper = <<[what |-> "Start"]>>
  BY DEF Init, Media!Init, Routing!Init
<1>2. AllIn(conductor_looper, "VideoSinkAdded", Sourced)
  BY <1>1 DEF AllIn
<1> QED
  BY <1>1, <1>2 DEF OrderInv, Ordered, AllIn, SourceBeforeSink

LEMMA OrderStep == ProgramInv /\ ProgramInv' /\ OrderInv /\ [Next]_vars => OrderInv'
<1> SUFFICES ASSUME ProgramInv, ProgramInv', OrderInv, [Next]_vars PROVE OrderInv'
  OBVIOUS
<1>1. CASE UNCHANGED vars
  BY <1>1 DEF vars, rtspVars, mediaVars, workerVars, OrderInv, Sourced, SourceBeforeSink
<1> QED
  BY <1>1, ConductorLoopOrder, RtspLoopOrder, ServerRestOrder, MediaLoopOrder, WorkerOrder DEF Next

-----------------------------------------------------------------------------
(* The chains of pulls.  A chain dies at a pull that finds the server not    *)
(* started, so that it matters that Start is the first message the server    *)
(* gets, and that nothing stops it.                                          *)

AudioChain ==
  SoundToAsk + Server!Waiting(rtsp_looper, "RequestAudioSink")
    + Server!Waiting(rtsp_looper, "PullAudio") + rtsp_delayed["PullAudio"]

VideoChain ==
  Server!Waiting(conductor_looper, "Start") + Server!Waiting(conductor_looper, "AddVideoSource")
    + Server!Waiting(rtsp_looper, "RequestVideoSink")
    + Server!Waiting(rtsp_looper, "PullVideo") + rtsp_delayed["PullVideo"]

\* Until it has started, the server has nothing to do or is about to start.
StartFirst ==
  \/ started
  \/ /\ connected = 0
     /\ \/ /\ rtsp_looper = <<>> /\ starting = "server"
           /\ Server!Waiting(conductor_looper, "Start") = 1
        \/ rtsp_looper # <<>> /\ Head(rtsp_looper).what = "Start"

ChainInv ==
  /\ AudioChain = 1
  /\ VideoChain = 1
  /\ Server!Waiting(rtsp_looper, "Stop") = 0
  /\ StartFirst

LEMMA SoundToAskIs == SoundToAsk \in {0, 1} /\ (starting' = starting => SoundToAsk' = SoundToAsk)
  BY DEF SoundToAsk

LEMMA ChainsAre ==
  ASSUME ProgramInv
  PROVE  /\ ChainsConserved <=> AudioChain = 1 /\ VideoChain = 1
         /\ rtsp_delayed["PullAudio"] \in Nat /\ rtsp_delayed["PullVideo"] \in Nat
         /\ \A w : Server!Waiting(conductor_looper, w) \in Nat
                     /\ Server!Waiting(rtsp_looper, w) \in Nat
<1>1. QueuesTyped /\ rtsp_delayed \in [Rtsp!Pulls -> Nat]
  BY DEF ProgramInv, TypeOK, Rtsp!TypeOK
<1>2. /\ rtsp_delayed["PullAudio"] \in Nat /\ rtsp_delayed["PullVideo"] \in Nat
  BY <1>1 DEF Rtsp!Pulls
<1>3. \A w : Server!Waiting(conductor_looper, w) \in Nat /\ Server!Waiting(rtsp_looper, w) \in Nat
  BY <1>1, CountsAreNat
<1>4. \A S : Rtsp!Cardinality(S) = Server!Cardinality(S)
  BY DEF Rtsp!Cardinality, Server!Cardinality
<1>5. \A w : Rtsp!Outstanding(w) = rtsp_delayed[w] + Server!Waiting(rtsp_looper, w)
  BY <1>4 DEF Rtsp!Outstanding, Server!Waiting, Server!Positions
<1>6. /\ CountOf(conductor_looper, "Start") = Server!Waiting(conductor_looper, "Start")
      /\ CountOf(conductor_looper, "AddVideoSource")
           = Server!Waiting(conductor_looper, "AddVideoSource")
      /\ CountOf(rtsp_looper, "RequestAudioSink") = Server!Waiting(rtsp_looper, "RequestAudioSink")
      /\ CountOf(rtsp_looper, "RequestVideoSink") = Server!Waiting(rtsp_looper, "RequestVideoSink")
      /\ Rtsp!Outstanding("PullAudio")
           = rtsp_delayed["PullAudio"] + Server!Waiting(rtsp_looper, "PullAudio")
      /\ Rtsp!Outstanding("PullVideo")
           = rtsp_delayed["PullVideo"] + Server!Waiting(rtsp_looper, "PullVideo")
  BY <1>5, CountIsWaiting
<1>7. ChainsConserved <=> AudioChain = 1 /\ VideoChain = 1
  BY <1>2, <1>3, <1>6, SoundToAskIs DEF ChainsConserved, AudioChain, VideoChain
<1> QED
  BY <1>2, <1>3, <1>7

LEMMA ChainsQuiet ==
  ASSUME ChainInv, UNCHANGED <<starting, rtsp_looper, rtsp_delayed, started, connected>>,
         Server!Waiting(conductor_looper', "Start") = Server!Waiting(conductor_looper, "Start"),
         Server!Waiting(conductor_looper', "AddVideoSource")
           = Server!Waiting(conductor_looper, "AddVideoSource")
  PROVE  ChainInv'
  BY SoundToAskIs DEF ChainInv, AudioChain, VideoChain, StartFirst

\* What a step moves: an element of a chain takes the place of another.
LEMMA ChainMoves ==
  ASSUME ProgramInv, ChainInv, NEW s \in Int, NEW v \in Int, NEW ra \in Int, NEW rv \in Int,
         NEW pa \in Int, NEW pv \in Int, NEW da \in Int, NEW dv \in Int,
         Server!Waiting(conductor_looper', "Start")
           = Server!Waiting(conductor_looper, "Start") + s,
         Server!Waiting(conductor_looper', "AddVideoSource")
           = Server!Waiting(conductor_looper, "AddVideoSource") + v,
         Server!Waiting(rtsp_looper', "RequestAudioSink")
           = Server!Waiting(rtsp_looper, "RequestAudioSink") + ra,
         Server!Waiting(rtsp_looper', "RequestVideoSink")
           = Server!Waiting(rtsp_looper, "RequestVideoSink") + rv,
         Server!Waiting(rtsp_looper', "PullAudio")
           = Server!Waiting(rtsp_looper, "PullAudio") + pa,
         Server!Waiting(rtsp_looper', "PullVideo")
           = Server!Waiting(rtsp_looper, "PullVideo") + pv,
         rtsp_delayed'["PullAudio"] = rtsp_delayed["PullAudio"] + da,
         rtsp_delayed'["PullVideo"] = rtsp_delayed["PullVideo"] + dv,
         SoundToAsk' = SoundToAsk, ra + pa + da = 0, s + v + rv + pv + dv = 0
  PROVE  AudioChain' = 1 /\ VideoChain' = 1
<1> DEFINE sa == SoundToAsk
           cs == Server!Waiting(conductor_looper, "Start")
           cv == Server!Waiting(conductor_looper, "AddVideoSource")
           qa == Server!Waiting(rtsp_looper, "RequestAudioSink")
           qv == Server!Waiting(rtsp_looper, "RequestVideoSink")
           wa == Server!Waiting(rtsp_looper, "PullAudio")
           wv == Server!Waiting(rtsp_looper, "PullVideo")
           ta == rtsp_delayed["PullAudio"]
           tv == rtsp_delayed["PullVideo"]
<1>1. /\ cs \in Int /\ cv \in Int /\ qa \in Int /\ qv \in Int
      /\ wa \in Int /\ wv \in Int /\ ta \in Int /\ tv \in Int /\ sa \in Int
  BY ChainsAre, SoundToAskIs
<1>2. sa + qa + wa + ta = 1 /\ cs + cv + qv + wv + tv = 1
  BY DEF ChainInv, AudioChain, VideoChain
<1>3. /\ AudioChain' = sa + (qa + ra) + (wa + pa) + (ta + da)
      /\ VideoChain' = (cs + s) + (cv + v) + (qv + rv) + (wv + pv) + (tv + dv)
  BY DEF AudioChain, VideoChain
<1> HIDE DEF sa, cs, cv, qa, qv, wa, wv, ta, tv
<1> QED
  BY <1>1, <1>2, <1>3

\* The numbers the chains add up.
LEMMA ChainNumbers ==
  ASSUME ProgramInv
  PROVE  /\ Server!Waiting(conductor_looper, "Start") \in Int
         /\ Server!Waiting(conductor_looper, "AddVideoSource") \in Int
         /\ Server!Waiting(rtsp_looper, "RequestAudioSink") \in Int
         /\ Server!Waiting(rtsp_looper, "RequestVideoSink") \in Int
         /\ Server!Waiting(rtsp_looper, "PullAudio") \in Int
         /\ Server!Waiting(rtsp_looper, "PullVideo") \in Int
         /\ rtsp_delayed["PullAudio"] \in Int /\ rtsp_delayed["PullVideo"] \in Int
  BY ChainsAre

LEMMA ConductorLoopChains ==
  ASSUME ProgramInv, ChainInv, ConductorLoop
  PROVE  ChainInv'
<1>1. /\ QueuesTyped
      /\ rtsp_delayed["PullAudio"] \in Nat /\ rtsp_delayed["PullVideo"] \in Nat
      /\ \A w : Server!Waiting(conductor_looper, w) \in Nat
                  /\ Server!Waiting(rtsp_looper, w) \in Nat
  BY ChainsAre DEF ProgramInv
<1>2. CASE OnStartServer
  <2>1. /\ UNCHANGED <<conductor_looper, rtsp_delayed, started, connected>>
        /\ SoundToAsk' = SoundToAsk
        /\ rtsp_looper' = Append(rtsp_looper, ListenMsg)
    BY <1>2, OnStartServerPosts
  <2>2. \A w \in {"RequestAudioSink", "RequestVideoSink", "PullAudio", "PullVideo", "Stop"} :
          Server!Waiting(rtsp_looper', w) = Server!Waiting(rtsp_looper, w)
    BY <1>2, OnStartServerPosts DEF Posts
  <2>3. AudioChain' = 1 /\ VideoChain' = 1 /\ Server!Waiting(rtsp_looper', "Stop") = 0
    BY <2>1, <2>2 DEF ChainInv, AudioChain, VideoChain
  <2>4. rtsp_looper \in Seq(Rtsp!RtspMessage)
    BY <1>1 DEF QueuesTyped
  <2>5. /\ rtsp_looper' # <<>>
        /\ Head(rtsp_looper') = IF rtsp_looper = <<>> THEN ListenMsg ELSE Head(rtsp_looper)
    BY <2>1, <2>4, StartMessages, HeadOfPosted
  <2>6. StartFirst'
    BY <2>1, <2>5, StartMessages DEF ChainInv, StartFirst
  <2> QED
    BY <2>3, <2>6 DEF ChainInv
<1>6. CASE OnStartSound
  <2>1. /\ UNCHANGED <<conductor_looper, rtsp_delayed, started, connected>>
        /\ starting = "sound" /\ SoundToAsk = 1 /\ SoundToAsk' = 0
        /\ rtsp_looper' = Append(rtsp_looper, SoundRequest)
    BY <1>6, OnStartSoundPosts
  <2>2. /\ Server!Waiting(rtsp_looper', "RequestAudioSink")
             = Server!Waiting(rtsp_looper, "RequestAudioSink") + 1
        /\ \A w \in {"RequestVideoSink", "PullAudio", "PullVideo", "Stop"} :
             Server!Waiting(rtsp_looper', w) = Server!Waiting(rtsp_looper, w)
    BY <1>6, OnStartSoundPosts DEF Posts
  <2>3. VideoChain' = 1 /\ Server!Waiting(rtsp_looper', "Stop") = 0
    BY <2>1, <2>2 DEF ChainInv, VideoChain
  <2>4. AudioChain' = 1
    <3>1. /\ Server!Waiting(rtsp_looper', "PullAudio") = Server!Waiting(rtsp_looper, "PullAudio")
          /\ rtsp_delayed'["PullAudio"] = rtsp_delayed["PullAudio"]
      BY <2>1, <2>2
    <3>2. /\ Server!Waiting(rtsp_looper, "RequestAudioSink") \in Nat
          /\ Server!Waiting(rtsp_looper, "PullAudio") \in Nat
          /\ rtsp_delayed["PullAudio"] \in Nat
      BY <1>1
    <3>3. SoundToAsk + Server!Waiting(rtsp_looper, "RequestAudioSink")
            + Server!Waiting(rtsp_looper, "PullAudio") + rtsp_delayed["PullAudio"] = 1
      BY DEF ChainInv, AudioChain
    <3> QED
      BY <2>1, <2>2, <3>1, <3>2, <3>3 DEF AudioChain
  <2>5. rtsp_looper \in Seq(Rtsp!RtspMessage)
    BY <1>1 DEF QueuesTyped
  <2>6. rtsp_looper' # <<>> /\ (rtsp_looper # <<>> => Head(rtsp_looper') = Head(rtsp_looper))
    BY <2>1, <2>5, StartMessages, HeadOfPosted
  <2>7. StartFirst'
    BY <2>1, <2>6 DEF ChainInv, StartFirst
  <2> QED
    BY <2>3, <2>4, <2>7 DEF ChainInv
<1>7. CASE OnStartCamera
  <2>1. /\ UNCHANGED <<rtsp_looper, rtsp_delayed, started, connected>>
        /\ starting = "camera" /\ SoundToAsk' = SoundToAsk
    BY <1>7, OnStartCameraPosts DEF rtspVars
  <2>2. /\ Server!Waiting(conductor_looper', "Start")
             = Server!Waiting(conductor_looper, "Start") - 1
        /\ Server!Waiting(conductor_looper', "AddVideoSource")
             = Server!Waiting(conductor_looper, "AddVideoSource") + 1
    BY <1>7, OnStartCameraPosts
  <2>3. AudioChain' = 1 /\ Server!Waiting(rtsp_looper', "Stop") = 0
    BY <2>1 DEF ChainInv, AudioChain
  <2>4. VideoChain' = 1
    <3>1. /\ Server!Waiting(conductor_looper, "Start") \in Nat
          /\ Server!Waiting(conductor_looper, "AddVideoSource") \in Nat
          /\ Server!Waiting(rtsp_looper, "RequestVideoSink") \in Nat
          /\ Server!Waiting(rtsp_looper, "PullVideo") \in Nat
          /\ rtsp_delayed["PullVideo"] \in Nat
      BY <1>1
    <3>2. /\ Server!Waiting(rtsp_looper', "RequestVideoSink")
               = Server!Waiting(rtsp_looper, "RequestVideoSink")
          /\ Server!Waiting(rtsp_looper', "PullVideo") = Server!Waiting(rtsp_looper, "PullVideo")
          /\ rtsp_delayed'["PullVideo"] = rtsp_delayed["PullVideo"]
      BY <2>1
    <3> QED
      BY <2>2, <3>1, <3>2 DEF ChainInv, VideoChain
  <2>5. StartFirst'
    BY <2>1 DEF ChainInv, StartFirst
  <2> QED
    BY <2>3, <2>4, <2>5 DEF ChainInv
<1>3. CASE OnAddVideoSource
  <2> DEFINE request == [what |-> "RequestVideoSink", id |-> Head(conductor_looper).id,
                         codec |-> "H264"]
  <2>1. Handling("AddVideoSource") /\ Done(<<>>)
    BY <1>3 DEF OnAddVideoSource
  <2>2. Head(conductor_looper).id \in StreamIds
    BY <1>1, <2>1, ConductorHead DEF Handling
  <2>3. request \in Rtsp!RtspMessage /\ request.what = "RequestVideoSink"
    BY <2>2 DEF Rtsp!RtspMessage, Rtsp!VideoRequest, VideoCodecs
  <2>4. /\ rtsp_looper' = Append(rtsp_looper, request)
        /\ UNCHANGED <<starting, rtsp_delayed, started, connected>>
    BY <1>3 DEF OnAddVideoSource, Rtsp!PostRtsp, Rtsp!RequestVideoSinkMsg
  <2> HIDE DEF request
  <2>5. /\ Takes(conductor_looper, conductor_looper', "AddVideoSource")
        /\ Server!Waiting(conductor_looper, "AddVideoSource") \in Nat \ {0}
    BY <1>1, <2>1, ConductorTurn
  <2>6. Posts(rtsp_looper, rtsp_looper', "RequestVideoSink")
    BY <1>1, <2>3, <2>4, RtspPosted
  <2>7. /\ Server!Waiting(conductor_looper', "Start") = Server!Waiting(conductor_looper, "Start")
        /\ Server!Waiting(conductor_looper', "AddVideoSource")
             = Server!Waiting(conductor_looper, "AddVideoSource") - 1
        /\ Server!Waiting(rtsp_looper', "RequestVideoSink")
             = Server!Waiting(rtsp_looper, "RequestVideoSink") + 1
        /\ Server!Waiting(rtsp_looper', "RequestAudioSink")
             = Server!Waiting(rtsp_looper, "RequestAudioSink")
        /\ Server!Waiting(rtsp_looper', "PullAudio") = Server!Waiting(rtsp_looper, "PullAudio")
        /\ Server!Waiting(rtsp_looper', "PullVideo") = Server!Waiting(rtsp_looper, "PullVideo")
        /\ Server!Waiting(rtsp_looper', "Stop") = Server!Waiting(rtsp_looper, "Stop")
    BY <2>5, <2>6 DEF Takes, Posts
  <2>8. AudioChain' = 1 /\ VideoChain' = 1 /\ Server!Waiting(rtsp_looper', "Stop") = 0
    <3>0. rtsp_delayed' = rtsp_delayed
      BY <2>4
    <3>1. /\ Server!Waiting(conductor_looper', "Start")
               = Server!Waiting(conductor_looper, "Start") + 0
          /\ Server!Waiting(conductor_looper', "AddVideoSource")
               = Server!Waiting(conductor_looper, "AddVideoSource") + (-1)
          /\ Server!Waiting(rtsp_looper', "RequestAudioSink")
               = Server!Waiting(rtsp_looper, "RequestAudioSink") + 0
          /\ Server!Waiting(rtsp_looper', "RequestVideoSink")
               = Server!Waiting(rtsp_looper, "RequestVideoSink") + 1
          /\ Server!Waiting(rtsp_looper', "PullAudio")
               = Server!Waiting(rtsp_looper, "PullAudio") + 0
          /\ Server!Waiting(rtsp_looper', "PullVideo")
               = Server!Waiting(rtsp_looper, "PullVideo") + 0
          /\ rtsp_delayed'["PullAudio"] = rtsp_delayed["PullAudio"] + 0
          /\ rtsp_delayed'["PullVideo"] = rtsp_delayed["PullVideo"] + 0
      BY <2>7, <3>0, ChainNumbers
    <3>2. AudioChain' = 1 /\ VideoChain' = 1
      BY <2>4, <3>1, ChainMoves, SoundToAskIs
    <3> QED
      BY <2>7, <3>2 DEF ChainInv
  \* The conductor has handled Start, whose successor this message is.
  <2>9. Server!Waiting(conductor_looper, "Start") = 0
    BY <1>1, <2>5 DEF ChainInv, VideoChain
  <2>10. StartFirst'
    <3>1. rtsp_looper \in Seq(Rtsp!RtspMessage)
      BY <1>1 DEF QueuesTyped
    <3>2. rtsp_looper' # <<>> /\ (rtsp_looper # <<>> => Head(rtsp_looper') = Head(rtsp_looper))
      BY <2>3, <2>4, <3>1, HeadOfPosted
    <3> QED
      BY <2>4, <2>9, <3>2 DEF ChainInv, StartFirst
  <2> QED
    BY <2>8, <2>10 DEF ChainInv
<1>4. ASSUME NEW what \in {"AudioSinkAdded", "VideoSinkAdded", "ClientConnectedNotify",
                           "ClientDisconnectedNotify"},
             Handling(what), Done(<<>>), UNCHANGED <<starting, rtspVars>>
      PROVE  ChainInv'
  <2>1. Takes(conductor_looper, conductor_looper', what)
    BY <1>1, <1>4, ConductorTurn
  <2> QED
    BY <1>4, <2>1, ChainsQuiet DEF Takes, rtspVars
<1>5. CASE OnAudioSinkAdded \/ OnVideoSinkAdded \/ OnClientConnectedNotify \/ OnOtherNotify
  BY <1>4, <1>5
  DEF OnAudioSinkAdded, OnVideoSinkAdded, OnClientConnectedNotify, OnOtherNotify
<1> QED
  BY <1>2, <1>3, <1>5, <1>6, <1>7 DEF ConductorLoop

\* A turn of the RTSP server, whatever it posts to itself.
LEMMA ServerTurn ==
  ASSUME QueuesTyped, NEW what, Rtsp!Handling(what)
  PROVE  /\ Server!Waiting(rtsp_looper, what) \in Nat \ {0}
         /\ Rtsp!Done(<<>>) => Takes(rtsp_looper, rtsp_looper', what)
         /\ \A k \in Rtsp!Pulls : Rtsp!Done(<<Rtsp!Plain(k)>>) /\ k # what =>
              \A w : Server!Waiting(rtsp_looper', w)
                       = IF w = what THEN Server!Waiting(rtsp_looper, w) - 1
                         ELSE IF w = k THEN Server!Waiting(rtsp_looper, w) + 1
                         ELSE Server!Waiting(rtsp_looper, w)
<1> DEFINE q == Tail(rtsp_looper)
<1>1. rtsp_looper \in Seq(Rtsp!RtspMessage) /\ rtsp_looper # <<>> /\ Head(rtsp_looper).what = what
  BY DEF QueuesTyped, Rtsp!Handling
<1>2. /\ q \in Seq(Rtsp!RtspMessage) /\ Takes(rtsp_looper, q, what)
      /\ Server!Waiting(rtsp_looper, what) \in Nat \ {0}
  BY <1>1, Server!WaitingTaken DEF Takes
<1>3. q \o <<>> = q
  BY <1>2, ConcatEmptySeq
<1>4. \A k \in Rtsp!Pulls : Posts(q, q \o <<Rtsp!Plain(k)>>, k)
  <2> TAKE k \in Rtsp!Pulls
  <2> DEFINE m == Rtsp!Plain(k)
  <2>1. m \in Rtsp!RtspMessage /\ m.what = k
    BY DEF Rtsp!RtspMessage, Rtsp!PlainMessage, Rtsp!Plain
  <2> HIDE DEF m
  <2>2. /\ q \o <<m>> = Append(q, m)
        /\ \A w : Server!Waiting(Append(q, m), w) = IF w = m.what THEN Server!Waiting(q, w) + 1
                                                   ELSE Server!Waiting(q, w)
    BY <1>2, <2>1, Server!WaitingPosted
  <2>3. Posts(q, q \o <<m>>, m.what)
    BY <2>2 DEF Posts
  <2> QED
    BY <2>1, <2>3 DEF m
<1>5. Rtsp!Done(<<>>) => rtsp_looper' = q
  BY <1>3 DEF Rtsp!Done
<1>6. \A k \in Rtsp!Pulls : Rtsp!Done(<<Rtsp!Plain(k)>>) => rtsp_looper' = q \o <<Rtsp!Plain(k)>>
  BY DEF Rtsp!Done
<1> HIDE DEF q
<1>7. ASSUME NEW k \in Rtsp!Pulls, Rtsp!Done(<<Rtsp!Plain(k)>>), k # what, NEW w
      PROVE  Server!Waiting(rtsp_looper', w)
               = IF w = what THEN Server!Waiting(rtsp_looper, w) - 1
                 ELSE IF w = k THEN Server!Waiting(rtsp_looper, w) + 1
                 ELSE Server!Waiting(rtsp_looper, w)
  <2>1. Posts(q, rtsp_looper', k)
    BY <1>4, <1>6, <1>7
  <2>2. /\ Server!Waiting(rtsp_looper', w) = IF w = k THEN Server!Waiting(q, w) + 1
                                             ELSE Server!Waiting(q, w)
        /\ Server!Waiting(q, w) = IF w = what THEN Server!Waiting(rtsp_looper, w) - 1
                                  ELSE Server!Waiting(rtsp_looper, w)
    BY <1>2, <2>1 DEF Takes, Posts
  <2> QED
    BY <1>7, <2>2
<1> QED
  BY <1>2, <1>5, <1>7

\* The server never posts to the conductor what the chains count there.
LEMMA NoticesAside ==
  ASSUME QueuesTyped, QueuesTyped',
         \/ conductor_looper' = conductor_looper
         \/ \E m : conductor_looper' = Append(conductor_looper, m)
                     /\ m.what \notin {"Start", "AddVideoSource"} /\ m \in ConductorMessage
  PROVE  \A w \in {"Start", "AddVideoSource"} :
           Server!Waiting(conductor_looper', w) = Server!Waiting(conductor_looper, w)
<1>1. conductor_looper \in Seq(ConductorMessage)
  BY DEF QueuesTyped
<1>2. ASSUME NEW m \in ConductorMessage, m.what \notin {"Start", "AddVideoSource"},
             conductor_looper' = Append(conductor_looper, m)
      PROVE  \A w \in {"Start", "AddVideoSource"} :
               Server!Waiting(conductor_looper', w) = Server!Waiting(conductor_looper, w)
  BY <1>1, <1>2, Server!WaitingPosted
<1> QED
  BY <1>2

LEMMA AppendedIsIn ==
  ASSUME NEW M, NEW q \in Seq(M), NEW m, Append(q, m) \in Seq(M)
  PROVE  m \in M
<1> DEFINE All == M \cup {m}
<1>1. q \in Seq(All) /\ m \in All
  OBVIOUS
<1> HIDE DEF All
<1>2. Len(q) \in Nat /\ Append(q, m)[Len(q) + 1] = m /\ Len(Append(q, m)) = Len(q) + 1
  BY <1>1, AppendProperties, LenProperties
<1>3. Append(q, m)[Len(q) + 1] \in M
  BY <1>2
<1> QED
  BY <1>2, <1>3

LEMMA RtspLoopChains ==
  ASSUME ProgramInv, ProgramInv', ChainInv, RtspLoop
  PROVE  ChainInv'
<1>1. /\ QueuesTyped /\ QueuesTyped' /\ rtsp_looper \in Seq(Rtsp!RtspMessage)
      /\ rtsp_delayed \in [Rtsp!Pulls -> Nat]
      /\ rtsp_delayed["PullAudio"] \in Nat /\ rtsp_delayed["PullVideo"] \in Nat
      /\ \A w : Server!Waiting(conductor_looper, w) \in Nat
                  /\ Server!Waiting(rtsp_looper, w) \in Nat
  BY ChainsAre DEF ProgramInv, QueuesTyped, TypeOK, Rtsp!TypeOK
<1>10. SoundToAsk' = SoundToAsk
  BY SoundToAskIs DEF RtspLoop, RtspAlone
<1>2. /\ AudioChain = 1 /\ VideoChain = 1 /\ Server!Waiting(rtsp_looper, "Stop") = 0
      /\ StartFirst /\ Rtsp!Loop
  BY DEF ChainInv, RtspLoop
\* The server handles nothing before Start.
<1>3. rtsp_looper # <<>> /\ (started \/ Head(rtsp_looper).what = "Start")
  BY <1>2 DEF StartFirst, Rtsp!Loop, Rtsp!OnStart, Rtsp!OnStop, Rtsp!OnClientConnected,
     Rtsp!OnClientDisconnected, Rtsp!OnRequestAudioSink, Rtsp!OnRequestVideoSink,
     Rtsp!OnPullAudioSource, Rtsp!OnPullVideoSource, Rtsp!Handling
<1>4. \A w \in {"Start", "AddVideoSource"} :
        Server!Waiting(conductor_looper', w) = Server!Waiting(conductor_looper, w)
  <2>1. CASE conductor_looper' = conductor_looper
    BY <1>1, <2>1, NoticesAside
  <2>2. ASSUME NEW m, conductor_looper' = Append(conductor_looper, m),
               m.what \notin {"Start", "AddVideoSource"}
        PROVE  <1>4
    <3>1. conductor_looper \in Seq(ConductorMessage) /\ conductor_looper' \in Seq(ConductorMessage)
      BY <1>1 DEF QueuesTyped
    <3>2. m \in ConductorMessage
      BY <2>2, <3>1, AppendedIsIn
    <3> QED
      BY <1>1, <2>2, <3>2, NoticesAside
  <2> QED
    BY <1>2, <2>1, <2>2
    DEF Rtsp!Loop, Rtsp!OnStart, Rtsp!OnStop, Rtsp!OnClientConnected,
        Rtsp!OnClientDisconnected, Rtsp!OnRequestAudioSink, Rtsp!OnRequestVideoSink,
        Rtsp!OnPullAudioSource, Rtsp!OnPullVideoSource
<1>5. CASE Rtsp!OnStart \/ Rtsp!OnStop \/ Rtsp!OnClientConnected \/ Rtsp!OnClientDisconnected
  <2>1. PICK what \in {"Start", "Stop", "ClientConnected", "ClientDisconnected"} :
          /\ Rtsp!Handling(what) /\ Rtsp!Done(<<>>) /\ UNCHANGED rtsp_delayed
          /\ what = "Start" => started'
          /\ what \notin {"Start", "Stop"} => started' = started
    BY <1>5 DEF Rtsp!OnStart, Rtsp!OnStop, Rtsp!OnClientConnected, Rtsp!OnClientDisconnected
  <2>2. /\ Server!Waiting(rtsp_looper, what) \in Nat \ {0}
        /\ Takes(rtsp_looper, rtsp_looper', what)
    BY <1>1, <2>1, ServerTurn
  <2>3. started'
    BY <1>2, <1>3, <2>1, <2>2 DEF Rtsp!Handling
  <2>4. \A w \in {"RequestAudioSink", "RequestVideoSink", "PullAudio", "PullVideo"} :
          Server!Waiting(rtsp_looper', w) = Server!Waiting(rtsp_looper, w)
    BY <2>2 DEF Takes
  <2>5. Server!Waiting(rtsp_looper', "Stop") = 0
    BY <1>2, <2>2 DEF Takes
  <2> QED
    BY <1>1, <1>2, <1>4, <1>10, <2>1, <2>3, <2>4, <2>5 DEF ChainInv, AudioChain, VideoChain,
         StartFirst
<1>6. ASSUME NEW what \in {"RequestAudioSink", "RequestVideoSink"}, Rtsp!Handling(what),
             NEW k \in Rtsp!Pulls, k = IF what = "RequestAudioSink" THEN "PullAudio"
               ELSE "PullVideo",
             Rtsp!Done(<<Rtsp!Plain(k)>>), UNCHANGED <<rtsp_delayed, started>>
      PROVE  ChainInv'
  <2>1. started'
    BY <1>3, <1>6 DEF Rtsp!Handling
  <2>2. \A w : Server!Waiting(rtsp_looper', w)
                 = IF w = what THEN Server!Waiting(rtsp_looper, w) - 1
                   ELSE IF w = k THEN Server!Waiting(rtsp_looper, w) + 1
                   ELSE Server!Waiting(rtsp_looper, w)
    BY <1>1, <1>6, ServerTurn
  <2>3. Server!Waiting(rtsp_looper', "Stop") = 0
    BY <1>2, <1>6, <2>2
  <2>4. ASSUME what = "RequestAudioSink"
        PROVE  AudioChain' = 1 /\ VideoChain' = 1
    <3>1. k = "PullAudio"
      BY <1>6, <2>4
    <3>2. /\ Server!Waiting(conductor_looper', "Start")
               = Server!Waiting(conductor_looper, "Start")
          /\ Server!Waiting(conductor_looper', "AddVideoSource")
               = Server!Waiting(conductor_looper, "AddVideoSource")
          /\ Server!Waiting(rtsp_looper', "RequestAudioSink")
               = Server!Waiting(rtsp_looper, "RequestAudioSink") - 1
          /\ Server!Waiting(rtsp_looper', "RequestVideoSink")
               = Server!Waiting(rtsp_looper, "RequestVideoSink")
          /\ Server!Waiting(rtsp_looper', "PullAudio")
               = Server!Waiting(rtsp_looper, "PullAudio") + 1
          /\ Server!Waiting(rtsp_looper', "PullVideo")
               = Server!Waiting(rtsp_looper, "PullVideo")
          /\ rtsp_delayed'["PullAudio"] = rtsp_delayed["PullAudio"]
          /\ rtsp_delayed'["PullVideo"] = rtsp_delayed["PullVideo"]
      BY <1>4, <1>6, <2>2, <2>4, <3>1
    <3>3. /\ Server!Waiting(conductor_looper', "Start")
               = Server!Waiting(conductor_looper, "Start") + 0
          /\ Server!Waiting(conductor_looper', "AddVideoSource")
               = Server!Waiting(conductor_looper, "AddVideoSource") + 0
          /\ Server!Waiting(rtsp_looper', "RequestAudioSink")
               = Server!Waiting(rtsp_looper, "RequestAudioSink") + (-1)
          /\ Server!Waiting(rtsp_looper', "RequestVideoSink")
               = Server!Waiting(rtsp_looper, "RequestVideoSink") + 0
          /\ Server!Waiting(rtsp_looper', "PullAudio")
               = Server!Waiting(rtsp_looper, "PullAudio") + 1
          /\ Server!Waiting(rtsp_looper', "PullVideo")
               = Server!Waiting(rtsp_looper, "PullVideo") + 0
          /\ rtsp_delayed'["PullAudio"] = rtsp_delayed["PullAudio"] + 0
          /\ rtsp_delayed'["PullVideo"] = rtsp_delayed["PullVideo"] + 0
      BY <3>2, ChainNumbers
    <3> QED
      BY <1>10, <3>3, ChainMoves
  <2>5. ASSUME what = "RequestVideoSink"
        PROVE  AudioChain' = 1 /\ VideoChain' = 1
    <3>1. k = "PullVideo"
      BY <1>6, <2>5
    <3>2. /\ Server!Waiting(conductor_looper', "Start")
               = Server!Waiting(conductor_looper, "Start")
          /\ Server!Waiting(conductor_looper', "AddVideoSource")
               = Server!Waiting(conductor_looper, "AddVideoSource")
          /\ Server!Waiting(rtsp_looper', "RequestAudioSink")
               = Server!Waiting(rtsp_looper, "RequestAudioSink")
          /\ Server!Waiting(rtsp_looper', "RequestVideoSink")
               = Server!Waiting(rtsp_looper, "RequestVideoSink") - 1
          /\ Server!Waiting(rtsp_looper', "PullAudio")
               = Server!Waiting(rtsp_looper, "PullAudio")
          /\ Server!Waiting(rtsp_looper', "PullVideo")
               = Server!Waiting(rtsp_looper, "PullVideo") + 1
          /\ rtsp_delayed'["PullAudio"] = rtsp_delayed["PullAudio"]
          /\ rtsp_delayed'["PullVideo"] = rtsp_delayed["PullVideo"]
      BY <1>4, <1>6, <2>2, <2>5, <3>1
    <3>3. /\ Server!Waiting(conductor_looper', "Start")
               = Server!Waiting(conductor_looper, "Start") + 0
          /\ Server!Waiting(conductor_looper', "AddVideoSource")
               = Server!Waiting(conductor_looper, "AddVideoSource") + 0
          /\ Server!Waiting(rtsp_looper', "RequestAudioSink")
               = Server!Waiting(rtsp_looper, "RequestAudioSink") + 0
          /\ Server!Waiting(rtsp_looper', "RequestVideoSink")
               = Server!Waiting(rtsp_looper, "RequestVideoSink") + (-1)
          /\ Server!Waiting(rtsp_looper', "PullAudio")
               = Server!Waiting(rtsp_looper, "PullAudio") + 0
          /\ Server!Waiting(rtsp_looper', "PullVideo")
               = Server!Waiting(rtsp_looper, "PullVideo") + 1
          /\ rtsp_delayed'["PullAudio"] = rtsp_delayed["PullAudio"] + 0
          /\ rtsp_delayed'["PullVideo"] = rtsp_delayed["PullVideo"] + 0
      BY <3>2, ChainNumbers
    <3> QED
      BY <1>10, <3>3, ChainMoves
  <2> QED
    BY <1>6, <2>1, <2>3, <2>4, <2>5 DEF ChainInv, StartFirst
<1>7. CASE Rtsp!OnRequestAudioSink \/ Rtsp!OnRequestVideoSink
  <2>1. "PullAudio" \in Rtsp!Pulls /\ "PullVideo" \in Rtsp!Pulls
    BY DEF Rtsp!Pulls
  <2> QED
    BY <1>6, <1>7, <2>1 DEF Rtsp!OnRequestAudioSink, Rtsp!OnRequestVideoSink
\* A pull goes on, for the server has started.
<1>8. ASSUME NEW k \in Rtsp!Pulls, Rtsp!Handling(k), Rtsp!Done(<<>>), UNCHANGED started,
             rtsp_delayed' = IF started THEN [rtsp_delayed EXCEPT ![k] = @ + 1] ELSE rtsp_delayed
      PROVE  ChainInv'
  <2>1. started /\ started'
    BY <1>3, <1>8 DEF Rtsp!Handling, Rtsp!Pulls
  <2>2. Takes(rtsp_looper, rtsp_looper', k)
    BY <1>1, <1>8, ServerTurn
  <2>3. /\ rtsp_delayed'[k] = rtsp_delayed[k] + 1
        /\ \A w \in Rtsp!Pulls \ {k} : rtsp_delayed'[w] = rtsp_delayed[w]
    BY <1>1, <1>8, <2>1
  <2>4. /\ Server!Waiting(rtsp_looper', k) = Server!Waiting(rtsp_looper, k) - 1
        /\ \A w \in Rtsp!Pulls \ {k} :
             Server!Waiting(rtsp_looper', w) = Server!Waiting(rtsp_looper, w)
        /\ \A w \in {"RequestAudioSink", "RequestVideoSink", "Stop"} :
             Server!Waiting(rtsp_looper', w) = Server!Waiting(rtsp_looper, w)
    BY <2>2 DEF Takes, Rtsp!Pulls
  <2>5. k = "PullAudio" \/ k = "PullVideo"
    BY DEF Rtsp!Pulls
  <2>6. ASSUME k = "PullAudio"
        PROVE  AudioChain' = 1 /\ VideoChain' = 1
    <3>0. /\ Server!Waiting(conductor_looper', "Start")
               = Server!Waiting(conductor_looper, "Start")
          /\ Server!Waiting(conductor_looper', "AddVideoSource")
               = Server!Waiting(conductor_looper, "AddVideoSource")
          /\ Server!Waiting(rtsp_looper', "RequestAudioSink")
               = Server!Waiting(rtsp_looper, "RequestAudioSink")
          /\ Server!Waiting(rtsp_looper', "RequestVideoSink")
               = Server!Waiting(rtsp_looper, "RequestVideoSink")
          /\ Server!Waiting(rtsp_looper', "PullAudio")
               = Server!Waiting(rtsp_looper, "PullAudio") - 1
          /\ Server!Waiting(rtsp_looper', "PullVideo")
               = Server!Waiting(rtsp_looper, "PullVideo")
          /\ rtsp_delayed'["PullAudio"] = rtsp_delayed["PullAudio"] + 1
          /\ rtsp_delayed'["PullVideo"] = rtsp_delayed["PullVideo"]
      BY <1>4, <2>3, <2>4, <2>6 DEF Rtsp!Pulls
    <3>1. /\ Server!Waiting(conductor_looper', "Start")
               = Server!Waiting(conductor_looper, "Start") + 0
          /\ Server!Waiting(conductor_looper', "AddVideoSource")
               = Server!Waiting(conductor_looper, "AddVideoSource") + 0
          /\ Server!Waiting(rtsp_looper', "RequestAudioSink")
               = Server!Waiting(rtsp_looper, "RequestAudioSink") + 0
          /\ Server!Waiting(rtsp_looper', "RequestVideoSink")
               = Server!Waiting(rtsp_looper, "RequestVideoSink") + 0
          /\ Server!Waiting(rtsp_looper', "PullAudio")
               = Server!Waiting(rtsp_looper, "PullAudio") + (-1)
          /\ Server!Waiting(rtsp_looper', "PullVideo")
               = Server!Waiting(rtsp_looper, "PullVideo") + 0
          /\ rtsp_delayed'["PullAudio"] = rtsp_delayed["PullAudio"] + 1
          /\ rtsp_delayed'["PullVideo"] = rtsp_delayed["PullVideo"] + 0
      BY <3>0, ChainNumbers
    <3> QED
      BY <1>10, <3>1, ChainMoves
  <2>7. ASSUME k = "PullVideo"
        PROVE  AudioChain' = 1 /\ VideoChain' = 1
    <3>0. /\ Server!Waiting(conductor_looper', "Start")
               = Server!Waiting(conductor_looper, "Start")
          /\ Server!Waiting(conductor_looper', "AddVideoSource")
               = Server!Waiting(conductor_looper, "AddVideoSource")
          /\ Server!Waiting(rtsp_looper', "RequestAudioSink")
               = Server!Waiting(rtsp_looper, "RequestAudioSink")
          /\ Server!Waiting(rtsp_looper', "RequestVideoSink")
               = Server!Waiting(rtsp_looper, "RequestVideoSink")
          /\ Server!Waiting(rtsp_looper', "PullAudio")
               = Server!Waiting(rtsp_looper, "PullAudio")
          /\ Server!Waiting(rtsp_looper', "PullVideo")
               = Server!Waiting(rtsp_looper, "PullVideo") - 1
          /\ rtsp_delayed'["PullAudio"] = rtsp_delayed["PullAudio"]
          /\ rtsp_delayed'["PullVideo"] = rtsp_delayed["PullVideo"] + 1
      BY <1>4, <2>3, <2>4, <2>7 DEF Rtsp!Pulls
    <3>1. /\ Server!Waiting(conductor_looper', "Start")
               = Server!Waiting(conductor_looper, "Start") + 0
          /\ Server!Waiting(conductor_looper', "AddVideoSource")
               = Server!Waiting(conductor_looper, "AddVideoSource") + 0
          /\ Server!Waiting(rtsp_looper', "RequestAudioSink")
               = Server!Waiting(rtsp_looper, "RequestAudioSink") + 0
          /\ Server!Waiting(rtsp_looper', "RequestVideoSink")
               = Server!Waiting(rtsp_looper, "RequestVideoSink") + 0
          /\ Server!Waiting(rtsp_looper', "PullAudio")
               = Server!Waiting(rtsp_looper, "PullAudio") + 0
          /\ Server!Waiting(rtsp_looper', "PullVideo")
               = Server!Waiting(rtsp_looper, "PullVideo") + (-1)
          /\ rtsp_delayed'["PullAudio"] = rtsp_delayed["PullAudio"] + 0
          /\ rtsp_delayed'["PullVideo"] = rtsp_delayed["PullVideo"] + 1
      BY <3>0, ChainNumbers
    <3> QED
      BY <1>10, <3>1, ChainMoves
  <2> QED
    BY <1>2, <2>1, <2>4, <2>5, <2>6, <2>7 DEF ChainInv, StartFirst
<1>9. CASE Rtsp!OnPullAudioSource \/ Rtsp!OnPullVideoSource
  <2>1. "PullAudio" \in Rtsp!Pulls /\ "PullVideo" \in Rtsp!Pulls
    BY DEF Rtsp!Pulls
  <2> QED
    BY <1>8, <1>9, <2>1 DEF Rtsp!OnPullAudioSource, Rtsp!OnPullVideoSource, Rtsp!ContinuePull
<1> QED
  BY <1>2, <1>5, <1>7, <1>9 DEF Rtsp!Loop

\* A pull is delayed only once its sink has been asked for, after the server's Start.
LEMMA ChainAfterStart ==
  ASSUME ProgramInv, ChainInv, NEW p \in Rtsp!Pulls, rtsp_delayed[p] > 0
  PROVE  SoundToAsk = 0 \/ Server!Waiting(conductor_looper, "Start") = 0
<1> DEFINE sa == SoundToAsk
           cs == Server!Waiting(conductor_looper, "Start")
           cv == Server!Waiting(conductor_looper, "AddVideoSource")
           qa == Server!Waiting(rtsp_looper, "RequestAudioSink")
           qv == Server!Waiting(rtsp_looper, "RequestVideoSink")
           wa == Server!Waiting(rtsp_looper, "PullAudio")
           wv == Server!Waiting(rtsp_looper, "PullVideo")
           ta == rtsp_delayed["PullAudio"]
           tv == rtsp_delayed["PullVideo"]
<1>1. /\ cs \in Nat /\ cv \in Nat /\ qa \in Nat /\ qv \in Nat
      /\ wa \in Nat /\ wv \in Nat /\ ta \in Nat /\ tv \in Nat /\ sa \in Nat
  BY ChainsAre, SoundToAskIs
<1>2. sa + qa + wa + ta = 1 /\ cs + cv + qv + wv + tv = 1
  BY DEF ChainInv, AudioChain, VideoChain
<1>3. ta > 0 \/ tv > 0
  BY DEF Rtsp!Pulls
<1>4. sa = 0 \/ cs = 0
  <2> HIDE DEF sa, cs, cv, qa, qv, wa, wv, ta, tv
  <2> QED
    BY <1>1, <1>2, <1>3
<1> QED
  BY <1>4 DEF sa, cs

\* Messages that reach the server from outside: pulls that are due, and clients.
LEMMA PostedChains ==
  ASSUME ProgramInv, ChainInv,
         (\E p \in Rtsp!Pulls : PullDue(p)) \/ Clients
  PROVE  ChainInv'
<1>1. /\ QueuesTyped /\ rtsp_looper \in Seq(Rtsp!RtspMessage)
      /\ rtsp_delayed \in [Rtsp!Pulls -> Nat] /\ connected \in Nat /\ left \in 0..connected
      /\ rtsp_delayed["PullAudio"] \in Nat /\ rtsp_delayed["PullVideo"] \in Nat
      /\ \A w : Server!Waiting(conductor_looper, w) \in Nat
                  /\ Server!Waiting(rtsp_looper, w) \in Nat
  BY ChainsAre DEF ProgramInv, QueuesTyped, TypeOK, Rtsp!TypeOK
<1>2. ASSUME NEW what \in Rtsp!Pulls \cup {"ClientConnected", "ClientDisconnected"},
             rtsp_looper' = Append(rtsp_looper, Rtsp!Plain(what))
      PROVE  /\ Posts(rtsp_looper, rtsp_looper', what)
             /\ rtsp_looper' # <<>>
             /\ rtsp_looper # <<>> => Head(rtsp_looper') = Head(rtsp_looper)
  <2> DEFINE m == Rtsp!Plain(what)
  <2>1. m \in Rtsp!RtspMessage /\ m.what = what
    BY DEF Rtsp!RtspMessage, Rtsp!PlainMessage, Rtsp!Plain
  <2>2. rtsp_looper' = Append(rtsp_looper, m)
    BY <1>2
  <2> HIDE DEF m
  <2>3. Posts(rtsp_looper, rtsp_looper', m.what)
    BY <1>1, <2>1, <2>2, RtspPosted
  <2>4. rtsp_looper' # <<>>
          /\ Head(rtsp_looper') = IF rtsp_looper = <<>> THEN m ELSE Head(rtsp_looper)
    BY <1>1, <2>1, <2>2, HeadOfPosted
  <2> QED
    BY <2>1, <2>3, <2>4
<1>3. ASSUME NEW p \in Rtsp!Pulls, PullDue(p) PROVE ChainInv'
  <2>1. /\ rtsp_delayed[p] > 0 /\ rtsp_delayed' = [rtsp_delayed EXCEPT ![p] = @ - 1]
        /\ rtsp_looper' = Append(rtsp_looper, Rtsp!Plain(p))
        /\ UNCHANGED <<starting, started, connected, conductor_looper>>
    BY <1>3 DEF PullDue, Rtsp!PullDue, Rtsp!PostRtsp, RtspAlone
  <2>2. Posts(rtsp_looper, rtsp_looper', p)
    BY <1>2, <2>1
  <2>3. /\ rtsp_delayed'[p] = rtsp_delayed[p] - 1
        /\ \A w \in Rtsp!Pulls \ {p} : rtsp_delayed'[w] = rtsp_delayed[w]
    BY <1>1, <2>1
  <2>4. /\ Server!Waiting(rtsp_looper', p) = Server!Waiting(rtsp_looper, p) + 1
        /\ \A w \in Rtsp!Pulls \ {p} :
             Server!Waiting(rtsp_looper', w) = Server!Waiting(rtsp_looper, w)
        /\ \A w \in {"RequestAudioSink", "RequestVideoSink", "Stop"} :
             Server!Waiting(rtsp_looper', w) = Server!Waiting(rtsp_looper, w)
    BY <2>2 DEF Posts, Rtsp!Pulls
  <2>5. AudioChain' = 1 /\ VideoChain' = 1
    <3>1. p = "PullAudio" \/ p = "PullVideo"
      BY DEF Rtsp!Pulls
    <3>2. UNCHANGED conductor_looper /\ SoundToAsk' = SoundToAsk
      BY <2>1, SoundToAskIs
    <3>3. CASE p = "PullAudio"
      <4>0. /\ Server!Waiting(conductor_looper', "Start")
                 = Server!Waiting(conductor_looper, "Start")
            /\ Server!Waiting(conductor_looper', "AddVideoSource")
                 = Server!Waiting(conductor_looper, "AddVideoSource")
            /\ Server!Waiting(rtsp_looper', "RequestAudioSink")
                 = Server!Waiting(rtsp_looper, "RequestAudioSink")
            /\ Server!Waiting(rtsp_looper', "RequestVideoSink")
                 = Server!Waiting(rtsp_looper, "RequestVideoSink")
            /\ Server!Waiting(rtsp_looper', "PullAudio")
                 = Server!Waiting(rtsp_looper, "PullAudio") + 1
            /\ Server!Waiting(rtsp_looper', "PullVideo")
                 = Server!Waiting(rtsp_looper, "PullVideo")
            /\ rtsp_delayed'["PullAudio"] = rtsp_delayed["PullAudio"] - 1
            /\ rtsp_delayed'["PullVideo"] = rtsp_delayed["PullVideo"]
        BY <2>3, <2>4, <3>2, <3>3 DEF Rtsp!Pulls
      <4>1. /\ Server!Waiting(conductor_looper', "Start")
                 = Server!Waiting(conductor_looper, "Start") + 0
            /\ Server!Waiting(conductor_looper', "AddVideoSource")
                 = Server!Waiting(conductor_looper, "AddVideoSource") + 0
            /\ Server!Waiting(rtsp_looper', "RequestAudioSink")
                 = Server!Waiting(rtsp_looper, "RequestAudioSink") + 0
            /\ Server!Waiting(rtsp_looper', "RequestVideoSink")
                 = Server!Waiting(rtsp_looper, "RequestVideoSink") + 0
            /\ Server!Waiting(rtsp_looper', "PullAudio")
                 = Server!Waiting(rtsp_looper, "PullAudio") + 1
            /\ Server!Waiting(rtsp_looper', "PullVideo")
                 = Server!Waiting(rtsp_looper, "PullVideo") + 0
            /\ rtsp_delayed'["PullAudio"] = rtsp_delayed["PullAudio"] + (-1)
            /\ rtsp_delayed'["PullVideo"] = rtsp_delayed["PullVideo"] + 0
        BY <4>0, ChainNumbers
      <4> QED
        <5>1. SoundToAsk' = SoundToAsk /\ ProgramInv /\ ChainInv
          BY <3>2
        <5> QED
          BY <4>1, <5>1, ChainMoves, SMTT(30)
    <3>4. CASE p = "PullVideo"
      <4>0. /\ Server!Waiting(conductor_looper', "Start")
                 = Server!Waiting(conductor_looper, "Start")
            /\ Server!Waiting(conductor_looper', "AddVideoSource")
                 = Server!Waiting(conductor_looper, "AddVideoSource")
            /\ Server!Waiting(rtsp_looper', "RequestAudioSink")
                 = Server!Waiting(rtsp_looper, "RequestAudioSink")
            /\ Server!Waiting(rtsp_looper', "RequestVideoSink")
                 = Server!Waiting(rtsp_looper, "RequestVideoSink")
            /\ Server!Waiting(rtsp_looper', "PullAudio")
                 = Server!Waiting(rtsp_looper, "PullAudio")
            /\ Server!Waiting(rtsp_looper', "PullVideo")
                 = Server!Waiting(rtsp_looper, "PullVideo") + 1
            /\ rtsp_delayed'["PullAudio"] = rtsp_delayed["PullAudio"]
            /\ rtsp_delayed'["PullVideo"] = rtsp_delayed["PullVideo"] - 1
        BY <2>3, <2>4, <3>2, <3>4 DEF Rtsp!Pulls
      <4>1. /\ Server!Waiting(conductor_looper', "Start")
                 = Server!Waiting(conductor_looper, "Start") + 0
            /\ Server!Waiting(conductor_looper', "AddVideoSource")
                 = Server!Waiting(conductor_looper, "AddVideoSource") + 0
            /\ Server!Waiting(rtsp_looper', "RequestAudioSink")
                 = Server!Waiting(rtsp_looper, "RequestAudioSink") + 0
            /\ Server!Waiting(rtsp_looper', "RequestVideoSink")
                 = Server!Waiting(rtsp_looper, "RequestVideoSink") + 0
            /\ Server!Waiting(rtsp_looper', "PullAudio")
                 = Server!Waiting(rtsp_looper, "PullAudio") + 0
            /\ Server!Waiting(rtsp_looper', "PullVideo")
                 = Server!Waiting(rtsp_looper, "PullVideo") + 1
            /\ rtsp_delayed'["PullAudio"] = rtsp_delayed["PullAudio"] + 0
            /\ rtsp_delayed'["PullVideo"] = rtsp_delayed["PullVideo"] + (-1)
        BY <4>0, ChainNumbers
      <4> QED
        <5>1. SoundToAsk' = SoundToAsk /\ ProgramInv /\ ChainInv
          BY <3>2
        <5> QED
          BY <4>1, <5>1, ChainMoves, SMTT(30)
    <3> QED
      BY <3>1, <3>3, <3>4
  <2>6. starting # "server" \/ Server!Waiting(conductor_looper, "Start") = 0
    BY <1>1, <2>1, ChainAfterStart DEF SoundToAsk
  <2>7. StartFirst'
    BY <1>2, <2>1, <2>6 DEF ChainInv, StartFirst
  <2> QED
    BY <2>4, <2>5, <2>7 DEF ChainInv
<1>4. CASE Clients
  <2>1. PICK what \in {"ClientConnected", "ClientDisconnected"} :
          rtsp_looper' = Append(rtsp_looper, Rtsp!Plain(what))
    BY <1>4 DEF Clients, Rtsp!ClientConnects, Rtsp!ClientDisconnects, Rtsp!PostRtsp
  <2>2. /\ UNCHANGED <<starting, started, rtsp_delayed, conductor_looper>>
        /\ started \/ connected > 0
    BY <1>1, <1>4 DEF Clients, Rtsp!ClientConnects, Rtsp!ClientDisconnects, RtspAlone
  <2>3. started
    BY <2>2 DEF ChainInv, StartFirst
  <2>4. \A w \in {"RequestAudioSink", "RequestVideoSink", "PullAudio", "PullVideo", "Stop"} :
          Server!Waiting(rtsp_looper', w) = Server!Waiting(rtsp_looper, w)
    BY <1>2, <2>1 DEF Posts
  <2> QED
    BY <2>2, <2>3, <2>4, SoundToAskIs DEF ChainInv, AudioChain, VideoChain, StartFirst
<1> QED
  BY <1>3, <1>4

LEMMA InitialChains == Init => ChainInv
<1> SUFFICES ASSUME Init PROVE ChainInv
  OBVIOUS
<1> DEFINE start == [what |-> "Start"]
<1>1. /\ rtsp_looper = <<>> /\ connected = 0 /\ conductor_looper = <<start>>
      /\ starting = "server" /\ SoundToAsk = 1
      /\ rtsp_delayed["PullAudio"] = 0 /\ rtsp_delayed["PullVideo"] = 0
  BY DEF Init, Rtsp!Pulls, SoundToAsk
<1>2. \A w : Server!Waiting(<<>>, w) = 0
  BY Server!WaitingEmpty
<1>3. start.what = "Start" /\ <<>> \in Seq({start}) /\ <<start>> = <<>> \o <<start>>
  OBVIOUS
<1> HIDE DEF start
<1>4. \A w : Server!Waiting(<<start>>, w) = IF w = "Start" THEN 1 ELSE 0
  <2>1. /\ <<>> \o <<start>> = Append(<<>>, start)
        /\ \A w : Server!Waiting(Append(<<>>, start), w)
                   = IF w = start.what THEN Server!Waiting(<<>>, w) + 1 ELSE Server!Waiting(<<>>, w)
    BY <1>3, Server!WaitingPosted
  <2>2. <<start>> = Append(<<>>, start)
    BY <1>3, <2>1
  <2> QED
    BY <1>2, <1>3, <2>1, <2>2
<1> QED
  BY <1>1, <1>2, <1>4 DEF ChainInv, AudioChain, VideoChain, StartFirst

LEMMA ChainStep == ProgramInv /\ ProgramInv' /\ ChainInv /\ [Next]_vars => ChainInv'
<1> SUFFICES ASSUME ProgramInv, ProgramInv', ChainInv, [Next]_vars PROVE ChainInv'
  OBVIOUS
<1>1. CASE UNCHANGED vars \/ MediaLoop \/ Worker \/ ImageEncoded \/ PacketEncoded
  <2>1. UNCHANGED <<starting, conductor_looper, rtsp_looper, rtsp_delayed, started, connected>>
    BY <1>1 DEF vars, rtspVars, MediaLoop, Worker, WorkerAddsSource, WorkerAddsSink,
       WorkerAddsAudioSink, WorkerRequestsKeyFrame, Running, ImageEncoded, PacketEncoded,
       Rtsp!VideoOnFrame, Rtsp!AudioOnFrame
  <2> QED
    BY <2>1, ChainsQuiet
<1> QED
  BY <1>1, ConductorLoopChains, RtspLoopChains, PostedChains DEF Next

-----------------------------------------------------------------------------
(* The camera and the sound are each in one place on their way to the       *)
(* worker, under their own stream's id.                                     *)

Arrived(streams) == IF streams = {} THEN 0 ELSE 1

\* The camera: not started, posted to the conductor, to the media looper, to the
\* worker, or with the worker.
SourceOnce ==
  Server!Waiting(conductor_looper, "Start") + Server!Waiting(conductor_looper, "AddVideoSource")
    + Server!Waiting(media_looper, "AddVideoSource")
    + Server!Waiting(worker_tasks, "AddVideoSource") + Arrived(active) = 1

\* Its sink, which the source's turn asks the server for.
VideoSinkOnce ==
  Server!Waiting(conductor_looper, "Start") + Server!Waiting(conductor_looper, "AddVideoSource")
    + Server!Waiting(rtsp_looper, "RequestVideoSink")
    + Server!Waiting(conductor_looper, "VideoSinkAdded")
    + Server!Waiting(media_looper, "AddEncodedVideoSink")
    + Server!Waiting(worker_tasks, "AddEncodedVideoSink") + Arrived(route) = 1

\* The sound's sink, which OnStart asks for before it comes to the camera.
SoundSinkOnce ==
  SoundToAsk + Server!Waiting(rtsp_looper, "RequestAudioSink")
    + Server!Waiting(conductor_looper, "AudioSinkAdded")
    + Server!Waiting(media_looper, "AddAudioRenderSink")
    + Server!Waiting(worker_tasks, "AddEncodedAudioSink")
    + Arrived(audio_route) = 1

AboutCamera ==
  {"AddVideoSource", "RequestVideoSink", "VideoSinkAdded", "AddEncodedVideoSink"}
AboutSound ==
  {"RequestAudioSink", "AudioSinkAdded", "AddAudioRenderSink", "AddEncodedAudioSink"}

\* A message names the stream of what it is about.
Rightly(m) ==
  /\ m.what \in AboutCamera => m.id = 2
  /\ m.what \in AboutSound => m.id = 1

Right(q) == \A i \in DOMAIN q : Rightly(q[i])

RightStreams ==
  /\ Right(conductor_looper) /\ Right(rtsp_looper) /\ Right(media_looper) /\ Right(worker_tasks)
  /\ active \subseteq {2}
  /\ route \subseteq {<<2, "video_queue">>}
  /\ audio_route \subseteq {1}

WiringInv ==
  /\ SourceOnce
  /\ VideoSinkOnce
  /\ SoundSinkOnce
  /\ RightStreams

LEMMA RightPosted ==
  ASSUME NEW M, NEW q \in Seq(M), NEW m \in M, Right(q), Rightly(m)
  PROVE  Right(Append(q, m))
<1>1. /\ DOMAIN q = 1..Len(q) /\ Len(q) \in Nat /\ DOMAIN Append(q, m) = 1..(Len(q) + 1)
      /\ \A i \in 1..Len(q) : Append(q, m)[i] = q[i]
      /\ Append(q, m)[Len(q) + 1] = m
  BY AppendProperties, LenProperties
<1> QED
  BY <1>1 DEF Right

LEMMA RightTaken ==
  ASSUME NEW M, NEW q \in Seq(M), q # <<>>, Right(q)
  PROVE  Right(Tail(q)) /\ Rightly(Head(q))
<1>1. /\ DOMAIN q = 1..Len(q) /\ Len(q) \in Nat \ {0} /\ DOMAIN Tail(q) = 1..(Len(q) - 1)
      /\ \A i \in 1..(Len(q) - 1) : Tail(q)[i] = q[i + 1]
      /\ Head(q) = q[1]
  BY LenProperties, HeadTailProperties, EmptySeq
<1> QED
  BY <1>1 DEF Right

LEMMA ArrivedIsNat == \A streams : Arrived(streams) \in Nat
  BY DEF Arrived

\* What a step moves of the camera: it leaves one place for the next.
LEMMA SourceMoves ==
  ASSUME QueuesTyped, SourceOnce, NEW s \in Int, NEW v \in Int, NEW m \in Int, NEW t \in Int,
         NEW a \in Int,
         Server!Waiting(conductor_looper', "Start")
           = Server!Waiting(conductor_looper, "Start") + s,
         Server!Waiting(conductor_looper', "AddVideoSource")
           = Server!Waiting(conductor_looper, "AddVideoSource") + v,
         Server!Waiting(media_looper', "AddVideoSource")
           = Server!Waiting(media_looper, "AddVideoSource") + m,
         Server!Waiting(worker_tasks', "AddVideoSource")
           = Server!Waiting(worker_tasks, "AddVideoSource") + t,
         Arrived(active') = Arrived(active) + a, s + v + m + t + a = 0
  PROVE  SourceOnce'
<1> DEFINE cs == Server!Waiting(conductor_looper, "Start")
           cv == Server!Waiting(conductor_looper, "AddVideoSource")
           mv == Server!Waiting(media_looper, "AddVideoSource")
           tv == Server!Waiting(worker_tasks, "AddVideoSource")
           wv == Arrived(active)
<1>1. cs \in Int /\ cv \in Int /\ mv \in Int /\ tv \in Int /\ wv \in Int
  BY CountsAreNat, ArrivedIsNat
<1>2. cs + cv + mv + tv + wv = 1
  BY DEF SourceOnce
<1>3. SourceOnce' <=> (cs + s) + (cv + v) + (mv + m) + (tv + t) + (wv + a) = 1
  BY DEF SourceOnce
<1> HIDE DEF cs, cv, mv, tv, wv
<1> QED
  BY <1>1, <1>2, <1>3

\* ... of its sink ...
LEMMA VideoSinkMoves ==
  ASSUME QueuesTyped, VideoSinkOnce, NEW s \in Int, NEW v \in Int, NEW r \in Int, NEW n \in Int,
         NEW m \in Int, NEW t \in Int, NEW a \in Int,
         Server!Waiting(conductor_looper', "Start")
           = Server!Waiting(conductor_looper, "Start") + s,
         Server!Waiting(conductor_looper', "AddVideoSource")
           = Server!Waiting(conductor_looper, "AddVideoSource") + v,
         Server!Waiting(rtsp_looper', "RequestVideoSink")
           = Server!Waiting(rtsp_looper, "RequestVideoSink") + r,
         Server!Waiting(conductor_looper', "VideoSinkAdded")
           = Server!Waiting(conductor_looper, "VideoSinkAdded") + n,
         Server!Waiting(media_looper', "AddEncodedVideoSink")
           = Server!Waiting(media_looper, "AddEncodedVideoSink") + m,
         Server!Waiting(worker_tasks', "AddEncodedVideoSink")
           = Server!Waiting(worker_tasks, "AddEncodedVideoSink") + t,
         Arrived(route') = Arrived(route) + a, s + v + r + n + m + t + a = 0
  PROVE  VideoSinkOnce'
<1> DEFINE cs == Server!Waiting(conductor_looper, "Start")
           cv == Server!Waiting(conductor_looper, "AddVideoSource")
           rx == Server!Waiting(rtsp_looper, "RequestVideoSink")
           cx == Server!Waiting(conductor_looper, "VideoSinkAdded")
           mx == Server!Waiting(media_looper, "AddEncodedVideoSink")
           tx == Server!Waiting(worker_tasks, "AddEncodedVideoSink")
           wx == Arrived(route)
<1>1. cs \in Int /\ cv \in Int /\ rx \in Int /\ cx \in Int /\ mx \in Int /\ tx \in Int /\ wx \in Int
  BY CountsAreNat, ArrivedIsNat
<1>2. cs + cv + rx + cx + mx + tx + wx = 1
  BY DEF VideoSinkOnce
<1>3. VideoSinkOnce' <=>
        (cs + s) + (cv + v) + (rx + r) + (cx + n) + (mx + m) + (tx + t) + (wx + a) = 1
  BY DEF VideoSinkOnce
<1> HIDE DEF cs, cv, rx, cx, mx, tx, wx
<1> QED
  BY <1>1, <1>2, <1>3

\* ... and of the sound's.
LEMMA SoundSinkMoves ==
  ASSUME QueuesTyped, SoundSinkOnce, NEW r \in Int, NEW n \in Int,
         NEW m \in Int, NEW t \in Int, NEW a \in Int, starting' = starting,
         Server!Waiting(rtsp_looper', "RequestAudioSink")
           = Server!Waiting(rtsp_looper, "RequestAudioSink") + r,
         Server!Waiting(conductor_looper', "AudioSinkAdded")
           = Server!Waiting(conductor_looper, "AudioSinkAdded") + n,
         Server!Waiting(media_looper', "AddAudioRenderSink")
           = Server!Waiting(media_looper, "AddAudioRenderSink") + m,
         Server!Waiting(worker_tasks', "AddEncodedAudioSink")
           = Server!Waiting(worker_tasks, "AddEncodedAudioSink") + t,
         Arrived(audio_route') = Arrived(audio_route) + a, r + n + m + t + a = 0
  PROVE  SoundSinkOnce'
<1> DEFINE sa == SoundToAsk
           rx == Server!Waiting(rtsp_looper, "RequestAudioSink")
           cx == Server!Waiting(conductor_looper, "AudioSinkAdded")
           mx == Server!Waiting(media_looper, "AddAudioRenderSink")
           tx == Server!Waiting(worker_tasks, "AddEncodedAudioSink")
           wx == Arrived(audio_route)
<1>1. sa \in Int /\ rx \in Int /\ cx \in Int /\ mx \in Int /\ tx \in Int /\ wx \in Int
  BY CountsAreNat, ArrivedIsNat, SoundToAskIs
<1>2. sa + rx + cx + mx + tx + wx = 1
  BY DEF SoundSinkOnce
<1>3. SoundSinkOnce' <=> sa + (rx + r) + (cx + n) + (mx + m) + (tx + t) + (wx + a) = 1
  BY SoundToAskIs DEF SoundSinkOnce
<1> HIDE DEF sa, rx, cx, mx, tx, wx
<1> QED
  BY <1>1, <1>2, <1>3

\* The places of each, for the steps that move nothing of it.
SourcePlaces ==
  <<Server!Waiting(conductor_looper, "Start"), Server!Waiting(conductor_looper, "AddVideoSource"),
    Server!Waiting(media_looper, "AddVideoSource"), Server!Waiting(worker_tasks, "AddVideoSource"),
    active>>
VideoSinkPlaces ==
  <<Server!Waiting(conductor_looper, "Start"), Server!Waiting(conductor_looper, "AddVideoSource"),
    Server!Waiting(rtsp_looper, "RequestVideoSink"),
    Server!Waiting(conductor_looper, "VideoSinkAdded"),
    Server!Waiting(media_looper, "AddEncodedVideoSink"),
    Server!Waiting(worker_tasks, "AddEncodedVideoSink"), route>>
SoundSinkPlaces ==
  <<starting, Server!Waiting(rtsp_looper, "RequestAudioSink"),
    Server!Waiting(conductor_looper, "AudioSinkAdded"),
    Server!Waiting(media_looper, "AddAudioRenderSink"),
    Server!Waiting(worker_tasks, "AddEncodedAudioSink"), audio_route>>

LEMMA SourceStays ==
  ASSUME SourceOnce, UNCHANGED SourcePlaces PROVE SourceOnce'
  BY DEF SourceOnce, SourcePlaces
LEMMA VideoSinkStays ==
  ASSUME VideoSinkOnce, UNCHANGED VideoSinkPlaces PROVE VideoSinkOnce'
  BY DEF VideoSinkOnce, VideoSinkPlaces
LEMMA SoundSinkStays ==
  ASSUME SoundSinkOnce, UNCHANGED SoundSinkPlaces PROVE SoundSinkOnce'
  BY SoundToAskIs DEF SoundSinkOnce, SoundSinkPlaces

\* What they add up are numbers.
LEMMA PlacesAreInt ==
  ASSUME QueuesTyped
  PROVE  /\ Server!Waiting(conductor_looper, "Start") \in Int
         /\ Server!Waiting(conductor_looper, "AddVideoSource") \in Int
         /\ Server!Waiting(conductor_looper, "VideoSinkAdded") \in Int
         /\ Server!Waiting(conductor_looper, "AudioSinkAdded") \in Int
         /\ Server!Waiting(rtsp_looper, "RequestVideoSink") \in Int
         /\ Server!Waiting(rtsp_looper, "RequestAudioSink") \in Int
         /\ Server!Waiting(media_looper, "AddVideoSource") \in Int
         /\ Server!Waiting(media_looper, "AddEncodedVideoSink") \in Int
         /\ Server!Waiting(media_looper, "AddAudioRenderSink") \in Int
         /\ Server!Waiting(worker_tasks, "AddVideoSource") \in Int
         /\ Server!Waiting(worker_tasks, "AddEncodedVideoSink") \in Int
         /\ Server!Waiting(worker_tasks, "AddEncodedAudioSink") \in Int
         /\ Arrived(active) \in Int /\ Arrived(route) \in Int /\ Arrived(audio_route) \in Int
  BY CountsAreNat, ArrivedIsNat

\* OnStart puts the sound and the camera on their way, each under its own id.
LEMMA OnStartServerWires ==
  ASSUME ProgramInv, WiringInv, OnStartServer
  PROVE  WiringInv'
<1> USE DEF WiringInv
<1>1. /\ QueuesTyped /\ rtsp_looper \in Seq(Rtsp!RtspMessage) /\ Right(rtsp_looper)
      /\ SoundToAsk' = SoundToAsk
      /\ UNCHANGED <<conductor_looper, media_looper, worker_tasks, active, route, audio_route>>
  BY OnStartServerPosts DEF ProgramInv, QueuesTyped, RightStreams, mediaVars, workerVars
<1>2. /\ Server!Waiting(rtsp_looper', "RequestVideoSink")
           = Server!Waiting(rtsp_looper, "RequestVideoSink")
      /\ Server!Waiting(rtsp_looper', "RequestAudioSink")
           = Server!Waiting(rtsp_looper, "RequestAudioSink")
  BY OnStartServerPosts DEF Posts
<1>3. Rightly(ListenMsg)
  BY StartMessages DEF Rightly, AboutCamera, AboutSound
<1>4. Right(rtsp_looper')
  BY <1>1, <1>3, OnStartServerPosts, StartMessages, RightPosted
<1>5. SourceOnce' /\ VideoSinkOnce'
  BY <1>1, <1>2, SourceStays, VideoSinkStays DEF SourcePlaces, VideoSinkPlaces
<1>6. SoundSinkOnce'
  BY <1>1, <1>2 DEF SoundSinkOnce
<1> QED
  BY <1>1, <1>4, <1>5, <1>6 DEF RightStreams

LEMMA OnStartSoundWires ==
  ASSUME ProgramInv, WiringInv, OnStartSound
  PROVE  WiringInv'
<1> USE DEF WiringInv
<1>1. /\ QueuesTyped /\ rtsp_looper \in Seq(Rtsp!RtspMessage) /\ Right(rtsp_looper)
      /\ SoundToAsk = 1 /\ SoundToAsk' = 0
      /\ UNCHANGED <<conductor_looper, media_looper, worker_tasks, active, route, audio_route>>
  BY OnStartSoundPosts DEF ProgramInv, QueuesTyped, RightStreams, mediaVars, workerVars
<1>2. /\ Server!Waiting(rtsp_looper', "RequestVideoSink")
           = Server!Waiting(rtsp_looper, "RequestVideoSink")
      /\ Server!Waiting(rtsp_looper', "RequestAudioSink")
           = Server!Waiting(rtsp_looper, "RequestAudioSink") + 1
  BY OnStartSoundPosts DEF Posts
<1>3. Rightly(SoundRequest)
  BY StartMessages DEF Rightly, AboutCamera, AboutSound
<1>4. Right(rtsp_looper')
  BY <1>1, <1>3, OnStartSoundPosts, StartMessages, RightPosted
<1>5. SourceOnce' /\ VideoSinkOnce'
  BY <1>1, <1>2, SourceStays, VideoSinkStays DEF SourcePlaces, VideoSinkPlaces
<1>6. SoundSinkOnce'
  <2> DEFINE rx == Server!Waiting(rtsp_looper, "RequestAudioSink")
             cx == Server!Waiting(conductor_looper, "AudioSinkAdded")
             mx == Server!Waiting(media_looper, "AddAudioRenderSink")
             tx == Server!Waiting(worker_tasks, "AddEncodedAudioSink")
             wx == Arrived(audio_route)
  <2>1. rx \in Int /\ cx \in Int /\ mx \in Int /\ tx \in Int /\ wx \in Int
    BY <1>1, PlacesAreInt
  <2>2. 1 + rx + cx + mx + tx + wx = 1
    BY <1>1 DEF SoundSinkOnce
  <2>3. SoundSinkOnce' <=> 0 + (rx + 1) + cx + mx + tx + wx = 1
    BY <1>1, <1>2 DEF SoundSinkOnce
  <2> HIDE DEF rx, cx, mx, tx, wx
  <2> QED
    BY <2>1, <2>2, <2>3
<1> QED
  BY <1>1, <1>4, <1>5, <1>6 DEF RightStreams

LEMMA OnStartCameraWires ==
  ASSUME ProgramInv, WiringInv, OnStartCamera
  PROVE  WiringInv'
<1> USE DEF WiringInv
<1>1. /\ QueuesTyped /\ conductor_looper # <<>>
      /\ conductor_looper \in Seq(ConductorMessage) /\ Right(conductor_looper)
      /\ SoundToAsk' = SoundToAsk
      /\ UNCHANGED <<rtsp_looper, media_looper, worker_tasks, active, route, audio_route>>
  BY OnStartCameraPosts DEF ProgramInv, QueuesTyped, RightStreams, rtspVars, mediaVars, workerVars
<1>2. /\ Server!Waiting(conductor_looper', "Start")
           = Server!Waiting(conductor_looper, "Start") - 1
      /\ Server!Waiting(conductor_looper', "AddVideoSource")
           = Server!Waiting(conductor_looper, "AddVideoSource") + 1
      /\ Server!Waiting(conductor_looper', "VideoSinkAdded")
           = Server!Waiting(conductor_looper, "VideoSinkAdded")
      /\ Server!Waiting(conductor_looper', "AudioSinkAdded")
           = Server!Waiting(conductor_looper, "AudioSinkAdded")
  BY OnStartCameraPosts
<1>3. /\ Server!Waiting(conductor_looper', "Start")
           = Server!Waiting(conductor_looper, "Start") + (-1)
      /\ Server!Waiting(conductor_looper', "VideoSinkAdded")
           = Server!Waiting(conductor_looper, "VideoSinkAdded") + 0
  BY <1>1, <1>2, PlacesAreInt
<1>4. /\ Server!Waiting(rtsp_looper', "RequestVideoSink")
           = Server!Waiting(rtsp_looper, "RequestVideoSink") + 0
      /\ Server!Waiting(media_looper', "AddVideoSource")
           = Server!Waiting(media_looper, "AddVideoSource") + 0
      /\ Server!Waiting(media_looper', "AddEncodedVideoSink")
           = Server!Waiting(media_looper, "AddEncodedVideoSink") + 0
      /\ Server!Waiting(worker_tasks', "AddVideoSource")
           = Server!Waiting(worker_tasks, "AddVideoSource") + 0
      /\ Server!Waiting(worker_tasks', "AddEncodedVideoSink")
           = Server!Waiting(worker_tasks, "AddEncodedVideoSink") + 0
      /\ Arrived(active') = Arrived(active) + 0 /\ Arrived(route') = Arrived(route) + 0
  BY <1>1, PlacesAreInt
<1>5. SourceOnce'
  BY <1>1, <1>2, <1>3, <1>4, SourceMoves
<1>6. VideoSinkOnce'
  BY <1>1, <1>2, <1>3, <1>4, VideoSinkMoves
<1>7. SoundSinkOnce'
  BY <1>1, <1>2 DEF SoundSinkOnce
<1>8. Right(conductor_looper')
  <2>1. Rightly(CameraSource)
    BY StartMessages DEF Rightly, AboutCamera, AboutSound
  <2>2. Tail(conductor_looper) \in Seq(ConductorMessage) /\ Right(Tail(conductor_looper))
    BY <1>1, RightTaken, HeadTailProperties
  <2> QED
    BY <2>1, <2>2, OnStartCameraPosts, StartMessages, RightPosted
<1> QED
  BY <1>1, <1>5, <1>6, <1>7, <1>8 DEF RightStreams

\* A turn of the conductor that posts a message to the media looper, and what is then
\* known of the two queues.
LEMMA ConductorHandsOn ==
  ASSUME ProgramInv, WiringInv, NEW what, Handling(what), Done(<<>>), NEW m \in ProgramMedia,
         media_looper' = Append(media_looper, m), Rightly(m)
  PROVE  /\ Takes(conductor_looper, conductor_looper', what)
         /\ Posts(media_looper, media_looper', m.what)
         /\ Right(conductor_looper') /\ Right(media_looper')
<1>1. /\ QueuesTyped /\ conductor_looper \in Seq(ConductorMessage) /\ conductor_looper # <<>>
      /\ media_looper \in Seq(ProgramMedia) /\ Right(conductor_looper) /\ Right(media_looper)
  BY DEF ProgramInv, QueuesTyped, WiringInv, RightStreams, Handling
<1>2. conductor_looper' = Tail(conductor_looper)
  BY <1>1, HeadTailProperties, ConcatEmptySeq DEF Done
<1>3. Takes(conductor_looper, conductor_looper', what) /\ Posts(media_looper, media_looper', m.what)
  BY <1>1, ConductorTurn, MediaPosted
<1>4. Right(conductor_looper') /\ Right(media_looper')
  BY <1>1, <1>2, RightTaken, RightPosted
<1> QED
  BY <1>3, <1>4

\* The message at the head names its stream rightly.
LEMMA ConductorReads ==
  ASSUME ProgramInv, WiringInv, conductor_looper # <<>>
  PROVE  Rightly(Head(conductor_looper))
<1>1. conductor_looper \in Seq(ConductorMessage) /\ Right(conductor_looper)
  BY DEF ProgramInv, QueuesTyped, WiringInv, RightStreams
<1> QED
  BY <1>1, RightTaken

LEMMA OnAddVideoSourceWires ==
  ASSUME ProgramInv, WiringInv, OnAddVideoSource
  PROVE  WiringInv'
<1> USE DEF WiringInv
<1> DEFINE source == [what |-> "AddVideoSource", id |-> Head(conductor_looper).id]
           request == [what |-> "RequestVideoSink", id |-> Head(conductor_looper).id,
                       codec |-> "H264"]
<1>1. /\ QueuesTyped /\ Handling("AddVideoSource") /\ Done(<<>>) /\ conductor_looper # <<>>
      /\ UNCHANGED <<starting, worker_tasks, active, route, audio_route>>
  BY DEF ProgramInv, OnAddVideoSource, Handling, Media!AddVideoSource, workerVars
<1>2. Head(conductor_looper).id = 2
  BY <1>1, ConductorReads DEF Handling, Rightly, AboutCamera
<1>3. /\ source \in ProgramMedia /\ source.what = "AddVideoSource" /\ Rightly(source)
      /\ request \in Rtsp!RtspMessage /\ request.what = "RequestVideoSink" /\ Rightly(request)
  BY <1>2 DEF ProgramMedia, Media!VideoMessage, Rtsp!RtspMessage, Rtsp!VideoRequest, VideoCodecs,
     StreamIds, Rightly, AboutCamera, AboutSound
<1>4. media_looper' = Append(media_looper, source) /\ rtsp_looper' = Append(rtsp_looper, request)
  BY DEF OnAddVideoSource, Media!AddVideoSource, Media!PostMedia, Rtsp!PostRtsp,
     Rtsp!RequestVideoSinkMsg
<1> HIDE DEF source, request
<1>5. /\ Takes(conductor_looper, conductor_looper', "AddVideoSource")
      /\ Posts(media_looper, media_looper', "AddVideoSource")
      /\ Right(conductor_looper') /\ Right(media_looper')
  BY <1>1, <1>3, <1>4, ConductorHandsOn
<1>6. Posts(rtsp_looper, rtsp_looper', "RequestVideoSink") /\ Right(rtsp_looper')
  <2>1. rtsp_looper \in Seq(Rtsp!RtspMessage) /\ Right(rtsp_looper)
    BY <1>1 DEF QueuesTyped, RightStreams
  <2> QED
    BY <1>1, <1>3, <1>4, <2>1, RtspPosted, RightPosted
<1>7. /\ Server!Waiting(conductor_looper', "Start") = Server!Waiting(conductor_looper, "Start")
      /\ Server!Waiting(conductor_looper', "AddVideoSource")
           = Server!Waiting(conductor_looper, "AddVideoSource") - 1
      /\ Server!Waiting(conductor_looper', "VideoSinkAdded")
           = Server!Waiting(conductor_looper, "VideoSinkAdded")
      /\ Server!Waiting(conductor_looper', "AudioSinkAdded")
           = Server!Waiting(conductor_looper, "AudioSinkAdded")
      /\ Server!Waiting(rtsp_looper', "RequestVideoSink")
           = Server!Waiting(rtsp_looper, "RequestVideoSink") + 1
      /\ Server!Waiting(rtsp_looper', "RequestAudioSink")
           = Server!Waiting(rtsp_looper, "RequestAudioSink")
      /\ Server!Waiting(media_looper', "AddVideoSource")
           = Server!Waiting(media_looper, "AddVideoSource") + 1
      /\ Server!Waiting(media_looper', "AddEncodedVideoSink")
           = Server!Waiting(media_looper, "AddEncodedVideoSink")
      /\ Server!Waiting(media_looper', "AddAudioRenderSink")
           = Server!Waiting(media_looper, "AddAudioRenderSink")
  BY <1>5, <1>6 DEF Takes, Posts
<1>8. /\ Server!Waiting(conductor_looper', "Start") = Server!Waiting(conductor_looper, "Start") + 0
      /\ Server!Waiting(conductor_looper', "AddVideoSource")
           = Server!Waiting(conductor_looper, "AddVideoSource") + (-1)
      /\ Server!Waiting(conductor_looper', "VideoSinkAdded")
           = Server!Waiting(conductor_looper, "VideoSinkAdded") + 0
      /\ Server!Waiting(rtsp_looper', "RequestVideoSink")
           = Server!Waiting(rtsp_looper, "RequestVideoSink") + 1
      /\ Server!Waiting(media_looper', "AddVideoSource")
           = Server!Waiting(media_looper, "AddVideoSource") + 1
      /\ Server!Waiting(media_looper', "AddEncodedVideoSink")
           = Server!Waiting(media_looper, "AddEncodedVideoSink") + 0
      /\ Server!Waiting(worker_tasks', "AddVideoSource")
           = Server!Waiting(worker_tasks, "AddVideoSource") + 0
      /\ Server!Waiting(worker_tasks', "AddEncodedVideoSink")
           = Server!Waiting(worker_tasks, "AddEncodedVideoSink") + 0
      /\ Arrived(active') = Arrived(active) + 0 /\ Arrived(route') = Arrived(route) + 0
  BY <1>1, <1>7, PlacesAreInt, SMTT(30)
<1>9. SourceOnce'
  BY <1>1, <1>8, SourceMoves
<1>10. VideoSinkOnce'
  BY <1>1, <1>8, VideoSinkMoves
<1>11. SoundSinkOnce'
  BY <1>1, <1>7, SoundSinkStays DEF SoundSinkPlaces
<1> QED
  BY <1>1, <1>5, <1>6, <1>9, <1>10, <1>11 DEF RightStreams

LEMMA OnVideoSinkAddedWires ==
  ASSUME ProgramInv, WiringInv, OnVideoSinkAdded
  PROVE  WiringInv'
<1> USE DEF WiringInv
<1> DEFINE sink == [what |-> "AddEncodedVideoSink", id |-> Head(conductor_looper).id]
<1>1. /\ QueuesTyped /\ Handling("VideoSinkAdded") /\ Done(<<>>) /\ conductor_looper # <<>>
      /\ UNCHANGED <<starting, worker_tasks, rtsp_looper, active, route, audio_route>>
      /\ media_looper' = Append(media_looper, sink)
  BY DEF ProgramInv, OnVideoSinkAdded, Handling, Media!AddVideoSink, Media!PostMedia, rtspVars,
     workerVars
<1>2. Head(conductor_looper).id = 2
  BY <1>1, ConductorReads DEF Handling, Rightly, AboutCamera
<1>3. sink \in ProgramMedia /\ sink.what = "AddEncodedVideoSink" /\ Rightly(sink)
  BY <1>2 DEF ProgramMedia, Media!VideoMessage, StreamIds, Rightly, AboutCamera, AboutSound
<1> HIDE DEF sink
<1>4. /\ Takes(conductor_looper, conductor_looper', "VideoSinkAdded")
      /\ Posts(media_looper, media_looper', "AddEncodedVideoSink")
      /\ Right(conductor_looper') /\ Right(media_looper')
  BY <1>1, <1>3, ConductorHandsOn
<1>5. /\ Server!Waiting(conductor_looper', "Start") = Server!Waiting(conductor_looper, "Start")
      /\ Server!Waiting(conductor_looper', "AddVideoSource")
           = Server!Waiting(conductor_looper, "AddVideoSource")
      /\ Server!Waiting(conductor_looper', "VideoSinkAdded")
           = Server!Waiting(conductor_looper, "VideoSinkAdded") - 1
      /\ Server!Waiting(conductor_looper', "AudioSinkAdded")
           = Server!Waiting(conductor_looper, "AudioSinkAdded")
      /\ Server!Waiting(media_looper', "AddVideoSource")
           = Server!Waiting(media_looper, "AddVideoSource")
      /\ Server!Waiting(media_looper', "AddEncodedVideoSink")
           = Server!Waiting(media_looper, "AddEncodedVideoSink") + 1
      /\ Server!Waiting(media_looper', "AddAudioRenderSink")
           = Server!Waiting(media_looper, "AddAudioRenderSink")
  BY <1>4 DEF Takes, Posts
<1>6. QueuesTyped /\ UNCHANGED <<starting, worker_tasks, rtsp_looper, active, route, audio_route>>
  BY <1>1
<1>7. /\ Server!Waiting(conductor_looper', "Start") = Server!Waiting(conductor_looper, "Start") + 0
      /\ Server!Waiting(conductor_looper', "AddVideoSource")
           = Server!Waiting(conductor_looper, "AddVideoSource") + 0
      /\ Server!Waiting(rtsp_looper', "RequestVideoSink")
           = Server!Waiting(rtsp_looper, "RequestVideoSink") + 0
      /\ Server!Waiting(conductor_looper', "VideoSinkAdded")
           = Server!Waiting(conductor_looper, "VideoSinkAdded") + (-1)
      /\ Server!Waiting(media_looper', "AddEncodedVideoSink")
           = Server!Waiting(media_looper, "AddEncodedVideoSink") + 1
      /\ Server!Waiting(worker_tasks', "AddEncodedVideoSink")
           = Server!Waiting(worker_tasks, "AddEncodedVideoSink") + 0
      /\ Arrived(route') = Arrived(route) + 0
  BY <1>5, <1>6, PlacesAreInt
<1>8. VideoSinkOnce'
  BY <1>1, <1>7, VideoSinkMoves
<1>9. SourceOnce'
  BY <1>1, <1>5, SourceStays DEF SourcePlaces
<1>10. SoundSinkOnce'
  BY <1>1, <1>5, SoundSinkStays DEF SoundSinkPlaces
<1> QED
  BY <1>1, <1>4, <1>8, <1>9, <1>10 DEF RightStreams

LEMMA OnAudioSinkAddedWires ==
  ASSUME ProgramInv, ProgramInv', WiringInv, OnAudioSinkAdded
  PROVE  WiringInv'
<1> USE DEF WiringInv
<1> DEFINE msg == Head(conductor_looper)
           sink == [what |-> "AddAudioRenderSink", key |-> Media!AudioSinkKey,
                    sink |-> "audio_queue", id |-> msg.id, codec |-> msg.codec]
\* The media service has no sink yet, or its check would fail.
<1>1. /\ QueuesTyped /\ Handling("AudioSinkAdded") /\ Done(<<>>) /\ conductor_looper # <<>>
      /\ UNCHANGED <<starting, worker_tasks, rtsp_looper, active, route, audio_route>>
      /\ media_looper' = Append(media_looper, sink)
  BY DEF ProgramInv, ChecksHold, OnAudioSinkAdded, Handling, Media!AddEncodedAudioSink,
     Media!PostMedia, rtspVars, workerVars
<1>2. msg.id = 1 /\ msg.codec \in AudioCodecs
  BY <1>1, ConductorReads, ConductorHead DEF Handling, Rightly, AboutSound
<1>3. sink \in ProgramMedia /\ sink.what = "AddAudioRenderSink" /\ Rightly(sink)
  BY <1>2 DEF ProgramMedia, AudioSinks, StreamIds, Rightly, AboutCamera, AboutSound
<1> HIDE DEF sink, msg
<1>4. /\ Takes(conductor_looper, conductor_looper', "AudioSinkAdded")
      /\ Posts(media_looper, media_looper', "AddAudioRenderSink")
      /\ Right(conductor_looper') /\ Right(media_looper')
  BY <1>1, <1>3, ConductorHandsOn
<1>5. /\ Server!Waiting(conductor_looper', "Start") = Server!Waiting(conductor_looper, "Start")
      /\ Server!Waiting(conductor_looper', "AddVideoSource")
           = Server!Waiting(conductor_looper, "AddVideoSource")
      /\ Server!Waiting(conductor_looper', "VideoSinkAdded")
           = Server!Waiting(conductor_looper, "VideoSinkAdded")
      /\ Server!Waiting(conductor_looper', "AudioSinkAdded")
           = Server!Waiting(conductor_looper, "AudioSinkAdded") - 1
      /\ Server!Waiting(media_looper', "AddVideoSource")
           = Server!Waiting(media_looper, "AddVideoSource")
      /\ Server!Waiting(media_looper', "AddEncodedVideoSink")
           = Server!Waiting(media_looper, "AddEncodedVideoSink")
      /\ Server!Waiting(media_looper', "AddAudioRenderSink")
           = Server!Waiting(media_looper, "AddAudioRenderSink") + 1
  BY <1>4 DEF Takes, Posts
<1>6. QueuesTyped /\ UNCHANGED <<starting, worker_tasks, rtsp_looper, active, route, audio_route>>
  BY <1>1
<1>7. /\ Server!Waiting(conductor_looper', "Start") = Server!Waiting(conductor_looper, "Start") + 0
      /\ Server!Waiting(rtsp_looper', "RequestAudioSink")
           = Server!Waiting(rtsp_looper, "RequestAudioSink") + 0
      /\ Server!Waiting(conductor_looper', "AudioSinkAdded")
           = Server!Waiting(conductor_looper, "AudioSinkAdded") + (-1)
      /\ Server!Waiting(media_looper', "AddAudioRenderSink")
           = Server!Waiting(media_looper, "AddAudioRenderSink") + 1
      /\ Server!Waiting(worker_tasks', "AddEncodedAudioSink")
           = Server!Waiting(worker_tasks, "AddEncodedAudioSink") + 0
      /\ Arrived(audio_route') = Arrived(audio_route) + 0
  BY <1>5, <1>6, PlacesAreInt
<1>8. SoundSinkOnce'
  BY <1>1, <1>7, SoundSinkMoves
<1>9. SourceOnce'
  BY <1>1, <1>5, SourceStays DEF SourcePlaces
<1>10. VideoSinkOnce'
  BY <1>1, <1>5, VideoSinkStays DEF VideoSinkPlaces
<1> QED
  BY <1>1, <1>4, <1>8, <1>9, <1>10 DEF RightStreams

LEMMA NotificationsWire ==
  ASSUME ProgramInv, WiringInv, OnClientConnectedNotify \/ OnOtherNotify
  PROVE  WiringInv'
<1> USE DEF WiringInv
<1> DEFINE m == [what |-> "RequestKeyFrame"]
<1>1. PICK what \in {"ClientConnectedNotify", "ClientDisconnectedNotify"} :
        /\ QueuesTyped /\ Handling(what) /\ Done(<<>>) /\ conductor_looper # <<>>
        /\ UNCHANGED <<starting, worker_tasks, rtsp_looper, active, route, audio_route>>
        /\ media_looper' = Append(media_looper, m) \/ media_looper' = media_looper
  BY DEF ProgramInv, OnClientConnectedNotify, OnOtherNotify, Handling, Media!RequesteKeyFrame,
     Media!PostMedia, rtspVars, mediaVars, workerVars
<1>2. m \in ProgramMedia /\ m.what = "RequestKeyFrame" /\ Rightly(m)
  BY DEF ProgramMedia, Rightly, AboutCamera, AboutSound
<1> HIDE DEF m
<1>3. Takes(conductor_looper, conductor_looper', what) /\ Right(conductor_looper')
  <2>1. conductor_looper \in Seq(ConductorMessage) /\ Right(conductor_looper)
    BY <1>1 DEF QueuesTyped, RightStreams
  <2>2. conductor_looper' = Tail(conductor_looper)
    BY <1>1, <2>1, HeadTailProperties, ConcatEmptySeq DEF Done
  <2> QED
    BY <1>1, <2>1, <2>2, ConductorTurn, RightTaken
<1>4. /\ Right(media_looper')
      /\ \A w \in {"AddVideoSource", "AddEncodedVideoSink", "AddAudioRenderSink"} :
           Server!Waiting(media_looper', w) = Server!Waiting(media_looper, w)
  <2>1. media_looper \in Seq(ProgramMedia) /\ Right(media_looper)
    BY <1>1 DEF QueuesTyped, RightStreams
  <2>2. CASE media_looper' = Append(media_looper, m)
    <3>1. Posts(media_looper, media_looper', "RequestKeyFrame") /\ Right(media_looper')
      BY <1>1, <1>2, <2>1, <2>2, MediaPosted, RightPosted
    <3> QED
      BY <3>1 DEF Posts
  <2> QED
    BY <1>1, <2>1, <2>2
<1>5. /\ Server!Waiting(conductor_looper', "Start") = Server!Waiting(conductor_looper, "Start")
      /\ Server!Waiting(conductor_looper', "AddVideoSource")
           = Server!Waiting(conductor_looper, "AddVideoSource")
      /\ Server!Waiting(conductor_looper', "VideoSinkAdded")
           = Server!Waiting(conductor_looper, "VideoSinkAdded")
      /\ Server!Waiting(conductor_looper', "AudioSinkAdded")
           = Server!Waiting(conductor_looper, "AudioSinkAdded")
  BY <1>3 DEF Takes
<1>6. SourceOnce' /\ VideoSinkOnce' /\ SoundSinkOnce'
  BY <1>1, <1>4, <1>5, SourceStays, VideoSinkStays, SoundSinkStays
  DEF SourcePlaces, VideoSinkPlaces, SoundSinkPlaces
<1> QED
  BY <1>1, <1>3, <1>4, <1>6 DEF RightStreams

LEMMA ConductorLoopWires ==
  ASSUME ProgramInv, ProgramInv', WiringInv, ConductorLoop
  PROVE  WiringInv'
  BY OnStartServerWires, OnStartSoundWires, OnStartCameraWires, OnAddVideoSourceWires,
    OnVideoSinkAddedWires, OnAudioSinkAddedWires,
     NotificationsWire DEF ConductorLoop

\* What the media looper hands to the worker, and in place of what.
HandsOn(what, task) ==
  \/ what = "AddVideoSource" /\ task.what = "AddVideoSource"
  \/ what = "AddEncodedVideoSink" /\ task.what = "AddEncodedVideoSink"
  \/ what = "AddAudioRenderSink" /\ task.what = "AddEncodedAudioSink"
  \/ what = "RequestKeyFrame" /\ task.what = "RequestKeyFrame"

LEMMA MediaHandsOn ==
  ASSUME ProgramInv, WiringInv, MediaLoop
  PROVE  \E what \in {"AddVideoSource", "AddEncodedVideoSink", "AddAudioRenderSink",
                      "RequestKeyFrame"}, task \in Media!WorkerTask :
           /\ Media!MediaHandling(what) /\ Media!ForWorkers(task)
           /\ HandsOn(what, task) /\ Rightly(task)
<1> DEFINE msg == Head(media_looper)
           sound == [what |-> "AddEncodedAudioSink", sink |-> msg.sink, id |-> msg.id,
                     codec |-> msg.codec]
<1>1. QueuesTyped /\ media_looper # <<>>
  BY DEF ProgramInv, MediaLoop, Media!Loop, Media!MediaHandling, Media!OnAddVideoSource,
     Media!OnAddEncodedVideoSink, Media!OnRequestKeyFrame, Media!OnAddAudioRenderSink,
     Media!OnRemoveAudioRenderSink
<1>2. Rightly(msg)
  BY <1>1, RightTaken DEF QueuesTyped, WiringInv, RightStreams
<1>3. /\ msg.what # "RemoveAudioRenderSink"
      /\ msg.what # "AddAudioRenderSink" => msg \in Media!WorkerTask
      /\ msg.what = "AddAudioRenderSink"
           => msg.key = Media!AudioSinkKey /\ sound \in Media!WorkerTask
  BY <1>1, MediaHead
<1>4. msg.what = "AddAudioRenderSink" => Rightly(sound)
  BY <1>2 DEF Rightly, AboutCamera, AboutSound
<1>5. sound.what = "AddEncodedAudioSink"
  OBVIOUS
<1>6. CASE Media!OnAddAudioRenderSink
  <2>1. /\ Media!MediaHandling("AddAudioRenderSink") /\ Media!ForWorkers(sound)
        /\ msg.what = "AddAudioRenderSink"
    BY <1>3, <1>6 DEF Media!OnAddAudioRenderSink, Media!MediaHandling, Media!FindAudioSink
  <2> HIDE DEF sound, msg
  <2> QED
    BY <1>3, <1>4, <1>5, <2>1 DEF HandsOn
<1>7. CASE Media!OnAddVideoSource \/ Media!OnAddEncodedVideoSink \/ Media!OnRequestKeyFrame
  <2>1. /\ msg.what \in {"AddVideoSource", "AddEncodedVideoSink", "RequestKeyFrame"}
        /\ Media!MediaHandling(msg.what) /\ Media!ForWorkers(msg)
    BY <1>7 DEF Media!OnAddVideoSource, Media!OnAddEncodedVideoSink, Media!OnRequestKeyFrame,
       Media!MediaHandling
  <2>2. msg \in Media!WorkerTask
    BY <1>3, <2>1
  <2> HIDE DEF sound, msg
  <2>3. HandsOn(msg.what, msg)
    BY <2>1 DEF HandsOn
  <2> QED
    BY <1>2, <2>1, <2>2, <2>3
<1>8. ~Media!OnRemoveAudioRenderSink
  BY <1>3 DEF Media!OnRemoveAudioRenderSink, Media!MediaHandling
<1> QED
  BY <1>6, <1>7, <1>8 DEF MediaLoop, Media!Loop

LEMMA MediaLoopWires ==
  ASSUME ProgramInv, WiringInv, MediaLoop
  PROVE  WiringInv'
<1> USE DEF WiringInv
<1>1. PICK what \in {"AddVideoSource", "AddEncodedVideoSink", "AddAudioRenderSink",
                     "RequestKeyFrame"}, task \in Media!WorkerTask :
           /\ Media!MediaHandling(what) /\ Media!ForWorkers(task)
           /\ HandsOn(what, task) /\ Rightly(task)
  BY MediaHandsOn
<1>2. /\ QueuesTyped /\ media_looper \in Seq(ProgramMedia) /\ media_looper # <<>>
      /\ worker_tasks \in Seq(Media!WorkerTask) /\ Right(media_looper) /\ Right(worker_tasks)
      /\ media_looper' = Tail(media_looper) /\ worker_tasks' = Append(worker_tasks, task)
  BY <1>1 DEF ProgramInv, QueuesTyped, RightStreams, Media!MediaHandling, Media!ForWorkers
<1>3. /\ Takes(media_looper, media_looper', what)
      /\ Posts(worker_tasks, worker_tasks', task.what)
  BY <1>1, <1>2, MediaTurn
<1>4. Right(media_looper') /\ Right(worker_tasks')
  BY <1>1, <1>2, RightTaken, RightPosted
<1>5. QueuesTyped
        /\ UNCHANGED <<starting, conductor_looper, rtsp_looper, active, route, audio_route>>
  BY <1>2 DEF MediaLoop, rtspVars, workerVars
<1>6. /\ Server!Waiting(conductor_looper', "Start") = Server!Waiting(conductor_looper, "Start") + 0
      /\ Server!Waiting(conductor_looper', "AddVideoSource")
           = Server!Waiting(conductor_looper, "AddVideoSource") + 0
      /\ Server!Waiting(conductor_looper', "VideoSinkAdded")
           = Server!Waiting(conductor_looper, "VideoSinkAdded") + 0
      /\ Server!Waiting(conductor_looper', "AudioSinkAdded")
           = Server!Waiting(conductor_looper, "AudioSinkAdded") + 0
      /\ Server!Waiting(rtsp_looper', "RequestVideoSink")
           = Server!Waiting(rtsp_looper, "RequestVideoSink") + 0
      /\ Server!Waiting(rtsp_looper', "RequestAudioSink")
           = Server!Waiting(rtsp_looper, "RequestAudioSink") + 0
      /\ Arrived(active') = Arrived(active) + 0 /\ Arrived(route') = Arrived(route) + 0
      /\ Arrived(audio_route') = Arrived(audio_route) + 0
  BY <1>5, PlacesAreInt
<1>7. CASE what = "AddVideoSource" /\ task.what = "AddVideoSource"
  <2>1. /\ Server!Waiting(media_looper', "AddVideoSource")
             = Server!Waiting(media_looper, "AddVideoSource") - 1
        /\ Server!Waiting(worker_tasks', "AddVideoSource")
             = Server!Waiting(worker_tasks, "AddVideoSource") + 1
        /\ \A w \in {"AddEncodedVideoSink", "AddAudioRenderSink"} :
             Server!Waiting(media_looper', w) = Server!Waiting(media_looper, w)
        /\ \A w \in {"AddEncodedVideoSink", "AddEncodedAudioSink"} :
             Server!Waiting(worker_tasks', w) = Server!Waiting(worker_tasks, w)
    BY <1>3, <1>7 DEF Takes, Posts
  <2>2. /\ Server!Waiting(media_looper', "AddVideoSource")
             = Server!Waiting(media_looper, "AddVideoSource") + (-1)
    BY <1>5, <2>1, PlacesAreInt
  <2>3. SourceOnce'
    BY <1>5, <1>6, <2>1, <2>2, SourceMoves
  <2>4. VideoSinkOnce' /\ SoundSinkOnce'
    BY <1>5, <2>1, VideoSinkStays, SoundSinkStays DEF VideoSinkPlaces, SoundSinkPlaces
  <2> QED
    BY <1>4, <1>5, <2>3, <2>4 DEF RightStreams
<1>8. CASE what = "AddEncodedVideoSink" /\ task.what = "AddEncodedVideoSink"
  <2>1. /\ Server!Waiting(media_looper', "AddEncodedVideoSink")
             = Server!Waiting(media_looper, "AddEncodedVideoSink") - 1
        /\ Server!Waiting(worker_tasks', "AddEncodedVideoSink")
             = Server!Waiting(worker_tasks, "AddEncodedVideoSink") + 1
        /\ \A w \in {"AddVideoSource", "AddAudioRenderSink"} :
             Server!Waiting(media_looper', w) = Server!Waiting(media_looper, w)
        /\ \A w \in {"AddVideoSource", "AddEncodedAudioSink"} :
             Server!Waiting(worker_tasks', w) = Server!Waiting(worker_tasks, w)
    BY <1>3, <1>8 DEF Takes, Posts
  <2>2. /\ Server!Waiting(media_looper', "AddEncodedVideoSink")
             = Server!Waiting(media_looper, "AddEncodedVideoSink") + (-1)
    BY <1>5, <2>1, PlacesAreInt
  <2>3. VideoSinkOnce'
    BY <1>5, <1>6, <2>1, <2>2, VideoSinkMoves
  <2>4. SourceOnce' /\ SoundSinkOnce'
    BY <1>5, <2>1, SourceStays, SoundSinkStays DEF SourcePlaces, SoundSinkPlaces
  <2> QED
    BY <1>4, <1>5, <2>3, <2>4 DEF RightStreams
<1>9. CASE what = "AddAudioRenderSink" /\ task.what = "AddEncodedAudioSink"
  <2>1. /\ Server!Waiting(media_looper', "AddAudioRenderSink")
             = Server!Waiting(media_looper, "AddAudioRenderSink") - 1
        /\ Server!Waiting(worker_tasks', "AddEncodedAudioSink")
             = Server!Waiting(worker_tasks, "AddEncodedAudioSink") + 1
        /\ \A w \in {"AddVideoSource", "AddEncodedVideoSink"} :
             /\ Server!Waiting(media_looper', w) = Server!Waiting(media_looper, w)
             /\ Server!Waiting(worker_tasks', w) = Server!Waiting(worker_tasks, w)
    BY <1>3, <1>9 DEF Takes, Posts
  <2>2. /\ Server!Waiting(media_looper', "AddAudioRenderSink")
             = Server!Waiting(media_looper, "AddAudioRenderSink") + (-1)
    BY <1>5, <2>1, PlacesAreInt
  <2>3. SoundSinkOnce'
    BY <1>5, <1>6, <2>1, <2>2, SoundSinkMoves
  <2>4. SourceOnce' /\ VideoSinkOnce'
    BY <1>5, <2>1, SourceStays, VideoSinkStays DEF SourcePlaces, VideoSinkPlaces
  <2> QED
    BY <1>4, <1>5, <2>3, <2>4 DEF RightStreams
<1>10. CASE what = "RequestKeyFrame" /\ task.what = "RequestKeyFrame"
  <2>1. /\ \A w \in {"AddVideoSource", "AddEncodedVideoSink", "AddAudioRenderSink"} :
             Server!Waiting(media_looper', w) = Server!Waiting(media_looper, w)
        /\ \A w \in {"AddVideoSource", "AddEncodedVideoSink", "AddEncodedAudioSink"} :
             Server!Waiting(worker_tasks', w) = Server!Waiting(worker_tasks, w)
    BY <1>3, <1>10 DEF Takes, Posts
  <2>2. SourceOnce' /\ VideoSinkOnce' /\ SoundSinkOnce'
    BY <1>5, <2>1, SourceStays, VideoSinkStays, SoundSinkStays
    DEF SourcePlaces, VideoSinkPlaces, SoundSinkPlaces
  <2> QED
    BY <1>4, <1>5, <2>2 DEF RightStreams
<1> QED
  BY <1>1, <1>7, <1>8, <1>9, <1>10 DEF HandsOn

\* What a task of the worker finds: its stream's id, and its place empty.
LEMMA WorkerTakes ==
  ASSUME ProgramInv, WiringInv, NEW what, Running(what)
  PROVE  /\ Takes(worker_tasks, worker_tasks', what)
         /\ Server!Waiting(worker_tasks, what) \in Nat \ {0}
         /\ Rightly(Head(worker_tasks)) /\ Right(worker_tasks')
         /\ Head(worker_tasks).what = what
         /\ QueuesTyped /\ UNCHANGED <<starting, conductor_looper, rtsp_looper, media_looper>>
<1>1. /\ worker_tasks \in Seq(Media!WorkerTask) /\ worker_tasks # <<>> /\ Right(worker_tasks)
      /\ Head(worker_tasks).what = what /\ worker_tasks' = Tail(worker_tasks)
      /\ QueuesTyped /\ UNCHANGED <<starting, conductor_looper, rtsp_looper, media_looper>>
  BY DEF ProgramInv, WiringInv, RightStreams, QueuesTyped, Running, rtspVars
<1>2. /\ Takes(worker_tasks, worker_tasks', what)
      /\ Server!Waiting(worker_tasks, what) \in Nat \ {0}
  BY <1>1, Server!WaitingTaken DEF Takes
<1> QED
  BY <1>1, <1>2, RightTaken

LEMMA WorkerFindsEmpty ==
  ASSUME ProgramInv, WiringInv
  PROVE  /\ Server!Waiting(worker_tasks, "AddVideoSource") \in Nat \ {0} => active = {}
         /\ Server!Waiting(worker_tasks, "AddEncodedVideoSink") \in Nat \ {0} => route = {}
         /\ Server!Waiting(worker_tasks, "AddEncodedAudioSink") \in Nat \ {0} => audio_route = {}
<1>1. \A w : /\ Server!Waiting(conductor_looper, w) \in Nat
             /\ Server!Waiting(rtsp_looper, w) \in Nat
             /\ Server!Waiting(media_looper, w) \in Nat
             /\ Server!Waiting(worker_tasks, w) \in Nat
  BY CountsAreNat DEF ProgramInv
<1>2. \A a, b, c, d, e \in Nat : d \in Nat \ {0} /\ a + b + c + d + e = 1 => e = 0
  OBVIOUS
<1>3. \A a, b, c, d, e, f, g \in Nat :
        f \in Nat \ {0} /\ a + b + c + d + e + f + g = 1 => g = 0
  OBVIOUS
<1>4. \A a, b, c, d, e, f \in Nat : e \in Nat \ {0} /\ a + b + c + d + e + f = 1 => f = 0
  OBVIOUS
<1>5. Server!Waiting(worker_tasks, "AddVideoSource") \in Nat \ {0} => Arrived(active) = 0
  BY <1>1, <1>2, ArrivedIsNat DEF WiringInv, SourceOnce
<1>6. Server!Waiting(worker_tasks, "AddEncodedVideoSink") \in Nat \ {0} => Arrived(route) = 0
  BY <1>1, <1>3, ArrivedIsNat DEF WiringInv, VideoSinkOnce
<1>7. Server!Waiting(worker_tasks, "AddEncodedAudioSink") \in Nat \ {0} => Arrived(audio_route) = 0
  BY <1>1, <1>4, ArrivedIsNat, SoundToAskIs DEF WiringInv, SoundSinkOnce
<1> QED
  BY <1>5, <1>6, <1>7 DEF Arrived

\* The worker's tasks: each finds what it needs, and is run once.
LEMMA CameraArrives ==
  ASSUME ProgramInv, WiringInv, WorkerAddsSource
  PROVE  active = {} /\ active' = {2} /\ UNCHANGED <<route, audio_route, key_frames, unasked>>
<1>1. /\ Server!Waiting(worker_tasks, "AddVideoSource") \in Nat \ {0}
      /\ Rightly(Head(worker_tasks)) /\ Head(worker_tasks).what = "AddVideoSource"
  BY WorkerTakes DEF WorkerAddsSource
<1>2. Head(worker_tasks).id = 2 /\ active = {}
  BY <1>1, WorkerFindsEmpty DEF Rightly, AboutCamera
<1> QED
  BY <1>2 DEF WorkerAddsSource, Routing!AddSource

LEMMA CameraSinkArrives ==
  ASSUME ProgramInv, WiringInv, WorkerAddsSink
  PROVE  /\ route = {} /\ route' = {<<2, "video_queue">>}
         /\ UNCHANGED <<active, audio_route, key_frames, unasked>>
<1>1. /\ Server!Waiting(worker_tasks, "AddEncodedVideoSink") \in Nat \ {0}
      /\ Rightly(Head(worker_tasks)) /\ Head(worker_tasks).what = "AddEncodedVideoSink"
  BY WorkerTakes DEF WorkerAddsSink
<1>2. Head(worker_tasks).id = 2 /\ route = {}
  BY <1>1, WorkerFindsEmpty DEF Rightly, AboutCamera
<1> QED
  BY <1>2 DEF WorkerAddsSink, Routing!AddSink

LEMMA SoundSinkArrives ==
  ASSUME ProgramInv, WiringInv, WorkerAddsAudioSink
  PROVE  audio_route = {} /\ audio_route' = {1} /\ UNCHANGED <<active, route, key_frames, unasked>>
<1>1. /\ Server!Waiting(worker_tasks, "AddEncodedAudioSink") \in Nat \ {0}
      /\ Rightly(Head(worker_tasks)) /\ Head(worker_tasks).what = "AddEncodedAudioSink"
  BY WorkerTakes DEF WorkerAddsAudioSink
<1>2. Head(worker_tasks).id = 1 /\ audio_route = {}
  BY <1>1, WorkerFindsEmpty DEF Rightly, AboutSound
<1> QED
  BY <1>2 DEF WorkerAddsAudioSink

\* A queue that holds still.
LEMMA OthersStill ==
  ASSUME QueuesTyped, UNCHANGED <<conductor_looper, rtsp_looper, media_looper>>
  PROVE  /\ Server!Waiting(conductor_looper', "Start")
              = Server!Waiting(conductor_looper, "Start") + 0
         /\ Server!Waiting(conductor_looper', "AddVideoSource")
              = Server!Waiting(conductor_looper, "AddVideoSource") + 0
         /\ Server!Waiting(conductor_looper', "VideoSinkAdded")
              = Server!Waiting(conductor_looper, "VideoSinkAdded") + 0
         /\ Server!Waiting(conductor_looper', "AudioSinkAdded")
              = Server!Waiting(conductor_looper, "AudioSinkAdded") + 0
         /\ Server!Waiting(rtsp_looper', "RequestVideoSink")
              = Server!Waiting(rtsp_looper, "RequestVideoSink") + 0
         /\ Server!Waiting(rtsp_looper', "RequestAudioSink")
              = Server!Waiting(rtsp_looper, "RequestAudioSink") + 0
         /\ Server!Waiting(media_looper', "AddVideoSource")
              = Server!Waiting(media_looper, "AddVideoSource") + 0
         /\ Server!Waiting(media_looper', "AddEncodedVideoSink")
              = Server!Waiting(media_looper, "AddEncodedVideoSink") + 0
         /\ Server!Waiting(media_looper', "AddAudioRenderSink")
              = Server!Waiting(media_looper, "AddAudioRenderSink") + 0
  BY PlacesAreInt

LEMMA WorkerWires ==
  ASSUME ProgramInv, WiringInv, Worker
  PROVE  WiringInv'
<1> USE DEF WiringInv
<1>1. \A streams : Arrived(streams) = 0 <=> streams = {}
  BY DEF Arrived
<1>2. \A x : Arrived({x}) = 0 + 1
  BY DEF Arrived
<1>3. CASE WorkerAddsSource
  <2>1. active = {} /\ active' = {2} /\ UNCHANGED <<route, audio_route>>
    BY <1>3, CameraArrives
  <2>2. /\ Takes(worker_tasks, worker_tasks', "AddVideoSource") /\ Right(worker_tasks')
        /\ QueuesTyped /\ UNCHANGED <<starting, conductor_looper, rtsp_looper, media_looper>>
    BY <1>3, WorkerTakes DEF WorkerAddsSource
  <2>3. /\ Server!Waiting(worker_tasks', "AddVideoSource")
             = Server!Waiting(worker_tasks, "AddVideoSource") - 1
        /\ Server!Waiting(worker_tasks', "AddEncodedVideoSink")
             = Server!Waiting(worker_tasks, "AddEncodedVideoSink")
        /\ Server!Waiting(worker_tasks', "AddEncodedAudioSink")
             = Server!Waiting(worker_tasks, "AddEncodedAudioSink")
    BY <2>2 DEF Takes
  <2>4. /\ Server!Waiting(worker_tasks', "AddVideoSource")
             = Server!Waiting(worker_tasks, "AddVideoSource") + (-1)
    BY <2>2, <2>3, PlacesAreInt
  <2>5. Arrived(active') = Arrived(active) + 1
    BY <1>1, <1>2, <2>1
  <2>6. SourceOnce'
    BY <2>2, <2>4, <2>5, OthersStill, SourceMoves
  <2>7. VideoSinkOnce' /\ SoundSinkOnce'
    BY <2>1, <2>2, <2>3, VideoSinkStays, SoundSinkStays DEF VideoSinkPlaces, SoundSinkPlaces
  <2> QED
    BY <2>1, <2>2, <2>6, <2>7 DEF RightStreams
<1>4. CASE WorkerAddsSink
  <2>1. route = {} /\ route' = {<<2, "video_queue">>} /\ UNCHANGED <<active, audio_route>>
    BY <1>4, CameraSinkArrives
  <2>2. /\ Takes(worker_tasks, worker_tasks', "AddEncodedVideoSink") /\ Right(worker_tasks')
        /\ QueuesTyped /\ UNCHANGED <<starting, conductor_looper, rtsp_looper, media_looper>>
    BY <1>4, WorkerTakes DEF WorkerAddsSink
  <2>3. /\ Server!Waiting(worker_tasks', "AddEncodedVideoSink")
             = Server!Waiting(worker_tasks, "AddEncodedVideoSink") - 1
        /\ Server!Waiting(worker_tasks', "AddVideoSource")
             = Server!Waiting(worker_tasks, "AddVideoSource")
        /\ Server!Waiting(worker_tasks', "AddEncodedAudioSink")
             = Server!Waiting(worker_tasks, "AddEncodedAudioSink")
    BY <2>2 DEF Takes
  <2>4. /\ Server!Waiting(worker_tasks', "AddEncodedVideoSink")
             = Server!Waiting(worker_tasks, "AddEncodedVideoSink") + (-1)
    BY <2>2, <2>3, PlacesAreInt
  <2>5. Arrived(route') = Arrived(route) + 1
    BY <1>1, <1>2, <2>1
  <2>6. VideoSinkOnce'
    BY <2>2, <2>4, <2>5, OthersStill, VideoSinkMoves
  <2>7. SourceOnce' /\ SoundSinkOnce'
    BY <2>1, <2>2, <2>3, SourceStays, SoundSinkStays DEF SourcePlaces, SoundSinkPlaces
  <2> QED
    BY <2>1, <2>2, <2>6, <2>7 DEF RightStreams
<1>5. CASE WorkerAddsAudioSink
  <2>1. audio_route = {} /\ audio_route' = {1} /\ UNCHANGED <<active, route>>
    BY <1>5, SoundSinkArrives
  <2>2. /\ Takes(worker_tasks, worker_tasks', "AddEncodedAudioSink") /\ Right(worker_tasks')
        /\ QueuesTyped /\ UNCHANGED <<starting, conductor_looper, rtsp_looper, media_looper>>
    BY <1>5, WorkerTakes DEF WorkerAddsAudioSink
  <2>3. /\ Server!Waiting(worker_tasks', "AddEncodedAudioSink")
             = Server!Waiting(worker_tasks, "AddEncodedAudioSink") - 1
        /\ Server!Waiting(worker_tasks', "AddVideoSource")
             = Server!Waiting(worker_tasks, "AddVideoSource")
        /\ Server!Waiting(worker_tasks', "AddEncodedVideoSink")
             = Server!Waiting(worker_tasks, "AddEncodedVideoSink")
    BY <2>2 DEF Takes
  <2>4. /\ Server!Waiting(worker_tasks', "AddEncodedAudioSink")
             = Server!Waiting(worker_tasks, "AddEncodedAudioSink") + (-1)
    BY <2>2, <2>3, PlacesAreInt
  <2>5. Arrived(audio_route') = Arrived(audio_route) + 1
    BY <1>1, <1>2, <2>1
  <2>6. SoundSinkOnce'
    BY <2>2, <2>4, <2>5, OthersStill, SoundSinkMoves
  <2>7. SourceOnce' /\ VideoSinkOnce'
    BY <2>1, <2>2, <2>3, SourceStays, VideoSinkStays DEF SourcePlaces, VideoSinkPlaces
  <2> QED
    BY <2>1, <2>2, <2>6, <2>7 DEF RightStreams
<1>6. CASE WorkerRequestsKeyFrame
  <2>1. /\ Takes(worker_tasks, worker_tasks', "RequestKeyFrame") /\ Right(worker_tasks')
        /\ UNCHANGED <<starting, conductor_looper, rtsp_looper, media_looper, active, route,
                       audio_route>>
    BY <1>6, WorkerTakes DEF WorkerRequestsKeyFrame
  <2>2. /\ Server!Waiting(worker_tasks', "AddVideoSource")
             = Server!Waiting(worker_tasks, "AddVideoSource")
        /\ Server!Waiting(worker_tasks', "AddEncodedVideoSink")
             = Server!Waiting(worker_tasks, "AddEncodedVideoSink")
        /\ Server!Waiting(worker_tasks', "AddEncodedAudioSink")
             = Server!Waiting(worker_tasks, "AddEncodedAudioSink")
    BY <2>1 DEF Takes
  <2>3. SourceOnce' /\ VideoSinkOnce' /\ SoundSinkOnce'
    BY <2>1, <2>2, SourceStays, VideoSinkStays, SoundSinkStays
    DEF SourcePlaces, VideoSinkPlaces, SoundSinkPlaces
  <2> QED
    BY <2>1, <2>3 DEF RightStreams
<1> QED
  BY <1>3, <1>4, <1>5, <1>6 DEF Worker

\* A turn of the server: what it posts to itself is a pull or nothing.
LEMMA ServerTakes ==
  ASSUME ProgramInv, WiringInv, NEW what, Rtsp!Handling(what),
         NEW posted \in {<<>>, <<Rtsp!Plain("PullAudio")>>, <<Rtsp!Plain("PullVideo")>>},
         Rtsp!Done(posted)
  PROVE  /\ \A w \in {"RequestVideoSink", "RequestAudioSink"} :
              Server!Waiting(rtsp_looper', w)
                = IF w = what THEN Server!Waiting(rtsp_looper, w) - 1
                  ELSE Server!Waiting(rtsp_looper, w)
         /\ Right(rtsp_looper')
         /\ Rightly(Head(rtsp_looper)) /\ Head(rtsp_looper).what = what
<1> DEFINE q == Tail(rtsp_looper)
<1>1. /\ QueuesTyped /\ rtsp_looper \in Seq(Rtsp!RtspMessage) /\ rtsp_looper # <<>>
      /\ Right(rtsp_looper) /\ Head(rtsp_looper).what = what /\ rtsp_looper' = q \o posted
  BY DEF ProgramInv, WiringInv, RightStreams, QueuesTyped, Rtsp!Handling, Rtsp!Done
<1>2. \A w \in {"RequestVideoSink", "RequestAudioSink"} :
        Server!Waiting(rtsp_looper', w) = IF w = what THEN Server!Waiting(rtsp_looper, w) - 1
                                          ELSE Server!Waiting(rtsp_looper, w)
  <2>1. \A w : w \notin Rtsp!Pulls =>
          Server!Waiting(rtsp_looper', w) = IF w = what THEN Server!Waiting(rtsp_looper, w) - 1
                                            ELSE Server!Waiting(rtsp_looper, w)
    BY <1>1, RtspTurn
  <2> QED
    BY <2>1 DEF Rtsp!Pulls
<1>3. q \in Seq(Rtsp!RtspMessage) /\ Right(q) /\ Rightly(Head(rtsp_looper))
  BY <1>1, RightTaken, HeadTailProperties
<1> HIDE DEF q
<1>4. CASE posted = <<>>
  <2>1. rtsp_looper' = q
    BY <1>1, <1>3, <1>4, ConcatEmptySeq
  <2> QED
    BY <1>1, <1>2, <1>3, <2>1
<1>5. ASSUME NEW k \in Rtsp!Pulls, posted = <<Rtsp!Plain(k)>>
      PROVE  Right(rtsp_looper')
  <2> DEFINE m == Rtsp!Plain(k)
  <2>1. m \in Rtsp!RtspMessage /\ Rightly(m)
    BY DEF Rtsp!RtspMessage, Rtsp!PlainMessage, Rtsp!Plain, Rtsp!Pulls, Rightly, AboutCamera,
       AboutSound
  <2>2. rtsp_looper' = q \o <<m>>
    BY <1>1, <1>5
  <2> HIDE DEF m
  <2>3. q \o <<m>> = Append(q, m)
    BY <1>3, <2>1, Server!WaitingPosted
  <2> QED
    BY <1>3, <2>1, <2>2, <2>3, RightPosted
<1>6. posted = <<>> \/ \E k \in Rtsp!Pulls : posted = <<Rtsp!Plain(k)>>
  BY Zenon DEF Rtsp!Pulls
<1> QED
  BY <1>1, <1>2, <1>3, <1>4, <1>5, <1>6

\* A notice posted to the conductor by the server.
LEMMA NoticeWired ==
  ASSUME ProgramInv, WiringInv, NEW m \in Rtsp!Notification, Rightly(m),
         conductor_looper' = Append(conductor_looper, m)
  PROVE  Posts(conductor_looper, conductor_looper', m.what) /\ Right(conductor_looper')
<1>1. QueuesTyped /\ conductor_looper \in Seq(ConductorMessage) /\ Right(conductor_looper)
      /\ m \in ConductorMessage
  BY DEF ProgramInv, QueuesTyped, WiringInv, RightStreams, ConductorMessage
<1> QED
  BY <1>1, NoticePosted, RightPosted

LEMMA RtspLoopWires ==
  ASSUME ProgramInv, WiringInv, RtspLoop
  PROVE  WiringInv'
<1> USE DEF WiringInv
<1>1. /\ QueuesTyped /\ Right(conductor_looper)
      /\ UNCHANGED <<starting, media_looper, worker_tasks, active, route, audio_route>>
  BY DEF ProgramInv, RightStreams, RtspLoop, RtspAlone, mediaVars, workerVars
<1>2. /\ Server!Waiting(media_looper', "AddEncodedVideoSink")
           = Server!Waiting(media_looper, "AddEncodedVideoSink") + 0
      /\ Server!Waiting(media_looper', "AddAudioRenderSink")
           = Server!Waiting(media_looper, "AddAudioRenderSink") + 0
      /\ Server!Waiting(worker_tasks', "AddEncodedVideoSink")
           = Server!Waiting(worker_tasks, "AddEncodedVideoSink") + 0
      /\ Server!Waiting(worker_tasks', "AddEncodedAudioSink")
           = Server!Waiting(worker_tasks, "AddEncodedAudioSink") + 0
      /\ Arrived(route') = Arrived(route) + 0
      /\ Arrived(audio_route') = Arrived(audio_route) + 0
  BY <1>1, PlacesAreInt
<1>3. rtsp_looper # <<>> => Head(rtsp_looper) \in Rtsp!RtspMessage
  BY <1>1, HeadTailProperties DEF QueuesTyped
\* What is about neither stream.
<1>4. ASSUME NEW what \in {"Start", "Stop", "ClientConnected", "ClientDisconnected",
                           "PullAudio", "PullVideo"},
             Rtsp!Handling(what), Rtsp!Done(<<>>),
             NEW m \in [what : {"ClientConnectedNotify", "ClientDisconnectedNotify"}],
             conductor_looper' \in {conductor_looper, Append(conductor_looper, m)}
      PROVE  WiringInv'
  <2>1. /\ Server!Waiting(rtsp_looper', "RequestVideoSink")
             = Server!Waiting(rtsp_looper, "RequestVideoSink")
        /\ Server!Waiting(rtsp_looper', "RequestAudioSink")
             = Server!Waiting(rtsp_looper, "RequestAudioSink")
        /\ Right(rtsp_looper')
    BY <1>4, ServerTakes
  <2>2. /\ m \in Rtsp!Notification /\ Rightly(m)
        /\ m.what \notin {"Start", "AddVideoSource", "VideoSinkAdded", "AudioSinkAdded"}
    BY DEF Rtsp!Notification, Rightly, AboutCamera, AboutSound
  <2>3. /\ Server!Waiting(conductor_looper', "Start") = Server!Waiting(conductor_looper, "Start")
        /\ Server!Waiting(conductor_looper', "AddVideoSource")
             = Server!Waiting(conductor_looper, "AddVideoSource")
        /\ Server!Waiting(conductor_looper', "VideoSinkAdded")
             = Server!Waiting(conductor_looper, "VideoSinkAdded")
        /\ Server!Waiting(conductor_looper', "AudioSinkAdded")
             = Server!Waiting(conductor_looper, "AudioSinkAdded")
        /\ Right(conductor_looper')
    <3>1. CASE conductor_looper' = Append(conductor_looper, m)
      <4>1. Posts(conductor_looper, conductor_looper', m.what) /\ Right(conductor_looper')
        BY <2>2, <3>1, NoticeWired
      <4> QED
        BY <2>2, <4>1 DEF Posts
    <3> QED
      BY <1>1, <1>4, <3>1
  <2>4. SourceOnce' /\ VideoSinkOnce' /\ SoundSinkOnce'
    BY <1>1, <2>1, <2>3, SourceStays, VideoSinkStays, SoundSinkStays
    DEF SourcePlaces, VideoSinkPlaces, SoundSinkPlaces
  <2> QED
    BY <1>1, <2>1, <2>3, <2>4 DEF RightStreams
<1>5. CASE Rtsp!OnStart \/ Rtsp!OnStop \/ Rtsp!OnClientConnected \/ Rtsp!OnClientDisconnected
           \/ Rtsp!OnPullAudioSource \/ Rtsp!OnPullVideoSource
  <2>1. /\ [what |-> "ClientConnectedNotify"]
             \in [what : {"ClientConnectedNotify", "ClientDisconnectedNotify"}]
        /\ [what |-> "ClientDisconnectedNotify"]
             \in [what : {"ClientConnectedNotify", "ClientDisconnectedNotify"}]
    OBVIOUS
  <2> QED
    BY <1>4, <1>5, <2>1
    DEF Rtsp!OnStart, Rtsp!OnStop, Rtsp!OnClientConnected, Rtsp!OnClientDisconnected,
        Rtsp!OnPullAudioSource, Rtsp!OnPullVideoSource
\* The camera's sink: asked for, now answered.
<1>6. CASE Rtsp!OnRequestVideoSink
  <2> DEFINE m == [what |-> "VideoSinkAdded", id |-> Head(rtsp_looper).id]
  <2>1. /\ Rtsp!Handling("RequestVideoSink") /\ Rtsp!Done(<<Rtsp!Plain("PullVideo")>>)
        /\ conductor_looper' = Append(conductor_looper, m) /\ rtsp_looper # <<>>
    BY <1>6 DEF Rtsp!OnRequestVideoSink, Rtsp!Handling
  <2>2. /\ Server!Waiting(rtsp_looper', "RequestVideoSink")
             = Server!Waiting(rtsp_looper, "RequestVideoSink") - 1
        /\ Server!Waiting(rtsp_looper', "RequestAudioSink")
             = Server!Waiting(rtsp_looper, "RequestAudioSink")
        /\ Right(rtsp_looper')
        /\ Rightly(Head(rtsp_looper)) /\ Head(rtsp_looper).what = "RequestVideoSink"
    BY <2>1, ServerTakes
  <2>3. Head(rtsp_looper).id = 2
    BY <2>2 DEF Rightly, AboutCamera
  <2>4. m \in Rtsp!Notification /\ Rightly(m) /\ m.what = "VideoSinkAdded"
    BY <2>3 DEF Rtsp!Notification, StreamIds, Rightly, AboutCamera, AboutSound
  <2> HIDE DEF m
  <2>5. Posts(conductor_looper, conductor_looper', "VideoSinkAdded") /\ Right(conductor_looper')
    BY <2>1, <2>4, NoticeWired
  <2>6. /\ Server!Waiting(conductor_looper', "Start") = Server!Waiting(conductor_looper, "Start")
        /\ Server!Waiting(conductor_looper', "AddVideoSource")
             = Server!Waiting(conductor_looper, "AddVideoSource")
        /\ Server!Waiting(conductor_looper', "VideoSinkAdded")
             = Server!Waiting(conductor_looper, "VideoSinkAdded") + 1
        /\ Server!Waiting(conductor_looper', "AudioSinkAdded")
             = Server!Waiting(conductor_looper, "AudioSinkAdded")
    BY <2>5 DEF Posts
  <2>7. /\ Server!Waiting(conductor_looper', "Start")
             = Server!Waiting(conductor_looper, "Start") + 0
        /\ Server!Waiting(conductor_looper', "AddVideoSource")
             = Server!Waiting(conductor_looper, "AddVideoSource") + 0
        /\ Server!Waiting(rtsp_looper', "RequestVideoSink")
             = Server!Waiting(rtsp_looper, "RequestVideoSink") + (-1)
    BY <1>1, <2>2, <2>6, PlacesAreInt
  <2>8. VideoSinkOnce'
    BY <1>1, <1>2, <2>6, <2>7, VideoSinkMoves
  <2>9. SourceOnce' /\ SoundSinkOnce'
    BY <1>1, <2>2, <2>6, SourceStays, SoundSinkStays DEF SourcePlaces, SoundSinkPlaces
  <2> QED
    BY <1>1, <2>2, <2>5, <2>8, <2>9 DEF RightStreams
\* And the sound's.
<1>7. CASE Rtsp!OnRequestAudioSink
  <2> DEFINE m == [what |-> "AudioSinkAdded", id |-> Head(rtsp_looper).id,
                   codec |-> Head(rtsp_looper).codec]
  <2>1. /\ Rtsp!Handling("RequestAudioSink") /\ Rtsp!Done(<<Rtsp!Plain("PullAudio")>>)
        /\ conductor_looper' = Append(conductor_looper, m) /\ rtsp_looper # <<>>
    BY <1>7 DEF Rtsp!OnRequestAudioSink, Rtsp!Handling
  <2>2. /\ Server!Waiting(rtsp_looper', "RequestAudioSink")
             = Server!Waiting(rtsp_looper, "RequestAudioSink") - 1
        /\ Server!Waiting(rtsp_looper', "RequestVideoSink")
             = Server!Waiting(rtsp_looper, "RequestVideoSink")
        /\ Right(rtsp_looper')
        /\ Rightly(Head(rtsp_looper)) /\ Head(rtsp_looper).what = "RequestAudioSink"
    BY <2>1, ServerTakes
  <2>3. Head(rtsp_looper).id = 1 /\ Head(rtsp_looper).codec \in AudioCodecs
    BY <1>3, <2>1, <2>2
    DEF Rightly, AboutSound, Rtsp!RtspMessage, Rtsp!PlainMessage, Rtsp!AudioRequest,
        Rtsp!VideoRequest, Rtsp!Pulls
  <2>4. m \in Rtsp!Notification /\ Rightly(m) /\ m.what = "AudioSinkAdded"
    BY <2>3 DEF Rtsp!Notification, StreamIds, Rightly, AboutCamera, AboutSound
  <2> HIDE DEF m
  <2>5. Posts(conductor_looper, conductor_looper', "AudioSinkAdded") /\ Right(conductor_looper')
    BY <2>1, <2>4, NoticeWired
  <2>6. /\ Server!Waiting(conductor_looper', "Start") = Server!Waiting(conductor_looper, "Start")
        /\ Server!Waiting(conductor_looper', "AddVideoSource")
             = Server!Waiting(conductor_looper, "AddVideoSource")
        /\ Server!Waiting(conductor_looper', "VideoSinkAdded")
             = Server!Waiting(conductor_looper, "VideoSinkAdded")
        /\ Server!Waiting(conductor_looper', "AudioSinkAdded")
             = Server!Waiting(conductor_looper, "AudioSinkAdded") + 1
    BY <2>5 DEF Posts
  <2>7. /\ Server!Waiting(conductor_looper', "Start")
             = Server!Waiting(conductor_looper, "Start") + 0
        /\ Server!Waiting(rtsp_looper', "RequestAudioSink")
             = Server!Waiting(rtsp_looper, "RequestAudioSink") + (-1)
    BY <1>1, <2>2, <2>6, PlacesAreInt
  <2>8. SoundSinkOnce'
    BY <1>1, <1>2, <2>6, <2>7, SoundSinkMoves
  <2>9. SourceOnce' /\ VideoSinkOnce'
    BY <1>1, <2>2, <2>6, SourceStays, VideoSinkStays DEF SourcePlaces, VideoSinkPlaces
  <2> QED
    BY <1>1, <2>2, <2>5, <2>8, <2>9 DEF RightStreams
<1> QED
  BY <1>5, <1>6, <1>7 DEF RtspLoop, Rtsp!Loop

\* Pulls that are due and clients reach the server's queue; images and packets do not.
LEMMA OutsideWires ==
  ASSUME ProgramInv, WiringInv,
         (\E p \in Rtsp!Pulls : PullDue(p)) \/ Clients \/ ImageEncoded \/ PacketEncoded
         \/ UNCHANGED vars
  PROVE  WiringInv'
<1> USE DEF WiringInv
<1>1. /\ QueuesTyped /\ rtsp_looper \in Seq(Rtsp!RtspMessage) /\ Right(rtsp_looper)
      /\ UNCHANGED <<starting, conductor_looper, media_looper, worker_tasks, active, route,
                     audio_route>>
  BY DEF ProgramInv, QueuesTyped, RightStreams, PullDue, Rtsp!PullDue, Clients,
     Rtsp!ClientConnects, Rtsp!ClientDisconnects, ImageEncoded, Rtsp!VideoOnFrame, PacketEncoded,
     Rtsp!AudioOnFrame, RtspAlone, mediaVars, workerVars, vars
<1>2. \/ UNCHANGED rtsp_looper
      \/ \E what \in Rtsp!Pulls \cup {"ClientConnected", "ClientDisconnected"} :
           rtsp_looper' = Append(rtsp_looper, Rtsp!Plain(what))
  BY DEF PullDue, Rtsp!PullDue, Clients, Rtsp!ClientConnects, Rtsp!ClientDisconnects,
     ImageEncoded, Rtsp!VideoOnFrame, PacketEncoded, Rtsp!AudioOnFrame, Rtsp!PostRtsp, vars,
     rtspVars
<1>3. /\ Server!Waiting(rtsp_looper', "RequestVideoSink")
           = Server!Waiting(rtsp_looper, "RequestVideoSink")
      /\ Server!Waiting(rtsp_looper', "RequestAudioSink")
           = Server!Waiting(rtsp_looper, "RequestAudioSink")
      /\ Right(rtsp_looper')
  <2>1. ASSUME NEW what \in Rtsp!Pulls \cup {"ClientConnected", "ClientDisconnected"},
               rtsp_looper' = Append(rtsp_looper, Rtsp!Plain(what))
        PROVE  <1>3
    <3> DEFINE m == Rtsp!Plain(what)
    <3>1. /\ m \in Rtsp!RtspMessage /\ Rightly(m) /\ m.what = what
          /\ what \notin {"RequestVideoSink", "RequestAudioSink"}
          /\ rtsp_looper' = Append(rtsp_looper, m)
      BY <2>1 DEF Rtsp!RtspMessage, Rtsp!PlainMessage, Rtsp!Plain, Rtsp!Pulls, Rightly,
         AboutCamera, AboutSound
    <3> HIDE DEF m
    <3>2. Posts(rtsp_looper, rtsp_looper', m.what) /\ Right(rtsp_looper')
      BY <1>1, <3>1, RtspPosted, RightPosted
    <3> QED
      BY <3>1, <3>2 DEF Posts
  <2> QED
    BY <1>1, <1>2, <2>1
<1>4. SourceOnce' /\ VideoSinkOnce' /\ SoundSinkOnce'
  BY <1>1, <1>3, SourceStays, VideoSinkStays, SoundSinkStays
  DEF SourcePlaces, VideoSinkPlaces, SoundSinkPlaces
<1> QED
  BY <1>1, <1>3, <1>4 DEF RightStreams

LEMMA InitiallyWired == Init => WiringInv
<1> SUFFICES ASSUME Init PROVE WiringInv
  OBVIOUS
<1> DEFINE start == [what |-> "Start"]
<1>1. /\ rtsp_looper = <<>> /\ media_looper = <<>> /\ worker_tasks = <<>>
      /\ conductor_looper = <<start>> /\ active = {} /\ route = {} /\ audio_route = {}
  BY DEF Init, Media!Init, Routing!Init
<1>2. \A w : Server!Waiting(<<>>, w) = 0
  BY Server!WaitingEmpty
<1>3. /\ start.what = "Start" /\ Rightly(start) /\ <<>> \in Seq({start})
      /\ Right(<<>>) /\ Arrived({}) = 0
  BY DEF Rightly, Right, AboutCamera, AboutSound, Arrived
<1> HIDE DEF start
<1>4. /\ \A w : Server!Waiting(<<start>>, w) = IF w = "Start" THEN 1 ELSE 0
      /\ Right(<<start>>)
  <2>1. /\ <<>> \o <<start>> = Append(<<>>, start)
        /\ \A w : Server!Waiting(Append(<<>>, start), w)
                   = IF w = start.what THEN Server!Waiting(<<>>, w) + 1 ELSE Server!Waiting(<<>>, w)
        /\ Right(Append(<<>>, start))
    BY <1>3, Server!WaitingPosted, RightPosted
  <2>2. <<start>> = Append(<<>>, start)
    BY <1>3, <2>1
  <2> QED
    BY <1>2, <1>3, <2>1, <2>2
<1>5. /\ Server!Waiting(conductor_looper, "Start") = 1
      /\ Server!Waiting(conductor_looper, "AddVideoSource") = 0
      /\ Server!Waiting(conductor_looper, "VideoSinkAdded") = 0
      /\ Server!Waiting(conductor_looper, "AudioSinkAdded") = 0
  BY <1>1, <1>4
<1>6. SoundToAsk = 1
  BY DEF Init, SoundToAsk
<1>7. SourceOnce /\ VideoSinkOnce /\ SoundSinkOnce
  BY <1>1, <1>2, <1>3, <1>5, <1>6 DEF SourceOnce, VideoSinkOnce, SoundSinkOnce
<1> QED
  BY <1>1, <1>3, <1>4, <1>7 DEF WiringInv, RightStreams

LEMMA WiringStep == ProgramInv /\ ProgramInv' /\ WiringInv /\ [Next]_vars => WiringInv'
  BY ConductorLoopWires, RtspLoopWires, MediaLoopWires, WorkerWires, OutsideWires DEF Next

-----------------------------------------------------------------------------
(* The program implements Streaming: each of its steps is one of the        *)
(* promised ones or is not visible.                                         *)

\* What the promise speaks of.
Visible == <<started, active, route, audio_route, connected, key_frames, unasked>>

LEMMA SilentStep ==
  ASSUME UNCHANGED Visible PROVE [Promise!Next]_(Promise!vars)
  BY DEF Visible, Promise!vars

LEMMA ServerPromise ==
  ASSUME ProgramInv, ChainInv, RtspLoop
  PROVE  [Promise!Next]_(Promise!vars)
<1>1. UNCHANGED <<active, route, audio_route, connected, key_frames, unasked>>
  BY DEF RtspLoop, RtspAlone, workerVars, Rtsp!Loop, Rtsp!OnStart, Rtsp!OnStop,
     Rtsp!OnClientConnected, Rtsp!OnClientDisconnected, Rtsp!OnRequestAudioSink,
     Rtsp!OnRequestVideoSink, Rtsp!OnPullAudioSource, Rtsp!OnPullVideoSource
\* Nothing stops the server.
<1>2. ~Rtsp!OnStop
  BY ServerTurn DEF ProgramInv, ChainInv, Rtsp!OnStop
<1>3. started' = started \/ started' = TRUE
  BY <1>2 DEF RtspLoop, Rtsp!Loop, Rtsp!OnStart,
     Rtsp!OnClientConnected, Rtsp!OnClientDisconnected, Rtsp!OnRequestAudioSink,
     Rtsp!OnRequestVideoSink, Rtsp!OnPullAudioSource, Rtsp!OnPullVideoSource
<1>4. started \in BOOLEAN
  BY DEF ProgramInv, TypeOK, Rtsp!TypeOK
<1> QED
  BY <1>1, <1>3, <1>4 DEF Promise!Next, Promise!ServerListens, Promise!vars

LEMMA ClientsPromise ==
  ASSUME Clients
  PROVE  [Promise!Next]_(Promise!vars)
<1>1. UNCHANGED <<started, active, route, audio_route, key_frames, unasked>>
  BY DEF Clients, RtspAlone, workerVars, Rtsp!ClientConnects, Rtsp!ClientDisconnects
<1>2. CASE Rtsp!ClientConnects
  BY <1>1, <1>2 DEF Rtsp!ClientConnects, Promise!Next, Promise!ClientConnects
<1>3. CASE Rtsp!ClientDisconnects
  BY <1>1, <1>3 DEF Rtsp!ClientDisconnects, Promise!vars
<1> QED
  BY <1>2, <1>3 DEF Clients

\* A key frame the worker is asked for is one a client is owed.
LEMMA KeyFrameOwed ==
  ASSUME ProgramInv, WorkerRequestsKeyFrame
  PROVE  key_frames + unasked < connected
<1> DEFINE r == Server!Waiting(rtsp_looper, "ClientConnected")
           n == Server!Waiting(conductor_looper, "ClientConnectedNotify")
           m == Server!Waiting(media_looper, "RequestKeyFrame")
           t == Server!Waiting(worker_tasks, "RequestKeyFrame")
           k == key_frames + unasked
<1>1. r \in Nat /\ n \in Nat /\ m \in Nat /\ t \in Nat /\ k \in Nat
  BY CountsAreNat DEF ProgramInv, TypeOK
<1>2. connected = r + n + m + t + k
  BY KeyFramesAre DEF ProgramInv, RequestsRun
<1>3. t \in Nat \ {0}
  <2>1. /\ worker_tasks \in Seq(Media!WorkerTask) /\ worker_tasks # <<>>
        /\ Head(worker_tasks).what = "RequestKeyFrame"
    BY DEF ProgramInv, QueuesTyped, WorkerRequestsKeyFrame, Running
  <2> QED
    BY <2>1, Server!WaitingTaken
<1>4. k < connected
  <2> HIDE DEF r, n, m, t, k
  <2> QED
    BY <1>1, <1>2, <1>3
<1> QED
  BY <1>4

LEMMA WorkerPromise ==
  ASSUME ProgramInv, WiringInv, OrderInv, Worker
  PROVE  [Promise!Next]_(Promise!vars)
<1>1. UNCHANGED <<started, connected>>
  BY DEF Worker, WorkerAddsSource, WorkerAddsSink, WorkerAddsAudioSink, WorkerRequestsKeyFrame,
     Running, rtspVars
<1>2. CASE WorkerAddsSource
  BY <1>1, <1>2, CameraArrives DEF Promise!Next, Promise!CameraAdded
\* The sink does not come before its source.
<1>3. CASE WorkerAddsSink
  <2>1. /\ route = {} /\ route' = {<<2, "video_queue">>}
        /\ UNCHANGED <<active, audio_route, key_frames, unasked>>
    BY <1>3, CameraSinkArrives
  <2>2. active = {2}
    <3>1. /\ worker_tasks \in Seq(Media!WorkerTask) /\ worker_tasks # <<>>
          /\ Head(worker_tasks).what = "AddEncodedVideoSink" /\ Ordered(worker_tasks, active)
      BY <1>3 DEF ProgramInv, QueuesTyped, OrderInv, WorkerAddsSink, Running
    <3>2. Head(worker_tasks).id \in active
      BY <3>1, OrderedHead
    <3> QED
      BY <3>2 DEF WiringInv, RightStreams
  <2> QED
    BY <1>1, <2>1, <2>2 DEF Promise!Next, Promise!CameraRouted
<1>4. CASE WorkerAddsAudioSink
  BY <1>1, <1>4, SoundSinkArrives DEF Promise!Next, Promise!SoundRouted
<1>5. CASE WorkerRequestsKeyFrame
  <2>1. key_frames + unasked < connected /\ UNCHANGED <<active, route, audio_route>>
    BY <1>5, KeyFrameOwed DEF WorkerRequestsKeyFrame
  <2>2. CASE active = {}
    BY <1>1, <1>5, <2>1, <2>2
    DEF WorkerRequestsKeyFrame, Promise!Next, Promise!RequestFindsNoStream
  <2>3. CASE active # {}
    <3>1. active = {2}
      BY <2>3 DEF WiringInv, RightStreams
    <3> QED
      BY <1>1, <1>5, <2>1, <3>1
      DEF WorkerRequestsKeyFrame, Promise!Next, Promise!KeyFrameRequested
  <2> QED
    BY <2>2, <2>3
<1> QED
  BY <1>2, <1>3, <1>4, <1>5 DEF Worker

LEMMA PromiseStep ==
  ProgramInv /\ WiringInv /\ OrderInv /\ ChainInv /\ [Next]_vars
    => [Promise!Next]_(Promise!vars)
<1> SUFFICES ASSUME ProgramInv, WiringInv, OrderInv, ChainInv, [Next]_vars
             PROVE  [Promise!Next]_(Promise!vars)
  OBVIOUS
<1>1. CASE ConductorLoop
  <2>1. UNCHANGED Visible
    BY <1>1 DEF Visible, ConductorLoop, OnStartServer, OnStartSound, OnStartCamera,
         OnAddVideoSource, OnAudioSinkAdded,
       OnVideoSinkAdded, OnClientConnectedNotify, OnOtherNotify, rtspVars, workerVars
  <2> QED
    BY <2>1, SilentStep
<1>2. CASE \/ \E p \in Rtsp!Pulls : PullDue(p)
           \/ MediaLoop
           \/ ImageEncoded
           \/ PacketEncoded
           \/ UNCHANGED vars
  <2>1. UNCHANGED Visible
    BY <1>2 DEF Visible, PullDue, Rtsp!PullDue, RtspAlone, MediaLoop, ImageEncoded,
       Rtsp!VideoOnFrame, PacketEncoded, Rtsp!AudioOnFrame, vars, rtspVars, workerVars
  <2> QED
    BY <2>1, SilentStep
<1> QED
  BY <1>1, <1>2, ServerPromise, ClientsPromise, WorkerPromise DEF Next

-----------------------------------------------------------------------------
\* The variables of the program keep their types, on five threads.
THEOREM TypeCorrect == Spec => []TypeOK
<1>1. ProgramInv => TypeOK
  BY DEF ProgramInv
<1> QED
  BY <1>1, Invariance, PTL

\* No AVE_CHECK of the media service fails in this program, however many
\* clients come and go: the one audio sink is handed to it once.
THEOREM NoCheckFails == Spec => []ChecksHold
<1>1. ProgramInv => ChecksHold
  BY DEF ProgramInv
<1> QED
  BY <1>1, Invariance, PTL

\* Every client's key frame request is, at any time, in exactly one of the
\* four queues it passes or with the worker.
THEOREM KeyFrameRequestsKept == Spec => []KeyFramesConserved
<1>1. ProgramInv => KeyFramesConserved
  BY DEF ProgramInv
<1> QED
  BY <1>1, Invariance, PTL

\* A sink reaches the worker only after the source of its stream, although a
\* source goes straight to the media looper and a sink by way of the RTSP
\* looper and back.
THEOREM SinkAfterSource == Spec => []SourceBeforeSink
<1>1. OrderInv => SourceBeforeSink
  BY DEF OrderInv
<1> QED
  BY <1>1, InitiallyOrdered, OrderStep, Invariance, PTL DEF Spec

\* Each of the server's queues is pulled by one chain for ever: no client starts a
\* second one, and the server has started before the first pull looks.
THEOREM OneChainForEver == Spec => []ChainsConserved
<1>1. ProgramInv /\ ChainInv => ChainsConserved
  BY ChainsAre DEF ChainInv
<1> QED
  BY <1>1, InitialChains, ChainStep, Invariance, PTL DEF Spec

\* In every interleaving of its threads, also those in which the server, its clients or
\* the sound overtake OnStart on its way to the camera, and for any number of clients
\* the program implements Streaming: the camera and the sound are wired once, each to
\* its own sink, the sink after the source, the server never stops, and each key frame
\* requested, of the camera's stream or of nobody, is one that a client is owed.
THEOREM ImplementsStreaming == Spec => StreamingSpec
<1>1. Init => Promise!Init
  BY DEF Init, Promise!Init, Routing!Init
<1>2. Spec => [](ProgramInv /\ WiringInv /\ OrderInv /\ ChainInv)
  BY Invariance, InitiallyWired, WiringStep, InitiallyOrdered, OrderStep, InitialChains, ChainStep,
     PTL DEF Spec
<1> QED
  BY <1>1, <1>2, PromiseStep, PTL DEF Spec, StreamingSpec, Promise!Safety
=============================================================================
