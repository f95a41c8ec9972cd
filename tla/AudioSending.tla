---------------------------- MODULE AudioSending ----------------------------
(***************************************************************************)
(* The way of the sound: AudioFlinger (media/audio/audio_flinger.cc) takes *)
(* it from the capture thread, AudioSendStreams encode it, AudioStream-    *)
(* Senders hand it to the sinks, and the audio half of HybirdWorker        *)
(* (media/hybird_worker.cc) makes and drops streams and senders.           *)
(*                                                                         *)
(* Four kinds of threads: the worker's runner, the capture thread, one     *)
(* runner for each stream and the transport runner.  A task of the worker  *)
(* changes its lists, and tells the flinger in a step of its own, under    *)
(* sender_lock_.  Worker tasks are executed in the order of the calls, so  *)
(* that the queue in front of the worker is left out: a call is its task.  *)
(*                                                                         *)
(* There is one stream of a codec at a time: the list has one, and a stream*)
(* that is off the list lives on in the flinger only until the same task of*)
(* the worker tells it.  Streams are named by their codec.  A sender is the*)
(* address that tasks and streams hold of it, live or not.                 *)
(*                                                                         *)
(* External: the runners, the factory's codecs, and libfdk-aac, which may  *)
(* keep the samples of one frame and then gives a packet for the next.     *)
(***************************************************************************)
EXTENDS Naturals, Sequences, SequencesExt, FiniteSets, FiniteSetsExt

CONSTANTS
  Codecs,         \* codecs of sinks
  Encodable,      \* those that the encoder factory knows
  Sinks,          \* encoded audio sinks, each MediaService's wrapper of one
  SenderAddrs,    \* addresses for AudioStreamSender objects
  NoSender,       \* the address in a stream that does not exist
  MaxCalls,       \* bound: sink tasks on the transport runner
  MaxFrames       \* bound: frames on a stream's runner, and packets on it and
                  \* of a sender on the transport runner

ASSUME SendingAssumption ==
  /\ Encodable \subseteq Codecs
  /\ NoSender \notin SenderAddrs
  /\ MaxCalls \in Nat /\ MaxFrames \in Nat

\* Sample rate and channels: none, what streams are configured for, and anything
\* that is more.
Formats == 0..2
Configured == 1

\* Samples of each channel in a frame: those configured, those of 10 ms.
Samples == {1024, 480}
Captured == 480
Shape == [samples : Samples, format : Formats]

VARIABLES
  audio_send_streams,    \* the worker's list of streams
  sink_count,            \* AudioSendStreamInfo::sink_count
  updating,              \* the worker has still to tell the flinger
  stream,                \* the streams that exist
  stream_runner,         \* their runners
  audio_stream_senders,  \* MediaTransport's list of senders
  sender_sinks,          \* AudioStreamSender::sinks_
  transport_runner,      \* the queue of posted tasks
  flinger,               \* AudioFlinger: senders_ and the format to send in
  recorded,              \* the frame DataIsRecorded is about to send, if any
  crashed,               \* something undefined was done, or a DCHECK failed
  attached               \* the sinks that were added and not removed

streamVars == <<stream, stream_runner>>
workerVars == <<audio_send_streams, sink_count, updating, attached>>
senderVars == <<audio_stream_senders, sender_sinks>>

vars == <<workerVars, streamVars, senderVars, transport_runner, flinger, recorded, crashed>>

\* FDKAACEncoder.  fed: it keeps samples for which it gave nothing.
Encoder == [made : BOOLEAN, ready : BOOLEAN, fed : BOOLEAN]

Stream ==
  [alive : BOOLEAN,
   sender : SenderAddrs \cup {NoSender},   \* audio_stream_sender_
   shape : Shape,               \* samples_per_channel_, sample_rate_hz_, num_channels_
   reconfigure : BOOLEAN,       \* pending_reconfigure_encoder_
   encoder : Encoder]           \* audio_encoder_

FrameTask == [what : {"SendAudioData"}, shape : Shape]
StreamTask == FrameTask \cup [what : {"OnEncoded"}]
SenderTask ==
  [what : {"AddAudioSink", "RemoveAudioSink"}, to : SenderAddrs, sink : Sinks]
    \cup [what : {"OnFrame"}, to : SenderAddrs]

ConfiguredShape == [samples |-> 1024, format |-> Configured]

\* audio_encoder_ is null.
NoEncoder == [made |-> FALSE, ready |-> FALSE, fed |-> FALSE]

Running == ~crashed

-----------------------------------------------------------------------------
(* The worker.                                                              *)

Senders == DOMAIN audio_stream_senders

Live(a) == \E i \in Senders : audio_stream_senders[i].addr = a

\* What find_if finds for a codec: its first sender in the list.
Found(c) ==
  {i \in Senders : /\ audio_stream_senders[i].codec = c
                   /\ \A j \in Senders : audio_stream_senders[j].codec = c => i <= j}

\* GetAudioStreamSender: the codec's sender, made at any free address when there
\* is none, and the list with it.
GetAudioStreamSender(c) ==
  {[addr |-> audio_stream_senders[i].addr, list |-> audio_stream_senders] : i \in Found(c)}
  \cup (IF Found(c) # {} THEN {}
        ELSE {[addr |-> a, list |-> Append(audio_stream_senders, [codec |-> c, addr |-> a])]
                : a \in {b \in SenderAddrs : ~Live(b)}})

\* A stream after ConfigureEncoder; nothing has set pending_reconfigure_encoder_.
NewStreams(sender) ==
  {[alive |-> TRUE, sender |-> sender, shape |-> ConfiguredShape,
    reconfigure |-> pending, encoder |-> NoEncoder] : pending \in BOOLEAN}

SinkTask(what, a, k) == [what |-> what, to |-> a, sink |-> k]

\* The bounds.
SinkTasks == {n \in DOMAIN transport_runner : transport_runner[n].what # "OnFrame"}
PacketsOf(a) ==
  {n \in DOMAIN transport_runner :
     transport_runner[n].what = "OnFrame" /\ transport_runner[n].to = a}
FramesOn(c) == {n \in DOMAIN stream_runner[c] : stream_runner[c][n].what = "SendAudioData"}

\* sink_count once another sink is added.
CountWith(c) == [sink_count EXCEPT ![c] = IF c \in audio_send_streams THEN @ + 1 ELSE 1]

\* The caller adds a sink once (AVE_CHECK in MediaService::AddEncodedAudioSink).
AddEncodedAudioSink(k, c) ==
  /\ Running /\ ~updating
  /\ \A d \in Codecs : k \notin attached[d]
  /\ Cardinality(SinkTasks) < MaxCalls
  /\ \E sender \in GetAudioStreamSender(c) :
       /\ audio_stream_senders' = sender.list
       /\ sender_sinks' =
            [sender_sinks EXCEPT ![sender.addr] = IF Live(sender.addr) THEN @ ELSE {}]
       /\ transport_runner' =
            Append(transport_runner, SinkTask("AddAudioSink", sender.addr, k))
       /\ IF c \in audio_send_streams THEN UNCHANGED stream
          ELSE \E s \in NewStreams(sender.addr) : stream' = [stream EXCEPT ![c] = s]
  /\ audio_send_streams' = audio_send_streams \cup {c}
  /\ sink_count' = CountWith(c)
  /\ attached' = [attached EXCEPT ![c] = @ \cup {k}]
  /\ updating' = TRUE
  /\ UNCHANGED <<stream_runner, flinger, recorded, crashed>>

\* Mutant: the last sender of the list is not asked.
LeavesLastSender(k) ==
  [i \in 1..(Len(audio_stream_senders) - 1) |->
     SinkTask("RemoveAudioSink", audio_stream_senders[i].addr, k)]

\* RemoveAudioSenderSink: every sender is asked.
RemoveAudioSenderSink(k) ==
  [i \in Senders |->
     SinkTask("RemoveAudioSink", audio_stream_senders[i].addr, k)]

\* Mutant: only the list of streams forgets the codec.
KeepsAudioStreamSender(c) == {audio_stream_senders}

RemoveAudioStreamSender(c) ==
  {RemoveAt(audio_stream_senders, i) : i \in Found(c)}
  \cup (IF Found(c) # {} THEN {} ELSE {audio_stream_senders})

\* The last sink of a codec takes its sender and its stream with it; the sender
\* is destroyed here, with tasks for it on the transport runner.
RemoveEncodedAudioSink(k, c) ==
  /\ Running /\ ~updating
  /\ k \in attached[c]
  /\ Cardinality(SinkTasks) < MaxCalls
  /\ sink_count' = [sink_count EXCEPT ![c] = @ - 1]
  /\ transport_runner' = transport_runner \o RemoveAudioSenderSink(k)
  /\ IF sink_count[c] = 1
     THEN /\ audio_stream_senders' \in RemoveAudioStreamSender(c)
          /\ audio_send_streams' = audio_send_streams \ {c}
     ELSE UNCHANGED <<audio_stream_senders, audio_send_streams>>
  /\ attached' = [attached EXCEPT ![c] = @ \ {k}]
  /\ updating' = TRUE
  /\ UNCHANGED <<streamVars, sender_sinks, flinger, recorded, crashed>>

NoStream ==
  [alive |-> FALSE, sender |-> NoSender, shape |-> ConfiguredShape,
   reconfigure |-> FALSE, encoder |-> NoEncoder]

\* UpdateSender: the streams of the list, and the format that has the most of any
\* of them.  A stream the flinger held and the list does not is destroyed, its
\* encoder before its runner: a task that is being executed then is left with a
\* dead encoder.
UpdateSender ==
  /\ Running /\ updating
  /\ flinger' = [senders |-> audio_send_streams,
                 format |-> Max({0} \cup {stream[c].shape.format : c \in audio_send_streams})]
  /\ LET dropped == flinger.senders \ audio_send_streams
     IN  /\ stream' = [c \in Codecs |-> IF c \in dropped THEN NoStream ELSE stream[c]]
         /\ stream_runner' =
              [c \in Codecs |-> IF c \in dropped THEN <<>> ELSE stream_runner[c]]
         /\ crashed' \in {FALSE, \E c \in dropped : stream_runner[c] # <<>>}
  /\ updating' = FALSE
  /\ UNCHANGED <<audio_send_streams, sink_count, attached, senderVars, transport_runner,
                 recorded>>

-----------------------------------------------------------------------------
(* The capture thread.                                                      *)

\* DataIsRecorded, under the lock and then without it.
DataIsRecorded ==
  /\ Running
  /\ recorded = <<>>
  /\ recorded' = <<[samples |-> Captured, format |-> flinger.format]>>
  /\ UNCHANGED <<workerVars, streamVars, senderVars, transport_runner, flinger, crashed>>

\* Mutant: the first stream gets no frame.
SendsCopies(senders) == IF senders = {} THEN {} ELSE senders \ {CHOOSE c \in senders : TRUE}

\* Copies to every stream but the first, and to the first the frame itself.
SendsTo(senders) == senders

\* SendFrame, under the lock again.
SendFrame ==
  /\ Running
  /\ recorded # <<>>
  /\ \A c \in flinger.senders : Cardinality(FramesOn(c)) < MaxFrames
  /\ stream_runner' =
       [c \in Codecs |->
          IF c \in SendsTo(flinger.senders)
          THEN Append(stream_runner[c], [what |-> "SendAudioData", shape |-> recorded[1]])
          ELSE stream_runner[c]]
  /\ recorded' = <<>>
  /\ UNCHANGED <<workerVars, stream, senderVars, transport_runner, flinger, crashed>>

-----------------------------------------------------------------------------
(* A stream's runner.                                                       *)

\* InitEncoder: no channels are refused; nobody looks at the answer.
InitEncoder(e, shape) ==
  {[e EXCEPT !.made = TRUE, !.ready = ok]
     : ok \in CASE shape.format = 0 -> {FALSE}
                [] shape.format = Configured -> {TRUE}
                [] OTHER -> BOOLEAN}

\* MaybeEncodeAudioFrame up to EncodeAudioFrame: a frame that is not like the one
\* before it, or the pending flag, has the encoder made or set again.
Reconfigured(s, frame) ==
  IF s.reconfigure \/ s.shape # frame
  THEN {[s EXCEPT !.shape = frame, !.reconfigure = FALSE, !.encoder = e]
          : e \in InitEncoder(s.encoder, frame)}
  ELSE {s}

\* Encode: one packet at most.
Encoded(e) ==
  IF ~e.made THEN {[encoder |-> e, packet |-> FALSE]}
  ELSE {[encoder |-> [e EXCEPT !.fed = FALSE], packet |-> TRUE]}
       \cup (IF e.ready /\ e.fed THEN {}
             ELSE {[encoder |-> [e EXCEPT !.fed = TRUE], packet |-> FALSE]})

Takes(c, what) ==
  /\ Running
  /\ stream_runner[c] # <<>>
  /\ Head(stream_runner[c]).what = what

\* No factory, no encoder: AVE_DCHECK(audio_encoder_), and a call through it.
EncoderMissing(c) ==
  /\ Takes(c, "SendAudioData")
  /\ c \notin Encodable
  /\ stream[c].reconfigure \/ stream[c].shape # Head(stream_runner[c]).shape
  /\ crashed' = TRUE
  /\ UNCHANGED <<workerVars, streamVars, senderVars, transport_runner, flinger, recorded>>

\* MaybeEncodeAudioFrame; the packet is posted to the stream's own runner.
RunSendAudioData(c) ==
  /\ Takes(c, "SendAudioData")
  /\ c \in Encodable \/ ~(stream[c].reconfigure \/ stream[c].shape # Head(stream_runner[c]).shape)
  /\ \E s \in Reconfigured(stream[c], Head(stream_runner[c]).shape) :
       \E end \in Encoded(s.encoder) :
         /\ stream' = [stream EXCEPT ![c] = [s EXCEPT !.encoder = end.encoder]]
         /\ stream_runner' = [stream_runner EXCEPT ![c] =
              Tail(@) \o (IF end.packet THEN <<[what |-> "OnEncoded"]>> ELSE <<>>)]
  /\ UNCHANGED <<workerVars, senderVars, transport_runner, flinger, recorded, crashed>>

\* The packet goes to the sender the stream was made with, dead or alive, which
\* posts it.  What a dead one does is undefined.
RunOnEncoded(c) ==
  /\ Takes(c, "OnEncoded")
  /\ LET a == stream[c].sender
     IN  /\ Cardinality(PacketsOf(a)) < MaxFrames
         /\ transport_runner' = Append(transport_runner, [what |-> "OnFrame", to |-> a])
         /\ crashed' \in {FALSE, ~Live(a)}
  /\ stream_runner' = [stream_runner EXCEPT ![c] = Tail(@)]
  /\ UNCHANGED <<workerVars, stream, senderVars, flinger, recorded>>

-----------------------------------------------------------------------------
(* The transport runner.                                                    *)

\* sinks_ after a task: a sink is added and removed once.
SinksAfter(sinks, task) ==
  CASE task.what = "AddAudioSink" -> sinks \cup {task.sink}
    [] task.what = "RemoveAudioSink" -> sinks \ {task.sink}
    [] OTHER -> sinks

\* The task of a dead sender reads and writes what was one.
TransportRuns ==
  /\ Running
  /\ transport_runner # <<>>
  /\ LET task == Head(transport_runner)
     IN  IF Live(task.to)
         THEN /\ sender_sinks' =
                   [sender_sinks EXCEPT ![task.to] = SinksAfter(@, task)]
              /\ UNCHANGED crashed
         ELSE crashed' \in BOOLEAN /\ UNCHANGED sender_sinks
  /\ transport_runner' = Tail(transport_runner)
  /\ UNCHANGED <<workerVars, streamVars, audio_stream_senders, flinger, recorded>>

-----------------------------------------------------------------------------
\* The constructor of the worker has the recording started; the flinger's format
\* is what the memory held.
Init ==
  /\ audio_send_streams = {}
  /\ sink_count = [c \in Codecs |-> 0]
  /\ updating = FALSE
  /\ stream = [c \in Codecs |-> NoStream]
  /\ stream_runner = [c \in Codecs |-> <<>>]
  /\ audio_stream_senders = <<>>
  /\ sender_sinks = [a \in SenderAddrs |-> {}]
  /\ transport_runner = <<>>
  /\ \E f \in Formats : flinger = [senders |-> {}, format |-> f]
  /\ recorded = <<>>
  /\ crashed = FALSE
  /\ attached = [c \in Codecs |-> {}]

StreamRuns(c) == EncoderMissing(c) \/ RunSendAudioData(c) \/ RunOnEncoded(c)

Next ==
  \/ \E k \in Sinks, c \in Codecs : AddEncodedAudioSink(k, c) \/ RemoveEncodedAudioSink(k, c)
  \/ UpdateSender
  \/ DataIsRecorded
  \/ SendFrame
  \/ \E c \in Codecs : StreamRuns(c)
  \/ TransportRuns

\* The worker ends its task, the capture thread goes on, runners take their tasks.
Fairness ==
  /\ WF_vars(UpdateSender)
  /\ WF_vars(DataIsRecorded \/ SendFrame)
  /\ \A c \in Codecs : WF_vars(StreamRuns(c))
  /\ WF_vars(TransportRuns)

Spec == Init /\ [][Next]_vars /\ Fairness

-----------------------------------------------------------------------------
(* Properties.                                                              *)

TypeOK ==
  /\ audio_send_streams \subseteq Codecs
  /\ sink_count \in [Codecs -> Nat]
  /\ updating \in BOOLEAN
  /\ stream \in [Codecs -> Stream]
  /\ stream_runner \in [Codecs -> Seq(StreamTask)]
  /\ audio_stream_senders \in Seq([codec : Codecs, addr : SenderAddrs])
  /\ sender_sinks \in [SenderAddrs -> SUBSET Sinks]
  /\ transport_runner \in Seq(SenderTask)
  /\ flinger \in [senders : SUBSET Codecs, format : Formats]
  /\ recorded \in Seq(Shape) /\ Len(recorded) <= 1
  /\ crashed \in BOOLEAN
  /\ attached \in [Codecs -> SUBSET Sinks]

\* The lists of the worker, of the transport and of the flinger stay in step: a
\* codec has a stream exactly while a sink of it is attached, the stream's sender
\* is the one live sender of the codec, and the flinger sends to the streams of
\* the list, but for the moment until it is told (hybird_worker.cc:165-231).
ListsInStep ==
  /\ \A c \in Codecs :
       /\ c \in audio_send_streams <=> attached[c] # {}
       /\ sink_count[c] = Cardinality(attached[c])
       /\ c \in audio_send_streams =>
            /\ stream[c].alive
            /\ \E i \in Senders : audio_stream_senders[i] = [codec |-> c, addr |-> stream[c].sender]
  /\ \A i \in Senders : audio_stream_senders[i].codec \in audio_send_streams
  /\ \A i, j \in Senders :
       (audio_stream_senders[i].codec = audio_stream_senders[j].codec
          \/ audio_stream_senders[i].addr = audio_stream_senders[j].addr) => i = j
  /\ ~updating => flinger.senders = audio_send_streams
  /\ \A c \in flinger.senders : stream[c].alive

\* The tasks about a sink of the sender at a.
About(a, k) ==
  {n \in DOMAIN transport_runner :
     /\ transport_runner[n].what # "OnFrame"
     /\ transport_runner[n].to = a
     /\ transport_runner[n].sink = k}

\* Once the transport runner has executed what was posted for it, a sender has the
\* sinks that are attached to its codec, and no others: also when it lives where
\* another one died with its tasks still waiting (media_transport.cc:92-112,
\* audio_stream_sender.cc:31-68).  A removal asks every sender, and finds the sink
\* in its own only: the others warn and go on.  The FIXME in MediaTransport's
\* removal says that its sink is not the one the sender has.  It is: MediaService
\* keeps the wrapper it posted to add a sink and posts the same one to remove it
\* (media_service.cc:126-131, 145-154), and wrappers are what Sinks stands for.
SinksFollow ==
  \A i \in Senders, k \in Sinks :
    LET sender == audio_stream_senders[i]
        about == About(sender.addr, k)
    IN  /\ about = {} => (k \in sender_sinks[sender.addr] <=> k \in attached[sender.codec])
        /\ \A n \in about : (\A m \in about : m <= n) =>
             (transport_runner[n].what = "AddAudioSink" <=> k \in attached[sender.codec])

\* A packet of codec c is handed to sink k.
Delivers(k, c) ==
  /\ TransportRuns
  /\ Head(transport_runner).what = "OnFrame"
  /\ \E i \in Senders : audio_stream_senders[i] = [codec |-> c, addr |-> Head(transport_runner).to]
  /\ k \in sender_sinks[Head(transport_runner).to]

\* A sink that stays attached keeps getting packets, while others come and go, as
\* long as the flinger sends in the configured format (audio_flinger.cc:79-107).
KeepsSounding ==
  \A k \in Sinks, c \in Encodable :
    <>[](k \in attached[c] /\ flinger.format = Configured /\ ~crashed)
      => []<><<Delivers(k, c)>>_vars
=============================================================================
