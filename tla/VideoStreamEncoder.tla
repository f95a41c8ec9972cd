------------------------ MODULE VideoStreamEncoder ------------------------
(***************************************************************************)
(* The encoder behind one VideoSendStream (media/video/video_send_stream.cc):*)
(* VideoStreamEncoder (media/video/video_stream_encoder.cc), with its own  *)
(* task runner, over OpenH264Encoder                                       *)
(* (modules/video_coding/codecs/h264/openh264_encoder.cc).                 *)
(*                                                                         *)
(* Three threads post to the runner: the worker, which constructs the      *)
(* stream (SetSource, then ConfigureEncoder, once) and asks for key frames,*)
(* and the source's, which delivers a frame whenever it has one from the   *)
(* moment SetSource returns.  The runner executes one task at a time, in   *)
(* order.  libopenh264 is external.                                        *)
(*                                                                         *)
(* A frame may be executed before the configuration.  It then fails an     *)
(* AVE_DCHECK, which ends the process or, in a build without it, is passed *)
(* over: a choice.                                                         *)
(***************************************************************************)
EXTENDS Naturals, Sequences

CONSTANTS
  Infos,          \* what VideoFrameInfo tells apart: size and buffer type
  NoInfo,         \* no VideoFrameInfo
  Configs,        \* the encoder configurations a client may ask for
  FaultSets,      \* which of Faults may happen, in one behaviour
  MaxTasks        \* bound: tasks on the runner

Codecs == {"H264", "other", "none"}   \* "other" has a case in the switch

\* "create": WelsCreateSVCEncoder; "initialize": InitializeExt; "convert": ToI420;
\* "encode": EncodeFrame; "skip": the rate control codes nothing.
Faults == {"create", "initialize", "convert", "encode", "skip"}

Config == [codec : Codecs, min_bitrate : Nat]
DefaultConfig == [codec |-> "none", min_bitrate |-> 0]

ASSUME EncoderAssumption ==
  /\ NoInfo \notin Infos
  /\ Configs \subseteq Config
  /\ \A config \in Configs : config.min_bitrate > 0   \* min_kbps, conductor.cc:109
  /\ FaultSets \subseteq SUBSET Faults
  /\ MaxTasks \in Nat

VARIABLES
  faults,         \* the faults this behaviour may show
  asked,          \* the configuration the stream is constructed with
  built,          \* how far the VideoSendStream constructor is
  runner,         \* encoder_runner_: the queue of posted tasks
  vse,            \* the members of VideoStreamEncoder, see State
  image,          \* what the task last executed gave to the sink
  owed,           \* no image has been a key frame since the start or since a
                  \* request for one
  crashed         \* a failed check has ended the process

vars == <<faults, asked, built, runner, vse, image, owed, crashed>>

\* OpenH264Encoder: absent (no object), empty (no native encoder), made
\* (WelsCreateSVCEncoder) or ready (InitializeExt).  intra is the native
\* encoder's mark that the next picture is to be coded as a key frame.
Encoder ==
  [stage : {"absent", "empty", "made", "ready"}, size : Infos \cup {NoInfo},
   sending : BOOLEAN, key_request : BOOLEAN, callback : BOOLEAN, intra : BOOLEAN]

NoEncoder == [stage |-> "absent", size |-> NoInfo, sending |-> TRUE,
              key_request |-> FALSE, callback |-> FALSE, intra |-> FALSE]
NewEncoder == [NoEncoder EXCEPT !.stage = "empty"]

State ==
  [encoder : Encoder,
   initialized : BOOLEAN,          \* encoder_initialized_
   reconfigure : BOOLEAN,          \* pending_encoder_reconfiguration_
   creation : BOOLEAN,             \* pending_encoder_creation_
   last : Infos \cup {NoInfo},     \* last_frame_info_
   payload : {0, 10000},           \* max_data_payload_length_
   config : Config]                \* encoder_config_

Image == [size : Infos, frame : Infos, key : BOOLEAN]
NoImage == [size |-> NoInfo, frame |-> NoInfo, key |-> FALSE]

FrameTask == [what : {"OnFrame"}, info : Infos]
PlainTask == [what : {"ConfigureEncoder", "SendKeyFrame"}]
Task == FrameTask \cup PlainTask

\* What an operation can end with besides, when the fault may happen.
OnFault(fault, ends) == IF fault \in faults THEN ends ELSE {}

-----------------------------------------------------------------------------
(* OpenH264Encoder.                                                         *)

\* Mutant: a stream that starts to be sent does not ask for a key frame.
StartsSilently(e, send) == [e EXCEPT !.sending = send]

\* LayerConfig::SetStreamState
SetStreamState(e, send) ==
  [e EXCEPT !.key_request = @ \/ (send /\ ~e.sending), !.sending = send]

Made(e, info) == [e EXCEPT !.stage = "made", !.size = info, !.sending = FALSE]

\* InitEncoder.  Release() has nothing in it: a native encoder that was made and
\* could not be initialized stays.
InitEncoder(e, config, info) ==
  IF config.codec # "H264" THEN {[encoder |-> e, ok |-> FALSE]}
  ELSE {[encoder |-> SetStreamState([Made(e, info) EXCEPT !.stage = "ready"], TRUE),
         ok |-> TRUE]}
       \cup OnFault("create", {[encoder |-> e, ok |-> FALSE]})
       \cup OnFault("initialize", {[encoder |-> Made(e, info), ok |-> FALSE]})

RequestKeyFrame(e) ==
  IF e.stage \in {"made", "ready"} THEN [e EXCEPT !.intra = TRUE] ELSE e

\* Encode up to EncodeFrame: what is requested is passed on, once.
PassRequest(e) ==
  IF e.key_request /\ e.sending
  THEN [e EXCEPT !.intra = TRUE, !.key_request = FALSE] ELSE e

\* EncodeFrame codes the picture, as a key frame when it was forced to or when
\* its own interval is over; a picture it does not code leaves the mark.  The
\* first picture of an encoder is not assumed to be a key frame by itself.
Coded(e, info) ==
  {[encoder |-> [e EXCEPT !.intra = FALSE],
    image |-> [size |-> e.size, frame |-> info, key |-> key]]
     : key \in {e.intra, TRUE}}

Uncoded(e) == {[encoder |-> e, image |-> NoImage]}

Encode(e, info) ==
  IF e.stage \in {"absent", "empty"} \/ ~e.callback THEN Uncoded(e)
  ELSE Coded(PassRequest(e), info)
       \cup OnFault("convert", Uncoded(e))
       \cup OnFault("encode", Uncoded(PassRequest(e)))
       \cup OnFault("skip", Uncoded(PassRequest(e)))

-----------------------------------------------------------------------------
(* VideoStreamEncoder, on its runner.  An operation maps the members to the *)
(* set of those it can end with.                                            *)

\* SetupVideoCodecProperity: AVE_DCHECK_GT(min_bitrate_kbps, 0), and a switch
\* over the codecs it knows.
SetupCheckPasses(s) == s.config.min_bitrate > 0
SetupKnows(s) == s.config.codec # "none"

\* Mutant: the callback is registered whatever InitEncoder returned.
RegistersAlways(s, end) ==
  [s EXCEPT !.encoder = [end.encoder EXCEPT !.callback = TRUE],
            !.initialized = end.ok]

\* ReleaseEncoder on failure returns at once, encoder_initialized_ being false.
Registered(s, end) ==
  IF end.ok
  THEN [s EXCEPT !.encoder = [end.encoder EXCEPT !.callback = TRUE],
                 !.initialized = TRUE]
  ELSE [s EXCEPT !.encoder = end.encoder]

Created(s) ==
  [s EXCEPT !.encoder = NewEncoder, !.creation = FALSE, !.reconfigure = FALSE]

\* Mutant: the reconfiguration counts as done without an encoder made for it.
ClearsAlways(s) ==
  LET c == IF s.creation THEN Created(s) ELSE [s EXCEPT !.reconfigure = FALSE]
  IN IF ~SetupKnows(c) \/ ~s.creation THEN {c}
     ELSE {Registered(c, end) : end \in InitEncoder(c.encoder, c.config, c.last)}

\* Only an encoder made by this call is initialized by it.
ReConfigureEncoder(s) ==
  LET c == IF s.creation THEN Created(s) ELSE s
  IN IF ~SetupKnows(c) \/ ~s.creation THEN {c}
     ELSE {Registered(c, end) : end \in InitEncoder(c.encoder, c.config, c.last)}

\* Mutant: the payload length is stored before it is compared.
ComparesTooLate(s, config) ==
  LET c == [s EXCEPT !.creation = FALSE, !.config = config, !.payload = 10000,
                     !.reconfigure = TRUE]
  IN IF c.last # NoInfo THEN ReConfigureEncoder(c) ELSE {c}

\* Mutant: the configuration is dropped.
DropsConfiguration(s, config) ==
  LET c == [s EXCEPT !.creation = s.encoder.stage = "absent" \/ s.payload # 10000,
                     !.payload = 10000, !.reconfigure = TRUE]
  IN IF c.last # NoInfo THEN ReConfigureEncoder(c) ELSE {c}

\* What is asked for passes SetupVideoCodecProperity's check.
ConfigureEncoder(s, config) ==
  LET c == [s EXCEPT !.creation = s.encoder.stage = "absent" \/ s.payload # 10000,
                     !.config = config, !.payload = 10000, !.reconfigure = TRUE]
  IN IF c.last # NoInfo THEN ReConfigureEncoder(c) ELSE {c}

NoteInfo(s, info) ==
  IF s.last = info THEN s ELSE [s EXCEPT !.last = info, !.reconfigure = TRUE]

\* MaybeEncodeVideoFrame before EncodeVideoFrame.
PrepareForFrame(s, info) ==
  LET n == NoteInfo(s, info)
  IN IF n.reconfigure THEN ReConfigureEncoder(n) ELSE {n}

-----------------------------------------------------------------------------
(* The threads.                                                             *)

Post(task) == ~crashed /\ runner' = Append(runner, task)

\* VideoSendStream::VideoSendStream
SetSource ==
  /\ ~crashed
  /\ built = "new"
  /\ built' = "source"
  /\ UNCHANGED <<faults, asked, runner, vse, image, owed, crashed>>

PostConfigure ==
  /\ built = "source"
  /\ built' = "configured"
  /\ Post([what |-> "ConfigureEncoder"])
  /\ UNCHANGED <<faults, asked, vse, image, owed, crashed>>

PostKeyFrame ==
  /\ built = "configured"
  /\ Len(runner) < MaxTasks
  /\ Post([what |-> "SendKeyFrame"])
  /\ UNCHANGED <<faults, asked, built, vse, image, owed, crashed>>

\* OnFrame, on the source's thread.
PostFrame(info) ==
  /\ built # "new"
  /\ Len(runner) < MaxTasks
  /\ Post([what |-> "OnFrame", info |-> info])
  /\ UNCHANGED <<faults, asked, built, vse, image, owed, crashed>>

Take(what) ==
  /\ ~crashed
  /\ runner # <<>>
  /\ Head(runner).what = what
  /\ runner' = Tail(runner)
  /\ UNCHANGED <<faults, asked, built>>

TakeConfigure ==
  /\ Take("ConfigureEncoder")
  /\ vse' \in ConfigureEncoder(vse, asked)
  /\ image' = NoImage
  /\ UNCHANGED <<owed, crashed>>

\* A request that finds no encoder is dropped.
TakeKeyFrame ==
  /\ Take("SendKeyFrame")
  /\ vse' = [vse EXCEPT !.encoder = RequestKeyFrame(@)]
  /\ image' = NoImage
  /\ owed' = TRUE
  /\ UNCHANGED crashed

\* The process ends at SetupVideoCodecProperity's check.
FrameFailsCheck ==
  /\ Take("OnFrame")
  /\ LET noted == NoteInfo(vse, Head(runner).info)
     IN noted.reconfigure /\ ~SetupCheckPasses(noted)
  /\ crashed' = TRUE
  /\ UNCHANGED <<vse, image, owed>>

\* The check holds or is passed over.
TakeFrame ==
  /\ Take("OnFrame")
  /\ LET info == Head(runner).info
     IN \E s \in PrepareForFrame(vse, info) : \E end \in Encode(s.encoder, info) :
          /\ vse' = [s EXCEPT !.encoder = end.encoder]
          /\ image' = end.image
          /\ owed' = (owed /\ ~end.image.key)
  /\ UNCHANGED crashed

Init ==
  /\ faults \in FaultSets
  /\ asked \in Configs
  /\ built = "new"
  /\ runner = <<>>
  /\ vse = [encoder |-> NoEncoder, initialized |-> FALSE, reconfigure |-> FALSE,
            creation |-> FALSE, last |-> NoInfo, payload |-> 0,
            config |-> DefaultConfig]
  /\ image = NoImage
  /\ owed = TRUE
  /\ crashed = FALSE

Construct == SetSource \/ PostConfigure
RunnerTakes == TakeConfigure \/ TakeKeyFrame \/ FrameFailsCheck \/ TakeFrame

Next ==
  \/ Construct
  \/ PostKeyFrame
  \/ \E info \in Infos : PostFrame(info)
  \/ RunnerTakes

\* The constructor runs to its end and the runner executes what is posted.
Fairness == WF_vars(Construct) /\ WF_vars(RunnerTakes)

Spec == Init /\ [][Next]_vars /\ Fairness

-----------------------------------------------------------------------------
(* Properties.                                                              *)

TypeOK ==
  /\ faults \in FaultSets
  /\ asked \in Configs
  /\ built \in {"new", "source", "configured"}
  /\ runner \in Seq(Task)
  /\ vse \in State
  /\ image \in Image \cup {NoImage}
  /\ owed \in BOOLEAN
  /\ crashed \in BOOLEAN

\* Whatever fails and in whatever order frames and the configuration arrive,
\* a picture is handed to the native encoder (Encode asks for the callback only)
\* only when that has been initialized for a known size, and
\* encoder_initialized_ says the same.
EncodesOnlyInitialized ==
  /\ vse.encoder.callback => vse.encoder.stage = "ready"
  /\ vse.encoder.stage = "ready" => vse.encoder.size # NoInfo
  /\ vse.initialized <=> vse.encoder.callback

\* An encoder set up for other frames than those that now arrive is known to be:
\* a reconfiguration is pending, although this code never carries it out.
MismatchIsPending ==
  vse.encoder.stage = "ready" /\ vse.encoder.size # vse.last => vse.reconfigure

\* The first image that reaches the sink is a key frame, and so is the next one
\* after each key frame request, also when frames were lost in between and when
\* the request came before there was an encoder and was dropped.
KeyFrameNext ==
  [][image' # image /\ image' # NoImage /\ owed => image'.key]_vars

\* The code asserts that no frame is set up for before the configuration
\* (AVE_DCHECK_GT(video_encoder_config.min_bitrate_kbps, 0), video_stream_helper.cc:92).
\* It is not always so, since the stream is given its source first
\* (video_send_stream.cc:32-35); but only such a frame fails the check: once
\* ConfigureEncoder has been executed, whatever follows it and whatever came before, the
\* process does not end there.
OnlyEarlyFramesFail == crashed => vse.payload = 0

\* When nothing fails and the source keeps delivering, H.264 images reach the sink: in
\* a process that did not end at the check, because the configuration was first or
\* because its build passes the check over, in which case a frame that was first did
\* no harm.
EncodingStarts ==
  []~crashed /\ faults = {} /\ asked.codec = "H264"
    /\ []<><<\E info \in Infos : PostFrame(info)>>_vars
      => []<>(image # NoImage)
=============================================================================
