---------------------------- MODULE AudioPlayout ----------------------------
(***************************************************************************)
(* The playout side of the audio device and its mixers: DefaultAudioDevice *)
(* (api/audio/default_audio_device.cc) over AudioDeviceBuffer              *)
(* (modules/audio_device/audio_device_buffer.cc) and AudioDeviceLinuxALSA  *)
(* (modules/audio_device/linux/audio_device_alsa_linux.cc), with           *)
(* AudioMixer and AudioDeviceList.  AudioCapture is the recording side;    *)
(* here nothing records, and the input device is the one of index 0.       *)
(*                                                                         *)
(* One control thread calls the operations; each StartPlayout makes a play *)
(* thread that runs PlayThreadProcess until it reads _playing false, and   *)
(* that nothing waits for.  What runs under mutex_ is one step; what runs  *)
(* outside it is a step of its own.                                        *)
(***************************************************************************)
EXTENDS AudioMixer, AudioDeviceList

CONSTANTS
  Machines,       \* the sound hardware: the channel counts it plays, the PCM
                  \* calls that may fail, its cards, and its two mixers
  Frames,         \* frames in 10 ms (_playoutFreq / 100)
  Threads         \* bound: play threads alive at the same time

ASSUME AudioPlayoutAssumption ==
  /\ \A m \in Machines :
       /\ m.modes \subseteq {1, 2}
       /\ m.failures \subseteq {"open", "params", "write"}
       /\ m.speaker \in Hardware(SpeakerElements)
       /\ m.microphone \in Hardware(MicrophoneElements)
       /\ m.cards \in Seq([hinted : BOOLEAN, hints : Seq(Hints)])
  /\ Frames \in Nat \ {0}

VARIABLES
  machine,        \* the hardware this runs on
  initialized,    \* DefaultAudioDevice::initialized_ (not set by its constructor)
  loaded,         \* libasound's symbols have been loaded
  dev,            \* the device's playout state, see Device
  speaker,        \* the mixer manager's output mixer
  microphone,     \* and its input mixer
  buffer,         \* AudioDeviceBuffer, see Buffer
  control,        \* where the control thread is in the operation it runs
  answer,         \* what the last question was answered, see AudioMixer
  threads,        \* the play threads
  crashed         \* the undefined operation or failed DCHECK, if any

system == <<machine, initialized, loaded>>
mixers == <<speaker, microphone>>

vars == <<system, dev, mixers, buffer, control, answer, threads, crashed>>

\* handle is _handlePlayout.  size and block are in units of Frames samples: the
\* channels of a 10 ms block.
Device ==
  [specified : BOOLEAN,             \* _outputDeviceIsSpecified
   named     : BOOLEAN,             \* GetDevicesInfo has a name for _outputDeviceIndex
   ready     : BOOLEAN,             \* _playIsInitialized
   playing   : BOOLEAN,             \* _playing
   channels  : {1, 2},              \* _playChannels
   handle    : {"null", "open", "dangling"},
   pcms      : Nat,                 \* PCM handles libasound has open
   timed     : BOOLEAN,             \* _playoutFramesIn10MS is not 0
   size      : 0..2,                \* _playoutBufferSizeIn10MS
   block     : 0..2,                \* what _playoutBuffer points to, 0 if null
   left      : 0..Frames]           \* _playoutFramesLeft

Buffer ==
  [playing  : BOOLEAN,              \* playing_
   channels : 0..2,                 \* play_channels_
   size     : 0..2]                 \* play_buffer_.size()

Controls == {"idle", "allocate", "thread", "prepare", "cancel", "stereo"}
ThreadPCs == {"none", "check", "lock", "wait", "request", "relock"}

-----------------------------------------------------------------------------
(* The device, under mutex_.  Each operation maps what it works on to the   *)
(* set of [dev, speaker, buffer, ok] it can end with.                       *)

May(call) == IF call \in machine.failures THEN BOOLEAN ELSE {TRUE}

Work == [dev |-> dev, speaker |-> speaker, buffer |-> buffer, ok |-> TRUE]

Ends(w, ok) == {[w EXCEPT !.ok = ok]}

\* InitSpeakerLocked: "devices might have been added or removed".  A failure is
\* logged.
InitSpeakerLocked(w) ==
  IF w.dev.playing THEN {w}
  ELSE {[w EXCEPT !.speaker = end.mixer]
          : end \in OpenSpeaker(machine.speaker, w.speaker, w.dev.named)}

\* "Start by closing any existing wave-output devices"
CloseExisting(w) ==
  IF w.dev.handle = "null" THEN w
  ELSE [w EXCEPT !.dev.handle = "null", !.dev.pcms = @ - 1, !.dev.ready = FALSE]

\* Mutant: the device that cannot be set is forgotten without being closed.
LosesUnset(w) == [w EXCEPT !.dev.timed = FALSE, !.dev.pcms = @ + 1, !.ok = FALSE]

\* A device that cannot be set is closed.  There is no other number of channels
\* to fall back on.
Unset(w) == [w EXCEPT !.dev.timed = FALSE, !.ok = FALSE]

\* Mutant: AudioDeviceBuffer is not told of the channels.
OpenedUntold(w) ==
  [w EXCEPT !.dev.ready = TRUE, !.dev.handle = "open", !.dev.pcms = @ + 1,
            !.dev.timed = TRUE, !.dev.size = w.dev.channels,
            !.buffer.channels = IF @ = 0 THEN w.dev.channels ELSE @, !.ok = TRUE]

\* The parameters are set; they go to AudioDeviceBuffer.
Opened(w) ==
  [w EXCEPT !.dev.ready = TRUE, !.dev.handle = "open", !.dev.pcms = @ + 1,
            !.dev.timed = TRUE, !.dev.size = w.dev.channels,
            !.buffer.channels = w.dev.channels, !.ok = TRUE]

\* A device that is busy is tried again, five times, with mutex_ held; there is
\* no device without a name.
InitPlayoutLocked(w) ==
  IF w.dev.playing \/ ~w.dev.specified THEN Ends(w, FALSE)
  ELSE IF w.dev.ready THEN Ends(w, TRUE)
  ELSE UNION {LET c == CloseExisting(s)
                  sets == w.dev.channels \in machine.modes
              IN UNION {IF ~opens THEN Ends(c, FALSE)
                        ELSE (IF sets THEN {Opened(c)} ELSE {})
                             \cup (IF ~sets \/ "params" \in machine.failures
                                   THEN {Unset(c)} ELSE {})
                        : opens \in IF w.dev.named THEN May("open") ELSE {FALSE}}
              : s \in InitSpeakerLocked(w)}

\* Mutant: _playing is not cleared.
KeepsPlaying(w) ==
  IF ~w.dev.ready THEN [w EXCEPT !.ok = TRUE]
  ELSE [w EXCEPT !.ok = TRUE, !.dev.ready = FALSE, !.dev.left = 0,
                 !.dev.block = 0, !.dev.handle = "null", !.dev.pcms = @ - 1]

\* What snd_pcm_drop and snd_pcm_close return is logged.
StopPlayoutLocked(w) ==
  IF ~w.dev.ready THEN [w EXCEPT !.ok = TRUE]
  ELSE IF w.dev.handle = "null" THEN [w EXCEPT !.ok = FALSE]
  ELSE [w EXCEPT !.ok = TRUE, !.dev.ready = FALSE, !.dev.playing = FALSE,
                 !.dev.left = 0, !.dev.block = 0, !.dev.handle = "null",
                 !.dev.pcms = @ - 1]

\* StartPlayout before its thread: the marks, and the buffer, made once.
Marked(d) == [d EXCEPT !.playing = TRUE, !.left = 0]
Allocated(d) == [d EXCEPT !.block = IF @ = 0 THEN d.size ELSE @]

-----------------------------------------------------------------------------
(* Operations, on the control thread.  An operation before libasound's      *)
(* symbols are loaded fails a DCHECK at its first ALSA call.                *)

Running == crashed = "no"
Idle == Running /\ control = "idle"
Ready == Idle /\ initialized

Becomes(w) == dev' = w.dev /\ speaker' = w.speaker /\ buffer' = w.buffer

NoSymbols ==
  /\ Ready /\ ~loaded
  /\ crashed' = "no symbols"
  /\ UNCHANGED <<system, dev, mixers, buffer, control, answer, threads>>

DeviceInit ==
  /\ Idle
  /\ ~initialized
  /\ \E loads \in BOOLEAN :
       /\ loaded' = (loaded \/ loads)
       /\ initialized' = (loaded \/ loads)
  /\ UNCHANGED <<machine, dev, mixers, buffer, control, answer, threads, crashed>>

\* The mixers are closed; a playout is not stopped.
Terminate ==
  /\ Ready
  /\ initialized' = FALSE
  /\ dev' = [dev EXCEPT !.specified = FALSE]
  /\ speaker' = CloseSpeakerLocked(speaker)
  /\ microphone' = CloseMicrophoneLocked(microphone)
  /\ UNCHANGED <<machine, loaded, buffer, control, answer, threads, crashed>>

SetPlayoutDevice(index) ==
  /\ Ready /\ loaded
  /\ ~dev.ready
  /\ InRange(machine.cards, TRUE, index)
  /\ dev' = [dev EXCEPT !.specified = TRUE,
                        !.named = DeviceAt(machine.cards, TRUE, index) # {}]
  /\ UNCHANGED <<system, mixers, buffer, control, answer, threads, crashed>>

SetStereoPlayout(channels) ==
  /\ Ready
  /\ dev' = [dev EXCEPT !.channels = channels]
  /\ UNCHANGED <<system, mixers, buffer, control, answer, threads, crashed>>

InitPlayout ==
  /\ Ready
  /\ ~dev.ready
  /\ \E end \in InitPlayoutLocked(Work) : Becomes(end)
  /\ UNCHANGED <<system, microphone, control, answer, threads, crashed>>

\* AudioDeviceBuffer
BufferStarts(b) == [b EXCEPT !.playing = TRUE]
BufferStops(b) == [b EXCEPT !.playing = FALSE]

\* The buffer is marked first, and stays so when the device is not ready.
\* Nothing of this is under mutex_.
StartPlayout ==
  /\ Ready
  /\ ~dev.playing
  /\ buffer' = BufferStarts(buffer)
  /\ IF dev.ready
     THEN dev' = Marked(dev) /\ control' = "allocate"
     ELSE UNCHANGED <<dev, control>>
  /\ UNCHANGED <<system, mixers, answer, threads, crashed>>

StartAllocates ==
  /\ Running /\ control = "allocate"
  /\ dev' = Allocated(dev)
  /\ control' = "thread"
  /\ UNCHANGED <<system, mixers, buffer, answer, threads, crashed>>

\* A thread starts at its first look at _playing.
SpawnedThread(ts) ==
  {[ts EXCEPT ![t] = [pc |-> "check", avail |-> 0]]
     : t \in {u \in Threads : ts[u].pc = "none"}}

StartMakesThread ==
  /\ Running /\ control = "thread"
  /\ threads' \in SpawnedThread(threads)
  /\ control' = "prepare"
  /\ UNCHANGED <<system, dev, mixers, buffer, answer, crashed>>

\* snd_pcm_prepare, whose failure is logged.
StartPrepares ==
  /\ Running /\ control = "prepare"
  /\ control' = "idle"
  /\ UNCHANGED <<system, dev, mixers, buffer, answer, threads, crashed>>

StopPlayout ==
  /\ Ready
  /\ dev' = StopPlayoutLocked(Work).dev
  /\ buffer' = BufferStops(buffer)
  /\ UNCHANGED <<system, mixers, control, answer, threads, crashed>>

\* PlayoutIsAvailable: "Try to initialize the playout side with mono".
ProbeMono ==
  /\ Ready
  /\ \E end \in InitPlayoutLocked([Work EXCEPT !.dev.channels = 1]) :
       /\ Becomes(end)
       /\ answer' = Truth(end.ok)
  /\ control' = "cancel"
  /\ UNCHANGED <<system, microphone, threads, crashed>>

\* "Cancel effect of initialization"
ProbeCancels ==
  /\ Running /\ control = "cancel"
  /\ dev' = StopPlayoutLocked(Work).dev
  /\ control' = IF answer = 1 THEN "idle" ELSE "stereo"
  /\ UNCHANGED <<system, mixers, buffer, answer, threads, crashed>>

\* Mutant: a playout that was stopped for the question is not started again.
ForgetsPlayout(w) == [w EXCEPT !.ok = FALSE]

\* StartPlayout in one step, with mutex_ held; ok when it makes a thread.
RestartPlayout(w) ==
  IF ~w.dev.ready \/ w.dev.playing THEN [w EXCEPT !.ok = FALSE]
  ELSE [w EXCEPT !.dev = Allocated(Marked(w.dev)), !.ok = TRUE]

\* StereoPlayoutIsAvailable: stop what there is, try stereo, recover.  Gives the
\* set of [work, answer, spawns].
AskStereo(w) ==
  IF w.dev.ready /\ w.dev.channels = 2
  THEN {[work |-> w, answer |-> 1, spawns |-> FALSE]}
  ELSE LET stopped == IF w.dev.ready THEN StopPlayoutLocked(w) ELSE w
           tried == InitPlayoutLocked([stopped EXCEPT !.dev.channels = 2])
           back(end) == [StopPlayoutLocked(end) EXCEPT !.dev.channels = w.dev.channels]
           ready(end) == IF w.dev.ready THEN InitPlayoutLocked(back(end)) ELSE {back(end)}
           again(end) == IF w.dev.playing THEN RestartPlayout(end)
                         ELSE [end EXCEPT !.ok = FALSE]
       IN UNION {{[work |-> again(e), answer |-> Truth(t.ok), spawns |-> again(e).ok]
                    : e \in ready(t)} : t \in tried}

Asked(end) ==
  /\ answer' = end.answer
  /\ control' = "idle"
  /\ IF end.spawns THEN threads' \in SpawnedThread(threads) ELSE UNCHANGED threads
  /\ UNCHANGED <<system, microphone, crashed>>

StereoPlayoutIsAvailable ==
  /\ Ready
  /\ \E end \in AskStereo(Work) : Becomes(end.work) /\ Asked(end)

\* The rest of PlayoutIsAvailable when mono could not be initialized.
ProbeStereo ==
  /\ Running /\ control = "stereo"
  /\ \E end \in AskStereo(Work) :
       /\ Becomes([end.work EXCEPT !.dev.channels = IF end.answer = 1 THEN 2 ELSE @])
       /\ Asked(end)

-----------------------------------------------------------------------------
(* Operations on the mixers, on the control thread.                         *)

SpeakerEnds(ends) ==
  /\ Ready /\ loaded
  /\ \E end \in ends : speaker' = end.mixer /\ answer' = end.answer
  /\ UNCHANGED <<system, dev, microphone, buffer, control, threads, crashed>>

MicrophoneEnds(ends) ==
  /\ Ready /\ loaded
  /\ \E end \in ends : microphone' = end.mixer /\ answer' = end.answer
  /\ UNCHANGED <<system, dev, speaker, buffer, control, threads, crashed>>

InitSpeaker ==
  SpeakerEnds(IF dev.playing THEN Refused(speaker)
              ELSE OpenSpeaker(machine.speaker, speaker, dev.named))

\* The input device is the one of index 0, and nothing records.
InitMicrophone ==
  MicrophoneEnds(OpenMicrophone(machine.microphone, microphone,
                                DeviceAt(machine.cards, FALSE, 0) # {}))

SpeakerVolumeCalls ==
  \/ \E level \in 0..Top : SpeakerEnds(SetSpeakerVolume(machine.speaker, speaker, level))
  \/ SpeakerEnds(SpeakerVolume(machine.speaker, speaker))
  \/ SpeakerEnds(MaxSpeakerVolume(machine.speaker, speaker))
  \/ SpeakerEnds(MinSpeakerVolume(machine.speaker, speaker))

MicrophoneVolumeCalls ==
  \/ \E level \in 0..Top :
       MicrophoneEnds(SetMicrophoneVolume(machine.microphone, microphone, level))
  \/ MicrophoneEnds(MicrophoneVolume(machine.microphone, microphone))
  \/ MicrophoneEnds(MaxMicrophoneVolume(machine.microphone, microphone))
  \/ MicrophoneEnds(MinMicrophoneVolume(machine.microphone, microphone))

SpeakerMuteCalls ==
  \/ \E enable \in BOOLEAN :
       SpeakerEnds(SetSpeakerMute(machine.speaker, speaker, enable))
  \/ SpeakerEnds(SpeakerMute(machine.speaker, speaker))

MicrophoneMuteCalls ==
  \/ \E enable \in BOOLEAN :
       MicrophoneEnds(SetMicrophoneMute(machine.microphone, microphone, enable))
  \/ MicrophoneEnds(MicrophoneMute(machine.microphone, microphone))

\* A question about a mixer that is not open opens it, and closes it again; when
\* it cannot be opened the answer is FALSE and what was opened stays.
QuestionEnds(x, initialized_, inits, closed(_), said(_)) ==
  IF initialized_ THEN Says(x, said(x))
  ELSE {IF end.answer = -1 THEN [end EXCEPT !.answer = 0]
        ELSE [mixer |-> closed(end.mixer), answer |-> said(end.mixer)] : end \in inits}

\* "Given that InitSpeaker was successful, we know that a volume control exists"
SaysTrue(x) == 1

\* Mutant: the mute question is answered as the volume question is.
MuteAsVolume(hw, x) == 1

\* What the manager's question says; isAvailable stays FALSE when it is refused.
SaysSpeakerMute(hw, x) ==
  IF \E end \in SpeakerMuteIsAvailable(hw, x) : end.answer = 1 THEN 1 ELSE 0
SaysMicrophoneMute(hw, x) ==
  IF \E end \in MicrophoneMuteIsAvailable(hw, x) : end.answer = 1 THEN 1 ELSE 0

SpeakerInits ==
  IF dev.playing THEN Refused(speaker)
  ELSE OpenSpeaker(machine.speaker, speaker, dev.named)

MicrophoneInits ==
  OpenMicrophone(machine.microphone, microphone,
                 DeviceAt(machine.cards, FALSE, 0) # {})

SpeakerVolumeIsAvailable ==
  SpeakerEnds(QuestionEnds(speaker, SpeakerIsInitialized(speaker), SpeakerInits,
                           CloseSpeakerLocked, SaysTrue))

MicrophoneVolumeIsAvailable ==
  MicrophoneEnds(QuestionEnds(microphone, MicrophoneIsInitialized(microphone),
                              MicrophoneInits, CloseMicrophoneLocked, SaysTrue))

AsksSpeakerMute ==
  LET said(x) == SaysSpeakerMute(machine.speaker, x)
  IN SpeakerEnds(QuestionEnds(speaker, SpeakerIsInitialized(speaker), SpeakerInits,
                              CloseSpeakerLocked, said))

AsksMicrophoneMute ==
  LET said(x) == SaysMicrophoneMute(machine.microphone, x)
  IN MicrophoneEnds(QuestionEnds(microphone, MicrophoneIsInitialized(microphone),
                                 MicrophoneInits, CloseMicrophoneLocked, said))

-----------------------------------------------------------------------------
(* PlayThreadProcess, on a play thread.                                     *)

At(t, pc) == Running /\ threads[t].pc = pc
Goes(t, pc, avail) == threads' = [threads EXCEPT ![t] = [pc |-> pc, avail |-> avail]]
Quiet == UNCHANGED <<system, mixers, control, answer>>

Crashes(how) ==
  /\ crashed' = how
  /\ UNCHANGED <<dev, buffer, threads>>

\* _playing is read without mutex_.
ThreadChecks(t) ==
  /\ At(t, "check")
  /\ Goes(t, IF dev.playing THEN "lock" ELSE "none", 0)
  /\ UNCHANGED <<dev, buffer, crashed>>
  /\ Quiet

\* snd_pcm_writei takes what is available of the frames that are left, from the
\* end of the block; or it fails, and the rest of the block is given up.  When it
\* takes fewer, an AVE_DCHECK_EQ fails.
ThreadWrites(t, d, avail) ==
  IF d.handle # "open" THEN Crashes("handle")
  ELSE IF d.block = 0 /\ d.left # 0 THEN Crashes("null block")
  ELSE \/ /\ \E writes \in May("write"), n \in 1..avail :
                dev' = [d EXCEPT !.left = IF ~writes \/ n > @ THEN 0 ELSE @ - n]
          /\ Goes(t, "check", 0)
          /\ UNCHANGED <<buffer, crashed>>
       \/ avail > 1 /\ d.left > 1 /\ Crashes("short write")

\* snd_pcm_recover, and snd_pcm_start after an underrun: ALSA's stream changes,
\* the device does not, and what it returns is not looked at.
ErrorRecovery(t) ==
  /\ Goes(t, "check", 0)
  /\ UNCHANGED <<dev, buffer, crashed>>

\* The part under mutex_.  Every ALSA call takes _handlePlayout as it is.
ThreadPlays(t) ==
  /\ At(t, "lock")
  /\ \/ dev.handle # "open" /\ Crashes("handle")
     \* snd_pcm_avail_update gives an error.
     \/ dev.handle = "open" /\ ErrorRecovery(t)
     \* No room for a frame.
     \/ dev.handle = "open" /\ Goes(t, "wait", 0) /\ UNCHANGED <<dev, buffer, crashed>>
     \/ /\ dev.handle = "open"
        /\ \E avail \in 1..Frames :
             IF dev.left = 0
             THEN Goes(t, "request", avail) /\ UNCHANGED <<dev, buffer, crashed>>
             ELSE ThreadWrites(t, dev, avail)
  /\ Quiet

\* snd_pcm_wait, without mutex_.
ThreadWaits(t) ==
  /\ At(t, "wait")
  /\ IF dev.handle = "open"
     THEN Goes(t, "check", 0) /\ UNCHANGED <<dev, buffer, crashed>>
     ELSE Crashes("handle")
  /\ Quiet

\* RequestPlayoutData, without mutex_: the buffer is resized to the channels that
\* the device was last initialized with.  Two threads that resize it race.
ThreadRequests(t) ==
  LET size == IF dev.timed THEN buffer.channels ELSE 0
  IN /\ At(t, "request")
     /\ \/ /\ buffer' = [buffer EXCEPT !.size = size]
           /\ Goes(t, "relock", threads[t].avail)
           /\ UNCHANGED <<dev, crashed>>
        \/ /\ size # buffer.size
           /\ \E u \in Threads \ {t} : At(u, "request")
           /\ Crashes("race")
     /\ Quiet

\* The frames that AudioDeviceBuffer has: its size for each of its channels now.
Given ==
  IF buffer.size = buffer.channels THEN Frames
  ELSE IF buffer.size < buffer.channels THEN (buffer.size * Frames) \div 2
  ELSE 2 * Frames

\* GetPlayoutData, under mutex_ again, copies the whole buffer to _playoutBuffer.
\* An AVE_DCHECK_GT asks that there is something, an AVE_DCHECK_EQ that it is the
\* frames of 10 ms.  More frames than that would be written from in front of the
\* block.
ThreadTakesData(t) ==
  /\ At(t, "relock")
  /\ IF buffer.size # 0 /\ dev.block = 0 THEN Crashes("null block")
     ELSE IF buffer.size > dev.block THEN Crashes("overflow")
     ELSE \/ buffer.size = 0 /\ Crashes("no data")
          \/ Given # (IF dev.timed THEN Frames ELSE 0) /\ Crashes("frames left")
          \/ Given > Frames /\ Crashes("overflow")
          \/ /\ buffer.channels # 0     \* it divides by them
             /\ Given <= Frames
             /\ ThreadWrites(t, [dev EXCEPT !.left = Given], threads[t].avail)
  /\ Quiet

Thread(t) ==
  \/ ThreadChecks(t)
  \/ ThreadPlays(t)
  \/ ThreadWaits(t)
  \/ ThreadRequests(t)
  \/ ThreadTakesData(t)

-----------------------------------------------------------------------------
\* initialized is whatever the memory held.
Init ==
  /\ machine \in Machines
  /\ initialized \in BOOLEAN
  /\ loaded = FALSE
  /\ dev = [specified |-> FALSE, ready |-> FALSE, playing |-> FALSE, channels |-> 2,
            named |-> DeviceAt(machine.cards, TRUE, 0) # {}, handle |-> "null",
            pcms |-> 0, timed |-> FALSE, size |-> 0, block |-> 0, left |-> 0]
  /\ speaker = ClosedMixer
  /\ microphone = ClosedMixer
  /\ buffer = [playing |-> FALSE, channels |-> 0, size |-> 0]
  /\ control = "idle"
  /\ answer = 0
  /\ threads = [t \in Threads |-> [pc |-> "none", avail |-> 0]]
  /\ crashed = "no"

\* The rest of an operation that the control thread has begun.
Continues ==
  \/ StartAllocates
  \/ StartMakesThread
  \/ StartPrepares
  \/ ProbeCancels
  \/ ProbeStereo

MixerCalls ==
  \/ InitSpeaker
  \/ InitMicrophone
  \/ SpeakerVolumeCalls
  \/ MicrophoneVolumeCalls
  \/ SpeakerMuteCalls
  \/ MicrophoneMuteCalls
  \/ SpeakerVolumeIsAvailable
  \/ MicrophoneVolumeIsAvailable
  \/ AsksSpeakerMute
  \/ AsksMicrophoneMute

Indices == 0..DeviceCount(machine.cards, TRUE)

Calls ==
  \/ NoSymbols
  \/ DeviceInit
  \/ Terminate
  \/ \E index \in Indices : SetPlayoutDevice(index)
  \/ \E channels \in {1, 2} : SetStereoPlayout(channels)
  \/ InitPlayout
  \/ StartPlayout
  \/ StopPlayout
  \/ ProbeMono
  \/ StereoPlayoutIsAvailable
  \/ MixerCalls

Next == Calls \/ Continues \/ \E t \in Threads : Thread(t)

Spec == Init /\ [][Next]_vars

-----------------------------------------------------------------------------
(* Properties.                                                              *)

TypeOK ==
  /\ machine \in Machines
  /\ initialized \in BOOLEAN
  /\ loaded \in BOOLEAN
  /\ dev \in Device
  /\ speaker \in Mixers /\ microphone \in Mixers
  /\ buffer \in Buffer
  /\ control \in Controls
  /\ answer \in Answers
  /\ threads \in [Threads -> [pc : ThreadPCs, avail : 0..Frames]]
  /\ crashed \in {"no", "no symbols", "handle", "null block", "no data", "overflow",
                  "frames left", "short write", "race"}

\* Whatever fails on the way, a device that plays has been initialized, has its
\* PCM handle open, and the three sizes of a 10 ms block agree: that of the device,
\* of its own block (which only StartPlayout has yet to make) and of the channels
\* that AudioDeviceBuffer fills.
PlayoutReady ==
  dev.playing =>
    /\ dev.ready
    /\ dev.handle = "open"
    /\ control = "allocate" \/ dev.block = dev.size
    /\ dev.timed /\ dev.size = buffer.channels
    /\ buffer.playing

\* Nothing that can be named and opened goes wrong on its way to an element.
NothingLost(hw) == hw.failures \cap {"attach", "register", "load"} = {}
AllNamed ==
  /\ DeviceAt(machine.cards, TRUE, 0) # {}
  /\ \A index \in Indices : InRange(machine.cards, TRUE, index) =>
                              DeviceAt(machine.cards, TRUE, index) # {}

\* No PCM handle is lost whatever fails: libasound has one open exactly when
\* _handlePlayout points to it.  No mixer is lost either, unless its opening
\* fails between snd_mixer_open and snd_mixer_load.
HandlesAccounted ==
  /\ dev.pcms = (IF dev.handle = "open" THEN 1 ELSE 0)
  /\ NothingLost(machine.speaker) /\ AllNamed =>
       speaker.opened = (IF speaker.handle = "open" THEN 1 ELSE 0)
  /\ NothingLost(machine.microphone) /\ DeviceAt(machine.cards, FALSE, 0) # {} =>
       microphone.opened = (IF microphone.handle = "open" THEN 1 ELSE 0)

\* Every device that ALSA lists can be chosen: it has an index, and only one, in
\* the range that SetPlayoutDevice and SetRecordingDevice accept, and by that index
\* PlayoutDeviceName and RecordingDeviceName give its name; as long as every card can
\* be asked and a uint16_t can count the indices.
EveryDeviceChoosable ==
  \A playback \in BOOLEAN, c \in 1..Len(machine.cards) :
    /\ \A d \in 1..Len(machine.cards) : machine.cards[d].hinted
    /\ DeviceCount(machine.cards, playback) < UInt16Values
    => \A p \in 1..Cardinality(Shown(machine.cards[c], playback)) :
        Cardinality({index \in 0..DeviceCount(machine.cards, playback) - 1 :
                       NamedDevice(machine.cards, playback, index) = {<<c, p>>}}) = 1

\* Who is told that there is a mute control can use it: its element has a switch.
\* The mixer is open afterwards only if it was before.
MuteAnswered ==
  [][/\ answer' = 1 /\ AsksSpeakerMute =>
          /\ SpeakerElement(machine.speaker) \in machine.speaker.switches
          /\ speaker'.handle = speaker.handle
     /\ answer' = 1 /\ AsksMicrophoneMute =>
          /\ MicrophoneElement(machine.microphone) \in machine.microphone.switches
          /\ microphone'.handle = microphone.handle]_vars

\* A play thread that is alone, while the device plays, never comes to an undefined
\* operation or a failed check, though it uses the buffer outside mutex_ and
\* whatever was played before; but for the check that ALSA writes all that it said
\* it could.  (What outlives a StopPlayout does.)
LoneThreadPlays ==
  [][crashed' \notin {"no", "short write"} =>
       ~\E t \in Threads :
          /\ dev.playing /\ control = "idle"
          /\ \A u \in Threads \ {t} : threads[u].pc = "none"
          /\ Thread(t)]_vars
=============================================================================
