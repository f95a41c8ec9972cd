--------------------------- MODULE AudioCapture ---------------------------
(***************************************************************************)
(* The recording side of the audio device: DefaultAudioDevice              *)
(* (api/audio/default_audio_device.cc) over AudioDeviceBuffer              *)
(* (modules/audio_device/audio_device_buffer.cc) and AudioDeviceLinuxALSA  *)
(* (modules/audio_device/linux/audio_device_alsa_linux.cc).                *)
(*                                                                         *)
(* One control thread calls the operations; each StartRecording makes a    *)
(* capture thread that runs RecThreadProcess until it reads _recording     *)
(* false.  Resetting _ptrThreadRec does not wait for the thread ("TODO     *)
(* wait for thread exit"), so it may outlive a StopRecording.  What runs   *)
(* under mutex_ is one step; what runs outside it is a step of its own.    *)
(*                                                                         *)
(* ALSA is external: a call succeeds or fails as the constants permit, and *)
(* snd_pcm_close gives the handle back whatever it returns.                *)
(***************************************************************************)
EXTENDS Naturals, FiniteSets

CONSTANTS
  Machines,       \* the sound hardware: the channel counts it can be set to and
                  \* the ALSA calls that may fail on it
  Frames,         \* frames in 10 ms (_recordingFreq / 100)
  Threads         \* bound: capture threads alive at the same time

ASSUME AudioCaptureAssumption ==
  /\ Machines \subseteq
       [modes : SUBSET {1, 2},
        failures : SUBSET {"open", "params", "start", "drop", "close"}]
  /\ Frames \in Nat \ {0}

VARIABLES
  machine,        \* the hardware this runs on
  initialized,    \* DefaultAudioDevice::initialized_ (not set by its constructor)
  loaded,         \* libasound's symbols have been loaded
  dev,            \* the device's recording state, see Device
  buf_recording,  \* AudioDeviceBuffer::recording_
  callback,       \* AudioDeviceBuffer::audio_cb_ is set
  control,        \* where the control thread is in the operation it runs
  answer,         \* what the last availability question was answered
  threads,        \* the capture threads
  crashed         \* the undefined operation or failed DCHECK, if any

system == <<machine, initialized, loaded>>

vars == <<system, dev, buf_recording, callback, control, answer,
          threads, crashed>>

\* handle is _handleRecord: a pointer that is open, null, or dangling.  size and
\* buffer are in units of Frames samples: the channels of a 10 ms block.
Device ==
  [specified : BOOLEAN,             \* _inputDeviceIsSpecified
   ready     : BOOLEAN,             \* _recIsInitialized
   recording : BOOLEAN,             \* _recording
   channels  : {1, 2},              \* _recChannels
   handle    : {"null", "open", "dangling"},
   pcms      : Nat,                 \* PCM handles libasound has open
   twice     : BOOLEAN,             \* a handle was closed a second time
   size      : 0..2,                \* _recordingBufferSizeIn10MS
   buffer    : 0..2,                \* what _recordingBuffer points to, 0 if null
   left      : 0..Frames]           \* _recordingFramesLeft

Controls == {"idle", "allocate", "thread", "start", "give_up", "cancel",
             "stereo", "stuck"}
ThreadPCs == {"none", "check", "lock", "wait", "deliver", "relock"}

-----------------------------------------------------------------------------
(* The device, under mutex_.  Each operation maps a device to the set of    *)
(* [dev, ok] it can end with.                                               *)

May(call) == IF call \in machine.failures THEN BOOLEAN ELSE {TRUE}

Ends(d, ok) == {[dev |-> d, ok |-> ok]}

\* snd_pcm_close
Close(d) == [d EXCEPT !.pcms = IF d.handle = "open" THEN @ - 1 ELSE @,
                      !.twice = @ \/ d.handle = "dangling",
                      !.handle = "dangling"]

ForgetHandle(d) == [d EXCEPT !.handle = "null"]

\* Mutant: a handle that is still there is not closed before another is opened.
OpensOverOld(d) == ForgetHandle(d)

\* Any existing handle is closed first.
CloseExisting(d) == IF d.handle = "null" THEN d ELSE ForgetHandle(Close(d))

Other(channels) == 3 - channels

\* snd_pcm_set_params, and the other number of channels when it fails.  A call
\* may fail although the device has the mode.
ChannelsAfterParams(channels) ==
  (IF channels \in machine.modes THEN {[channels |-> channels, ok |-> TRUE]} ELSE {})
    \cup (IF channels \notin machine.modes \/ "params" \in machine.failures
          THEN LET other == [channels |-> Other(channels),
                             ok |-> Other(channels) \in machine.modes]
               IN {other} \cup (IF "params" \in machine.failures
                                THEN {[other EXCEPT !.ok = FALSE]} ELSE {})
          ELSE {})

\* The handle is open and its parameters are set.
Opened(d, channels) ==
  [d EXCEPT !.ready = TRUE, !.handle = "open", !.pcms = @ + 1,
            !.channels = channels, !.size = channels]

InitRecordingLocked(d) ==
  IF d.recording \/ ~d.specified THEN Ends(d, FALSE)
  ELSE IF d.ready THEN Ends(d, TRUE)
  ELSE LET c == CloseExisting(d)
       IN UNION {IF ~opens THEN Ends(c, FALSE)
                 ELSE {[dev |-> IF p.ok THEN Opened(c, p.channels)
                                ELSE [c EXCEPT !.channels = p.channels],
                        ok |-> p.ok] : p \in ChannelsAfterParams(c.channels)}
                 : opens \in May("open")}

\* Mutant: _recording is not cleared.
KeepsRecording(d) == [d EXCEPT !.ready = FALSE, !.left = 0, !.buffer = 0]

\* What StopRecordingLocked clears before it talks to the device.
Stopped(d) ==
  [d EXCEPT !.ready = FALSE, !.recording = FALSE, !.left = 0, !.buffer = 0]

StopRecordingLocked(d) ==
  IF ~d.ready THEN Ends(d, TRUE)
  ELSE IF d.handle = "null" THEN Ends(d, FALSE)
  ELSE UNION {IF ~drops THEN Ends(Stopped(d), FALSE)
              ELSE {[dev |-> IF closes THEN ForgetHandle(Close(Stopped(d)))
                             ELSE Close(Stopped(d)),
                     ok |-> closes] : closes \in May("close")}
              : drops \in May("drop")}

\* StartRecording before its thread: the marks, and the buffer, made once.
Marked(d) == [d EXCEPT !.recording = TRUE, !.left = Frames]
Allocated(d) == [d EXCEPT !.buffer = IF @ = 0 THEN d.size ELSE @]

\* snd_pcm_start, tried twice.
PcmStarts == May("start")

-----------------------------------------------------------------------------
(* Operations, on the control thread.  An operation before libasound's      *)
(* symbols are loaded fails a DCHECK at its first ALSA call.                *)

Running == crashed = "no"
Idle == Running /\ control = "idle"
Ready == Idle /\ initialized

\* The control thread waits for mutex_ for ever in "stuck", holding it.
MutexFree == control # "stuck"

Becomes(d) ==
  /\ dev' = d
  /\ crashed' = IF d.twice THEN "closed twice" ELSE "no"

DeviceInit ==
  /\ Idle
  /\ ~initialized
  /\ \E loads \in BOOLEAN :
       /\ loaded' = (loaded \/ loads)
       /\ initialized' = (loaded \/ loads)
  /\ UNCHANGED <<machine, dev, buf_recording, callback, control, answer, threads, crashed>>

\* The device's Terminate drops its threads' objects, not the threads, and does
\* not stop a recording.
Terminate ==
  /\ Ready
  /\ initialized' = FALSE
  /\ dev' = [dev EXCEPT !.specified = FALSE]
  /\ UNCHANGED <<machine, loaded, buf_recording, callback, control, answer, threads, crashed>>

\* The index is checked against the devices ALSA lists.
SetRecordingDevice ==
  /\ Ready
  /\ ~dev.ready
  /\ IF loaded
     THEN dev' = [dev EXCEPT !.specified = TRUE] /\ UNCHANGED crashed
     ELSE crashed' = "no symbols" /\ UNCHANGED dev
  /\ UNCHANGED <<system, buf_recording, callback, control, answer,
                 threads>>

SetStereoRecording(channels) ==
  /\ Ready
  /\ dev' = [dev EXCEPT !.channels = channels]
  /\ UNCHANGED <<system, buf_recording, callback, control, answer,
                 threads, crashed>>

InitRecording ==
  /\ Ready
  /\ ~dev.ready
  /\ \E end \in InitRecordingLocked(dev) : Becomes(end.dev)
  /\ UNCHANGED <<system, buf_recording, callback, control, answer,
                 threads>>

\* AudioDeviceBuffer refuses a callback while it is marked as active.
RegisterAudioCallback(set) ==
  /\ Idle
  /\ ~buf_recording
  /\ callback' = set
  /\ UNCHANGED <<system, dev, buf_recording, control, answer,
                 threads, crashed>>

\* The buffer is marked first, and stays so when the device does not start.
\* Nothing of this is under mutex_.
StartRecording ==
  /\ Ready
  /\ ~dev.recording
  /\ buf_recording' = TRUE
  /\ IF dev.ready
     THEN dev' = Marked(dev) /\ control' = "allocate"
     ELSE UNCHANGED <<dev, control>>
  /\ UNCHANGED <<system, callback, answer, threads, crashed>>

StartAllocates ==
  /\ Running /\ control = "allocate"
  /\ dev' = Allocated(dev)
  /\ control' = "thread"
  /\ UNCHANGED <<system, buf_recording, callback, answer, threads,
                 crashed>>

\* A thread starts at its first look at _recording.
SpawnedThread(ts) ==
  {[ts EXCEPT ![t] = [pc |-> "check", size |-> 0]]
     : t \in {u \in Threads : ts[u].pc = "none"}}

StartMakesThread ==
  /\ Running /\ control = "thread"
  /\ threads' \in SpawnedThread(threads)
  /\ control' = "start"
  /\ UNCHANGED <<system, dev, buf_recording, callback, answer,
                 crashed>>

StartStartsPcm ==
  /\ Running /\ control = "start"
  /\ \E starts \in PcmStarts : control' = IF starts THEN "idle" ELSE "give_up"
  /\ UNCHANGED <<system, dev, buf_recording, callback, answer,
                 threads, crashed>>

\* Both starts have failed: StopRecording of the device, not of the buffer.
StartGivesUp ==
  /\ Running /\ control = "give_up"
  /\ \E end \in StopRecordingLocked(dev) : Becomes(end.dev)
  /\ control' = "idle"
  /\ UNCHANGED <<system, buf_recording, callback, answer, threads>>

StopRecording ==
  /\ Ready
  /\ \E end \in StopRecordingLocked(dev) : Becomes(end.dev)
  /\ buf_recording' = FALSE
  /\ UNCHANGED <<system, callback, control, answer, threads>>

\* RecordingIsAvailable: "Try to initialize the recording side with mono".
ProbeMono ==
  /\ Ready
  /\ \E end \in InitRecordingLocked([dev EXCEPT !.channels = 1]) :
       /\ Becomes(end.dev)
       /\ answer' = end.ok
  /\ control' = "cancel"
  /\ UNCHANGED <<system, buf_recording, callback, threads>>

\* "Cancel effect of initialization"
ProbeCancels ==
  /\ Running /\ control = "cancel"
  /\ \E end \in StopRecordingLocked(dev) : Becomes(end.dev)
  /\ control' = IF answer THEN "idle" ELSE "stereo"
  /\ UNCHANGED <<system, buf_recording, callback, answer, threads>>

\* Mutant: a recording that was stopped for the question is not started again.
ForgetsRecording(d) == {[dev |-> d, spawns |-> FALSE, sticks |-> FALSE]}

\* StartRecording called with mutex_ held: when both starts fail it calls
\* StopRecording, which waits for mutex_.
RestartRecording(d) ==
  IF ~d.ready \/ d.recording
  THEN {[dev |-> d, spawns |-> FALSE, sticks |-> FALSE]}
  ELSE {[dev |-> Allocated(Marked(d)), spawns |-> TRUE, sticks |-> ~starts]
          : starts \in PcmStarts}

Devs(ends) == {end.dev : end \in ends}

\* StereoRecordingIsAvailable: stop what there is, try stereo, recover.
AskStereo(d) ==
  IF d.ready /\ d.channels = 2
  THEN {[dev |-> d, answer |-> TRUE, spawns |-> FALSE, sticks |-> FALSE]}
  ELSE LET stopped == IF d.ready THEN Devs(StopRecordingLocked(d)) ELSE {d}
           tried == UNION {InitRecordingLocked([e EXCEPT !.channels = 2])
                             : e \in stopped}
           \* The answer, with the channels and the initialization put back.
           back == UNION {{[dev |-> [f EXCEPT !.channels = d.channels],
                            answer |-> t.ok] : f \in Devs(StopRecordingLocked(t.dev))}
                            : t \in tried}
           ready == UNION {{[dev |-> e, answer |-> b.answer]
                              : e \in IF d.ready
                                      THEN Devs(InitRecordingLocked(b.dev))
                                      ELSE {b.dev}} : b \in back}
       IN UNION {{[dev |-> r.dev, answer |-> i.answer, spawns |-> r.spawns,
                   sticks |-> r.sticks]
                    : r \in IF d.recording THEN RestartRecording(i.dev)
                            ELSE {[dev |-> i.dev, spawns |-> FALSE,
                                   sticks |-> FALSE]}} : i \in ready}

Asked(end) ==
  /\ answer' = end.answer
  /\ control' = IF end.sticks THEN "stuck" ELSE "idle"
  /\ IF end.spawns THEN threads' \in SpawnedThread(threads) ELSE UNCHANGED threads
  /\ UNCHANGED <<system, buf_recording, callback>>

StereoRecordingIsAvailable ==
  /\ Ready
  /\ \E end \in AskStereo(dev) : Becomes(end.dev) /\ Asked(end)

\* The rest of RecordingIsAvailable when mono could not be initialized.
ProbeStereo ==
  /\ Running /\ control = "stereo"
  /\ \E end \in AskStereo(dev) :
       /\ Becomes([end.dev EXCEPT !.channels = IF end.answer THEN 2 ELSE @])
       /\ Asked(end)

-----------------------------------------------------------------------------
(* RecThreadProcess, on a capture thread.                                   *)

At(t, pc) == Running /\ threads[t].pc = pc
Goes(t, pc) == threads' = [threads EXCEPT ![t].pc = pc]
Quiet == UNCHANGED <<system, buf_recording, callback, control, answer>>

Crashes(how) ==
  /\ crashed' = how
  /\ UNCHANGED <<dev, threads>>

\* Mutant: the thread does not look at _recording.
NeverLooks(t) ==
  /\ At(t, "check")
  /\ threads' = [threads EXCEPT ![t] = [pc |-> "lock", size |-> dev.size]]
  /\ UNCHANGED <<dev, crashed>>
  /\ Quiet

\* _recording is read, and the size of the thread's own buffer, without mutex_.
ThreadChecks(t) ==
  /\ At(t, "check")
  /\ threads' = [threads EXCEPT ![t] =
                   IF dev.recording THEN [pc |-> "lock", size |-> dev.size]
                   ELSE [pc |-> "none", size |-> 0]]
  /\ UNCHANGED <<dev, crashed>>
  /\ Quiet

\* snd_pcm_readi gave n frames, which go to the 10 ms block.
TakesFrames(t, n) ==
  IF n * dev.size > Frames * threads[t].size THEN Crashes("own buffer")
  ELSE IF dev.buffer = 0 THEN Crashes("null buffer")
  ELSE /\ dev' = [dev EXCEPT !.left = IF n = @ THEN Frames ELSE @ - n]
       /\ Goes(t, IF n = dev.left THEN "deliver" ELSE "check")
       /\ UNCHANGED crashed

\* The part under mutex_.  Every ALSA call takes _handleRecord as it is.
ThreadReads(t) ==
  /\ At(t, "lock")
  /\ MutexFree
  /\ \/ dev.handle # "open" /\ Crashes("handle")
     \* An error, from which it recovers, or a block that has no room.
     \/ dev.handle = "open" /\ Goes(t, "check") /\ UNCHANGED <<dev, crashed>>
     \* No frame is available.
     \/ dev.handle = "open" /\ Goes(t, "wait") /\ UNCHANGED <<dev, crashed>>
     \/ dev.handle = "open" /\ \E n \in 1..dev.left : TakesFrames(t, n)
     \* Fewer frames than were available: the AVE_DCHECK_EQ fails.
     \/ dev.handle = "open" /\ dev.left > 1 /\ Crashes("short read")
  /\ Quiet

\* snd_pcm_wait, without mutex_.
ThreadWaits(t) ==
  /\ At(t, "wait")
  /\ IF dev.handle = "open" THEN Goes(t, "check") /\ UNCHANGED <<dev, crashed>>
     ELSE Crashes("handle")
  /\ Quiet

\* DeliverRecordedData calls the callback, without mutex_.
ThreadDelivers(t) ==
  /\ At(t, "deliver")
  /\ Goes(t, "relock")
  /\ UNCHANGED <<dev, crashed>>
  /\ Quiet

ThreadRelocks(t) ==
  /\ At(t, "relock")
  /\ MutexFree
  /\ Goes(t, "check")
  /\ UNCHANGED <<dev, crashed>>
  /\ Quiet

Thread(t) ==
  \/ ThreadChecks(t)
  \/ ThreadReads(t)
  \/ ThreadWaits(t)
  \/ ThreadDelivers(t)
  \/ ThreadRelocks(t)

-----------------------------------------------------------------------------
\* initialized is whatever the memory held.
Init ==
  /\ machine \in Machines
  /\ initialized \in BOOLEAN
  /\ loaded = FALSE
  /\ dev = [specified |-> FALSE, ready |-> FALSE, recording |-> FALSE,
            channels |-> 2, handle |-> "null", pcms |-> 0, twice |-> FALSE,
            size |-> 0, buffer |-> 0, left |-> 0]
  /\ buf_recording = FALSE
  /\ callback = FALSE
  /\ control = "idle"
  /\ answer = FALSE
  /\ threads = [t \in Threads |-> [pc |-> "none", size |-> 0]]
  /\ crashed = "no"

\* The rest of an operation that the control thread has begun.
Continues ==
  \/ StartAllocates
  \/ StartMakesThread
  \/ StartStartsPcm
  \/ StartGivesUp
  \/ ProbeCancels
  \/ ProbeStereo

Calls ==
  \/ DeviceInit
  \/ Terminate
  \/ SetRecordingDevice
  \/ \E channels \in {1, 2} : SetStereoRecording(channels)
  \/ InitRecording
  \/ \E set \in BOOLEAN : RegisterAudioCallback(set)
  \/ StartRecording
  \/ StopRecording
  \/ ProbeMono
  \/ StereoRecordingIsAvailable

Next == Calls \/ Continues \/ \E t \in Threads : Thread(t)

\* An operation begun is finished, and every capture thread keeps running.
Fairness == WF_vars(Continues) /\ \A t \in Threads : WF_vars(Thread(t))

Spec == Init /\ [][Next]_vars /\ Fairness

-----------------------------------------------------------------------------
(* Properties.                                                              *)

TypeOK ==
  /\ machine \in Machines
  /\ initialized \in BOOLEAN
  /\ loaded \in BOOLEAN
  /\ dev \in Device
  /\ buf_recording \in BOOLEAN
  /\ callback \in BOOLEAN
  /\ control \in Controls
  /\ answer \in BOOLEAN
  /\ threads \in [Threads -> [pc : ThreadPCs, size : 0..2]]
  /\ crashed \in {"no", "no symbols", "closed twice", "handle", "own buffer",
                  "null buffer", "short read"}

\* Whatever fails on the way, a device that records has been initialized, has
\* its PCM handle open and has a 10 ms block of the size of its channels; only
\* StartRecording, before it has made the block, is an exception.  AudioDeviceBuffer
\* is marked and so refuses another callback (audio_device_buffer.cc:58-68).
RecordingReady ==
  dev.recording =>
    /\ dev.ready
    /\ dev.handle = "open"
    /\ control = "allocate" \/ dev.buffer = dev.size
    /\ buf_recording

\* No PCM handle is lost: libasound has one open exactly when _handleRecord
\* points to it, after every order of failing opens, drops and closes.
HandlesAccounted == dev.pcms = (IF dev.handle = "open" THEN 1 ELSE 0)

\* Once recording has stopped for good, every capture thread comes to its end,
\* though nothing waits for it.
CaptureEnds ==
  <>[](Running /\ ~dev.recording) => <>[](\A t \in Threads : threads[t].pc = "none")

\* Asking whether the device records in stereo leaves it initialized and
\* recording, or not, as it was ("Recover previous states"), unless a Terminate
\* has taken away the choice of the device in between or ALSA calls fail.
StereoProbeRestores ==
  [][StereoRecordingIsAvailable /\ dev.specified /\ machine.failures = {} =>
       dev'.ready = dev.ready /\ dev'.recording = dev.recording]_vars

\* StopRecording EXCLUDES(mutex_): it is not called by who holds mutex_.
StopRecordingExcludes == control # "stuck"
=============================================================================
