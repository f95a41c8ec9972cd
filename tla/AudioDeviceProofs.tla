-------------------------- MODULE AudioDeviceProofs --------------------------
(***************************************************************************)
(* Proofs about the two sides of the audio device: AudioCapture, here the  *)
(* instance Capture, and AudioPlayout with its mixers and its list of      *)
(* devices.  Each theorem is about one side.                               *)
(***************************************************************************)
EXTENDS AudioPlayout, FiniteSetTheorems, TLAPS

CONSTANT CaptureMachines

VARIABLES
  capture_machine, capture_dev, buf_recording, callback, capture_control,
  capture_answer, capture_threads, capture_crashed

Capture == INSTANCE AudioCapture
             WITH Machines <- CaptureMachines, machine <- capture_machine,
                  dev <- capture_dev, control <- capture_control,
                  answer <- capture_answer, threads <- capture_threads,
                  crashed <- capture_crashed

-----------------------------------------------------------------------------
(* The recording side under mutex_.                                         *)

\* The hardware can be set to mono or to stereo.
Settable == capture_machine.modes \cap {1, 2} # {}

\* What every operation keeps of a device.  Its handle is open while it is
\* initialized, which the opposite fallback of snd_pcm_set_params, and a close that
\* fails, must not break; the 10 ms block exists only while it records.
RecorderInv(d) ==
  /\ d \in Capture!Device
  /\ d.pcms = (IF d.handle = "open" THEN 1 ELSE 0)
  /\ d.ready => d.handle = "open" /\ Settable
  /\ d.recording => d.ready
  /\ ~d.recording => d.buffer = 0

LEMMA FramesPositive == Frames \in Nat \ {0}
  BY AudioPlayoutAssumption

LEMMA CloseEnds ==
  ASSUME NEW d \in Capture!Device, d.handle = "open" => d.pcms = 1,
         NEW e, e = Capture!Close(d)
  PROVE  /\ e \in Capture!Device
         /\ e.pcms = (IF d.handle = "open" THEN 0 ELSE d.pcms)
         /\ e.handle = "dangling"
         /\ e.specified = d.specified /\ e.ready = d.ready
         /\ e.recording = d.recording /\ e.channels = d.channels
         /\ e.size = d.size /\ e.buffer = d.buffer
<1> DEFINE p == IF d.handle = "open" THEN d.pcms - 1 ELSE d.pcms
           b == d.twice \/ d.handle = "dangling"
<1>1. p \in Nat /\ p = (IF d.handle = "open" THEN 0 ELSE d.pcms)
  BY DEF Capture!Device
<1>2. b \in BOOLEAN
  OBVIOUS
<1>3. e = [d EXCEPT !.pcms = p, !.twice = b, !.handle = "dangling"]
  BY DEF Capture!Close
<1> HIDE DEF p, b
<1> QED
  BY <1>1, <1>2, <1>3 DEF Capture!Device

LEMMA ForgetHandleEnds ==
  ASSUME NEW d \in Capture!Device, NEW e, e = Capture!ForgetHandle(d)
  PROVE  /\ e \in Capture!Device
         /\ e.handle = "null" /\ e.pcms = d.pcms
         /\ e.specified = d.specified /\ e.ready = d.ready
         /\ e.recording = d.recording /\ e.channels = d.channels
         /\ e.size = d.size /\ e.buffer = d.buffer
  BY DEF Capture!Device, Capture!ForgetHandle

\* What the assignments of each operation leave of a device.
LEMMA StoppedEnds ==
  ASSUME NEW d \in Capture!Device, NEW e, e = Capture!Stopped(d)
  PROVE  /\ e \in Capture!Device
         /\ ~e.ready /\ ~e.recording /\ e.buffer = 0
         /\ e.handle = d.handle /\ e.pcms = d.pcms
         /\ e.specified = d.specified /\ e.channels = d.channels
<1> DEFINE no == FALSE
           zero == 0
<1>1. e = [d EXCEPT !.ready = no, !.recording = no, !.left = zero, !.buffer = zero]
  BY DEF Capture!Stopped
<1>2. no \in BOOLEAN /\ zero \in 0..Frames /\ zero \in 0..2
  BY FramesPositive
<1> HIDE DEF no, zero
<1>3. /\ e \in Capture!Device
      /\ e.ready = no /\ e.recording = no /\ e.buffer = zero
      /\ e.handle = d.handle /\ e.pcms = d.pcms
      /\ e.specified = d.specified /\ e.channels = d.channels
  BY <1>1, <1>2 DEF Capture!Device
<1> QED
  BY <1>3 DEF no, zero

LEMMA OpenedEnds ==
  ASSUME NEW d \in Capture!Device, NEW k \in {1, 2}, NEW e, e = Capture!Opened(d, k)
  PROVE  /\ e \in Capture!Device
         /\ e.ready /\ e.handle = "open" /\ e.pcms = d.pcms + 1
         /\ e.channels = k /\ e.size = k
         /\ e.specified = d.specified /\ e.recording = d.recording
         /\ e.buffer = d.buffer
<1> DEFINE yes == TRUE
           p == d.pcms + 1
           open == "open"
<1>1. e = [d EXCEPT !.ready = yes, !.handle = open, !.pcms = p, !.channels = k, !.size = k]
  BY DEF Capture!Opened
<1>2. yes \in BOOLEAN /\ p \in Nat /\ k \in 0..2 /\ open \in {"null", "open", "dangling"}
  BY DEF Capture!Device
<1> HIDE DEF p, yes, open
<1>3. /\ e \in Capture!Device
      /\ e.ready = yes /\ e.handle = open /\ e.pcms = p /\ e.channels = k /\ e.size = k
      /\ e.specified = d.specified /\ e.recording = d.recording
      /\ e.buffer = d.buffer
  BY <1>1, <1>2, ZenonT(60) DEF Capture!Device
<1> QED
  BY <1>3 DEF p, yes, open

LEMMA MarkedEnds ==
  ASSUME NEW d \in Capture!Device, NEW e, e = Capture!Marked(d)
  PROVE  /\ e \in Capture!Device
         /\ e.recording
         /\ e.specified = d.specified /\ e.ready = d.ready /\ e.channels = d.channels
         /\ e.handle = d.handle /\ e.pcms = d.pcms
         /\ e.size = d.size /\ e.buffer = d.buffer
<1> DEFINE yes == TRUE
<1>1. e = [d EXCEPT !.recording = yes, !.left = Frames]
  BY DEF Capture!Marked
<1>2. yes \in BOOLEAN /\ Frames \in 0..Frames
  BY FramesPositive
<1> HIDE DEF yes
<1>3. /\ e \in Capture!Device
      /\ e.recording = yes
      /\ e.specified = d.specified /\ e.ready = d.ready /\ e.channels = d.channels
      /\ e.handle = d.handle /\ e.pcms = d.pcms
      /\ e.size = d.size /\ e.buffer = d.buffer
  BY <1>1, <1>2 DEF Capture!Device
<1> QED
  BY <1>3 DEF yes

LEMMA AllocatedEnds ==
  ASSUME NEW d \in Capture!Device, NEW e, e = Capture!Allocated(d)
  PROVE  /\ e \in Capture!Device
         /\ e.buffer = (IF d.buffer = 0 THEN d.size ELSE d.buffer)
         /\ e.specified = d.specified /\ e.ready = d.ready
         /\ e.recording = d.recording /\ e.channels = d.channels
         /\ e.handle = d.handle /\ e.pcms = d.pcms /\ e.size = d.size
<1> DEFINE z == IF d.buffer = 0 THEN d.size ELSE d.buffer
<1>1. e = [d EXCEPT !.buffer = z]
  BY DEF Capture!Allocated
<1>2. z \in 0..2
  BY DEF Capture!Device
<1> HIDE DEF z
<1>3. /\ e \in Capture!Device
      /\ e.buffer = z
      /\ e.specified = d.specified /\ e.ready = d.ready
      /\ e.recording = d.recording /\ e.channels = d.channels
      /\ e.handle = d.handle /\ e.pcms = d.pcms /\ e.size = d.size
  BY <1>1, <1>2 DEF Capture!Device
<1> QED
  BY <1>3 DEF z

LEMMA Channeled ==
  ASSUME NEW d \in Capture!Device, NEW k \in {1, 2},
         NEW e, e = [d EXCEPT !.channels = k]
  PROVE  /\ e \in Capture!Device
         /\ e.channels = k
         /\ e.specified = d.specified /\ e.ready = d.ready
         /\ e.recording = d.recording /\ e.handle = d.handle /\ e.pcms = d.pcms
         /\ e.size = d.size /\ e.buffer = d.buffer
  BY DEF Capture!Device

LEMMA EndsOne ==
  ASSUME NEW d, NEW k \in BOOLEAN, NEW end \in Capture!Ends(d, k)
  PROVE  end.dev = d /\ end.ok = k /\ end.ok \in BOOLEAN
  BY DEF Capture!Ends

LEMMA ParamsEnd ==
  ASSUME NEW k \in {1, 2}, NEW p \in Capture!ChannelsAfterParams(k)
  PROVE  /\ p.channels \in {1, 2} /\ p.ok \in BOOLEAN
         /\ p.ok => Settable
         /\ ~p.ok => capture_machine.failures # {} \/ ~Settable
<1> DEFINE o == 3 - k
           sets == o \in capture_machine.modes
<1>1. o \in {1, 2} /\ {k, o} = {1, 2} /\ sets \in BOOLEAN
  OBVIOUS
<1>2. \/ k \in capture_machine.modes /\ p = [channels |-> k, ok |-> TRUE]
      \/ (k \notin capture_machine.modes \/ "params" \in capture_machine.failures)
         /\ p = [channels |-> o, ok |-> sets]
      \/ "params" \in capture_machine.failures /\ p = [channels |-> o, ok |-> FALSE]
  BY DEF Capture!ChannelsAfterParams, Capture!Other
<1> HIDE DEF o
<1>3. CASE k \in capture_machine.modes /\ p = [channels |-> k, ok |-> TRUE]
  BY <1>1, <1>3 DEF Settable
<1>4. CASE /\ k \notin capture_machine.modes \/ "params" \in capture_machine.failures
           /\ p = [channels |-> o, ok |-> sets]
  <2>1. p.channels = o /\ p.ok = sets
    <3> HIDE DEF sets
    <3> QED BY <1>4
  <2> QED
    BY <1>1, <1>4, <2>1 DEF Settable
<1>5. CASE "params" \in capture_machine.failures /\ p = [channels |-> o, ok |-> FALSE]
  BY <1>1, <1>5
<1> QED
  BY <1>2, <1>3, <1>4, <1>5

\* InitRecordingLocked leaves a device that is initialized alone, and one that can
\* be initialized it initializes when no ALSA call fails.
LEMMA InitRecordingEnds ==
  ASSUME NEW d, RecorderInv(d), NEW end \in Capture!InitRecordingLocked(d)
  PROVE  /\ RecorderInv(end.dev) /\ end.ok \in BOOLEAN
         /\ end.dev.recording = d.recording
         /\ end.dev.specified = d.specified
         /\ d.ready => end.dev = d
         /\ /\ d.specified /\ ~d.recording
            /\ capture_machine.failures = {} /\ Settable
            => end.dev.ready
<1> DEFINE c == Capture!CloseExisting(d)
<1>1. CASE d.recording \/ ~d.specified \/ d.ready
  <2>1. end \in Capture!Ends(d, FALSE) \/ end \in Capture!Ends(d, TRUE)
    BY <1>1 DEF Capture!InitRecordingLocked
  <2>2. end.dev = d /\ end.ok \in BOOLEAN
    BY <2>1, EndsOne
  <2>3. d.specified /\ ~d.recording => d.ready
    BY <1>1
  <2> QED
    BY <2>2, <2>3
<1>2. CASE ~d.recording /\ d.specified /\ ~d.ready
  <2>1. /\ c \in Capture!Device /\ c.pcms = 0 /\ c.handle = "null"
        /\ ~c.ready /\ ~c.recording /\ c.buffer = 0
        /\ c.recording = d.recording /\ c.specified = d.specified
    <3>1. CASE d.handle = "null"
      BY <1>2, <3>1 DEF RecorderInv, Capture!CloseExisting
    <3>2. CASE d.handle # "null"
      <4> DEFINE e == Capture!Close(d)
      <4>1. c = Capture!ForgetHandle(e)
        BY <3>2 DEF Capture!CloseExisting
      <4>2. d \in Capture!Device /\ (d.handle = "open" => d.pcms = 1)
        BY DEF RecorderInv
      <4> HIDE DEF c, e
      <4>3. /\ e \in Capture!Device /\ e.pcms = 0
            /\ ~e.ready /\ ~e.recording /\ e.buffer = 0
            /\ e.recording = d.recording /\ e.specified = d.specified
        BY <1>2, <4>2, CloseEnds DEF e, RecorderInv
      <4> QED
        BY <4>1, <4>3, ForgetHandleEnds
    <3> QED
      BY <3>1, <3>2
  <2>2. PICK opens \in Capture!May("open") :
          end \in IF ~opens THEN Capture!Ends(c, FALSE)
                  ELSE {[dev |-> IF p.ok THEN Capture!Opened(c, p.channels)
                                 ELSE [c EXCEPT !.channels = p.channels],
                         ok |-> p.ok] : p \in Capture!ChannelsAfterParams(c.channels)}
    BY <1>2 DEF Capture!InitRecordingLocked
  <2> HIDE DEF c
  <2>3. CASE ~opens
    <3>1. end \in Capture!Ends(c, FALSE)
      BY <2>2, <2>3
    <3>2. end.dev = c /\ end.ok \in BOOLEAN
      BY <3>1, EndsOne
    <3>3. capture_machine.failures # {}
      BY <2>3 DEF Capture!May
    <3> QED
      BY <1>2, <2>1, <3>2, <3>3 DEF RecorderInv
  <2>4. CASE opens
    <3>1. PICK p \in Capture!ChannelsAfterParams(c.channels) :
            end = [dev |-> IF p.ok THEN Capture!Opened(c, p.channels)
                           ELSE [c EXCEPT !.channels = p.channels],
                   ok |-> p.ok]
      BY <2>2, <2>4
    <3>2. c.channels \in {1, 2}
      BY <2>1 DEF Capture!Device
    <3>3. /\ p.channels \in {1, 2} /\ p.ok \in BOOLEAN
          /\ p.ok => Settable
          /\ ~p.ok => capture_machine.failures # {} \/ ~Settable
      BY <3>2, ParamsEnd
    <3> DEFINE e == IF p.ok THEN Capture!Opened(c, p.channels)
                    ELSE [c EXCEPT !.channels = p.channels]
    <3>4. end.dev = e /\ end.ok = p.ok
      <4> HIDE DEF e
      <4> QED
        BY <3>1 DEF e
    <3>5. CASE p.ok
      <4>1. end.dev = Capture!Opened(c, p.channels)
        BY <3>4, <3>5
      <4>2. /\ end.dev \in Capture!Device
            /\ end.dev.ready /\ end.dev.handle = "open" /\ end.dev.pcms = 1
            /\ end.dev.recording = c.recording /\ end.dev.specified = c.specified
            /\ end.dev.buffer = 0
        BY <2>1, <3>3, <4>1, OpenedEnds
      <4> HIDE DEF e
      <4> QED
        BY <1>2, <2>1, <3>3, <3>4, <3>5, <4>2 DEF RecorderInv
    <3>6. CASE ~p.ok
      <4>1. end.dev = [c EXCEPT !.channels = p.channels]
        BY <3>4, <3>6
      <4>2. /\ end.dev \in Capture!Device
            /\ ~end.dev.ready /\ end.dev.handle = "null" /\ end.dev.pcms = 0
            /\ end.dev.recording = c.recording /\ end.dev.specified = c.specified
            /\ end.dev.buffer = 0
        BY <2>1, <3>3, <4>1, Channeled
      <4> HIDE DEF e
      <4> QED
        BY <1>2, <2>1, <3>3, <3>4, <3>6, <4>2 DEF RecorderInv
    <3> QED
      BY <3>3, <3>5, <3>6
  <2> QED
    BY <2>2, <2>3, <2>4 DEF Capture!May
<1> QED
  BY <1>1, <1>2 DEF RecorderInv, Capture!Device

\* After StopRecordingLocked nothing records, whatever fails; the handle is given
\* back at most once.
LEMMA StopRecordingEnds ==
  ASSUME NEW d, RecorderInv(d), NEW end \in Capture!StopRecordingLocked(d)
  PROVE  /\ RecorderInv(end.dev) /\ end.ok \in BOOLEAN
         /\ ~end.dev.ready /\ ~end.dev.recording
         /\ end.dev.specified = d.specified
<1>1. CASE ~d.ready
  BY <1>1, EndsOne DEF RecorderInv, Capture!StopRecordingLocked
<1>2. CASE d.ready
  <2> DEFINE s == Capture!Stopped(d)
  <2>1. /\ s \in Capture!Device /\ s.handle = "open" /\ s.pcms = 1
        /\ ~s.ready /\ ~s.recording /\ s.buffer = 0 /\ s.specified = d.specified
    BY <1>2, StoppedEnds DEF RecorderInv
  <2>2. PICK drops \in Capture!May("drop") :
          end \in IF ~drops THEN Capture!Ends(s, FALSE)
                  ELSE {[dev |-> IF closes THEN Capture!ForgetHandle(Capture!Close(s))
                                 ELSE Capture!Close(s),
                         ok |-> closes] : closes \in Capture!May("close")}
    BY <1>2 DEF RecorderInv, Capture!StopRecordingLocked
  <2> HIDE DEF s
  <2>3. CASE ~drops
    BY <2>1, <2>2, <2>3, EndsOne DEF RecorderInv
  <2>4. CASE drops
    <3>1. PICK closes \in Capture!May("close") :
            end = [dev |-> IF closes THEN Capture!ForgetHandle(Capture!Close(s))
                           ELSE Capture!Close(s),
                   ok |-> closes]
      BY <2>2, <2>4
    <3>2. closes \in BOOLEAN
      BY DEF Capture!May
    <3>3. end.dev \in {Capture!ForgetHandle(Capture!Close(s)), Capture!Close(s)}
          /\ end.ok = closes
      BY <3>1, <3>2
    <3> QED
      <4> DEFINE e == Capture!Close(s)
      <4>1. end.dev \in {Capture!ForgetHandle(e), e}
        BY <3>3
      <4> HIDE DEF e
      <4>2. /\ e \in Capture!Device /\ e.pcms = 0 /\ e.handle = "dangling"
            /\ ~e.ready /\ ~e.recording /\ e.buffer = 0 /\ e.specified = d.specified
        BY <2>1, CloseEnds DEF e
      <4> QED
        BY <3>2, <3>3, <4>1, <4>2, ForgetHandleEnds DEF RecorderInv
  <2> QED
    BY <2>2, <2>3, <2>4 DEF Capture!May
<1> QED
  BY <1>1, <1>2 DEF RecorderInv, Capture!Device

\* StartRecording called by who holds mutex_: the device records afterwards if it
\* was ready, with a block of its size.
LEMMA RestartEnds ==
  ASSUME NEW d, RecorderInv(d), ~d.recording,
         NEW r \in Capture!RestartRecording(d)
  PROVE  /\ RecorderInv(r.dev)
         /\ r.dev.ready <=> d.ready
         /\ r.dev.recording <=> d.ready
         /\ r.dev.recording => r.dev.buffer = r.dev.size
<1>1. CASE ~d.ready
  <2>1. r = [dev |-> d, spawns |-> FALSE, sticks |-> FALSE]
    BY <1>1 DEF Capture!RestartRecording
  <2>2. r.dev = d
    BY <2>1
  <2> QED
    BY <1>1, <2>2
<1>2. CASE d.ready
  <2> DEFINE m == Capture!Marked(d)
             a == Capture!Allocated(m)
  <2>1. r \in {[dev |-> a, spawns |-> TRUE, sticks |-> ~starts] : starts \in Capture!PcmStarts}
    BY <1>2 DEF Capture!RestartRecording
  <2> HIDE DEF a
  <2>2. r.dev = a
    BY <2>1
  <2>3. d \in Capture!Device
    BY DEF RecorderInv
  <2> HIDE DEF m
  <2>4. /\ m \in Capture!Device /\ m.recording /\ m.ready /\ m.handle = "open"
        /\ m.pcms = 1 /\ m.buffer = 0
    BY <1>2, <2>3, MarkedEnds DEF m, RecorderInv
  <2>5. /\ a \in Capture!Device /\ a.recording /\ a.ready /\ a.handle = "open"
        /\ a.pcms = 1 /\ a.buffer = a.size
    BY <2>4, AllocatedEnds DEF a
  <2> QED
    BY <1>2, <2>2, <2>5 DEF RecorderInv
<1> QED
  BY <1>1, <1>2

\* The question whether the device records in stereo: it may end an initialization
\* or a recording, when ALSA calls fail, but it begins none.
LEMMA AskStereoEnds ==
  ASSUME NEW d, RecorderInv(d), d.recording => d.buffer = d.size,
         NEW end \in Capture!AskStereo(d)
  PROVE  /\ RecorderInv(end.dev)
         /\ end.dev.recording => d.recording /\ end.dev.buffer = end.dev.size
         /\ d.specified /\ capture_machine.failures = {} =>
              (end.dev.ready <=> d.ready) /\ (end.dev.recording <=> d.recording)
         /\ end.answer \in BOOLEAN
<1>1. CASE d.ready /\ d.channels = 2
  <2>1. end = [dev |-> d, answer |-> TRUE, spawns |-> FALSE, sticks |-> FALSE]
    BY <1>1 DEF Capture!AskStereo
  <2>2. end.dev = d /\ end.answer = TRUE
    BY <2>1
  <2> QED
    BY <2>2
<1>2. CASE ~(d.ready /\ d.channels = 2)
  <2> DEFINE stopped == IF d.ready THEN Capture!Devs(Capture!StopRecordingLocked(d)) ELSE {d}
             tried == UNION {Capture!InitRecordingLocked([e EXCEPT !.channels = 2])
                               : e \in stopped}
             back == UNION {{[dev |-> [f EXCEPT !.channels = d.channels],
                              answer |-> t.ok]
                               : f \in Capture!Devs(Capture!StopRecordingLocked(t.dev))}
                              : t \in tried}
             ready == UNION {{[dev |-> e, answer |-> b.answer]
                                : e \in IF d.ready
                                        THEN Capture!Devs(Capture!InitRecordingLocked(b.dev))
                                        ELSE {b.dev}} : b \in back}
             restarted(i) == IF d.recording THEN Capture!RestartRecording(i.dev)
                             ELSE {[dev |-> i.dev, spawns |-> FALSE, sticks |-> FALSE]}
  <2>1. end \in UNION {{[dev |-> r.dev, answer |-> i.answer, spawns |-> r.spawns,
                         sticks |-> r.sticks] : r \in restarted(i)} : i \in ready}
    BY <1>2 DEF Capture!AskStereo
  <2> HIDE DEF ready, restarted
  <2>2. PICK i \in ready :
          \E r \in restarted(i) : end = [dev |-> r.dev, answer |-> i.answer,
                                         spawns |-> r.spawns, sticks |-> r.sticks]
    BY <2>1
  <2>3. PICK r \in restarted(i) : end.dev = r.dev /\ end.answer = i.answer
    BY <2>2
  <2> HIDE DEF back
  <2>4. PICK b \in back :
          \E e \in IF d.ready THEN Capture!Devs(Capture!InitRecordingLocked(b.dev))
                   ELSE {b.dev} : i = [dev |-> e, answer |-> b.answer]
    BY DEF ready
  <2> HIDE DEF tried
  <2>5. PICK t \in tried :
          \E f \in Capture!Devs(Capture!StopRecordingLocked(t.dev)) :
             b = [dev |-> [f EXCEPT !.channels = d.channels], answer |-> t.ok]
    BY DEF back
  <2> HIDE DEF stopped
  <2>6. PICK e \in stopped : t \in Capture!InitRecordingLocked([e EXCEPT !.channels = 2])
    BY DEF tried
  <2>7. /\ RecorderInv(e) /\ ~e.ready /\ ~e.recording
        /\ e.specified <=> d.specified
    <3>1. CASE d.ready
      BY <3>1, StopRecordingEnds DEF stopped, Capture!Devs
    <3>2. CASE ~d.ready
      BY <3>2 DEF stopped, RecorderInv
    <3> QED
      BY <3>1, <3>2
  <2> DEFINE e2 == [e EXCEPT !.channels = 2]
  <2>8. /\ RecorderInv(e2) /\ ~e2.ready /\ ~e2.recording
        /\ e2.specified <=> d.specified
    <3>1. e \in Capture!Device
      BY <2>7 DEF RecorderInv
    <3> HIDE DEF e2
    <3> QED
      BY <2>7, <3>1, Channeled DEF RecorderInv, e2
  <2>9. t \in Capture!InitRecordingLocked(e2)
    BY <2>6
  <2> HIDE DEF e2
  <2>10. /\ RecorderInv(t.dev) /\ t.ok \in BOOLEAN
         /\ t.dev.specified <=> d.specified
    BY <2>8, <2>9, InitRecordingEnds
  <2>11. PICK f \in Capture!Devs(Capture!StopRecordingLocked(t.dev)) :
           b = [dev |-> [f EXCEPT !.channels = d.channels], answer |-> t.ok]
    BY <2>5
  <2>12. /\ RecorderInv(f) /\ ~f.ready /\ ~f.recording
         /\ f.specified <=> d.specified
    BY <2>10, StopRecordingEnds DEF Capture!Devs
  <2>13. b.dev = [f EXCEPT !.channels = d.channels] /\ b.answer = t.ok
    BY <2>11
  <2>14. /\ RecorderInv(b.dev) /\ ~b.dev.ready /\ ~b.dev.recording
         /\ b.dev.specified <=> d.specified
    <3>1. f \in Capture!Device /\ d.channels \in {1, 2}
      BY <2>12 DEF RecorderInv, Capture!Device
    <3> QED
      BY <2>12, <2>13, <3>1, Channeled DEF RecorderInv
  <2>15. PICK g \in IF d.ready THEN Capture!Devs(Capture!InitRecordingLocked(b.dev))
                    ELSE {b.dev} : i = [dev |-> g, answer |-> b.answer]
    BY <2>4
  <2>16. i.dev = g /\ i.answer \in BOOLEAN
    BY <2>10, <2>13, <2>15
  <2>17. /\ RecorderInv(i.dev) /\ ~i.dev.recording
         /\ d.specified /\ capture_machine.failures = {} => (i.dev.ready <=> d.ready)
    <3>1. CASE d.ready
      <4>1. Settable
        BY <3>1 DEF RecorderInv
      <4> QED
        BY <2>14, <2>15, <2>16, <3>1, <4>1, InitRecordingEnds DEF Capture!Devs
    <3>2. CASE ~d.ready
      BY <2>14, <2>15, <2>16, <3>2
    <3> QED
      BY <3>1, <3>2
  <2>18. CASE d.recording
    <3>1. r \in Capture!RestartRecording(i.dev)
      BY <2>18 DEF restarted
    <3>2. d.ready
      BY <2>18 DEF RecorderInv
    <3> QED
      BY <2>3, <2>16, <2>17, <2>18, <3>1, <3>2, RestartEnds
  <2>19. CASE ~d.recording
    <3>1. r.dev = i.dev
      BY <2>19 DEF restarted
    <3> QED
      BY <2>3, <2>16, <2>17, <2>19, <3>1
  <2> QED
    BY <2>18, <2>19
<1> QED
  BY <1>1, <1>2

-----------------------------------------------------------------------------
(* The recording side as a system.                                          *)

\* The block is made between StartRecording's marks and its thread, and only
\* there does the device record without it.
CaptureInv ==
  /\ Capture!TypeOK
  /\ RecorderInv(capture_dev)
  /\ capture_dev.recording =>
       buf_recording /\ (capture_control # "allocate" => capture_dev.buffer = capture_dev.size)
  /\ capture_control = "allocate" => capture_dev.recording /\ capture_dev.buffer = 0

\* The types of all but the device.
Others ==
  /\ capture_machine \in CaptureMachines
  /\ initialized \in BOOLEAN
  /\ loaded \in BOOLEAN
  /\ buf_recording \in BOOLEAN
  /\ callback \in BOOLEAN
  /\ capture_control \in Capture!Controls
  /\ capture_answer \in BOOLEAN
  /\ capture_threads \in [Threads -> [pc : Capture!ThreadPCs, size : 0..2]]
  /\ capture_crashed \in {"no", "no symbols", "closed twice", "handle", "own buffer",
                           "null buffer", "short read"}

LEMMA CaptureParts ==
  ASSUME Others', capture_machine' = capture_machine,
         RecorderInv(capture_dev'),
         capture_dev'.recording =>
           /\ buf_recording'
           /\ capture_control' # "allocate" => capture_dev'.buffer = capture_dev'.size,
         capture_control' = "allocate" => capture_dev'.recording /\ capture_dev'.buffer = 0
  PROVE  CaptureInv'
<1>1. RecorderInv(capture_dev)'
  BY DEF RecorderInv, Settable, Capture!Device
<1>2. capture_dev' \in Capture!Device
  BY DEF RecorderInv
<1>3. Capture!TypeOK'
  BY <1>2 DEF Others, Capture!TypeOK, Capture!Device
<1> QED
  BY <1>1, <1>3 DEF CaptureInv

LEMMA CaptureInvOthers ==
  ASSUME CaptureInv PROVE Others
  BY DEF CaptureInv, Capture!TypeOK, Others

LEMMA SpawnedType ==
  ASSUME NEW ts \in [Threads -> [pc : Capture!ThreadPCs, size : 0..2]],
         NEW us \in Capture!SpawnedThread(ts)
  PROVE  us \in [Threads -> [pc : Capture!ThreadPCs, size : 0..2]]
<1>1. [pc |-> "check", size |-> 0] \in [pc : Capture!ThreadPCs, size : 0..2]
  BY DEF Capture!ThreadPCs
<1>2. PICK t \in Threads : us = [ts EXCEPT ![t] = [pc |-> "check", size |-> 0]]
  BY DEF Capture!SpawnedThread
<1> HIDE DEF Capture!ThreadPCs
<1> QED
  BY <1>1, <1>2

LEMMA BecomesEnds ==
  ASSUME NEW d, Capture!Becomes(d)
  PROVE  capture_dev' = d /\ capture_crashed' \in {"no", "closed twice"}
  BY DEF Capture!Becomes

LEMMA CaptureInitially == Capture!Init => CaptureInv
<1> SUFFICES ASSUME Capture!Init PROVE CaptureInv
  OBVIOUS
<1>1. Others
  <2>1. [pc |-> "none", size |-> 0] \in [pc : Capture!ThreadPCs, size : 0..2]
    BY DEF Capture!ThreadPCs
  <2> QED
    BY <2>1 DEF Capture!Init, Others, Capture!Controls
<1> DEFINE no == FALSE
           zero == 0
           null == "null"
<1>2. capture_dev = [specified |-> no, ready |-> no, recording |-> no, channels |-> 2,
                     handle |-> null, pcms |-> zero, twice |-> no,
                     size |-> zero, buffer |-> zero, left |-> zero]
  BY DEF Capture!Init
<1>3. /\ no \in BOOLEAN /\ zero \in 0..Frames /\ zero \in 0..2 /\ zero \in Nat
      /\ null \in {"null", "open", "dangling"} /\ 2 \in {1, 2}
  BY FramesPositive
<1> HIDE DEF no, zero, null
<1>4. capture_dev \in Capture!Device
  BY <1>2, <1>3 DEF Capture!Device
<1>5. /\ capture_dev.handle = null /\ capture_dev.pcms = zero
      /\ capture_dev.ready = no /\ capture_dev.recording = no
      /\ capture_dev.buffer = zero
  BY <1>2
<1>6. RecorderInv(capture_dev) /\ ~capture_dev.recording
  BY <1>4, <1>5 DEF RecorderInv, no, zero, null
<1>7. Capture!TypeOK
  BY <1>1, <1>4 DEF Others, Capture!TypeOK
<1>8. capture_control = "idle"
  BY DEF Capture!Init
<1> QED
  BY <1>6, <1>7, <1>8 DEF CaptureInv

LEMMA CaptureCalls ==
  ASSUME CaptureInv, Capture!Calls PROVE CaptureInv'
<1> USE CaptureInvOthers
<1>0. RecorderInv(capture_dev) /\ capture_dev \in Capture!Device
  BY DEF CaptureInv, RecorderInv
<1>1. CASE Capture!DeviceInit
  <2>1. Others' /\ capture_machine' = capture_machine
    BY <1>1 DEF Others, Capture!DeviceInit
  <2>2. UNCHANGED <<capture_dev, buf_recording, capture_control>>
    BY <1>1 DEF Capture!DeviceInit
  <2> QED
    BY <2>1, <2>2, <1>0, CaptureParts DEF CaptureInv
<1>2. CASE Capture!Terminate
  <2>1. Others' /\ capture_machine' = capture_machine
    BY <1>2 DEF Others, Capture!Terminate
  <2>2. /\ UNCHANGED <<buf_recording, capture_control>>
        /\ capture_dev' = [capture_dev EXCEPT !.specified = FALSE]
    BY <1>2 DEF Capture!Terminate
  <2>3. RecorderInv(capture_dev')
    BY <1>0, <2>2 DEF RecorderInv, Capture!Device
  <2> QED
    BY <2>1, <2>2, <2>3, <1>0, CaptureParts DEF CaptureInv, Capture!Device
<1>3. CASE Capture!SetRecordingDevice
  <2>1. Others' /\ capture_machine' = capture_machine
    BY <1>3 DEF Others, Capture!SetRecordingDevice, Capture!system
  <2>2. /\ UNCHANGED <<buf_recording, capture_control>>
        /\ capture_dev' = capture_dev \/ capture_dev' = [capture_dev EXCEPT !.specified = TRUE]
    BY <1>3 DEF Capture!SetRecordingDevice
  <2>3. RecorderInv(capture_dev')
    BY <1>0, <2>2 DEF RecorderInv, Capture!Device
  <2> QED
    BY <2>1, <2>2, <2>3, <1>0, CaptureParts DEF CaptureInv, Capture!Device
<1>4. ASSUME NEW k \in {1, 2}, Capture!SetStereoRecording(k) PROVE CaptureInv'
  <2>1. Others' /\ capture_machine' = capture_machine
    BY <1>4 DEF Others, Capture!SetStereoRecording, Capture!system
  <2>2. /\ UNCHANGED <<buf_recording, capture_control>>
        /\ capture_dev' = [capture_dev EXCEPT !.channels = k]
    BY <1>4 DEF Capture!SetStereoRecording
  <2> QED
    BY <2>1, <2>2, <1>0, CaptureParts, Channeled DEF CaptureInv, RecorderInv
<1>5. CASE Capture!InitRecording
  <2>1. PICK end \in Capture!InitRecordingLocked(capture_dev) : Capture!Becomes(end.dev)
    BY <1>5 DEF Capture!InitRecording
  <2>2. /\ RecorderInv(capture_dev') /\ capture_dev'.recording = capture_dev.recording
        /\ capture_crashed' \in {"no", "closed twice"}
    <3>1. RecorderInv(end.dev) /\ end.dev.recording = capture_dev.recording
      BY <1>0, <2>1, InitRecordingEnds
    <3> QED
      BY <2>1, <3>1, BecomesEnds
  <2>3. Others' /\ capture_machine' = capture_machine
    BY <1>5, <2>2 DEF Others, Capture!InitRecording, Capture!system
  <2>4. /\ UNCHANGED <<buf_recording, capture_control>> /\ capture_control = "idle"
        /\ ~capture_dev.recording
    BY <1>0, <1>5 DEF Capture!InitRecording, Capture!Ready, Capture!Idle, RecorderInv
  <2> QED
    BY <2>2, <2>3, <2>4, CaptureParts
<1>6. ASSUME NEW set \in BOOLEAN, Capture!RegisterAudioCallback(set) PROVE CaptureInv'
  <2>1. Others' /\ capture_machine' = capture_machine
    BY <1>6 DEF Others, Capture!RegisterAudioCallback, Capture!system
  <2>2. UNCHANGED <<capture_dev, buf_recording, capture_control>>
    BY <1>6 DEF Capture!RegisterAudioCallback
  <2> QED
    BY <2>1, <2>2, <1>0, CaptureParts DEF CaptureInv
<1>7. CASE Capture!StartRecording
  <2>1. /\ capture_control = "idle" /\ ~capture_dev.recording /\ capture_dev.buffer = 0
        /\ buf_recording' = TRUE
    BY <1>0, <1>7 DEF Capture!StartRecording, Capture!Ready, Capture!Idle, RecorderInv
  <2>2. CASE capture_dev.ready
    <3>1. capture_dev' = Capture!Marked(capture_dev) /\ capture_control' = "allocate"
      BY <1>7, <2>2 DEF Capture!StartRecording
    <3>2. Others' /\ capture_machine' = capture_machine
      BY <1>7, <2>1, <3>1 DEF Others, Capture!StartRecording, Capture!system, Capture!Controls
    <3>3. /\ RecorderInv(capture_dev')
          /\ capture_dev'.recording /\ capture_dev'.buffer = 0
      BY <1>0, <2>1, <2>2, <3>1, MarkedEnds DEF RecorderInv
    <3> QED
      BY <2>1, <3>1, <3>2, <3>3, CaptureParts
  <2>3. CASE ~capture_dev.ready
    <3>1. UNCHANGED <<capture_dev, capture_control>>
      BY <1>7, <2>3 DEF Capture!StartRecording
    <3>2. Others' /\ capture_machine' = capture_machine
      BY <1>7, <2>1, <3>1 DEF Others, Capture!StartRecording, Capture!system
    <3> QED
      BY <1>0, <2>1, <3>1, <3>2, CaptureParts
  <2> QED
    BY <2>2, <2>3
<1>8. CASE Capture!StopRecording
  <2>1. PICK end \in Capture!StopRecordingLocked(capture_dev) : Capture!Becomes(end.dev)
    BY <1>8 DEF Capture!StopRecording
  <2>2. /\ RecorderInv(capture_dev') /\ ~capture_dev'.recording
        /\ capture_crashed' \in {"no", "closed twice"}
    <3>1. RecorderInv(end.dev) /\ ~end.dev.recording
      BY <1>0, <2>1, StopRecordingEnds
    <3> QED
      BY <2>1, <3>1, BecomesEnds
  <2>3. Others' /\ capture_machine' = capture_machine
    BY <1>8, <2>2 DEF Others, Capture!StopRecording, Capture!system
  <2>4. capture_control' = "idle"
    BY <1>8 DEF Capture!StopRecording, Capture!Ready, Capture!Idle
  <2> QED
    BY <2>2, <2>3, <2>4, CaptureParts
<1>9. CASE Capture!ProbeMono
  <2> DEFINE mono == [capture_dev EXCEPT !.channels = 1]
  <2>1. PICK end \in Capture!InitRecordingLocked(mono) :
          Capture!Becomes(end.dev) /\ capture_answer' = end.ok
    BY <1>9 DEF Capture!ProbeMono
  <2>2. capture_control = "idle" /\ capture_control' = "cancel"
    BY <1>9 DEF Capture!ProbeMono, Capture!Ready, Capture!Idle
  <2> HIDE DEF mono
  <2>3. /\ RecorderInv(mono) /\ mono.recording = capture_dev.recording
        /\ mono.ready = capture_dev.ready
        /\ mono.buffer = capture_dev.buffer /\ mono.size = capture_dev.size
    BY <1>0, Channeled DEF RecorderInv, mono
  <2>4. /\ RecorderInv(capture_dev') /\ capture_answer' \in BOOLEAN
        /\ capture_dev'.recording = capture_dev.recording
        /\ mono.ready => capture_dev' = mono
        /\ capture_crashed' \in {"no", "closed twice"}
    <3>1. /\ RecorderInv(end.dev) /\ end.ok \in BOOLEAN
          /\ end.dev.recording = mono.recording
          /\ mono.ready => end.dev = mono
      BY <2>1, <2>3, InitRecordingEnds
    <3> QED
      BY <2>1, <2>3, <3>1, BecomesEnds
  <2>5. Others' /\ capture_machine' = capture_machine
    BY <1>9, <2>2, <2>4 DEF Others, Capture!ProbeMono, Capture!system, Capture!Controls
  <2>6. /\ buf_recording' = buf_recording
        /\ capture_dev.recording =>
             /\ capture_dev' = mono /\ buf_recording
             /\ capture_dev'.buffer = capture_dev'.size
    BY <1>9, <2>2, <2>3, <2>4 DEF Capture!ProbeMono, CaptureInv, RecorderInv
  <2> QED
    BY <2>2, <2>4, <2>5, <2>6, CaptureParts
<1>10. CASE Capture!StereoRecordingIsAvailable
  <2>1. PICK end \in Capture!AskStereo(capture_dev) :
          Capture!Becomes(end.dev) /\ Capture!Asked(end)
    BY <1>10 DEF Capture!StereoRecordingIsAvailable
  <2>2. /\ capture_control = "idle" /\ capture_control' \in {"stuck", "idle"}
        /\ buf_recording' = buf_recording
        /\ capture_dev.recording => buf_recording /\ capture_dev.buffer = capture_dev.size
    BY <1>10, <2>1 DEF Capture!StereoRecordingIsAvailable, Capture!Ready, Capture!Idle,
                       Capture!Asked, CaptureInv
  <2>3. /\ RecorderInv(capture_dev') /\ capture_answer' \in BOOLEAN
        /\ capture_dev'.recording =>
             capture_dev.recording /\ capture_dev'.buffer = capture_dev'.size
        /\ capture_crashed' \in {"no", "closed twice"}
    <3>1. /\ RecorderInv(end.dev) /\ end.answer \in BOOLEAN
          /\ end.dev.recording => capture_dev.recording /\ end.dev.buffer = end.dev.size
      BY <1>0, <2>2, AskStereoEnds
    <3>2. capture_answer' = end.answer
      BY <2>1 DEF Capture!Asked
    <3> QED
      BY <2>1, <3>1, <3>2, BecomesEnds
  <2>4. Others' /\ capture_machine' = capture_machine
    BY <2>1, <2>2, <2>3, SpawnedType
    DEF Others, Capture!Asked, Capture!system, Capture!Controls
  <2> QED
    BY <2>2, <2>3, <2>4, CaptureParts
<1> QED
  BY <1>1, <1>2, <1>3, <1>4, <1>5, <1>6, <1>7, <1>8, <1>9, <1>10 DEF Capture!Calls

\* What an operation that the control thread has begun does next.
LEMMA CaptureContinues ==
  ASSUME CaptureInv, Capture!Continues PROVE CaptureInv'
<1> USE CaptureInvOthers
<1>0. RecorderInv(capture_dev) /\ capture_dev \in Capture!Device
  BY DEF CaptureInv, RecorderInv
<1>1. CASE Capture!StartAllocates
  <2>1. /\ capture_control = "allocate" /\ capture_control' = "thread"
        /\ capture_dev' = Capture!Allocated(capture_dev)
        /\ buf_recording' = buf_recording
        /\ capture_dev.recording /\ capture_dev.buffer = 0 /\ buf_recording
    BY <1>1 DEF Capture!StartAllocates, CaptureInv
  <2>2. Others' /\ capture_machine' = capture_machine
    BY <1>1, <2>1 DEF Others, Capture!StartAllocates, Capture!system, Capture!Controls
  <2>3. /\ RecorderInv(capture_dev') /\ capture_dev'.recording
        /\ capture_dev'.buffer = capture_dev'.size
    BY <1>0, <2>1, AllocatedEnds DEF RecorderInv
  <2> QED
    BY <2>1, <2>2, <2>3, CaptureParts
<1>2. CASE Capture!StartMakesThread
  <2>1. /\ capture_control = "thread" /\ capture_control' = "start"
        /\ UNCHANGED <<capture_dev, buf_recording>>
        /\ capture_threads' \in Capture!SpawnedThread(capture_threads)
    BY <1>2 DEF Capture!StartMakesThread
  <2>2. Others' /\ capture_machine' = capture_machine
    BY <1>2, <2>1, SpawnedType
    DEF Others, Capture!StartMakesThread, Capture!system, Capture!Controls
  <2> QED
    BY <1>0, <2>1, <2>2, CaptureParts DEF CaptureInv
<1>3. CASE Capture!StartStartsPcm
  <2>1. /\ capture_control = "start" /\ capture_control' \in {"idle", "give_up"}
        /\ UNCHANGED <<capture_dev, buf_recording>>
    BY <1>3 DEF Capture!StartStartsPcm
  <2>2. Others' /\ capture_machine' = capture_machine
    BY <1>3, <2>1 DEF Others, Capture!StartStartsPcm, Capture!system, Capture!Controls
  <2> QED
    BY <1>0, <2>1, <2>2, CaptureParts DEF CaptureInv
<1>4. CASE Capture!StartGivesUp
  <2>1. PICK end \in Capture!StopRecordingLocked(capture_dev) : Capture!Becomes(end.dev)
    BY <1>4 DEF Capture!StartGivesUp
  <2>2. /\ RecorderInv(capture_dev') /\ ~capture_dev'.recording
        /\ capture_crashed' \in {"no", "closed twice"}
    <3>1. RecorderInv(end.dev) /\ ~end.dev.recording
      BY <1>0, <2>1, StopRecordingEnds
    <3> QED
      BY <2>1, <3>1, BecomesEnds
  <2>3. capture_control' = "idle"
    BY <1>4 DEF Capture!StartGivesUp
  <2>4. Others' /\ capture_machine' = capture_machine
    BY <1>4, <2>2, <2>3 DEF Others, Capture!StartGivesUp, Capture!system, Capture!Controls
  <2> QED
    BY <2>2, <2>3, <2>4, CaptureParts
<1>5. CASE Capture!ProbeCancels
  <2>1. PICK end \in Capture!StopRecordingLocked(capture_dev) : Capture!Becomes(end.dev)
    BY <1>5 DEF Capture!ProbeCancels
  <2>2. /\ RecorderInv(capture_dev') /\ ~capture_dev'.recording
        /\ capture_crashed' \in {"no", "closed twice"}
    <3>1. RecorderInv(end.dev) /\ ~end.dev.recording
      BY <1>0, <2>1, StopRecordingEnds
    <3> QED
      BY <2>1, <3>1, BecomesEnds
  <2>3. capture_control' \in {"idle", "stereo"}
    BY <1>5 DEF Capture!ProbeCancels
  <2>4. Others' /\ capture_machine' = capture_machine
    BY <1>5, <2>2, <2>3 DEF Others, Capture!ProbeCancels, Capture!system, Capture!Controls
  <2> QED
    BY <2>2, <2>3, <2>4, CaptureParts
<1>6. CASE Capture!ProbeStereo
  <2>1. PICK end \in Capture!AskStereo(capture_dev) :
          /\ Capture!Becomes([end.dev EXCEPT !.channels = IF end.answer THEN 2 ELSE @])
          /\ Capture!Asked(end)
    BY <1>6 DEF Capture!ProbeStereo
  <2>2. /\ capture_control = "stereo" /\ capture_control' \in {"stuck", "idle"}
        /\ buf_recording' = buf_recording
        /\ capture_dev.recording => buf_recording /\ capture_dev.buffer = capture_dev.size
    BY <1>6, <2>1 DEF Capture!ProbeStereo, Capture!Asked, CaptureInv
  <2>3. /\ RecorderInv(end.dev) /\ end.answer \in BOOLEAN
        /\ end.dev.recording => capture_dev.recording /\ end.dev.buffer = end.dev.size
    BY <1>0, <2>2, AskStereoEnds
  <2> DEFINE k == IF end.answer THEN 2 ELSE end.dev.channels
             e == [end.dev EXCEPT !.channels = k]
  <2>4. end.dev \in Capture!Device /\ k \in {1, 2}
    BY <2>3 DEF RecorderInv, Capture!Device
  <2>5. Capture!Becomes(e)
    BY <2>1
  <2> HIDE DEF k
  <2>6. /\ e \in Capture!Device
        /\ e.ready = end.dev.ready /\ e.recording = end.dev.recording
        /\ e.handle = end.dev.handle /\ e.pcms = end.dev.pcms
        /\ e.size = end.dev.size /\ e.buffer = end.dev.buffer
    <3> HIDE DEF e
    <3> QED
      BY <2>4, Channeled DEF e
  <2> HIDE DEF e
  <2>7. capture_answer' = end.answer
    BY <2>1 DEF Capture!Asked
  <2>8. /\ RecorderInv(capture_dev') /\ capture_answer' \in BOOLEAN
        /\ capture_dev'.recording =>
             capture_dev.recording /\ capture_dev'.buffer = capture_dev'.size
        /\ capture_crashed' \in {"no", "closed twice"}
    <3>1. capture_dev' = e /\ capture_crashed' \in {"no", "closed twice"}
      BY <2>5, BecomesEnds
    <3> QED
      BY <2>3, <2>6, <2>7, <3>1 DEF RecorderInv
  <2>9. Others' /\ capture_machine' = capture_machine
    BY <2>1, <2>2, <2>8, SpawnedType
    DEF Others, Capture!Asked, Capture!system, Capture!Controls
  <2> QED
    BY <2>2, <2>8, <2>9, CaptureParts
<1> QED
  BY <1>1, <1>2, <1>3, <1>4, <1>5, <1>6 DEF Capture!Continues

\* A capture thread touches of the device only the count of the frames left.
LEMMA CaptureThread ==
  ASSUME CaptureInv, NEW t \in Threads, Capture!Thread(t) PROVE CaptureInv'
<1> USE CaptureInvOthers
<1>0. RecorderInv(capture_dev) /\ capture_dev \in Capture!Device
  BY DEF CaptureInv, RecorderInv
<1>1. /\ Capture!Quiet
      /\ capture_dev' = capture_dev
         \/ \E n \in 1..capture_dev.left :
              capture_dev' = [capture_dev EXCEPT !.left = IF n = @ THEN Frames ELSE @ - n]
      /\ capture_crashed' \in {"no", "no symbols", "closed twice", "handle", "own buffer",
                               "null buffer", "short read"}
  BY DEF Capture!Thread, Capture!ThreadChecks, Capture!ThreadReads, Capture!ThreadWaits,
         Capture!ThreadDelivers, Capture!ThreadRelocks, Capture!TakesFrames, Capture!Crashes,
         Others
<1>2. capture_threads' \in [Threads -> [pc : Capture!ThreadPCs, size : 0..2]]
  <2>1. \A pc \in Capture!ThreadPCs :
          Capture!Goes(t, pc) =>
            capture_threads' \in [Threads -> [pc : Capture!ThreadPCs, size : 0..2]]
    BY DEF Others, Capture!Goes
  <2>2. {"none", "check", "lock", "wait", "deliver", "relock"} = Capture!ThreadPCs
    BY DEF Capture!ThreadPCs
  <2>3. CASE Capture!ThreadChecks(t)
    <3>1. PICK pc \in {"lock", "none"}, n \in {capture_dev.size, 0} :
            capture_threads' = [capture_threads EXCEPT ![t] = [pc |-> pc, size |-> n]]
      BY <2>3 DEF Capture!ThreadChecks
    <3>2. [pc |-> pc, size |-> n] \in [pc : Capture!ThreadPCs, size : 0..2]
      BY <1>0, <2>2 DEF Capture!Device
    <3> QED
      BY <3>1, <3>2 DEF Others
  <2>4. CASE Capture!ThreadReads(t)
    <3>1. \/ UNCHANGED capture_threads
          \/ Capture!Goes(t, "check") \/ Capture!Goes(t, "wait") \/ Capture!Goes(t, "deliver")
      BY <2>4 DEF Capture!ThreadReads, Capture!TakesFrames, Capture!Crashes
    <3> QED
      BY <2>1, <2>2, <3>1 DEF Others
  <2>5. CASE \/ Capture!ThreadWaits(t) \/ Capture!ThreadDelivers(t)
             \/ Capture!ThreadRelocks(t)
    <3>1. \/ UNCHANGED capture_threads
          \/ Capture!Goes(t, "check") \/ Capture!Goes(t, "relock")
      BY <2>5 DEF Capture!ThreadWaits, Capture!ThreadDelivers, Capture!ThreadRelocks,
                  Capture!Crashes
    <3> QED
      BY <2>1, <2>2, <3>1 DEF Others
  <2> QED
    BY <2>3, <2>4, <2>5 DEF Capture!Thread
<1>3. Others' /\ UNCHANGED <<capture_machine, buf_recording, capture_control>>
  BY <1>1, <1>2 DEF Others, Capture!Quiet, Capture!system
<1>4. CASE capture_dev' = capture_dev
  BY <1>0, <1>3, <1>4, CaptureParts DEF CaptureInv
<1>5. ASSUME NEW n \in 1..capture_dev.left,
             capture_dev' = [capture_dev EXCEPT !.left = IF n = @ THEN Frames ELSE @ - n]
      PROVE  CaptureInv'
  <2> DEFINE l == IF n = capture_dev.left THEN Frames ELSE capture_dev.left - n
  <2>1. l \in 0..Frames
    BY <1>0, FramesPositive DEF Capture!Device
  <2>2. capture_dev' = [capture_dev EXCEPT !.left = l]
    BY <1>5
  <2> HIDE DEF l
  <2>3. /\ capture_dev' \in Capture!Device
        /\ capture_dev'.ready = capture_dev.ready
        /\ capture_dev'.recording = capture_dev.recording
        /\ capture_dev'.handle = capture_dev.handle /\ capture_dev'.pcms = capture_dev.pcms
        /\ capture_dev'.size = capture_dev.size /\ capture_dev'.buffer = capture_dev.buffer
    BY <1>0, <2>1, <2>2 DEF Capture!Device
  <2> QED
    BY <1>0, <1>3, <2>3, CaptureParts DEF CaptureInv, RecorderInv
<1> QED
  BY <1>1, <1>4, <1>5

LEMMA CaptureStutters ==
  ASSUME CaptureInv, UNCHANGED Capture!vars PROVE CaptureInv'
<1>1. /\ Others' /\ capture_machine' = capture_machine
      /\ UNCHANGED <<capture_dev, buf_recording, capture_control>>
  BY CaptureInvOthers DEF Others, Capture!vars, Capture!system
<1> QED
  BY <1>1, CaptureParts DEF CaptureInv

LEMMA CaptureInvariant == Capture!Spec => []CaptureInv
<1>1. CaptureInv /\ [Capture!Next]_(Capture!vars) => CaptureInv'
  BY CaptureCalls, CaptureContinues, CaptureThread, CaptureStutters DEF Capture!Next
<1> QED
  BY CaptureInitially, <1>1, PTL DEF Capture!Spec

\* Every variable of the recording side keeps its type, whatever ALSA calls fail.
THEOREM CaptureTypeCorrect == Capture!Spec => []Capture!TypeOK
<1>1. CaptureInv => Capture!TypeOK
  BY DEF CaptureInv
<1> QED
  BY CaptureInvariant, <1>1, PTL

\* A device that records is initialized, its PCM handle is open, its 10 ms block has
\* the size of its channels and AudioDeviceBuffer is marked, for every machine.
THEOREM RecordsReady == Capture!Spec => []Capture!RecordingReady
<1>1. CaptureInv => Capture!RecordingReady
  BY DEF CaptureInv, RecorderInv, Capture!RecordingReady
<1> QED
  BY CaptureInvariant, <1>1, PTL

\* InitRecordingLocked and StopRecordingLocked lose no PCM handle, in every order of
\* failing opens, drops and closes.
THEOREM CaptureHandlesAccounted == Capture!Spec => []Capture!HandlesAccounted
<1>1. CaptureInv => Capture!HandlesAccounted
  BY DEF CaptureInv, RecorderInv, Capture!HandlesAccounted
<1> QED
  BY CaptureInvariant, <1>1, PTL

\* StereoRecordingIsAvailable leaves a device initialized and recording, or not, as it
\* was, when no ALSA call fails: it can be set again because it was set before.
THEOREM ProbeRestores == Capture!Spec => Capture!StereoProbeRestores
<1> DEFINE Restores == /\ Capture!StereoRecordingIsAvailable
                       /\ capture_dev.specified /\ capture_machine.failures = {}
                       => /\ capture_dev'.ready = capture_dev.ready
                          /\ capture_dev'.recording = capture_dev.recording
<1>1. CaptureInv /\ [Capture!Next]_(Capture!vars) => [Restores]_(Capture!vars)
  <2> SUFFICES ASSUME CaptureInv, Capture!StereoRecordingIsAvailable,
                      capture_dev.specified, capture_machine.failures = {}
               PROVE  /\ capture_dev'.ready = capture_dev.ready
                      /\ capture_dev'.recording = capture_dev.recording
    OBVIOUS
  <2>1. PICK end \in Capture!AskStereo(capture_dev) : Capture!Becomes(end.dev)
    BY DEF Capture!StereoRecordingIsAvailable
  <2>2. /\ RecorderInv(capture_dev)
        /\ capture_dev.recording => capture_dev.buffer = capture_dev.size
    BY DEF CaptureInv, Capture!StereoRecordingIsAvailable, Capture!Ready, Capture!Idle
  <2>3. /\ RecorderInv(end.dev)
        /\ (end.dev.ready <=> capture_dev.ready)
        /\ (end.dev.recording <=> capture_dev.recording)
    BY <2>2, AskStereoEnds
  <2>4. capture_dev' = end.dev
    BY <2>1, BecomesEnds
  <2> QED
    BY <2>2, <2>3, <2>4 DEF RecorderInv, Capture!Device
<1> QED
  BY CaptureInvariant, <1>1, PTL DEF Capture!Spec, Capture!StereoProbeRestores

-----------------------------------------------------------------------------
(* The mixers.                                                              *)

\* What every operation keeps of a mixer whose hardware has this element: there is
\* an element only while there is a handle, and it is the hardware's.  libasound has
\* a mixer open for the handle, and no other when kept.
MixerOK(x, element, kept) ==
  /\ x \in Mixers
  /\ x.element \in {"null", element}
  /\ x.handle = "null" => x.element = "null"
  /\ x.handle = "open" => x.opened # 0
  /\ kept => x.opened = (IF x.handle = "open" THEN 1 ELSE 0)

SpeakerOK(x) ==
  MixerOK(x, SpeakerElement(machine.speaker), NothingLost(machine.speaker) /\ AllNamed)

InputNamed == DeviceAt(machine.cards, FALSE, 0) # {}

MicrophoneOK(x) ==
  MixerOK(x, MicrophoneElement(machine.microphone),
          NothingLost(machine.microphone) /\ InputNamed)

Elements == {"null", "PCM", "Master", "Speaker", "Capture", "Mic"}

LEMMA MixerElements ==
  ASSUME NEW hw PROVE SpeakerElement(hw) \in Elements /\ MicrophoneElement(hw) \in Elements
  BY DEF SpeakerElement, MicrophoneElement, Elements

LEMMA SpeakerCloses ==
  ASSUME NEW x, NEW element, NEW kept, MixerOK(x, element, kept),
         NEW y, y = CloseSpeakerLocked(x) \/ y = CloseMicrophoneLocked(x)
  PROVE  MixerOK(y, element, kept) /\ y.handle = "null"
<1>1. CASE x.handle = "null"
  BY <1>1 DEF CloseSpeakerLocked, CloseMicrophoneLocked
<1>2. CASE x.handle # "null"
  <2> DEFINE n == x.opened - 1
  <2>1. x \in Mixers /\ x.handle = "open"
    BY <1>2 DEF MixerOK, Mixers
  <2>2. n \in Nat
    BY <2>1 DEF MixerOK, Mixers
  <2>3. y = [x EXCEPT !.handle = "null", !.element = "null", !.opened = n]
    BY <1>2 DEF CloseSpeakerLocked, CloseMicrophoneLocked
  <2> HIDE DEF n
  <2>4. y \in Mixers /\ y.handle = "null" /\ y.element = "null" /\ y.opened = n
    BY <2>1, <2>2, <2>3 DEF Mixers
  <2> QED
    BY <2>1, <2>4 DEF MixerOK, n
<1> QED
  BY <1>1, <1>2

LEMMA AnswerOne ==
  ASSUME NEW x, NEW a, NEW end, end \in Says(x, a) \/ end = [mixer |-> x, answer |-> a]
  PROVE  end.mixer = x /\ end.answer = a
  BY DEF Says

LEMMA MixerOpens ==
  ASSUME NEW hw, NEW x, NEW element \in Elements, NEW kept \in BOOLEAN,
         MixerOK(x, element, kept), x.handle = "null",
         NEW named \in BOOLEAN, kept => NothingLost(hw) /\ named,
         NEW end \in OpensAs(hw, x, named, element)
  PROVE  /\ MixerOK(end.mixer, element, kept) /\ end.answer \in {-1, 0}
         /\ end.answer # -1 => end.mixer.element = element /\ element # "null"
         /\ end = [mixer |-> end.mixer, answer |-> end.answer]
<1>1. CASE end \in Refused(x)
  <2>1. /\ end.mixer = x /\ end.answer = -1
        /\ end = [mixer |-> end.mixer, answer |-> end.answer]
    BY <1>1 DEF Refused
  <2> QED
    BY <2>1
<1>2. CASE end \notin Refused(x)
  <2> DEFINE n == x.opened + 1
             y == [x EXCEPT !.opened = n]
             z == [y EXCEPT !.handle = "open", !.element = element]
             a == IF element = "null" THEN -1 ELSE 0
  <2>1. \/ named /\ end \in Says(z, a)
        \/ ~(named /\ NothingLost(hw)) /\ end \in Refused(y)
    BY <1>2 DEF OpensAs, CallEnds, NothingLost
  <2>2. x \in Mixers /\ n \in Nat /\ n # 0
    BY DEF MixerOK, Mixers
  <2>3. /\ y \in Mixers /\ y.opened = n /\ y.handle = "null" /\ y.element = "null"
        /\ kept => n = 1
    BY <2>2 DEF MixerOK, Mixers
  <2> HIDE DEF n, y
  <2>4. /\ z \in Mixers /\ z.opened = n /\ z.handle = "open" /\ z.element = element
    BY <2>3 DEF Mixers, Elements
  <2> HIDE DEF z
  <2>5. CASE named /\ end \in Says(z, a)
    <3>1. end.mixer = z /\ end.answer = a
      BY <2>5, AnswerOne
    <3>2. end = [mixer |-> end.mixer, answer |-> end.answer]
      BY <2>5, <3>1 DEF Says
    <3> QED
      BY <2>2, <2>3, <2>4, <3>1, <3>2 DEF MixerOK
  <2>6. CASE ~(named /\ NothingLost(hw)) /\ end \in Refused(y)
    <3>1. /\ end.mixer = y /\ end.answer = -1
          /\ end = [mixer |-> end.mixer, answer |-> end.answer]
      BY <2>6 DEF Refused
    <3> QED
      BY <2>3, <2>6, <3>1 DEF MixerOK
  <2> QED
    BY <2>1, <2>5, <2>6
<1> QED
  BY <1>1, <1>2

\* An operation on the volume or the mute, which changes at most the element's state.
KeepsMixer(x, end) ==
  /\ \/ end.mixer = x
     \/ \E level \in 0..Top : end.mixer = [x EXCEPT !.level = level]
     \/ \E muted \in BOOLEAN : end.mixer = [x EXCEPT !.muted = muted]
  /\ end.answer \in Answers

LEMMA KeptMixer ==
  ASSUME NEW x, NEW element, NEW kept, MixerOK(x, element, kept),
         NEW end, KeepsMixer(x, end)
  PROVE  MixerOK(end.mixer, element, kept)
  BY DEF MixerOK, Mixers, KeepsMixer

LEMMA TopPositive == Top \in Nat \ {0}
  BY MixerAssumption

LEMMA KeepsUnchanged ==
  ASSUME NEW x, NEW a \in Answers, NEW end, end \in Says(x, a) \/ end \in Refused(x)
  PROVE  KeepsMixer(x, end)
<1>1. end.mixer = x /\ (end.answer = a \/ end.answer = -1)
  BY DEF Says, Refused
<1> QED
  BY <1>1 DEF KeepsMixer, Answers

LEMMA KeepsVolume ==
  ASSUME NEW hw, NEW x \in Mixers, NEW end,
         \/ \E level \in 0..Top : end \in SetVolume(hw, x, level)
         \/ end \in Volume(hw, x)
         \/ end \in Loudest(hw, x)
         \/ end \in Says(x, 0)
         \/ end \in Refused(x)
  PROVE  KeepsMixer(x, end)
<1> USE TopPositive
<1>0. x.level \in Answers /\ 0 \in Answers /\ Top \in Answers
  BY DEF Mixers, Answers
<1>1. CASE \E level \in 0..Top : end \in SetVolume(hw, x, level)
  <2>1. PICK level \in 0..Top :
          end \in Says([x EXCEPT !.level = level], 0) \/ end \in Refused(x)
    BY <1>1 DEF SetVolume, CallEnds
  <2>2. CASE end \in Says([x EXCEPT !.level = level], 0)
    BY <1>0, <2>2, AnswerOne DEF KeepsMixer
  <2> QED
    BY <1>0, <2>1, <2>2, KeepsUnchanged
<1>2. CASE end \in Volume(hw, x)
  <2>1. end \in Says(x, x.level) \/ end \in Refused(x)
    BY <1>2 DEF Volume, CallEnds
  <2> QED
    BY <1>0, <2>1, KeepsUnchanged
<1>3. CASE end \in Loudest(hw, x)
  <2>1. end \in Says(x, Top) \/ end \in Says(x, 0)
    BY <1>3 DEF Loudest
  <2> QED
    BY <1>0, <2>1, KeepsUnchanged
<1> QED
  BY <1>0, <1>1, <1>2, <1>3, KeepsUnchanged

LEMMA KeepsMute ==
  ASSUME NEW hw, NEW x \in Mixers, NEW end,
         \/ \E on \in BOOLEAN : end \in SetSwitch(hw, x, on)
         \/ end \in Negated(Switch(hw, x))
         \/ end \in Refused(x)
  PROVE  KeepsMixer(x, end)
<1> USE TopPositive
<1>0. 0 \in Answers /\ 1 \in Answers
  BY DEF Answers
<1>1. CASE \E on \in BOOLEAN : end \in SetSwitch(hw, x, on)
  <2>1. PICK on \in BOOLEAN :
          end \in Says([x EXCEPT !.muted = ~on], 0) \/ end \in Refused(x)
    BY <1>1 DEF SetSwitch, CallEnds
  <2>2. CASE end \in Says([x EXCEPT !.muted = ~on], 0)
    <3>1. end.mixer = [x EXCEPT !.muted = ~on] /\ end.answer = 0
      BY <2>2, AnswerOne
    <3>2. (~on) \in BOOLEAN
      OBVIOUS
    <3> QED
      BY <1>0, <3>1, <3>2 DEF KeepsMixer
  <2> QED
    BY <1>0, <2>1, <2>2, KeepsUnchanged
<1>2. CASE end \in Negated(Switch(hw, x))
  <2>1. PICK e \in Switch(hw, x) :
          end = [e EXCEPT !.answer = IF @ = -1 THEN -1 ELSE 1 - @]
    BY <1>2 DEF Negated
  <2>2. \E a \in {-1, 0, 1} : e = [mixer |-> x, answer |-> a]
    BY <2>1, ZenonT(60) DEF Switch, CallEnds, Says, Refused, Truth
  <2>3. end.mixer = x /\ end.answer \in {-1, 0, 1}
    BY <2>1, <2>2
  <2> QED
    BY <1>0, <2>3 DEF KeepsMixer, Answers
<1> QED
  BY <1>0, <1>1, <1>2, KeepsUnchanged

-----------------------------------------------------------------------------
(* The playout side under mutex_.                                           *)

Works == [dev : Device, speaker : Mixers, buffer : Buffer, ok : BOOLEAN]

\* The handle is open exactly while the device is initialized, and then the sizes of
\* the device and of AudioDeviceBuffer agree; the block exists only while it plays.
PlayerInv(d, b) ==
  /\ d \in Device /\ b \in Buffer
  /\ d.handle = (IF d.ready THEN "open" ELSE "null")
  /\ d.pcms = (IF d.ready THEN 1 ELSE 0)
  /\ d.ready => d.timed /\ d.size = b.channels /\ d.size \in {1, 2}
  /\ d.playing => d.ready
  /\ ~d.playing => d.block = 0

NamedOK(d) == AllNamed => d.named

WorkOK(w) ==
  w \in Works /\ PlayerInv(w.dev, w.buffer) /\ SpeakerOK(w.speaker) /\ NamedOK(w.dev)

\* What the assignments of each operation leave of what it works on.
LEMMA OkSet ==
  ASSUME NEW w \in Works, NEW k \in BOOLEAN, NEW e, e = [w EXCEPT !.ok = k]
  PROVE  /\ e \in Works /\ e.dev = w.dev /\ e.speaker = w.speaker
         /\ e.buffer = w.buffer /\ e.ok = k
  BY DEF Works

LEMMA EndsOk ==
  ASSUME NEW w, WorkOK(w), NEW k \in BOOLEAN, NEW e \in Ends(w, k)
  PROVE  /\ WorkOK(e) /\ e.dev = w.dev /\ e.speaker = w.speaker
         /\ e.buffer = w.buffer /\ e.ok = k
<1>1. e = [w EXCEPT !.ok = k]
  BY DEF Ends
<1> QED
  BY <1>1, OkSet DEF WorkOK

LEMMA SpeakerInitEnds ==
  ASSUME NEW w, WorkOK(w), NEW e \in InitSpeakerLocked(w)
  PROVE  WorkOK(e) /\ e.dev = w.dev /\ e.buffer = w.buffer
<1>1. CASE e = w
  BY <1>1
<1>2. CASE e # w
  <2>1. PICK end \in OpenSpeaker(machine.speaker, w.speaker, w.dev.named) :
          e = [w EXCEPT !.speaker = end.mixer]
    BY <1>2 DEF InitSpeakerLocked
  <2> DEFINE c == CloseSpeakerLocked(w.speaker)
             element == SpeakerElement(machine.speaker)
             kept == NothingLost(machine.speaker) /\ AllNamed
  <2>2. MixerOK(c, element, kept) /\ c.handle = "null"
    BY SpeakerCloses DEF WorkOK, SpeakerOK
  <2>3. end \in OpensAs(machine.speaker, c, w.dev.named, element)
    BY <2>1 DEF OpenSpeaker
  <2>4. w.dev.named \in BOOLEAN /\ (kept => NothingLost(machine.speaker) /\ w.dev.named)
    BY DEF WorkOK, Works, Device, NamedOK
  <2>5. element \in Elements /\ kept \in BOOLEAN
    BY MixerElements DEF NothingLost, AllNamed
  <2> HIDE DEF c, element, kept
  <2>6. MixerOK(end.mixer, element, kept)
    BY <2>2, <2>3, <2>4, <2>5, MixerOpens
  <2>7. end.mixer \in Mixers
    BY <2>6 DEF MixerOK
  <2>8. e \in Works /\ e.dev = w.dev /\ e.buffer = w.buffer /\ e.speaker = end.mixer
    BY <2>1, <2>7 DEF WorkOK, Works
  <2> QED
    BY <2>6, <2>8 DEF WorkOK, SpeakerOK, element, kept
<1> QED
  BY <1>1, <1>2

LEMMA PlayoutCloses ==
  ASSUME NEW w, WorkOK(w), ~w.dev.ready
  PROVE  CloseExisting(w) = w
  BY DEF CloseExisting, WorkOK, PlayerInv

LEMMA PlayoutUnset ==
  ASSUME NEW w, WorkOK(w), ~w.dev.ready, NEW e, e = Unset(w)
  PROVE  /\ WorkOK(e) /\ e.ok = FALSE
         /\ e.dev.ready = w.dev.ready /\ e.dev.playing = w.dev.playing
         /\ e.dev.specified = w.dev.specified /\ e.buffer = w.buffer
<1> DEFINE no == FALSE
           d == [w.dev EXCEPT !.timed = no]
<1>1. w \in Works /\ no \in BOOLEAN /\ w.dev \in Device
  BY DEF WorkOK, Works
<1>2. e = [w EXCEPT !.dev = d, !.ok = no]
  BY <1>1 DEF Unset, Works
<1> HIDE DEF no
<1>3. /\ d \in Device
      /\ d.specified = w.dev.specified /\ d.named = w.dev.named
      /\ d.ready = w.dev.ready /\ d.playing = w.dev.playing
      /\ d.handle = w.dev.handle /\ d.pcms = w.dev.pcms /\ d.block = w.dev.block
  BY <1>1 DEF Device
<1> HIDE DEF d
<1>4. /\ e \in Works /\ e.dev = d /\ e.buffer = w.buffer /\ e.speaker = w.speaker
      /\ e.ok = no
  BY <1>1, <1>2, <1>3 DEF Works
<1> QED
  BY <1>3, <1>4 DEF WorkOK, PlayerInv, NamedOK, no

LEMMA PlayoutOpened ==
  ASSUME NEW w, WorkOK(w), ~w.dev.ready, NEW e, e = Opened(w)
  PROVE  /\ WorkOK(e) /\ e.ok = TRUE
         /\ e.dev.ready /\ e.dev.playing = w.dev.playing
         /\ e.dev.specified = w.dev.specified
         /\ e.buffer.playing = w.buffer.playing /\ e.buffer.size = w.buffer.size
<1> DEFINE yes == TRUE
           open == "open"
           p == w.dev.pcms + 1
           k == w.dev.channels
           d == [w.dev EXCEPT !.ready = yes, !.handle = open, !.pcms = p, !.timed = yes,
                              !.size = k]
           b == [w.buffer EXCEPT !.channels = k]
<1>1. /\ w \in Works /\ yes \in BOOLEAN /\ w.dev \in Device /\ w.buffer \in Buffer
      /\ open \in {"null", "open", "dangling"} /\ p \in Nat /\ k \in {1, 2} /\ k \in 0..2
      /\ p = 1
  BY DEF WorkOK, Works, Device, PlayerInv
<1>2. e = [w EXCEPT !.dev = d, !.buffer = b, !.ok = yes]
  BY <1>1 DEF Opened, Works
<1> HIDE DEF yes, open, p, k
<1>3. /\ d \in Device
      /\ d.specified = w.dev.specified /\ d.named = w.dev.named
      /\ d.ready = yes /\ d.playing = w.dev.playing
      /\ d.handle = open /\ d.pcms = p /\ d.timed = yes /\ d.size = k
      /\ d.block = w.dev.block
  BY <1>1 DEF Device
<1>4. /\ b \in Buffer /\ b.channels = k /\ b.playing = w.buffer.playing
      /\ b.size = w.buffer.size
  BY <1>1 DEF Buffer
<1> HIDE DEF d, b
<1>5. /\ e \in Works /\ e.dev = d /\ e.buffer = b /\ e.speaker = w.speaker
      /\ e.ok = yes
  BY <1>1, <1>2, <1>3, <1>4 DEF Works
<1> QED
  BY <1>1, <1>3, <1>4, <1>5 DEF WorkOK, PlayerInv, NamedOK, yes, open

\* InitPlayoutLocked leaves a device that plays alone.
LEMMA InitPlayoutEnds ==
  ASSUME NEW w, WorkOK(w), NEW e \in InitPlayoutLocked(w)
  PROVE  /\ WorkOK(e) /\ e.ok \in BOOLEAN
         /\ e.dev.playing = w.dev.playing
         /\ w.dev.playing => e.dev = w.dev /\ e.buffer = w.buffer
         /\ e.buffer.playing = w.buffer.playing /\ e.buffer.size = w.buffer.size
<1>1. CASE w.dev.playing \/ ~w.dev.specified \/ w.dev.ready
  <2>1. e \in Ends(w, FALSE) \/ e \in Ends(w, TRUE)
    BY <1>1 DEF InitPlayoutLocked
  <2>2. PICK k \in BOOLEAN : e \in Ends(w, k)
    BY <2>1
  <2>3. WorkOK(e) /\ e.ok = k /\ e.dev = w.dev /\ e.buffer = w.buffer
    BY <2>2, EndsOk
  <2> QED
    BY <2>3
<1>2. CASE ~w.dev.playing /\ w.dev.specified /\ ~w.dev.ready
  <2> DEFINE sets == w.dev.channels \in machine.modes
             after(c) == UNION {IF ~opens THEN Ends(c, FALSE)
                                ELSE (IF sets THEN {Opened(c)} ELSE {})
                                     \cup (IF ~sets \/ "params" \in machine.failures
                                           THEN {Unset(c)} ELSE {})
                                : opens \in IF w.dev.named THEN May("open") ELSE {FALSE}}
  <2>0. e \in UNION {after(CloseExisting(s)) : s \in InitSpeakerLocked(w)}
    BY <1>2 DEF InitPlayoutLocked
  <2> HIDE DEF after
  <2>1. PICK s \in InitSpeakerLocked(w) : e \in after(CloseExisting(s))
    BY <2>0
  <2>2. WorkOK(s) /\ s.dev = w.dev /\ s.buffer = w.buffer
    BY SpeakerInitEnds
  <2>3. CloseExisting(s) = s
    BY <1>2, <2>2, PlayoutCloses
  <2>4. e \in Ends(s, FALSE) \/ e = Opened(s) \/ e = Unset(s)
    BY <2>1, <2>3 DEF after
  <2>5. CASE e \in Ends(s, FALSE)
    <3>1. WorkOK(e) /\ e.ok = FALSE /\ e.dev = s.dev /\ e.buffer = s.buffer
      BY <2>2, <2>5, EndsOk
    <3> QED
      BY <2>2, <3>1
  <2>6. CASE e = Opened(s)
    <3>1. ~s.dev.ready
      BY <1>2, <2>2
    <3>2. /\ WorkOK(e) /\ e.ok = TRUE /\ e.dev.playing = s.dev.playing
          /\ e.buffer.playing = s.buffer.playing /\ e.buffer.size = s.buffer.size
      BY <2>2, <2>6, <3>1, PlayoutOpened
    <3> QED
      BY <1>2, <2>2, <3>2
  <2>7. CASE e = Unset(s)
    <3>1. ~s.dev.ready
      BY <1>2, <2>2
    <3>2. /\ WorkOK(e) /\ e.ok = FALSE /\ e.dev.playing = s.dev.playing
          /\ e.buffer = s.buffer
      BY <2>2, <2>7, <3>1, PlayoutUnset
    <3> QED
      BY <1>2, <2>2, <3>2
  <2> QED
    BY <2>4, <2>5, <2>6, <2>7
<1> QED
  BY <1>1, <1>2

\* StopPlayoutLocked leaves nothing playing.
LEMMA StopPlayoutEnds ==
  ASSUME NEW w, WorkOK(w), NEW e, e = StopPlayoutLocked(w)
  PROVE  /\ WorkOK(e) /\ e.ok = TRUE
         /\ ~e.dev.ready /\ ~e.dev.playing
         /\ e.speaker = w.speaker /\ e.buffer = w.buffer
<1>0. w \in Works /\ w.dev \in Device /\ TRUE \in BOOLEAN
  BY DEF WorkOK, Works
<1>1. CASE ~w.dev.ready
  <2>1. e = [w EXCEPT !.ok = TRUE]
    BY <1>1 DEF StopPlayoutLocked
  <2>2. /\ e \in Works /\ e.dev = w.dev /\ e.speaker = w.speaker
        /\ e.buffer = w.buffer /\ e.ok = TRUE
    BY <1>0, <2>1, OkSet
  <2> QED
    BY <1>1, <2>2 DEF WorkOK, PlayerInv
<1>2. CASE w.dev.ready
  <2> DEFINE yes == TRUE
             no == FALSE
             zero == 0
             null == "null"
             p == w.dev.pcms - 1
             d == [w.dev EXCEPT !.ready = no, !.playing = no, !.left = zero, !.block = zero,
                                !.handle = null, !.pcms = p]
  <2>1. /\ yes \in BOOLEAN /\ no \in BOOLEAN /\ zero \in 0..Frames /\ zero \in 0..2
        /\ null \in {"null", "open", "dangling"} /\ p \in Nat /\ p = 0
    BY <1>2, FramesPositive DEF WorkOK, PlayerInv
  <2>2. e = [w EXCEPT !.ok = yes, !.dev = d]
    BY <1>0, <1>2 DEF StopPlayoutLocked, WorkOK, PlayerInv, Works
  <2> HIDE DEF yes, no, zero, null, p
  <2>3. /\ d \in Device
        /\ d.specified = w.dev.specified /\ d.named = w.dev.named
        /\ d.ready = no /\ d.playing = no /\ d.handle = null /\ d.pcms = p
        /\ d.block = zero
    BY <1>0, <2>1 DEF Device
  <2> HIDE DEF d
  <2>4. /\ e \in Works /\ e.dev = d /\ e.buffer = w.buffer /\ e.speaker = w.speaker
        /\ e.ok = yes
    BY <1>0, <2>1, <2>2, <2>3 DEF Works
  <2> QED
    BY <2>1, <2>3, <2>4 DEF WorkOK, PlayerInv, NamedOK, yes, no, zero, null
<1> QED
  BY <1>1, <1>2

WithChannels(w, k) == [w EXCEPT !.dev.channels = k]

LEMMA PlayoutChanneled ==
  ASSUME NEW w, WorkOK(w), NEW k \in {1, 2}, NEW e, e = WithChannels(w, k)
  PROVE  /\ WorkOK(e) /\ e.ok = w.ok /\ e.speaker = w.speaker /\ e.buffer = w.buffer
         /\ e.dev.ready = w.dev.ready /\ e.dev.playing = w.dev.playing
         /\ e.dev.size = w.dev.size /\ e.dev.block = w.dev.block
<1> DEFINE d == [w.dev EXCEPT !.channels = k]
<1>1. w \in Works /\ w.dev \in Device
  BY DEF WorkOK, Works
<1>2. e = [w EXCEPT !.dev = d]
  BY <1>1 DEF Works, WithChannels
<1>3. /\ d \in Device
      /\ d.specified = w.dev.specified /\ d.named = w.dev.named
      /\ d.ready = w.dev.ready /\ d.playing = w.dev.playing
      /\ d.handle = w.dev.handle /\ d.pcms = w.dev.pcms /\ d.timed = w.dev.timed
      /\ d.size = w.dev.size /\ d.block = w.dev.block
  BY <1>1 DEF Device
<1> HIDE DEF d
<1>4. /\ e \in Works /\ e.dev = d /\ e.buffer = w.buffer /\ e.speaker = w.speaker
      /\ e.ok = w.ok
  BY <1>1, <1>2, <1>3 DEF Works
<1> QED
  BY <1>3, <1>4 DEF WorkOK, PlayerInv, NamedOK

LEMMA PlayoutMarked ==
  ASSUME NEW d \in Device, NEW e, e = Marked(d)
  PROVE  /\ e \in Device /\ e.playing
         /\ e.specified = d.specified /\ e.named = d.named /\ e.ready = d.ready
         /\ e.handle = d.handle /\ e.pcms = d.pcms /\ e.timed = d.timed
         /\ e.size = d.size /\ e.block = d.block
<1> DEFINE yes == TRUE
           zero == 0
<1>1. e = [d EXCEPT !.playing = yes, !.left = zero]
  BY DEF Marked
<1>2. yes \in BOOLEAN /\ zero \in 0..Frames
  BY FramesPositive
<1> HIDE DEF yes, zero
<1>3. /\ e \in Device /\ e.playing = yes
      /\ e.specified = d.specified /\ e.named = d.named /\ e.ready = d.ready
      /\ e.handle = d.handle /\ e.pcms = d.pcms /\ e.timed = d.timed
      /\ e.size = d.size /\ e.block = d.block
  BY <1>1, <1>2 DEF Device
<1> QED
  BY <1>3 DEF yes

LEMMA PlayoutAllocated ==
  ASSUME NEW d \in Device, NEW e, e = Allocated(d)
  PROVE  /\ e \in Device /\ e.block = (IF d.block = 0 THEN d.size ELSE d.block)
         /\ e.specified = d.specified /\ e.named = d.named /\ e.ready = d.ready
         /\ e.playing = d.playing /\ e.handle = d.handle /\ e.pcms = d.pcms
         /\ e.timed = d.timed /\ e.size = d.size
<1> DEFINE z == IF d.block = 0 THEN d.size ELSE d.block
<1>1. e = [d EXCEPT !.block = z]
  BY DEF Allocated
<1>2. z \in 0..2
  BY DEF Device
<1> HIDE DEF z
<1>3. /\ e \in Device /\ e.block = z
      /\ e.specified = d.specified /\ e.named = d.named /\ e.ready = d.ready
      /\ e.playing = d.playing /\ e.handle = d.handle /\ e.pcms = d.pcms
      /\ e.timed = d.timed /\ e.size = d.size
  BY <1>1, <1>2 DEF Device
<1> QED
  BY <1>3 DEF z

\* A device that plays after the question plays with a block of its size, by a thread
\* that the question has made; or nothing was done.
LEMMA RestartPlayoutEnds ==
  ASSUME NEW w, WorkOK(w), ~w.dev.playing, NEW e, e = RestartPlayout(w)
  PROVE  /\ WorkOK(e) /\ e.ok \in BOOLEAN
         /\ e.buffer = w.buffer
         /\ e.dev.playing => e.ok /\ e.dev.block = e.dev.size
<1>0. w \in Works /\ w.dev \in Device /\ FALSE \in BOOLEAN
  BY DEF WorkOK, Works
<1>1. CASE ~w.dev.ready
  <2>1. e = [w EXCEPT !.ok = FALSE]
    BY <1>1 DEF RestartPlayout
  <2>2. /\ e \in Works /\ e.dev = w.dev /\ e.speaker = w.speaker
        /\ e.buffer = w.buffer /\ e.ok = FALSE
    BY <1>0, <2>1, OkSet
  <2> QED
    BY <1>1, <2>2 DEF WorkOK
<1>2. CASE w.dev.ready
  <2> DEFINE m == Marked(w.dev)
             a == Allocated(m)
             yes == TRUE
  <2>1. e = [w EXCEPT !.dev = a, !.ok = yes]
    BY <1>2 DEF RestartPlayout
  <2>2. yes \in BOOLEAN /\ yes
    OBVIOUS
  <2> HIDE DEF yes, a
  <2>3. /\ m \in Device /\ m.playing /\ m.named = w.dev.named /\ m.ready = w.dev.ready
        /\ m.handle = w.dev.handle /\ m.pcms = w.dev.pcms /\ m.timed = w.dev.timed
        /\ m.size = w.dev.size /\ m.block = w.dev.block
    <3> HIDE DEF m
    <3> QED
      BY <1>0, PlayoutMarked DEF m
  <2> HIDE DEF m
  <2>4. /\ a \in Device /\ a.playing /\ a.named = w.dev.named /\ a.ready = w.dev.ready
        /\ a.handle = w.dev.handle /\ a.pcms = w.dev.pcms /\ a.timed = w.dev.timed
        /\ a.size = w.dev.size
        /\ a.block = (IF m.block = 0 THEN m.size ELSE m.block)
    BY <2>3, PlayoutAllocated DEF a
  <2>5. a.block = a.size
    BY <2>3, <2>4 DEF WorkOK, PlayerInv
  <2>6. /\ e \in Works /\ e.dev = a /\ e.buffer = w.buffer /\ e.speaker = w.speaker
        /\ e.ok = yes
    BY <1>0, <2>1, <2>2, <2>4 DEF Works
  <2> QED
    BY <1>2, <2>2, <2>4, <2>5, <2>6 DEF WorkOK, PlayerInv, NamedOK
<1> QED
  BY <1>1, <1>2

LEMMA AskPlayoutEnds ==
  ASSUME NEW w, WorkOK(w), w.dev.playing => w.dev.block = w.dev.size,
         NEW end \in AskStereo(w)
  PROVE  /\ WorkOK(end.work) /\ end.answer \in {0, 1} /\ end.spawns \in BOOLEAN
         /\ end.work.buffer.playing = w.buffer.playing
         /\ end.work.dev.playing =>
              /\ w.dev.playing
              /\ end.work.dev.block = end.work.dev.size
              /\ end.spawns \/ end.work.buffer = w.buffer
<1>1. CASE w.dev.ready /\ w.dev.channels = 2
  <2>1. end = [work |-> w, answer |-> 1, spawns |-> FALSE]
    BY <1>1 DEF AskStereo
  <2>2. end.work = w /\ end.answer = 1 /\ end.spawns = FALSE
    BY <2>1
  <2> QED
    BY <2>2
<1>2. CASE ~(w.dev.ready /\ w.dev.channels = 2)
  <2> DEFINE stopped == IF w.dev.ready THEN StopPlayoutLocked(w) ELSE w
             stereo == [stopped EXCEPT !.dev.channels = 2]
             tried == InitPlayoutLocked(stereo)
             back(e) == [StopPlayoutLocked(e) EXCEPT !.dev.channels = w.dev.channels]
             ready(e) == IF w.dev.ready THEN InitPlayoutLocked(back(e)) ELSE {back(e)}
             again(e) == IF w.dev.playing THEN RestartPlayout(e) ELSE [e EXCEPT !.ok = FALSE]
  <2>1. end \in UNION {{[work |-> again(e), answer |-> Truth(t.ok), spawns |-> again(e).ok]
                          : e \in ready(t)} : t \in tried}
    BY <1>2 DEF AskStereo
  <2> HIDE DEF again, ready, tried
  <2>2. PICK t \in tried :
          \E e \in ready(t) : end = [work |-> again(e), answer |-> Truth(t.ok),
                                     spawns |-> again(e).ok]
    BY <2>1
  <2>3. PICK e \in ready(t) : end = [work |-> again(e), answer |-> Truth(t.ok),
                                     spawns |-> again(e).ok]
    BY <2>2
  <2>4. end.work = again(e) /\ end.answer = Truth(t.ok) /\ end.spawns = again(e).ok
    BY <2>3
  <2> HIDE DEF back, stereo, stopped
  <2>5. WorkOK(stopped) /\ ~stopped.dev.playing /\ stopped.buffer = w.buffer
    <3>1. CASE w.dev.ready
      BY <3>1, StopPlayoutEnds DEF stopped
    <3>2. CASE ~w.dev.ready
      BY <3>2 DEF stopped, WorkOK, PlayerInv
    <3> QED
      BY <3>1, <3>2
  <2>6. WorkOK(stereo) /\ ~stereo.dev.playing /\ stereo.buffer = w.buffer
    <3>1. stereo = WithChannels(stopped, 2)
      BY DEF stereo, WithChannels
    <3> QED
      BY <2>5, <3>1, PlayoutChanneled
  <2>7. WorkOK(t) /\ t.ok \in BOOLEAN /\ t.buffer.playing = w.buffer.playing
    BY <2>6, InitPlayoutEnds DEF tried
  <2> DEFINE s == StopPlayoutLocked(t)
  <2>8. WorkOK(s) /\ ~s.dev.playing /\ s.buffer.playing = w.buffer.playing
    <3> HIDE DEF s
    <3> QED
      BY <2>7, StopPlayoutEnds DEF s
  <2>9. back(t) = WithChannels(s, w.dev.channels)
    BY DEF back, WithChannels
  <2> HIDE DEF s
  <2>10. w.dev.channels \in {1, 2}
    BY DEF WorkOK, Works, Device
  <2>11. /\ WorkOK(back(t)) /\ ~back(t).dev.playing
         /\ back(t).buffer.playing = w.buffer.playing
    BY <2>8, <2>9, <2>10, PlayoutChanneled
  <2>12. WorkOK(e) /\ ~e.dev.playing /\ e.buffer.playing = w.buffer.playing
    <3>1. CASE w.dev.ready
      <4>1. e \in InitPlayoutLocked(back(t))
        BY <3>1 DEF ready
      <4> QED
        BY <2>11, <4>1, InitPlayoutEnds
    <3>2. CASE ~w.dev.ready
      <4>1. e = back(t)
        BY <3>2 DEF ready
      <4> QED
        BY <2>11, <4>1
    <3> QED
      BY <3>1, <3>2
  <2>13. Truth(t.ok) \in {0, 1}
    BY DEF Truth
  <2>14. CASE w.dev.playing
    <3>1. again(e) = RestartPlayout(e)
      BY <2>14 DEF again
    <3> QED
      BY <2>4, <2>12, <2>13, <2>14, <3>1, RestartPlayoutEnds
  <2>15. CASE ~w.dev.playing
    <3>1. again(e) = [e EXCEPT !.ok = FALSE]
      BY <2>15 DEF again
    <3>2. /\ again(e) \in Works /\ again(e).dev = e.dev /\ again(e).speaker = e.speaker
          /\ again(e).buffer = e.buffer /\ again(e).ok = FALSE
      BY <2>12, <3>1, OkSet, ZenonT(60) DEF WorkOK
    <3> QED
      BY <2>4, <2>12, <2>13, <3>2 DEF WorkOK
  <2> QED
    BY <2>14, <2>15
<1> QED
  BY <1>1, <1>2

-----------------------------------------------------------------------------
(* The playout side as a system.                                            *)

\* A thread that does not find, at the end of its RequestPlayoutData, the buffer of
\* another number of channels.
Fresh(u) ==
  /\ threads[u].pc # "none"
  /\ threads[u].pc = "relock" => buffer.size = buffer.channels

\* One thread at least is fresh while the device plays: the one that StartPlayout has
\* made for it, or one before that a later StartPlayout took over.
PlayoutInv ==
  /\ TypeOK
  /\ PlayerInv(dev, buffer)
  /\ NamedOK(dev)
  /\ SpeakerOK(speaker) /\ MicrophoneOK(microphone)
  /\ dev.playing =>
       /\ buffer.playing
       /\ control # "allocate" => dev.block = dev.size
       /\ control \notin {"allocate", "thread"} => \E u \in Threads : Fresh(u)
  /\ control = "allocate" => dev.playing /\ dev.block = 0

\* The types of all but the device, its buffer and the mixers.
PlayoutOthers ==
  /\ machine \in Machines
  /\ initialized \in BOOLEAN
  /\ loaded \in BOOLEAN
  /\ control \in Controls
  /\ answer \in Answers
  /\ threads \in [Threads -> [pc : ThreadPCs, avail : 0..Frames]]
  /\ crashed \in {"no", "no symbols", "handle", "null block", "no data", "overflow",
                  "frames left", "short write", "race"}

LEMMA PlayoutParts ==
  ASSUME PlayoutOthers', machine' = machine,
         PlayerInv(dev', buffer'), NamedOK(dev'),
         SpeakerOK(speaker'), MicrophoneOK(microphone'),
         dev'.playing =>
           /\ buffer'.playing
           /\ control' # "allocate" => dev'.block = dev'.size
           /\ control' \notin {"allocate", "thread"} => \E u \in Threads : Fresh(u)',
         control' = "allocate" => dev'.playing /\ dev'.block = 0
  PROVE  PlayoutInv'
<1>1. PlayerInv(dev, buffer)'
  BY DEF PlayerInv, Device, Buffer
<1>2. AllNamed' <=> AllNamed
  BY DEF AllNamed, Indices
<1>3. NamedOK(dev)'
  BY <1>2 DEF NamedOK
<1>4. SpeakerOK(speaker)' /\ speaker' \in Mixers
  BY <1>2 DEF SpeakerOK, MixerOK, NothingLost
<1>5. MicrophoneOK(microphone)' /\ microphone' \in Mixers
  BY DEF MicrophoneOK, MixerOK, NothingLost, InputNamed
<1>6. dev' \in Device /\ buffer' \in Buffer
  BY DEF PlayerInv
<1>7. TypeOK'
  BY <1>4, <1>5, <1>6 DEF PlayoutOthers, TypeOK, Device, Buffer, Mixers
<1> QED
  BY <1>1, <1>3, <1>4, <1>5, <1>7 DEF PlayoutInv

LEMMA PlayoutInvParts ==
  ASSUME PlayoutInv
  PROVE  /\ PlayoutOthers
         /\ PlayerInv(dev, buffer) /\ NamedOK(dev)
         /\ SpeakerOK(speaker) /\ MicrophoneOK(microphone)
         /\ dev \in Device /\ buffer \in Buffer /\ speaker \in Mixers /\ microphone \in Mixers
         /\ WorkOK(Work) /\ Work.dev = dev /\ Work.speaker = speaker /\ Work.buffer = buffer
<1>1. PlayoutOthers /\ dev \in Device /\ buffer \in Buffer /\ speaker \in Mixers
      /\ microphone \in Mixers
  BY DEF PlayoutInv, TypeOK, PlayoutOthers
<1> DEFINE yes == TRUE
<1>2. Work = [dev |-> dev, speaker |-> speaker, buffer |-> buffer, ok |-> yes] /\ yes \in BOOLEAN
  BY DEF Work
<1> HIDE DEF yes
<1>3. /\ Work \in Works
      /\ Work.dev = dev /\ Work.speaker = speaker /\ Work.buffer = buffer
  BY <1>1, <1>2 DEF Works
<1> QED
  BY <1>1, <1>3 DEF PlayoutInv, WorkOK

\* A step that leaves what plays and the threads alone.
LEMMA PlayoutFrame ==
  ASSUME PlayoutInv, PlayoutOthers', UNCHANGED <<machine, buffer, threads, control>>,
         PlayerInv(dev', buffer), NamedOK(dev'),
         dev'.playing = dev.playing, dev'.block = dev.block, dev'.size = dev.size,
         SpeakerOK(speaker'), MicrophoneOK(microphone')
  PROVE  PlayoutInv'
<1>1. ASSUME NEW u \in Threads, Fresh(u) PROVE Fresh(u)'
  BY <1>1 DEF Fresh
<1> QED
  BY <1>1, PlayoutParts DEF PlayoutInv

LEMMA PlayoutInitially == Init => PlayoutInv
<1> SUFFICES ASSUME Init PROVE PlayoutInv
  OBVIOUS
<1> DEFINE no == FALSE
           zero == 0
           null == "null"
           named == DeviceAt(machine.cards, TRUE, 0) # {}
<1>1. /\ no \in BOOLEAN /\ zero \in 0..Frames /\ zero \in 0..2 /\ zero \in Nat
      /\ zero \in 0..Top /\ null \in {"null", "open", "dangling"} /\ 2 \in {1, 2}
      /\ null \in {"null", "open"} /\ null \in Elements /\ named \in BOOLEAN
  BY FramesPositive, TopPositive DEF Elements
<1>2. dev = [specified |-> no, ready |-> no, playing |-> no, channels |-> 2,
             named |-> named, handle |-> null, pcms |-> zero, timed |-> no,
             size |-> zero, block |-> zero, left |-> zero]
  BY DEF Init
<1>3. buffer = [playing |-> no, channels |-> zero, size |-> zero]
  BY DEF Init
<1>4. /\ speaker = [handle |-> null, element |-> null, opened |-> zero, level |-> zero,
                   muted |-> no]
      /\ microphone = speaker
  BY DEF Init, ClosedMixer
<1>5. PlayoutOthers
  <2>1. [pc |-> "none", avail |-> 0] \in [pc : ThreadPCs, avail : 0..Frames]
    BY <1>1 DEF ThreadPCs
  <2> QED
    BY <1>1, <2>1 DEF Init, PlayoutOthers, Controls, Answers
<1>6. AllNamed => named
  BY DEF AllNamed
<1>7. control = "idle"
  BY DEF Init
<1> HIDE DEF no, zero, null, named
<1>8. /\ dev \in Device /\ dev.handle = null /\ dev.ready = no /\ dev.playing = no
      /\ dev.pcms = zero /\ dev.block = zero /\ dev.named = named
  BY <1>1, <1>2 DEF Device
<1>9. buffer \in Buffer
  BY <1>1, <1>3 DEF Buffer
<1>10. /\ speaker \in Mixers /\ speaker.handle = null /\ speaker.element = null
       /\ speaker.opened = zero /\ microphone = speaker
  BY <1>1, <1>4 DEF Mixers, Elements
<1>11. PlayerInv(dev, buffer) /\ NamedOK(dev) /\ ~dev.playing
  BY <1>6, <1>8, <1>9 DEF PlayerInv, NamedOK, no, zero, null
<1>12. SpeakerOK(speaker) /\ MicrophoneOK(microphone)
  BY <1>10 DEF SpeakerOK, MicrophoneOK, MixerOK, zero, null
<1>13. TypeOK
  BY <1>5, <1>8, <1>9, <1>10 DEF PlayoutOthers, TypeOK
<1> QED
  BY <1>7, <1>11, <1>12, <1>13 DEF PlayoutInv

LEMMA SpawnedPlays ==
  ASSUME NEW ts \in [Threads -> [pc : ThreadPCs, avail : 0..Frames]],
         NEW us \in SpawnedThread(ts)
  PROVE  /\ us \in [Threads -> [pc : ThreadPCs, avail : 0..Frames]]
         /\ \E u \in Threads : us[u].pc = "check"
<1>1. [pc |-> "check", avail |-> 0] \in [pc : ThreadPCs, avail : 0..Frames]
  BY FramesPositive DEF ThreadPCs
<1>2. PICK t \in Threads : us = [ts EXCEPT ![t] = [pc |-> "check", avail |-> 0]]
  BY DEF SpawnedThread
<1> HIDE DEF ThreadPCs
<1> QED
  BY <1>1, <1>2

\* The end of a question about stereo, with the channels that it may set last.
LEMMA PlayoutAsked ==
  ASSUME PlayoutInv, control \in {"idle", "stereo"},
         NEW end \in AskStereo(Work), Asked(end),
         NEW k \in {1, 2},
         Becomes(end.work) \/ Becomes(WithChannels(end.work, k))
  PROVE  PlayoutInv'
<1> USE PlayoutInvParts
<1>1. /\ dev.playing => buffer.playing /\ dev.block = dev.size /\ \E u \in Threads : Fresh(u)
  BY DEF PlayoutInv
<1>2. /\ WorkOK(end.work) /\ end.answer \in {0, 1} /\ end.spawns \in BOOLEAN
      /\ end.work.buffer.playing = buffer.playing
      /\ end.work.dev.playing =>
           /\ dev.playing
           /\ end.work.dev.block = end.work.dev.size
           /\ end.spawns \/ end.work.buffer = buffer
  BY <1>1, AskPlayoutEnds
<1>3. PICK w : /\ WorkOK(w) /\ Becomes(w) /\ w.buffer = end.work.buffer
               /\ w.dev.playing = end.work.dev.playing
               /\ w.dev.block = end.work.dev.block /\ w.dev.size = end.work.dev.size
  BY <1>2, PlayoutChanneled
<1>4. dev' = w.dev /\ speaker' = w.speaker /\ buffer' = w.buffer
  BY <1>3 DEF Becomes
<1>5. /\ PlayerInv(dev', buffer') /\ NamedOK(dev') /\ SpeakerOK(speaker')
  BY <1>3, <1>4 DEF WorkOK
<1>6. /\ UNCHANGED <<machine, microphone>> /\ control' = "idle"
      /\ IF end.spawns THEN threads' \in SpawnedThread(threads) ELSE UNCHANGED threads
  BY DEF Asked, system
<1>7. threads \in [Threads -> [pc : ThreadPCs, avail : 0..Frames]]
  BY DEF PlayoutOthers
<1>8. threads' \in [Threads -> [pc : ThreadPCs, avail : 0..Frames]]
  BY <1>6, <1>7, SpawnedPlays
<1>9. answer' \in Answers
  BY <1>2, TopPositive DEF Asked, Answers
<1>10. PlayoutOthers'
  BY <1>8, <1>9 DEF PlayoutOthers, Asked, system, Controls
<1>11. CASE dev'.playing
  <2>1. dev.playing /\ dev'.block = dev'.size /\ (end.spawns \/ buffer' = buffer)
    BY <1>2, <1>3, <1>4, <1>11
  <2>2. \E u \in Threads : Fresh(u)'
    <3>1. CASE end.spawns
      <4>1. PICK u \in Threads : threads'[u].pc = "check"
        BY <1>6, <1>7, <3>1, SpawnedPlays
      <4> QED
        BY <4>1 DEF Fresh
    <3>2. CASE ~end.spawns
      <4>1. PICK u \in Threads : Fresh(u)
        BY <1>1, <2>1
      <4>2. threads' = threads /\ buffer' = buffer
        BY <1>6, <2>1, <3>2
      <4> QED
        BY <4>1, <4>2 DEF Fresh
    <3> QED
      BY <3>1, <3>2
  <2>3. buffer'.playing
    BY <1>1, <1>2, <1>3, <1>4, <2>1
  <2> QED
    BY <1>5, <1>6, <1>10, <1>11, <2>1, <2>2, <2>3, PlayoutParts
<1>12. CASE ~dev'.playing
  BY <1>5, <1>6, <1>10, <1>12, PlayoutParts
<1> QED
  BY <1>11, <1>12

LEMMA PlayoutDeviceCalls ==
  ASSUME PlayoutInv,
         \/ NoSymbols \/ DeviceInit \/ Terminate
         \/ \E index \in Indices : SetPlayoutDevice(index)
         \/ \E channels \in {1, 2} : SetStereoPlayout(channels)
         \/ InitPlayout \/ StartPlayout \/ StopPlayout \/ ProbeMono
         \/ StereoPlayoutIsAvailable
  PROVE  PlayoutInv'
<1> USE PlayoutInvParts
<1>1. CASE NoSymbols \/ DeviceInit
  <2>1. /\ PlayoutOthers'
        /\ UNCHANGED <<machine, dev, speaker, microphone, buffer, control, threads>>
    BY <1>1 DEF NoSymbols, DeviceInit, PlayoutOthers, system, mixers
  <2> QED
    BY <2>1, PlayoutFrame
<1>2. CASE Terminate
  <2>1. /\ PlayoutOthers' /\ UNCHANGED <<machine, buffer, control, threads>>
        /\ dev' = [dev EXCEPT !.specified = FALSE]
        /\ speaker' = CloseSpeakerLocked(speaker)
        /\ microphone' = CloseMicrophoneLocked(microphone)
    BY <1>2 DEF Terminate, PlayoutOthers
  <2>2. SpeakerOK(speaker') /\ MicrophoneOK(microphone')
    BY <2>1, SpeakerCloses DEF SpeakerOK, MicrophoneOK
  <2>3. /\ PlayerInv(dev', buffer) /\ NamedOK(dev')
        /\ dev'.playing = dev.playing /\ dev'.block = dev.block /\ dev'.size = dev.size
    BY <2>1 DEF PlayerInv, Device, NamedOK
  <2> QED
    BY <2>1, <2>2, <2>3, PlayoutFrame
<1>3. ASSUME NEW index \in Indices, SetPlayoutDevice(index) PROVE PlayoutInv'
  <2> DEFINE yes == TRUE
             named == DeviceAt(machine.cards, TRUE, index) # {}
  <2>1. /\ PlayoutOthers' /\ UNCHANGED <<machine, speaker, microphone, buffer, control, threads>>
        /\ dev' = [dev EXCEPT !.specified = yes, !.named = named]
    BY <1>3 DEF SetPlayoutDevice, PlayoutOthers, system, mixers
  <2>2. AllNamed => named
    BY <1>3 DEF AllNamed, SetPlayoutDevice
  <2>3. yes \in BOOLEAN /\ named \in BOOLEAN
    OBVIOUS
  <2> HIDE DEF yes, named
  <2>4. /\ dev' \in Device /\ dev'.named = named /\ dev'.ready = dev.ready
        /\ dev'.playing = dev.playing /\ dev'.block = dev.block /\ dev'.size = dev.size
        /\ dev'.handle = dev.handle /\ dev'.pcms = dev.pcms /\ dev'.timed = dev.timed
    BY <2>1, <2>3 DEF Device
  <2>5. PlayerInv(dev', buffer) /\ NamedOK(dev')
    BY <2>2, <2>4 DEF PlayerInv, NamedOK
  <2> QED
    BY <2>1, <2>4, <2>5, PlayoutFrame
<1>4. ASSUME NEW k \in {1, 2}, SetStereoPlayout(k) PROVE PlayoutInv'
  <2>1. /\ PlayoutOthers' /\ UNCHANGED <<machine, speaker, microphone, buffer, control, threads>>
        /\ dev' = [dev EXCEPT !.channels = k]
    BY <1>4 DEF SetStereoPlayout, PlayoutOthers, system, mixers
  <2>2. /\ PlayerInv(dev', buffer) /\ NamedOK(dev')
        /\ dev'.playing = dev.playing /\ dev'.block = dev.block /\ dev'.size = dev.size
    BY <2>1 DEF PlayerInv, Device, NamedOK
  <2> QED
    BY <2>1, <2>2, PlayoutFrame
<1>5. CASE InitPlayout
  <2>1. PICK end \in InitPlayoutLocked(Work) : Becomes(end)
    BY <1>5 DEF InitPlayout
  <2>2. /\ PlayoutOthers' /\ UNCHANGED <<machine, microphone>> /\ control' = "idle"
        /\ ~dev.playing
    BY <1>5 DEF InitPlayout, PlayoutOthers, system, Ready, Idle, PlayerInv
  <2>3. WorkOK(end) /\ end.dev.playing = dev.playing
    BY <2>1, InitPlayoutEnds
  <2>4. dev' = end.dev /\ speaker' = end.speaker /\ buffer' = end.buffer
    BY <2>1 DEF Becomes
  <2> QED
    BY <2>2, <2>3, <2>4, PlayoutParts DEF WorkOK
<1>6. CASE StartPlayout
  <2> DEFINE yes == TRUE
  <2>1. /\ PlayoutOthers' /\ UNCHANGED <<machine, speaker, microphone, threads>>
        /\ ~dev.playing /\ dev.block = 0 /\ control = "idle"
        /\ buffer' = [buffer EXCEPT !.playing = yes]
        /\ \/ dev.ready /\ dev' = Marked(dev) /\ control' = "allocate"
           \/ UNCHANGED <<dev, control>>
    BY <1>6 DEF StartPlayout, PlayoutOthers, system, mixers, Ready, Idle, PlayerInv,
                BufferStarts, Controls
  <2>2. yes \in BOOLEAN /\ yes
    OBVIOUS
  <2> HIDE DEF yes
  <2>3. buffer' \in Buffer /\ buffer'.playing = yes /\ buffer'.channels = buffer.channels
    BY <2>1, <2>2 DEF Buffer
  <2>4. CASE dev.ready /\ dev' = Marked(dev) /\ control' = "allocate"
    <3>1. /\ dev' \in Device /\ dev'.playing
          /\ dev'.named = dev.named /\ dev'.ready = dev.ready
          /\ dev'.handle = dev.handle /\ dev'.pcms = dev.pcms /\ dev'.timed = dev.timed
          /\ dev'.size = dev.size /\ dev'.block = dev.block
      BY <2>4, PlayoutMarked
    <3>2. PlayerInv(dev', buffer') /\ NamedOK(dev')
      BY <2>3, <2>4, <3>1 DEF PlayerInv, NamedOK
    <3> QED
      BY <2>1, <2>2, <2>3, <2>4, <3>1, <3>2, PlayoutParts
  <2>5. CASE UNCHANGED <<dev, control>>
    <3>1. PlayerInv(dev', buffer') /\ NamedOK(dev')
      BY <2>3, <2>5 DEF PlayerInv, NamedOK
    <3> QED
      BY <2>1, <2>5, <3>1, PlayoutParts
  <2> QED
    BY <2>1, <2>4, <2>5
<1>7. CASE StopPlayout
  <2> DEFINE no == FALSE
             end == StopPlayoutLocked(Work)
  <2>1. /\ PlayoutOthers' /\ UNCHANGED <<machine, speaker, microphone>> /\ control' = "idle"
        /\ dev' = end.dev /\ buffer' = [buffer EXCEPT !.playing = no]
    BY <1>7 DEF StopPlayout, PlayoutOthers, system, mixers, Ready, Idle, BufferStops
  <2>2. no \in BOOLEAN
    OBVIOUS
  <2> HIDE DEF no, end
  <2>3. WorkOK(end) /\ ~end.dev.playing /\ ~end.dev.ready
    BY StopPlayoutEnds DEF end
  <2>4. buffer' \in Buffer
    BY <2>1, <2>2 DEF Buffer
  <2>5. PlayerInv(dev', buffer') /\ NamedOK(dev')
    BY <2>1, <2>3, <2>4 DEF WorkOK, PlayerInv
  <2> QED
    BY <2>1, <2>3, <2>5, PlayoutParts
<1>8. CASE ProbeMono
  <2> DEFINE mono == [Work EXCEPT !.dev.channels = 1]
  <2>1. PICK end \in InitPlayoutLocked(mono) : Becomes(end) /\ answer' = Truth(end.ok)
    BY <1>8 DEF ProbeMono
  <2>2. mono = WithChannels(Work, 1)
    BY DEF WithChannels
  <2> HIDE DEF mono
  <2>3. /\ WorkOK(mono) /\ mono.buffer = buffer
        /\ mono.dev.playing = dev.playing
        /\ mono.dev.size = dev.size /\ mono.dev.block = dev.block
    BY <2>2, PlayoutChanneled
  <2>4. /\ WorkOK(end) /\ end.ok \in BOOLEAN /\ end.dev.playing = dev.playing
        /\ dev.playing => end.dev = mono.dev /\ end.buffer = buffer
    BY <2>1, <2>3, InitPlayoutEnds
  <2>5. dev' = end.dev /\ speaker' = end.speaker /\ buffer' = end.buffer
    BY <2>1 DEF Becomes
  <2>6. answer' \in Answers
    BY <2>1, TopPositive DEF Truth, Answers
  <2>7. /\ PlayoutOthers' /\ UNCHANGED <<machine, microphone, threads>>
        /\ control = "idle" /\ control' = "cancel"
    BY <1>8, <2>6 DEF ProbeMono, PlayoutOthers, system, Ready, Idle, Controls
  <2>8. CASE dev.playing
    <3>1. buffer.playing /\ dev.block = dev.size /\ \E u \in Threads : Fresh(u)
      BY <2>7, <2>8 DEF PlayoutInv
    <3>2. \E u \in Threads : Fresh(u)'
      BY <2>4, <2>5, <2>7, <2>8, <3>1 DEF Fresh
    <3>3. PlayerInv(dev', buffer') /\ NamedOK(dev') /\ SpeakerOK(speaker')
      BY <2>4, <2>5 DEF WorkOK
    <3> QED
      BY <2>3, <2>4, <2>5, <2>7, <2>8, <3>1, <3>2, <3>3, PlayoutParts
  <2>9. CASE ~dev.playing
    <3>1. PlayerInv(dev', buffer') /\ NamedOK(dev') /\ SpeakerOK(speaker') /\ ~dev'.playing
      BY <2>4, <2>5, <2>9 DEF WorkOK
    <3> QED
      BY <2>7, <3>1, PlayoutParts
  <2> QED
    BY <2>8, <2>9
<1>9. CASE StereoPlayoutIsAvailable
  <2>1. PICK end \in AskStereo(Work) : Becomes(end.work) /\ Asked(end)
    BY <1>9 DEF StereoPlayoutIsAvailable
  <2>2. control = "idle"
    BY <1>9 DEF StereoPlayoutIsAvailable, Ready, Idle
  <2> QED
    BY <2>1, <2>2, PlayoutAsked
<1> QED
  BY <1>1, <1>2, <1>3, <1>4, <1>5, <1>6, <1>7, <1>8, <1>9

LEMMA PlayoutContinues ==
  ASSUME PlayoutInv, Continues PROVE PlayoutInv'
<1> USE PlayoutInvParts
<1>1. CASE StartAllocates
  <2>1. /\ UNCHANGED <<machine, speaker, microphone, buffer, threads>>
        /\ control = "allocate" /\ control' = "thread"
        /\ dev' = Allocated(dev)
        /\ dev.playing /\ dev.block = 0 /\ buffer.playing
    BY <1>1 DEF StartAllocates, system, mixers, PlayoutInv
  <2>2. PlayoutOthers'
    BY <1>1, <2>1 DEF StartAllocates, system, PlayoutOthers, Controls
  <2>3. /\ dev' \in Device /\ dev'.block = dev.size /\ dev'.size = dev.size
        /\ dev'.named = dev.named /\ dev'.ready = dev.ready /\ dev'.playing = dev.playing
        /\ dev'.handle = dev.handle /\ dev'.pcms = dev.pcms /\ dev'.timed = dev.timed
    BY <2>1, PlayoutAllocated, ZenonT(60)
  <2>4. PlayerInv(dev', buffer') /\ NamedOK(dev')
    BY <2>1, <2>3 DEF PlayerInv, NamedOK
  <2> QED
    BY <2>1, <2>2, <2>3, <2>4, PlayoutParts
<1>2. CASE StartMakesThread
  <2>1. /\ UNCHANGED <<machine, dev, speaker, microphone, buffer>>
        /\ control = "thread" /\ control' = "prepare"
        /\ threads' \in SpawnedThread(threads)
    BY <1>2 DEF StartMakesThread, system, mixers
  <2>2. threads \in [Threads -> [pc : ThreadPCs, avail : 0..Frames]]
    BY DEF PlayoutOthers
  <2>3. /\ threads' \in [Threads -> [pc : ThreadPCs, avail : 0..Frames]]
        /\ \E u \in Threads : threads'[u].pc = "check"
    BY <2>1, <2>2, SpawnedPlays
  <2>4. PlayoutOthers'
    BY <1>2, <2>1, <2>3 DEF StartMakesThread, system, PlayoutOthers, Controls
  <2>5. \E u \in Threads : Fresh(u)'
    BY <2>3 DEF Fresh
  <2>6. dev.playing => buffer.playing /\ dev.block = dev.size
    BY <2>1 DEF PlayoutInv
  <2> QED
    BY <2>1, <2>4, <2>5, <2>6, PlayoutParts
<1>3. CASE StartPrepares
  <2>1. /\ UNCHANGED <<machine, dev, speaker, microphone, buffer, threads>>
        /\ control = "prepare" /\ control' = "idle"
    BY <1>3 DEF StartPrepares, system, mixers
  <2>2. PlayoutOthers'
    BY <1>3, <2>1 DEF StartPrepares, system, PlayoutOthers, Controls
  <2>3. dev.playing =>
          buffer.playing /\ dev.block = dev.size /\ \E u \in Threads : Fresh(u)
    BY <2>1 DEF PlayoutInv
  <2>4. ASSUME NEW u \in Threads, Fresh(u) PROVE Fresh(u)'
    BY <2>1, <2>4 DEF Fresh
  <2> QED
    BY <2>1, <2>2, <2>3, <2>4, PlayoutParts
<1>4. CASE ProbeCancels
  <2> DEFINE end == StopPlayoutLocked(Work)
  <2>1. /\ UNCHANGED <<machine, speaker, microphone, buffer>>
        /\ control' \in {"idle", "stereo"}
        /\ dev' = end.dev
    BY <1>4 DEF ProbeCancels, system, mixers
  <2>2. PlayoutOthers'
    BY <1>4, <2>1 DEF ProbeCancels, system, PlayoutOthers, Controls
  <2> HIDE DEF end
  <2>3. WorkOK(end) /\ ~end.dev.playing /\ end.buffer = buffer
    BY StopPlayoutEnds DEF end
  <2> QED
    BY <2>1, <2>2, <2>3, PlayoutParts DEF WorkOK
<1>5. CASE ProbeStereo
  <2>1. PICK end \in AskStereo(Work) :
          /\ Becomes([end.work EXCEPT !.dev.channels = IF end.answer = 1 THEN 2 ELSE @])
          /\ Asked(end)
    BY <1>5 DEF ProbeStereo
  <2>2. control = "stereo"
    BY <1>5 DEF ProbeStereo
  <2> DEFINE k == IF end.answer = 1 THEN 2 ELSE end.work.dev.channels
  <2>3. WorkOK(end.work)
    <3>1. dev.playing => dev.block = dev.size
      BY <2>2 DEF PlayoutInv
    <3> QED
      BY <3>1, AskPlayoutEnds
  <2>4. k \in {1, 2} /\ end.work \in Works
    BY <2>3 DEF WorkOK, Works, Device
  <2>5. Becomes(WithChannels(end.work, k))
    BY <2>1, <2>4 DEF WithChannels, Works
  <2> HIDE DEF k
  <2> QED
    BY <2>1, <2>2, <2>4, <2>5, PlayoutAsked
<1> QED
  BY <1>1, <1>2, <1>3, <1>4, <1>5 DEF Continues

\* The operations on one mixer.
LEMMA SpeakerStep ==
  ASSUME PlayoutInv, NEW ends, SpeakerEnds(ends),
         \A end \in ends : SpeakerOK(end.mixer) /\ end.answer \in Answers
  PROVE  PlayoutInv'
<1>1. PICK end \in ends : speaker' = end.mixer /\ answer' = end.answer
  BY DEF SpeakerEnds
<1>2. PlayoutOthers' /\ UNCHANGED <<machine, dev, microphone, buffer, threads, control>>
  BY <1>1, PlayoutInvParts DEF SpeakerEnds, PlayoutOthers, system
<1> QED
  BY <1>1, <1>2, PlayoutInvParts, PlayoutFrame

LEMMA MicrophoneStep ==
  ASSUME PlayoutInv, NEW ends, MicrophoneEnds(ends),
         \A end \in ends : MicrophoneOK(end.mixer) /\ end.answer \in Answers
  PROVE  PlayoutInv'
<1>1. PICK end \in ends : microphone' = end.mixer /\ answer' = end.answer
  BY DEF MicrophoneEnds
<1>2. PlayoutOthers' /\ UNCHANGED <<machine, dev, speaker, buffer, threads, control>>
  BY <1>1, PlayoutInvParts DEF MicrophoneEnds, PlayoutOthers, system
<1> QED
  BY <1>1, <1>2, PlayoutInvParts, PlayoutFrame

LEMMA SpeakerKept ==
  ASSUME PlayoutInv, NEW ends, SpeakerEnds(ends), \A end \in ends : KeepsMixer(speaker, end)
  PROVE  PlayoutInv'
<1>1. \A end \in ends : SpeakerOK(end.mixer) /\ end.answer \in Answers
  BY PlayoutInvParts, KeptMixer DEF SpeakerOK, KeepsMixer
<1> QED
  BY <1>1, SpeakerStep

LEMMA MicrophoneKept ==
  ASSUME PlayoutInv, NEW ends, MicrophoneEnds(ends),
         \A end \in ends : KeepsMixer(microphone, end)
  PROVE  PlayoutInv'
<1>1. \A end \in ends : MicrophoneOK(end.mixer) /\ end.answer \in Answers
  BY PlayoutInvParts, KeptMixer DEF MicrophoneOK, KeepsMixer
<1> QED
  BY <1>1, MicrophoneStep

LEMMA SpeakerInitsEnd ==
  ASSUME PlayoutInv, NEW end \in SpeakerInits
  PROVE  /\ SpeakerOK(end.mixer) /\ end.answer \in {-1, 0}
         /\ end.answer # -1 =>
              /\ end.mixer.element = SpeakerElement(machine.speaker)
              /\ SpeakerElement(machine.speaker) # "null"
         /\ end = [mixer |-> end.mixer, answer |-> end.answer]
<1> USE PlayoutInvParts
<1>1. CASE dev.playing
  <2>1. /\ end.mixer = speaker /\ end.answer = -1
        /\ end = [mixer |-> end.mixer, answer |-> end.answer]
    BY <1>1 DEF SpeakerInits, Refused
  <2> QED
    BY <2>1
<1>2. CASE ~dev.playing
  <2> DEFINE c == CloseSpeakerLocked(speaker)
             element == SpeakerElement(machine.speaker)
             kept == NothingLost(machine.speaker) /\ AllNamed
  <2>1. MixerOK(c, element, kept) /\ c.handle = "null"
    BY SpeakerCloses DEF SpeakerOK
  <2>2. end \in OpensAs(machine.speaker, c, dev.named, element)
    BY <1>2 DEF SpeakerInits, OpenSpeaker
  <2>3. dev.named \in BOOLEAN /\ (kept => NothingLost(machine.speaker) /\ dev.named)
    BY DEF Device, NamedOK
  <2>4. element \in Elements /\ kept \in BOOLEAN
    BY MixerElements DEF NothingLost, AllNamed
  <2> HIDE DEF c, element, kept
  <2>5. /\ MixerOK(end.mixer, element, kept) /\ end.answer \in {-1, 0}
        /\ end.answer # -1 => end.mixer.element = element /\ element # "null"
        /\ end = [mixer |-> end.mixer, answer |-> end.answer]
    BY <2>1, <2>2, <2>3, <2>4, MixerOpens, SMTT(30)
  <2> QED
    BY <2>5 DEF SpeakerOK, element, kept
<1> QED
  BY <1>1, <1>2

LEMMA MicrophoneInitsEnd ==
  ASSUME PlayoutInv, NEW end \in MicrophoneInits
  PROVE  /\ MicrophoneOK(end.mixer) /\ end.answer \in {-1, 0}
         /\ end.answer # -1 =>
              /\ end.mixer.element = MicrophoneElement(machine.microphone)
              /\ MicrophoneElement(machine.microphone) # "null"
         /\ end = [mixer |-> end.mixer, answer |-> end.answer]
<1> USE PlayoutInvParts
<1> DEFINE c == CloseMicrophoneLocked(microphone)
           element == MicrophoneElement(machine.microphone)
           kept == NothingLost(machine.microphone) /\ InputNamed
<1>1. MixerOK(c, element, kept) /\ c.handle = "null"
  BY SpeakerCloses DEF MicrophoneOK
<1>2. end \in OpensAs(machine.microphone, c, InputNamed, element)
  BY DEF MicrophoneInits, OpenMicrophone, InputNamed
<1>3. InputNamed \in BOOLEAN /\ (kept => NothingLost(machine.microphone) /\ InputNamed)
  BY DEF InputNamed
<1>4. element \in Elements /\ kept \in BOOLEAN
  BY MixerElements DEF NothingLost, InputNamed
<1> HIDE DEF c, element, kept
<1>5. /\ MixerOK(end.mixer, element, kept) /\ end.answer \in {-1, 0}
      /\ end.answer # -1 => end.mixer.element = element /\ element # "null"
      /\ end = [mixer |-> end.mixer, answer |-> end.answer]
  BY <1>1, <1>2, <1>3, <1>4, MixerOpens
<1> QED
  BY <1>5 DEF MicrophoneOK, element, kept

\* A question is answered by the speaker mixer as it is, or by one opened for it.
SpeakerAsked(said(_)) ==
  QuestionEnds(speaker, SpeakerIsInitialized(speaker), SpeakerInits, CloseSpeakerLocked, said)

SpeakerMuteSays(x) == SaysSpeakerMute(machine.speaker, x)

LEMMA SpeakerAnswered ==
  ASSUME PlayoutInv, NEW a \in {0, 1}, NEW e \in SpeakerInits, NEW end,
         end = IF e.answer = -1 THEN [e EXCEPT !.answer = 0]
               ELSE [mixer |-> CloseSpeakerLocked(e.mixer), answer |-> a]
  PROVE  /\ SpeakerOK(end.mixer) /\ end.answer \in {0, 1}
         /\ end.answer = 1 =>
              a = 1 /\ end.mixer.handle = "null"
              /\ e.mixer.element = SpeakerElement(machine.speaker)
<1>1. /\ SpeakerOK(e.mixer) /\ e.answer \in {-1, 0}
      /\ e.answer # -1 => e.mixer.element = SpeakerElement(machine.speaker)
      /\ e = [mixer |-> e.mixer, answer |-> e.answer]
  BY SpeakerInitsEnd
<1>2. CASE e.answer = -1
  <2>1. end = [e EXCEPT !.answer = 0]
    BY <1>2
  <2>2. end.mixer = e.mixer /\ end.answer = 0
    BY <1>1, <2>1
  <2> QED
    BY <1>1, <2>2
<1>3. CASE e.answer # -1
  <2> DEFINE c == CloseSpeakerLocked(e.mixer)
  <2>1. end = [mixer |-> c, answer |-> a]
    BY <1>3
  <2> HIDE DEF c
  <2>2. end.mixer = c /\ end.answer = a
    BY <2>1
  <2>3. SpeakerOK(c) /\ c.handle = "null"
    BY <1>1, SpeakerCloses DEF SpeakerOK, c
  <2> QED
    BY <1>1, <1>3, <2>2, <2>3
<1> QED
  BY <1>2, <1>3

LEMMA SpeakerVolumeAsked ==
  ASSUME PlayoutInv, NEW end \in SpeakerAsked(SaysTrue)
  PROVE  SpeakerOK(end.mixer) /\ end.answer \in {0, 1}
<1>1. CASE speaker.handle # "null"
  <2>1. end.mixer = speaker /\ end.answer = 1
    BY <1>1 DEF SpeakerAsked, QuestionEnds, SpeakerIsInitialized, Says, SaysTrue
  <2> QED
    BY <2>1, PlayoutInvParts
<1>2. CASE speaker.handle = "null"
  <2>1. PICK e \in SpeakerInits :
          end = IF e.answer = -1 THEN [e EXCEPT !.answer = 0]
                ELSE [mixer |-> CloseSpeakerLocked(e.mixer), answer |-> 1]
    BY <1>2 DEF SpeakerAsked, QuestionEnds, SpeakerIsInitialized, SaysTrue
  <2>2. 1 \in {0, 1}
    OBVIOUS
  <2> QED
    BY <2>1, <2>2, SpeakerAnswered
<1> QED
  BY <1>1, <1>2

LEMMA SpeakerMuteSaid ==
  ASSUME NEW x
  PROVE  /\ SpeakerMuteSays(x) \in {0, 1}
         /\ SpeakerMuteSays(x) = 1 => x.element # "null" /\ x.element \in machine.speaker.switches
<1>1. ASSUME NEW end \in SpeakerMuteIsAvailable(machine.speaker, x), end.answer = 1
      PROVE  x.element # "null" /\ x.element \in machine.speaker.switches
  BY <1>1 DEF SpeakerMuteIsAvailable, Refused, Says, Truth
<1> QED
  BY <1>1 DEF SpeakerMuteSays, SaysSpeakerMute

LEMMA SpeakerMuteAsked ==
  ASSUME PlayoutInv, NEW end \in SpeakerAsked(SpeakerMuteSays)
  PROVE  /\ SpeakerOK(end.mixer) /\ end.answer \in {0, 1}
         /\ end.answer = 1 =>
              /\ SpeakerElement(machine.speaker) \in machine.speaker.switches
              /\ end.mixer.handle = speaker.handle
<1>1. CASE speaker.handle # "null"
  <2>1. end.mixer = speaker /\ end.answer = SpeakerMuteSays(speaker)
    BY <1>1 DEF SpeakerAsked, QuestionEnds, SpeakerIsInitialized, Says
  <2>2. speaker.element # "null" => speaker.element = SpeakerElement(machine.speaker)
    BY PlayoutInvParts DEF SpeakerOK, MixerOK
  <2> QED
    BY <2>1, <2>2, SpeakerMuteSaid, PlayoutInvParts
<1>2. CASE speaker.handle = "null"
  <2>1. PICK e \in SpeakerInits :
          end = IF e.answer = -1 THEN [e EXCEPT !.answer = 0]
                ELSE [mixer |-> CloseSpeakerLocked(e.mixer), answer |-> SpeakerMuteSays(e.mixer)]
    BY <1>2 DEF SpeakerAsked, QuestionEnds, SpeakerIsInitialized
  <2> DEFINE a == SpeakerMuteSays(e.mixer)
  <2>2. a \in {0, 1} /\ (a = 1 => e.mixer.element \in machine.speaker.switches)
    BY SpeakerMuteSaid
  <2> HIDE DEF a
  <2>3. /\ SpeakerOK(end.mixer) /\ end.answer \in {0, 1}
        /\ end.answer = 1 =>
             a = 1 /\ end.mixer.handle = "null"
             /\ e.mixer.element = SpeakerElement(machine.speaker)
    BY <2>1, <2>2, SpeakerAnswered DEF a
  <2> QED
    BY <1>2, <2>2, <2>3
<1> QED
  BY <1>1, <1>2

\* A question is answered by the microphone mixer as it is, or by one opened for it.
MicrophoneAsked(said(_)) ==
  QuestionEnds(microphone, MicrophoneIsInitialized(microphone), MicrophoneInits,
               CloseMicrophoneLocked, said)

MicrophoneMuteSays(x) == SaysMicrophoneMute(machine.microphone, x)

LEMMA MicrophoneAnswered ==
  ASSUME PlayoutInv, NEW a \in {0, 1}, NEW e \in MicrophoneInits, NEW end,
         end = IF e.answer = -1 THEN [e EXCEPT !.answer = 0]
               ELSE [mixer |-> CloseMicrophoneLocked(e.mixer), answer |-> a]
  PROVE  /\ MicrophoneOK(end.mixer) /\ end.answer \in {0, 1}
         /\ end.answer = 1 =>
              a = 1 /\ end.mixer.handle = "null"
              /\ e.mixer.element = MicrophoneElement(machine.microphone)
<1>1. /\ MicrophoneOK(e.mixer) /\ e.answer \in {-1, 0}
      /\ e.answer # -1 => e.mixer.element = MicrophoneElement(machine.microphone)
      /\ e = [mixer |-> e.mixer, answer |-> e.answer]
  BY MicrophoneInitsEnd
<1>2. CASE e.answer = -1
  <2>1. end = [e EXCEPT !.answer = 0]
    BY <1>2
  <2>2. end.mixer = e.mixer /\ end.answer = 0
    BY <1>1, <2>1
  <2> QED
    BY <1>1, <2>2
<1>3. CASE e.answer # -1
  <2> DEFINE c == CloseMicrophoneLocked(e.mixer)
  <2>1. end = [mixer |-> c, answer |-> a]
    BY <1>3
  <2> HIDE DEF c
  <2>2. end.mixer = c /\ end.answer = a
    BY <2>1
  <2>3. MicrophoneOK(c) /\ c.handle = "null"
    BY <1>1, SpeakerCloses DEF MicrophoneOK, c
  <2> QED
    BY <1>1, <1>3, <2>2, <2>3
<1> QED
  BY <1>2, <1>3

LEMMA MicrophoneVolumeAsked ==
  ASSUME PlayoutInv, NEW end \in MicrophoneAsked(SaysTrue)
  PROVE  MicrophoneOK(end.mixer) /\ end.answer \in {0, 1}
<1>1. CASE microphone.handle # "null"
  <2>1. end.mixer = microphone /\ end.answer = 1
    BY <1>1 DEF MicrophoneAsked, QuestionEnds, MicrophoneIsInitialized, Says, SaysTrue
  <2> QED
    BY <2>1, PlayoutInvParts
<1>2. CASE microphone.handle = "null"
  <2>1. PICK e \in MicrophoneInits :
          end = IF e.answer = -1 THEN [e EXCEPT !.answer = 0]
                ELSE [mixer |-> CloseMicrophoneLocked(e.mixer), answer |-> 1]
    BY <1>2 DEF MicrophoneAsked, QuestionEnds, MicrophoneIsInitialized, SaysTrue
  <2>2. 1 \in {0, 1}
    OBVIOUS
  <2> QED
    BY <2>1, <2>2, MicrophoneAnswered
<1> QED
  BY <1>1, <1>2

LEMMA MicrophoneMuteSaid ==
  ASSUME NEW x
  PROVE  /\ MicrophoneMuteSays(x) \in {0, 1}
         /\ MicrophoneMuteSays(x) = 1 =>
              x.element # "null" /\ x.element \in machine.microphone.switches
<1>1. ASSUME NEW end \in MicrophoneMuteIsAvailable(machine.microphone, x), end.answer = 1
      PROVE  x.element # "null" /\ x.element \in machine.microphone.switches
  BY <1>1 DEF MicrophoneMuteIsAvailable, Refused, Says, Truth
<1> QED
  BY <1>1 DEF MicrophoneMuteSays, SaysMicrophoneMute

LEMMA MicrophoneMuteAsked ==
  ASSUME PlayoutInv, NEW end \in MicrophoneAsked(MicrophoneMuteSays)
  PROVE  /\ MicrophoneOK(end.mixer) /\ end.answer \in {0, 1}
         /\ end.answer = 1 =>
              /\ MicrophoneElement(machine.microphone) \in machine.microphone.switches
              /\ end.mixer.handle = microphone.handle
<1>1. CASE microphone.handle # "null"
  <2>1. end.mixer = microphone /\ end.answer = MicrophoneMuteSays(microphone)
    BY <1>1 DEF MicrophoneAsked, QuestionEnds, MicrophoneIsInitialized, Says
  <2>2. microphone.element # "null" => microphone.element = MicrophoneElement(machine.microphone)
    BY PlayoutInvParts DEF MicrophoneOK, MixerOK
  <2> QED
    BY <2>1, <2>2, MicrophoneMuteSaid, PlayoutInvParts
<1>2. CASE microphone.handle = "null"
  <2>1. PICK e \in MicrophoneInits :
          end = IF e.answer = -1 THEN [e EXCEPT !.answer = 0]
                ELSE [mixer |-> CloseMicrophoneLocked(e.mixer),
                       answer |-> MicrophoneMuteSays(e.mixer)]
    BY <1>2 DEF MicrophoneAsked, QuestionEnds, MicrophoneIsInitialized
  <2> DEFINE a == MicrophoneMuteSays(e.mixer)
  <2>2. a \in {0, 1} /\ (a = 1 => e.mixer.element \in machine.microphone.switches)
    BY MicrophoneMuteSaid
  <2> HIDE DEF a
  <2>3. /\ MicrophoneOK(end.mixer) /\ end.answer \in {0, 1}
        /\ end.answer = 1 =>
             a = 1 /\ end.mixer.handle = "null"
             /\ e.mixer.element = MicrophoneElement(machine.microphone)
    BY <2>1, <2>2, MicrophoneAnswered DEF a
  <2> QED
    BY <1>2, <2>2, <2>3
<1> QED
  BY <1>1, <1>2

LEMMA PlayoutMixerCalls ==
  ASSUME PlayoutInv, MixerCalls PROVE PlayoutInv'
<1> USE PlayoutInvParts
<1>0. {-1, 0} \subseteq Answers /\ {0, 1} \subseteq Answers
  BY TopPositive DEF Answers
<1>1. CASE InitSpeaker
  <2>1. SpeakerEnds(SpeakerInits)
    BY <1>1 DEF InitSpeaker, SpeakerInits
  <2>2. \A end \in SpeakerInits : SpeakerOK(end.mixer) /\ end.answer \in Answers
    BY <1>0, SpeakerInitsEnd
  <2> QED
    BY <2>1, <2>2, SpeakerStep
<1>2. CASE InitMicrophone
  <2>1. MicrophoneEnds(MicrophoneInits)
    BY <1>2 DEF InitMicrophone, MicrophoneInits
  <2>2. \A end \in MicrophoneInits : MicrophoneOK(end.mixer) /\ end.answer \in Answers
    BY <1>0, MicrophoneInitsEnd
  <2> QED
    BY <2>1, <2>2, MicrophoneStep
<1>3. CASE SpeakerVolumeCalls
  <2>1. PICK ends :
          /\ SpeakerEnds(ends)
          /\ \/ \E level \in 0..Top : ends = SetSpeakerVolume(machine.speaker, speaker, level)
             \/ ends = SpeakerVolume(machine.speaker, speaker)
             \/ ends = MaxSpeakerVolume(machine.speaker, speaker)
             \/ ends = MinSpeakerVolume(machine.speaker, speaker)
    BY <1>3 DEF SpeakerVolumeCalls
  <2>2. ASSUME NEW end \in ends PROVE KeepsMixer(speaker, end)
    BY <2>1, <2>2, KeepsVolume
    DEF SetSpeakerVolume, SpeakerVolume, MaxSpeakerVolume, MinSpeakerVolume
  <2> QED
    BY <2>1, <2>2, SpeakerKept
<1>4. CASE MicrophoneVolumeCalls
  <2>1. PICK ends :
          /\ MicrophoneEnds(ends)
          /\ \/ \E level \in 0..Top :
                  ends = SetMicrophoneVolume(machine.microphone, microphone, level)
             \/ ends = MicrophoneVolume(machine.microphone, microphone)
             \/ ends = MaxMicrophoneVolume(machine.microphone, microphone)
             \/ ends = MinMicrophoneVolume(machine.microphone, microphone)
    BY <1>4 DEF MicrophoneVolumeCalls
  <2>2. ASSUME NEW end \in ends PROVE KeepsMixer(microphone, end)
    <3> DEFINE hw == machine.microphone
    <3>1. \/ \E level \in 0..Top : end \in SetVolume(hw, microphone, level)
          \/ end \in Volume(hw, microphone)
          \/ end \in Loudest(hw, microphone)
          \/ end \in Says(microphone, 0)
          \/ end \in Refused(microphone)
      BY <2>1, <2>2
      DEF SetMicrophoneVolume, MicrophoneVolume, MaxMicrophoneVolume, MinMicrophoneVolume
    <3> QED
      BY <3>1, KeepsVolume
  <2> QED
    BY <2>1, <2>2, MicrophoneKept
<1>5. CASE SpeakerMuteCalls
  <2>1. PICK ends :
          /\ SpeakerEnds(ends)
          /\ \/ \E enable \in BOOLEAN : ends = SetSpeakerMute(machine.speaker, speaker, enable)
             \/ ends = SpeakerMute(machine.speaker, speaker)
    BY <1>5 DEF SpeakerMuteCalls
  <2>2. ASSUME NEW end \in ends PROVE KeepsMixer(speaker, end)
    BY <2>1, <2>2, KeepsMute DEF SetSpeakerMute, SpeakerMute
  <2> QED
    BY <2>1, <2>2, SpeakerKept
<1>6. CASE MicrophoneMuteCalls
  <2>1. PICK ends :
          /\ MicrophoneEnds(ends)
          /\ \/ \E enable \in BOOLEAN :
                  ends = SetMicrophoneMute(machine.microphone, microphone, enable)
             \/ ends = MicrophoneMute(machine.microphone, microphone)
    BY <1>6 DEF MicrophoneMuteCalls
  <2>2. ASSUME NEW end \in ends PROVE KeepsMixer(microphone, end)
    BY <2>1, <2>2, KeepsMute DEF SetMicrophoneMute, MicrophoneMute
  <2> QED
    BY <2>1, <2>2, MicrophoneKept
<1>7. CASE SpeakerVolumeIsAvailable
  <2>1. SpeakerEnds(SpeakerAsked(SaysTrue))
    BY <1>7 DEF SpeakerVolumeIsAvailable, SpeakerAsked
  <2>2. \A end \in SpeakerAsked(SaysTrue) : SpeakerOK(end.mixer) /\ end.answer \in Answers
    BY <1>0, SpeakerVolumeAsked
  <2> QED
    BY <2>1, <2>2, SpeakerStep
<1>8. CASE MicrophoneVolumeIsAvailable
  <2>1. MicrophoneEnds(MicrophoneAsked(SaysTrue))
    BY <1>8 DEF MicrophoneVolumeIsAvailable, MicrophoneAsked
  <2>2. \A end \in MicrophoneAsked(SaysTrue) : MicrophoneOK(end.mixer) /\ end.answer \in Answers
    BY <1>0, MicrophoneVolumeAsked
  <2> QED
    BY <2>1, <2>2, MicrophoneStep
<1>9. CASE AsksSpeakerMute
  <2>1. SpeakerEnds(SpeakerAsked(SpeakerMuteSays))
    BY <1>9 DEF AsksSpeakerMute, SpeakerAsked, SpeakerMuteSays
  <2>2. \A end \in SpeakerAsked(SpeakerMuteSays) :
          SpeakerOK(end.mixer) /\ end.answer \in Answers
    BY <1>0, SpeakerMuteAsked
  <2> QED
    BY <2>1, <2>2, SpeakerStep
<1>10. CASE AsksMicrophoneMute
  <2>1. MicrophoneEnds(MicrophoneAsked(MicrophoneMuteSays))
    BY <1>10 DEF AsksMicrophoneMute, MicrophoneAsked, MicrophoneMuteSays
  <2>2. \A end \in MicrophoneAsked(MicrophoneMuteSays) :
          MicrophoneOK(end.mixer) /\ end.answer \in Answers
    BY <1>0, MicrophoneMuteAsked
  <2> QED
    BY <2>1, <2>2, MicrophoneStep
<1> QED
  BY <1>1, <1>2, <1>3, <1>4, <1>5, <1>6, <1>7, <1>8, <1>9, <1>10 DEF MixerCalls

-----------------------------------------------------------------------------
(* The play threads.                                                        *)

LEMMA GivenIs ==
  ASSUME buffer \in Buffer
  PROVE  Given \in Nat /\ (buffer.size = buffer.channels => Given = Frames)
<1>1. buffer.size \in 0..2 /\ buffer.channels \in 0..2
  BY DEF Buffer
<1>2. CASE buffer.size = buffer.channels
  <2>1. Given = Frames
    BY <1>2 DEF Given
  <2> QED
    BY <2>1, FramesPositive
<1>3. CASE buffer.size < buffer.channels
  <2>1. Given = (buffer.size * Frames) \div 2
    BY <1>1, <1>3 DEF Given
  <2>2. buffer.size = 0 \/ buffer.size = 1
    BY <1>1, <1>3
  <2>3. 0 \div 2 = 0 /\ Frames \div 2 \in Nat
    BY FramesPositive
  <2>4. 0 * Frames = 0 /\ 1 * Frames = Frames
    BY FramesPositive
  <2>5. Given \in Nat
    BY <2>1, <2>2, <2>3, <2>4
  <2> QED
    BY <1>1, <1>3, <2>5
<1>4. CASE buffer.size > buffer.channels
  <2>1. Given = 2 * Frames
    BY <1>1, <1>4 DEF Given
  <2> QED
    BY <1>1, <1>4, <2>1, FramesPositive
<1> QED
  BY <1>1, <1>2, <1>3, <1>4

\* A thread changes of the device the frames left, and of AudioDeviceBuffer the size
\* of its data, which it makes that of the channels; the thread that is fresh stays so.
LEMMA PlayoutThread ==
  ASSUME PlayoutInv, NEW t \in Threads, Thread(t) PROVE PlayoutInv'
<1> USE PlayoutInvParts
<1>0. /\ Quiet
      /\ threads \in [Threads -> [pc : ThreadPCs, avail : 0..Frames]]
  BY DEF Thread, ThreadChecks, ThreadPlays, ThreadWaits, ThreadRequests, ThreadTakesData,
         PlayoutOthers
<1>1. \/ dev' = dev
      \/ \E left \in 0..Frames : dev' = [dev EXCEPT !.left = left]
  <2>1. ASSUME NEW d, NEW avail \in Nat, ThreadWrites(t, d, avail),
               d = dev \/ \E given \in 0..Frames : d = [dev EXCEPT !.left = given]
        PROVE  \/ dev' = dev
               \/ \E left \in 0..Frames : dev' = [dev EXCEPT !.left = left]
    <3>1. d.left \in 0..Frames
      BY <2>1, FramesPositive DEF Device
    <3>2. CASE dev' = dev
      BY <3>2
    <3>3. CASE dev' # dev
      <4>1. PICK writes \in May("write"), n \in 1..avail :
              dev' = [d EXCEPT !.left = IF ~writes \/ n > @ THEN 0 ELSE @ - n]
        BY <2>1, <3>3 DEF ThreadWrites, Crashes
      <4> DEFINE left == IF ~writes \/ n > d.left THEN 0 ELSE d.left - n
      <4>2. left \in 0..Frames
        BY <2>1, <3>1, FramesPositive
      <4>3. dev' = [d EXCEPT !.left = left]
        BY <4>1
      <4> HIDE DEF left
      <4>4. dev' = [dev EXCEPT !.left = left]
        BY <2>1, <4>3 DEF Device
      <4> QED
        BY <4>2, <4>4
    <3> QED
      BY <3>2, <3>3
  <2>2. CASE ThreadPlays(t)
    <3>1. dev' = dev \/ \E avail \in 1..Frames : ThreadWrites(t, dev, avail)
      BY <2>2 DEF ThreadPlays, Crashes, ErrorRecovery
    <3> QED
      BY <2>1, <3>1, FramesPositive
  <2>3. CASE ThreadTakesData(t)
    <3>1. threads[t].avail \in Nat
      BY <1>0, FramesPositive
    <3>2. \/ dev' = dev
          \/ /\ Given <= Frames
             /\ ThreadWrites(t, [dev EXCEPT !.left = Given], threads[t].avail)
      BY <2>3 DEF ThreadTakesData, Crashes
    <3>3. Given \in Nat
      BY GivenIs DEF PlayoutOthers
    <3>4. CASE dev' # dev
      <4> DEFINE given == Given
      <4>1. given \in 0..Frames
        BY <3>2, <3>3, <3>4, FramesPositive
      <4>2. ThreadWrites(t, [dev EXCEPT !.left = given], threads[t].avail)
        BY <3>2, <3>4
      <4> HIDE DEF given
      <4> QED
        BY <2>1, <3>1, <4>1, <4>2
    <3> QED
      BY <3>4
  <2>4. CASE ThreadChecks(t) \/ ThreadWaits(t) \/ ThreadRequests(t)
    BY <2>4 DEF ThreadChecks, ThreadWaits, ThreadRequests, Crashes
  <2> QED
    BY <2>2, <2>3, <2>4 DEF Thread
<1>2. /\ dev' \in Device
      /\ dev'.ready = dev.ready /\ dev'.playing = dev.playing /\ dev'.named = dev.named
      /\ dev'.handle = dev.handle /\ dev'.pcms = dev.pcms /\ dev'.timed = dev.timed
      /\ dev'.size = dev.size /\ dev'.block = dev.block
  BY <1>1 DEF Device
<1>3. \/ buffer' = buffer
      \/ /\ ThreadRequests(t)
         /\ buffer' = [buffer EXCEPT !.size = IF dev.timed THEN buffer.channels ELSE 0]
  BY DEF Thread, ThreadChecks, ThreadPlays, ThreadWaits, ThreadRequests, ThreadTakesData,
         ThreadWrites, Crashes, ErrorRecovery
<1>4. /\ buffer' \in Buffer /\ buffer'.playing = buffer.playing
      /\ buffer'.channels = buffer.channels
      /\ buffer'.size = buffer.size \/ (dev.timed => buffer'.size = buffer.channels)
  BY <1>3 DEF Buffer
<1>5. \/ threads' = threads
      \/ \E pc \in ThreadPCs, avail \in 0..Frames :
           /\ threads' = [threads EXCEPT ![t] = [pc |-> pc, avail |-> avail]]
           /\ dev.playing => pc # "none"
           /\ pc = "relock" => (dev.timed => buffer'.size = buffer.channels)
  <2>1. {"none", "check", "lock", "wait", "request", "relock"} = ThreadPCs
        /\ threads[t].avail \in 0..Frames /\ 0 \in 0..Frames
    BY <1>0, FramesPositive DEF ThreadPCs
  <2>2. CASE ThreadChecks(t)
    <3>1. PICK pc \in {"lock", "none"} : Goes(t, pc, 0) /\ (dev.playing => pc # "none")
      BY <2>2 DEF ThreadChecks
    <3> QED
      BY <2>1, <3>1 DEF Goes
  <2>3. CASE ThreadPlays(t)
    <3>1. \/ threads' = threads
          \/ Goes(t, "check", 0) \/ Goes(t, "wait", 0)
          \/ \E avail \in 1..Frames : Goes(t, "request", avail)
      BY <2>3 DEF ThreadPlays, ThreadWrites, Crashes, ErrorRecovery
    <3> QED
      BY <2>1, <3>1, FramesPositive DEF Goes
  <2>4. CASE ThreadWaits(t) \/ ThreadTakesData(t)
    <3>1. threads' = threads \/ Goes(t, "check", 0)
      BY <2>4 DEF ThreadWaits, ThreadTakesData, ThreadWrites, Crashes
    <3> QED
      BY <2>1, <3>1 DEF Goes
  <2>5. CASE ThreadRequests(t)
    <3>1. \/ threads' = threads
          \/ /\ Goes(t, "relock", threads[t].avail)
             /\ buffer' = [buffer EXCEPT !.size = IF dev.timed THEN buffer.channels ELSE 0]
      BY <2>5 DEF ThreadRequests, Crashes
    <3>2. ASSUME buffer' = [buffer EXCEPT !.size = IF dev.timed THEN buffer.channels ELSE 0]
          PROVE  dev.timed => buffer'.size = buffer.channels
      BY <3>2 DEF Buffer
    <3> QED
      BY <2>1, <3>1, <3>2 DEF Goes
  <2> QED
    BY <2>2, <2>3, <2>4, <2>5 DEF Thread
<1>6. threads' \in [Threads -> [pc : ThreadPCs, avail : 0..Frames]]
  BY <1>0, <1>5
<1>7. ASSUME NEW u \in Threads, Fresh(u), dev.timed, dev.playing PROVE Fresh(u)'
  <2>1. CASE threads'[u] = threads[u]
    BY <1>4, <1>7, <2>1 DEF Fresh
  <2>2. CASE threads'[u] # threads[u]
    BY <1>0, <1>4, <1>5, <1>7, <2>2 DEF Fresh
  <2> QED
    BY <2>1, <2>2
<1>8. PlayoutOthers' /\ UNCHANGED <<machine, speaker, microphone, control>>
  <2>1. crashed' \in {"no", "no symbols", "handle", "null block", "no data", "overflow",
                      "frames left", "short write", "race"}
    BY DEF Thread, ThreadChecks, ThreadPlays, ThreadWaits, ThreadRequests, ThreadTakesData,
           ThreadWrites, Crashes, ErrorRecovery, PlayoutOthers
  <2> QED
    BY <1>0, <1>6, <2>1 DEF Quiet, PlayoutOthers, system, mixers
<1>9. PlayerInv(dev', buffer') /\ NamedOK(dev')
  BY <1>2, <1>4 DEF PlayerInv, NamedOK
<1>10. dev.playing => dev.timed
  BY DEF PlayerInv
<1> QED
  BY <1>2, <1>4, <1>7, <1>8, <1>9, <1>10, PlayoutParts DEF PlayoutInv

LEMMA PlayoutStutters ==
  ASSUME PlayoutInv, UNCHANGED vars PROVE PlayoutInv'
<1>1. /\ PlayoutOthers'
      /\ UNCHANGED <<machine, dev, speaker, microphone, buffer, control, threads>>
  BY PlayoutInvParts DEF PlayoutOthers, vars, system, mixers
<1> QED
  BY <1>1, PlayoutInvParts, PlayoutFrame

LEMMA PlayoutInvariant == Spec => []PlayoutInv
<1>1. PlayoutInv /\ [Next]_vars => PlayoutInv'
  BY PlayoutDeviceCalls, PlayoutMixerCalls, PlayoutContinues, PlayoutThread, PlayoutStutters
  DEF Next, Calls
<1> QED
  BY PlayoutInitially, <1>1, PTL DEF Spec

\* Every variable of the playout side keeps its type.
THEOREM PlayoutTypeCorrect == Spec => []TypeOK
<1>1. PlayoutInv => TypeOK
  BY DEF PlayoutInv
<1> QED
  BY PlayoutInvariant, <1>1, PTL

\* A device that plays is initialized and open, and the three sizes of a 10 ms block
\* agree, for every machine and whatever PCM and mixer calls fail.
THEOREM PlaysReady == Spec => []PlayoutReady
<1>1. PlayoutInv => PlayoutReady
  BY DEF PlayoutInv, PlayerInv, PlayoutReady
<1> QED
  BY PlayoutInvariant, <1>1, PTL

\* InitPlayoutLocked and StopPlayoutLocked lose no PCM handle, and the mixer manager
\* no mixer that it can attach, register and load.
THEOREM PlayoutHandlesAccounted == Spec => []HandlesAccounted
<1>1. PlayoutInv => HandlesAccounted
  <2> SUFFICES ASSUME PlayoutInv PROVE HandlesAccounted
    OBVIOUS
  <2>1. dev.pcms = (IF dev.handle = "open" THEN 1 ELSE 0)
    BY PlayoutInvParts DEF PlayerInv
  <2>2. NothingLost(machine.speaker) /\ AllNamed =>
          speaker.opened = (IF speaker.handle = "open" THEN 1 ELSE 0)
    BY PlayoutInvParts DEF SpeakerOK, MixerOK
  <2>3. NothingLost(machine.microphone) /\ DeviceAt(machine.cards, FALSE, 0) # {} =>
          microphone.opened = (IF microphone.handle = "open" THEN 1 ELSE 0)
    BY PlayoutInvParts DEF MicrophoneOK, MixerOK, InputNamed
  <2> QED
    BY <2>1, <2>2, <2>3 DEF HandlesAccounted
<1> QED
  BY PlayoutInvariant, <1>1, PTL

\* MuteAnswered's step.
MuteSteps ==
  /\ answer' = 1 /\ AsksSpeakerMute =>
       /\ SpeakerElement(machine.speaker) \in machine.speaker.switches
       /\ speaker'.handle = speaker.handle
  /\ answer' = 1 /\ AsksMicrophoneMute =>
       /\ MicrophoneElement(machine.microphone) \in machine.microphone.switches
       /\ microphone'.handle = microphone.handle

\* Who is told that there is a mute control has one that is a switch, whatever calls
\* have failed before, and the question leaves a mixer open only where it was.
THEOREM MutesAnswered == Spec => MuteAnswered
<1>1. PlayoutInv /\ [Next]_vars => [MuteSteps]_vars
  <2> SUFFICES ASSUME PlayoutInv PROVE MuteSteps
    OBVIOUS
  <2>1. ASSUME answer' = 1, AsksSpeakerMute
        PROVE  /\ SpeakerElement(machine.speaker) \in machine.speaker.switches
               /\ speaker'.handle = speaker.handle
    <3>1. SpeakerEnds(SpeakerAsked(SpeakerMuteSays))
      BY <2>1 DEF AsksSpeakerMute, SpeakerAsked, SpeakerMuteSays
    <3>2. PICK end \in SpeakerAsked(SpeakerMuteSays) : speaker' = end.mixer /\ answer' = end.answer
      BY <3>1 DEF SpeakerEnds
    <3> QED
      BY <2>1, <3>2, SpeakerMuteAsked
  <2>2. ASSUME answer' = 1, AsksMicrophoneMute
        PROVE  /\ MicrophoneElement(machine.microphone) \in machine.microphone.switches
               /\ microphone'.handle = microphone.handle
    <3>1. MicrophoneEnds(MicrophoneAsked(MicrophoneMuteSays))
      BY <2>2 DEF AsksMicrophoneMute, MicrophoneAsked, MicrophoneMuteSays
    <3>2. PICK end \in MicrophoneAsked(MicrophoneMuteSays) :
            microphone' = end.mixer /\ answer' = end.answer
      BY <3>1 DEF MicrophoneEnds
    <3> QED
      BY <2>2, <3>2, MicrophoneMuteAsked
  <2> QED
    BY <2>1, <2>2 DEF MuteSteps
<1> QED
  BY PlayoutInvariant, <1>1, PTL DEF Spec, MuteAnswered, MuteSteps

\* LoneThreadPlays' step.
LoneSteps ==
  crashed' \notin {"no", "short write"} =>
    ~\E t \in Threads :
       /\ dev.playing /\ control = "idle"
       /\ \A u \in Threads \ {t} : threads[u].pc = "none"
       /\ Thread(t)

\* A play thread that is alone is the fresh one of the invariant, so that each check
\* it comes to holds, with any number of channels and of frames.
THEOREM LonePlays == Spec => LoneThreadPlays
<1>1. PlayoutInv /\ [Next]_vars => [LoneSteps]_vars
  <2> SUFFICES ASSUME PlayoutInv, NEW t \in Threads, dev.playing, control = "idle",
                      \A u \in Threads \ {t} : threads[u].pc = "none",
                      Thread(t)
               PROVE  crashed' \in {"no", "short write"}
    BY DEF LoneSteps
  <2>1. /\ dev.handle = "open" /\ dev.timed /\ dev.size = buffer.channels
        /\ dev.size \in {1, 2} /\ dev.block = dev.size
    BY DEF PlayoutInv, PlayerInv
  <2>2. threads[t].pc = "relock" => buffer.size = buffer.channels
    <3>1. PICK u \in Threads : Fresh(u)
      BY DEF PlayoutInv
    <3>2. u = t
      BY <3>1 DEF Fresh
    <3> QED
      BY <3>1, <3>2 DEF Fresh
  <2>3. crashed = "no"
    BY DEF Thread, ThreadChecks, ThreadPlays, ThreadWaits, ThreadRequests, ThreadTakesData,
           At, Running
  <2>4. ASSUME NEW d, NEW avail, ThreadWrites(t, d, avail), d.handle = "open", d.block # 0
        PROVE  crashed' \in {"no", "short write"}
    BY <2>3, <2>4 DEF ThreadWrites, Crashes
  <2>5. CASE ThreadChecks(t) \/ ThreadWaits(t)
    BY <2>1, <2>3, <2>5 DEF ThreadChecks, ThreadWaits
  <2>6. CASE ThreadPlays(t)
    <3>1. crashed' = crashed \/ \E avail \in 1..Frames : ThreadWrites(t, dev, avail)
      BY <2>1, <2>6 DEF ThreadPlays, ErrorRecovery
    <3>2. ASSUME NEW avail \in 1..Frames, ThreadWrites(t, dev, avail)
          PROVE  crashed' \in {"no", "short write"}
      <4>1. dev.handle = "open" /\ dev.block # 0
        BY <2>1
      <4> QED
        BY <2>4, <3>2, <4>1
    <3> QED
      BY <2>3, <3>1, <3>2
  <2>7. CASE ThreadRequests(t)
    BY <2>3, <2>7 DEF ThreadRequests, At
  <2>8. CASE ThreadTakesData(t)
    <3> DEFINE d == [dev EXCEPT !.left = Given]
    <3>1. ThreadWrites(t, d, threads[t].avail)
      <4>1. threads[t].pc = "relock"
        BY <2>8 DEF ThreadTakesData, At
      <4>2. /\ buffer.size # 0 /\ dev.block # 0 /\ ~(buffer.size > dev.block)
            /\ buffer.size = buffer.channels /\ dev.timed
        BY <2>1, <2>2, <4>1
      <4>3. Given = Frames
        BY <4>2, GivenIs, PlayoutInvParts DEF PlayoutOthers, PlayerInv
      <4>4. ~(Given > Frames) /\ ~(Given # Frames)
        BY <4>3, FramesPositive
      <4> QED
        BY <2>8, <4>2, <4>4 DEF ThreadTakesData
    <3>2. d.handle = "open" /\ d.block # 0
      BY <2>1, PlayoutInvParts DEF Device
    <3> HIDE DEF d
    <3> QED
      BY <2>4, <3>1, <3>2
  <2> QED
    BY <2>5, <2>6, <2>7, <2>8 DEF Thread
<1> QED
  BY PlayoutInvariant, <1>1, PTL DEF Spec, LoneThreadPlays, LoneSteps

-----------------------------------------------------------------------------
(* The list of devices.                                                     *)

CardLists == Seq([hinted : BOOLEAN, hints : Seq(Hints)])

LEMMA CardShape ==
  ASSUME NEW cards \in CardLists
  PROVE  /\ Len(cards) \in Nat
         /\ \A c \in 1..Len(cards) : Len(cards[c].hints) \in Nat
<1> DEFINE Card == [hinted : BOOLEAN, hints : Seq(Hints)]
<1>1. cards \in Seq(Card)
  BY DEF CardLists
<1>2. \A card \in Card : Len(card.hints) \in Nat
  <2> HIDE DEF Hints
  <2> QED
    OBVIOUS
<1> HIDE DEF Card
<1>3. Len(cards) \in Nat /\ \A c \in 1..Len(cards) : cards[c] \in Card
  BY <1>1
<1> QED
  BY <1>2, <1>3

\* A prefix of the numbers is a finite set.
LEMMA UpToFinite == \A n \in Int : IsFiniteSet(1..n)
  BY FS_Interval

LEMMA OneMember == \A S, x : S = {x} => Cardinality(S) = 1
<1>1. \A x : Cardinality({x}) = 1
  BY FS_Singleton
<1> QED
  BY <1>1

LEMMA ShownFinite ==
  ASSUME NEW cards \in CardLists, NEW c \in 1..Len(cards), NEW playback
  PROVE  /\ IsFiniteSet(Shown(cards[c], playback))
         /\ Cardinality(Shown(cards[c], playback)) \in Nat
<1>1. Len(cards[c].hints) \in Nat
  BY CardShape
<1>2. IsFiniteSet(1..Len(cards[c].hints))
  <2>1. Len(cards[c].hints) \in Int
    BY <1>1
  <2> QED
    BY <2>1, UpToFinite
<1>3. Shown(cards[c], playback) \in SUBSET (1..Len(cards[c].hints))
  BY DEF Shown
<1> QED
  BY <1>2, <1>3, FS_Subset, FS_CardinalityType

LEMMA ShownBeforeFinite ==
  ASSUME NEW cards \in CardLists, NEW c \in 1..Len(cards), NEW playback
  PROVE  /\ IsFiniteSet(ShownBefore(cards, playback, c))
         /\ Cardinality(ShownBefore(cards, playback, c)) \in Nat
<1> DEFINE f == [d \in 1..c - 1 |-> {d} \X Shown(cards[d], playback)]
           S == {{d} \X Shown(cards[d], playback) : d \in 1..c - 1}
<1>1. Len(cards) \in Nat
  BY CardShape
<1>2. IsFiniteSet(1..c - 1)
  <2>1. c - 1 \in Int
    BY <1>1
  <2> QED
    BY <2>1, UpToFinite
<1>3. f \in Surjection(1..c - 1, S)
  BY DEF Surjection
<1>4. IsFiniteSet(S)
  BY <1>2, <1>3, FS_Surjection
<1>5. ASSUME NEW T \in S PROVE IsFiniteSet(T)
  <2>1. PICK d \in 1..c - 1 : T = {d} \X Shown(cards[d], playback)
    OBVIOUS
  <2>2. d \in 1..Len(cards)
    BY <1>1
  <2> QED
    BY <2>1, <2>2, ShownFinite, FS_Singleton, FS_Product
<1>6. ShownBefore(cards, playback, c) = UNION S
  BY DEF ShownBefore
<1> HIDE DEF S
<1>7. IsFiniteSet(UNION S)
  BY <1>4, <1>5, FS_UNION
<1> QED
  BY <1>6, <1>7, FS_CardinalityType

\* The indices of a card's devices come after "default" and before those of the next.
LEMMA FirstIndices ==
  ASSUME NEW cards \in CardLists, NEW c \in 1..Len(cards), NEW playback
  PROVE  /\ FirstIndex(cards, playback, c) \in Nat /\ FirstIndex(cards, playback, c) >= c
         /\ \A d \in 1..c - 1 :
              FirstIndex(cards, playback, c) >=
                FirstIndex(cards, playback, d) + Cardinality(Shown(cards[d], playback)) + 1
<1>1. Len(cards) \in Nat
  BY CardShape
<1>2. Cardinality(ShownBefore(cards, playback, c)) \in Nat
  BY ShownBeforeFinite
<1>3. ASSUME NEW d \in 1..c - 1
      PROVE  FirstIndex(cards, playback, c) >=
               FirstIndex(cards, playback, d) + Cardinality(Shown(cards[d], playback)) + 1
  <2> DEFINE A == ShownBefore(cards, playback, d)
             B == {d} \X Shown(cards[d], playback)
             C == ShownBefore(cards, playback, c)
  <2>1. d \in 1..Len(cards) /\ d < c
    BY <1>1
  <2>2. /\ IsFiniteSet(A) /\ Cardinality(A) \in Nat
        /\ IsFiniteSet(C) /\ Cardinality(C) \in Nat
    BY <2>1, ShownBeforeFinite
  <2>3. /\ IsFiniteSet(Shown(cards[d], playback))
        /\ Cardinality(Shown(cards[d], playback)) \in Nat
    BY <2>1, ShownFinite
  <2>4. IsFiniteSet({d}) /\ Cardinality({d}) = 1
    BY FS_Singleton
  <2>5. IsFiniteSet(B) /\ Cardinality(B) = Cardinality(Shown(cards[d], playback))
    BY <2>3, <2>4, FS_Product
  <2>6. A \cap B = {}
    BY <2>1 DEF ShownBefore
  <2>7. A \subseteq C
    <3>1. 1..d - 1 \subseteq 1..c - 1
      BY <2>1
    <3> QED
      BY <3>1 DEF ShownBefore
  <2>8. B \subseteq C
    BY DEF ShownBefore
  <2> HIDE DEF A, B, C
  <2>9. Cardinality(A \cup B) = Cardinality(A) + Cardinality(B)
    <3>1. Cardinality(A \cap B) = 0
      BY <2>6, FS_EmptySet
    <3>2. Cardinality(A \cup B) = Cardinality(A) + Cardinality(B) - Cardinality(A \cap B)
      BY <2>2, <2>5, FS_Union
    <3>3. Cardinality(A) \in Nat /\ Cardinality(B) \in Nat
      BY <2>2, <2>3, <2>5
    <3> QED
      BY <3>1, <3>2, <3>3
  <2>10. Cardinality(A \cup B) <= Cardinality(C)
    BY <2>2, <2>7, <2>8, FS_Subset
  <2> QED
    BY <2>1, <2>2, <2>3, <2>5, <2>9, <2>10 DEF FirstIndex, A, C
<1> QED
  BY <1>2, <1>3 DEF FirstIndex

\* A device's card and place are found again from its index: the ranges of the cards
\* do not meet.
LEMMA RangesApart ==
  ASSUME NEW cards \in CardLists, NEW c \in 1..Len(cards), NEW d \in 1..Len(cards),
         NEW playback, NEW index \in Nat,
         index - FirstIndex(cards, playback, c) + 1
           \in 1..Cardinality(Shown(cards[c], playback)),
         index - FirstIndex(cards, playback, d) + 1
           \in 1..Cardinality(Shown(cards[d], playback))
  PROVE  c = d
<1> DEFINE F(e) == FirstIndex(cards, playback, e)
           N(e) == Cardinality(Shown(cards[e], playback))
<1>1. c \in Nat /\ d \in Nat
  BY CardShape
<1>2. /\ F(c) \in Nat /\ F(d) \in Nat
      /\ N(c) \in Nat /\ N(d) \in Nat
  BY FirstIndices, ShownFinite
<1>3. ASSUME c < d PROVE F(d) >= F(c) + N(c) + 1
  <2>1. c \in 1..d - 1
    BY <1>1, <1>3
  <2> QED
    BY <2>1, FirstIndices
<1>4. ASSUME d < c PROVE F(c) >= F(d) + N(d) + 1
  <2>1. d \in 1..c - 1
    BY <1>1, <1>4
  <2> QED
    BY <2>1, FirstIndices
<1>5. /\ index >= F(c) /\ index < F(c) + N(c)
      /\ index >= F(d) /\ index < F(d) + N(d)
  BY <1>2, SMTT(30)
<1> HIDE DEF F, N
<1>6. ~(c < d) /\ ~(d < c)
  BY <1>2, <1>3, <1>4, <1>5, SMTT(30)
<1> QED
  BY <1>1, <1>6

\* The p-th device of card c has the index FirstIndex + p - 1, and no other.
LEMMA DeviceHasIndex ==
  ASSUME NEW cards \in CardLists, NEW c \in 1..Len(cards), NEW playback,
         \A d \in 1..Len(cards) : cards[d].hinted,
         NEW p \in 1..Cardinality(Shown(cards[c], playback)),
         NEW index \in Nat
  PROVE  DeviceAt(cards, playback, index) = {<<c, p>>}
           <=> index = FirstIndex(cards, playback, c) + p - 1
<1> DEFINE F(d) == FirstIndex(cards, playback, d)
           N(d) == Cardinality(Shown(cards[d], playback))
           i == F(c) + p - 1
<1>1. Len(cards) \in Nat /\ F(c) \in Nat /\ F(c) >= c /\ N(c) \in Nat
  BY FirstIndices, ShownFinite, CardShape
<1>2. c \in Nat /\ c >= 1 /\ p \in Nat /\ p >= 1 /\ p <= N(c)
  BY <1>1
<1> HIDE DEF F, N
<1>3. i \in Nat /\ i >= 1 /\ i - F(c) + 1 = p
  BY <1>1, <1>2
<1>4. ASSUME index # 0, NEW at
      PROVE  at \in DeviceAt(cards, playback, index)
               <=> \E d \in 1..Len(cards) :
                     at = <<d, index - F(d) + 1>> /\ index - F(d) + 1 \in 1..N(d)
  <2>1. ASSUME NEW d \in 1..Len(cards) PROVE \A e \in 1..d : cards[e].hinted
    BY <1>1
  <2>2. ASSUME NEW d \in 1..Len(cards), at = <<d, index - F(d) + 1>>
        PROVE  at \in DeviceAt(cards, playback, index) <=> index - F(d) + 1 \in 1..N(d)
    <3>1. at[1] = d /\ at[2] = index - F(d) + 1
      BY <2>2
    <3> QED
      BY <1>4, <2>1, <2>2, <3>1 DEF DeviceAt, F, N
  <2>3. at \in DeviceAt(cards, playback, index)
          => \E d \in 1..Len(cards) : at = <<d, index - F(d) + 1>>
    BY <1>4 DEF DeviceAt, F
  <2> QED
    BY <2>2, <2>3
<1>5. ASSUME index = i PROVE DeviceAt(cards, playback, index) = {<<c, p>>}
  <2>1. index # 0 /\ index - F(c) + 1 = p /\ p \in 1..N(c)
    BY <1>2, <1>3, <1>5 DEF N
  <2>2. ASSUME NEW d \in 1..Len(cards), index - F(d) + 1 \in 1..N(d) PROVE d = c
    BY <2>1, <2>2, RangesApart DEF F, N
  <2>3. ASSUME NEW at PROVE at \in DeviceAt(cards, playback, index) <=> at = <<c, p>>
    BY <1>4, <2>1, <2>2
  <2> QED
    BY <2>3
<1>6. ASSUME DeviceAt(cards, playback, index) = {<<c, p>>} PROVE index = i
  <2>1. index # 0
    <3> SUFFICES ASSUME index = 0 PROVE FALSE
      OBVIOUS
    <3>1. DeviceAt(cards, playback, index) \subseteq {<<0, 0>>}
      BY DEF DeviceAt
    <3>2. <<c, p>> = <<0, 0>>
      BY <1>6, <3>1
    <3> QED
      BY <1>2, <3>2
  <2>2. PICK d \in 1..Len(cards) : <<c, p>> = <<d, index - F(d) + 1>>
    BY <1>4, <1>6, <2>1
  <2>3. d = c /\ p = index - F(c) + 1
    BY <2>2
  <2> QED
    BY <1>1, <1>2, <2>3
<1> QED
  BY <1>5, <1>6 DEF F

\* Where every card can be asked and a uint16_t can count the indices, exactly one
\* index of the list names the p-th device of card c.
LEMMA OneIndex ==
  ASSUME NEW cards \in CardLists, NEW c \in 1..Len(cards), NEW playback,
         \A d \in 1..Len(cards) : cards[d].hinted,
         DeviceCount(cards, playback) < UInt16Values,
         NEW p \in 1..Cardinality(Shown(cards[c], playback))
  PROVE  Cardinality({index \in 0..DeviceCount(cards, playback) - 1 :
                        NamedDevice(cards, playback, index) = {<<c, p>>}}) = 1
<1> DEFINE n == Len(cards)
           F(d) == FirstIndex(cards, playback, d)
           N(d) == Cardinality(Shown(cards[d], playback))
           count == DeviceCount(cards, playback)
           i == F(c) + p - 1
<1>1. n \in Nat /\ c \in Nat /\ c >= 1 /\ c <= n /\ n \in 1..n
  BY CardShape
<1>2. /\ F(c) \in Nat /\ F(c) >= c /\ N(c) \in Nat
      /\ F(n) \in Nat /\ F(n) >= n /\ N(n) \in Nat
  <2>1. ASSUME NEW d \in 1..n PROVE F(d) \in Nat /\ F(d) >= d /\ N(d) \in Nat
    BY FirstIndices, ShownFinite
  <2> HIDE DEF F, N, n
  <2> QED
    BY <1>1, <2>1 DEF n
<1>3. p \in Nat /\ p >= 1 /\ p <= N(c)
  BY <1>2
<1>4. c # n => F(n) >= F(c) + N(c) + 1
  <2>1. c # n => c \in 1..n - 1
    BY <1>1
  <2> QED
    BY <1>1, <2>1, FirstIndices
<1>5. \A index \in Nat : DeviceAt(cards, playback, index) = {<<c, p>>} <=> index = i
  BY DeviceHasIndex
<1> HIDE DEF F, N
<1>6. F(c) + N(c) <= F(n) + N(n) /\ F(n) + N(n) >= 2
  <2> HIDE DEF n
  <2>1. CASE c = n
    BY <1>1, <1>2, <1>3, <2>1
  <2>2. CASE c # n
    BY <1>1, <1>2, <1>3, <1>4, <2>2
  <2> QED
    BY <2>1, <2>2
<1>7. count = F(n) + N(n)
  BY <1>1, <1>2, <1>6, SMTT(30) DEF DeviceCount, F, N
<1>8. count < UInt16Values
  OBVIOUS
<1> HIDE DEF n, count
<1>9. i \in 0..count - 1 /\ count \in Nat /\ i \in Nat
  BY <1>1, <1>2, <1>3, <1>6, <1>7, SMTT(30)
<1>10. ASSUME NEW index \in 0..count - 1
       PROVE  NamedDevice(cards, playback, index) = {<<c, p>>} <=> index = i
  <2>1. index \in Nat /\ ~(index > (count % UInt16Values) - 1)
    <3>1. count % UInt16Values = count
      BY <1>8, <1>9, SMTT(30) DEF UInt16Values
    <3> QED
      BY <1>9, <3>1
  <2>2. NamedDevice(cards, playback, index) = DeviceAt(cards, playback, index)
    BY <2>1 DEF NamedDevice, count
  <2> QED
    BY <1>5, <2>1, <2>2
<1>11. {index \in 0..count - 1 : NamedDevice(cards, playback, index) = {<<c, p>>}} = {i}
  BY <1>9, <1>10
<1> QED
  BY <1>11, OneMember DEF count

LEMMA MachineCards == \A m \in Machines : m.cards \in CardLists
  BY AudioPlayoutAssumption DEF CardLists

\* Every device that ALSA lists on a card has its index in the range that
\* SetPlayoutDevice and SetRecordingDevice accept, and only one, on every machine
\* whose cards can be asked: cards without devices, and ones ALSA hints at twice,
\* included.
THEOREM DevicesChoosable == Spec => []EveryDeviceChoosable
<1>1. PlayoutInv => EveryDeviceChoosable
  <2> SUFFICES ASSUME PlayoutInv PROVE EveryDeviceChoosable
    OBVIOUS
  <2>1. machine \in Machines
    BY PlayoutInvParts DEF PlayoutOthers
  <2>2. machine.cards \in CardLists
    BY <2>1, MachineCards
  <2> QED
    BY <2>2, OneIndex DEF EveryDeviceChoosable
<1> QED
  BY PlayoutInvariant, <1>1, PTL
=============================================================================
