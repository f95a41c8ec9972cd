-------------------------- MODULE V4L2VideoSource --------------------------
(***************************************************************************)
(* Cameras (media/video/v4l2_video_source.cc), each with a task runner of  *)
(* its own that executes the posted AddOrUpdateSink and RemoveSink in order*)
(* and, between them, a repeating task that reads one frame and hands it to*)
(* every sink (media/video/video_source_base.h).                           *)
(*                                                                         *)
(* A camera's NumBuffers buffers go round: queued with the driver, filled, *)
(* dequeued and queued again within one read.  The driver is external: its *)
(* ioctls fail when the machine has the fault.  stop(), pause() and a      *)
(* second start() have no caller.                                          *)
(***************************************************************************)
EXTENDS Naturals, Sequences, SequencesExt

CONSTANTS
  Sources,        \* the cameras
  Sinks,          \* who may be a sink of a camera
  Machines,       \* what the devices may be: a machine for each camera
  NumBuffers      \* kNumVideoBuffers

\* kSupportedFormatsAndPlanarity, by precedence; a device may have others.
SupportedFormats == <<"YU12", "NV12", "YUYV", "RGB3", "Y16">>
PreferredFormat == "YU12"       \* the constructor's kI420
NoFormat == "none"
Formats == Range(SupportedFormats) \cup {"MJPG"}

Faults == {"open", "capability", "S_FMT", "S_PARM", "REQBUFS", "QUERYBUF", "mmap",
           "QBUF", "STREAMON", "poll", "DQBUF"}

ASSUME CameraAssumption ==
  /\ Machines \subseteq [Sources -> [formats : SUBSET Formats, faults : SUBSET Faults]]
  /\ NumBuffers \in Nat \ {0}

VARIABLES
  machine,        \* the member of Machines this behaviour is on
  camera,         \* each camera, see Camera
  camera_runner,  \* each camera's posted tasks
  camera_sinks    \* sinks_ of each camera

cameraVars == <<machine, camera, camera_runner, camera_sinks>>

Camera ==
  [capturing : BOOLEAN,                       \* the repeating task was made
   streaming : BOOLEAN,                       \* STREAMON succeeded
   format : Formats \cup {NoFormat},          \* mVideoFmt
   mapped : 0..NumBuffers,                    \* mBuffers
   queued : 0..NumBuffers,                    \* buffers the driver may fill
   filled : 0..NumBuffers]                    \* buffers with a picture

SinkTask == [what : {"AddOrUpdateSink", "RemoveSink"}, sink : Sinks]

-----------------------------------------------------------------------------
(* The constructor.                                                         *)

\* getListOfUsableFourCcs: the table with the preferred format moved to the front.
UsableFourCcs(preferred) ==
  LET at == {i \in DOMAIN SupportedFormats : SupportedFormats[i] = preferred}
  IN  [i \in DOMAIN SupportedFormats |->
        IF \E p \in at : i <= p
        THEN IF i = 1 THEN preferred ELSE SupportedFormats[i - 1]
        ELSE SupportedFormats[i]]

\* Mutant: the last one of the list is taken.
LastFourCc(supported, preferred) ==
  LET desired == UsableFourCcs(preferred)
      found == {i \in DOMAIN desired : desired[i] \in supported}
  IN  IF found = {} THEN NoFormat
      ELSE desired[CHOOSE i \in found : \A j \in found : j <= i]

\* preferFormatFourCc: the first of the list that the device has.
PreferFormatFourCc(supported, preferred) ==
  LET desired == UsableFourCcs(preferred)
      found == {i \in DOMAIN desired : desired[i] \in supported}
  IN  IF found = {} THEN NoFormat
      ELSE desired[CHOOSE i \in found : \A j \in found : i <= j]

Closed == [capturing |-> FALSE, streaming |-> FALSE, format |-> NoFormat,
           mapped |-> 0, queued |-> 0, filled |-> 0]

\* startStream, from REQBUFS to STREAMON: the buffers are mapped and queued one
\* after the other, and the first failure leaves the camera as it is by then.
StartStream(c, faults) ==
  LET With(m, q, on) == [c EXCEPT !.mapped = m, !.queued = q, !.streaming = on]
      Upto(fault, ends) == IF fault \in faults THEN ends ELSE {}
  IN  {With(NumBuffers, NumBuffers, TRUE)}
      \cup Upto("REQBUFS", {c})
      \cup Upto("QUERYBUF", {With(i, i, FALSE) : i \in 0..NumBuffers - 1})
      \cup Upto("mmap", {With(i, i, FALSE) : i \in 0..NumBuffers - 1})
      \cup Upto("QBUF", {With(i + 1, i, FALSE) : i \in 0..NumBuffers - 1})
      \cup Upto("STREAMON", {With(NumBuffers, NumBuffers, FALSE)})

\* start: the first format of the list the device has, then the frame rate.
Start(c, m) ==
  LET format == PreferFormatFourCc(m.formats, PreferredFormat)
      chosen == [c EXCEPT !.format = format]
  IN  IF format = NoFormat THEN {c}
      ELSE StartStream(chosen, m.faults)
           \cup (IF m.faults \cap {"S_FMT", "S_PARM"} # {} THEN {chosen} ELSE {})

\* V4L2VideoSource: what start answers is not looked at, the repeating task is
\* made unless the device could not be opened or is no camera.
Constructed(m) ==
  {[c EXCEPT !.capturing = TRUE] : c \in Start(Closed, m)}
  \cup (IF m.faults \cap {"open", "capability"} # {} THEN {Closed} ELSE {})

CameraInit ==
  /\ machine \in Machines
  /\ camera \in [Sources -> UNION {Constructed(machine[s]) : s \in Sources}]
  /\ \A s \in Sources : camera[s] \in Constructed(machine[s])
  /\ camera_runner = [s \in Sources |-> <<>>]
  /\ camera_sinks = [s \in Sources |-> {}]

-----------------------------------------------------------------------------
(* Tasks.  The operation that posts one may be called from another runner:  *)
(* Posted is the new value of camera_runner.                                *)

Posted(runners, s, task, k) ==
  [runners EXCEPT ![s] = Append(@, [what |-> task, sink |-> k])]

\* The task of AddOrUpdateSink or of RemoveSink.
RunSinkTask(s) ==
  /\ camera_runner[s] # <<>>
  /\ LET task == Head(camera_runner[s])
     IN  camera_sinks' = [camera_sinks EXCEPT ![s] =
           IF task.what = "AddOrUpdateSink" THEN @ \cup {task.sink} ELSE @ \ {task.sink}]
  /\ camera_runner' = [camera_runner EXCEPT ![s] = Tail(@)]
  /\ UNCHANGED <<machine, camera>>

\* CreateVideoFrame: the formats that become a frame.
Convertible(format) == format \in {"YU12", "NV12", "YUYV"}

\* Mutant: read returns before QBUF when there is no frame.
KeepsUnconverted(c, faults) ==
  LET dequeued == [c EXCEPT !.filled = @ - 1]
  IN  IF Convertible(c.format) THEN {[dequeued EXCEPT !.queued = @ + 1]} ELSE {dequeued}

\* The end of read: QBUF, whose failure leaves the buffer with nobody.
Requeued(c, faults) ==
  LET dequeued == [c EXCEPT !.filled = @ - 1]
  IN  {[dequeued EXCEPT !.queued = @ + 1]}
      \cup (IF "QBUF" \in faults THEN {dequeued} ELSE {})

\* read: poll times out or fails, the device answers it with an error when it
\* does not stream, DQBUF fails; or a filled buffer is dequeued.
Read(c, faults) ==
  (IF c.filled = 0 \/ faults \cap {"poll", "DQBUF"} # {}
     THEN {[camera |-> c, frame |-> FALSE]} ELSE {})
  \cup (IF c.filled > 0
          THEN {[camera |-> d, frame |-> Convertible(c.format)] : d \in Requeued(c, faults)}
          ELSE {})

\* The repeating task, up to the frame, if any, that its sinks are given.
Capture(s, read) ==
  /\ camera[s].capturing
  /\ read \in Read(camera[s], machine[s].faults)
  /\ camera' = [camera EXCEPT ![s] = read.camera]
  /\ UNCHANGED <<machine, camera_runner, camera_sinks>>

\* The driver fills a buffer.
Fill(s) ==
  /\ camera[s].streaming
  /\ camera[s].queued > 0
  /\ camera' = [camera EXCEPT ![s].queued = @ - 1, ![s].filled = @ + 1]
  /\ UNCHANGED <<machine, camera_runner, camera_sinks>>

-----------------------------------------------------------------------------
(* Properties.                                                              *)

CameraTypeOK ==
  /\ machine \in Machines
  /\ camera \in [Sources -> Camera]
  /\ camera_runner \in [Sources -> Seq(SinkTask)]
  /\ camera_sinks \in [Sources -> SUBSET Sinks]

\* A buffer is lost only by a failing QBUF: on a machine where QBUF works, all
\* the buffers of a streaming camera are queued or filled between two reads,
\* whatever else fails and whether or not the pictures can be converted
\* (v4l2_video_source.cc:437-485).
BuffersConserved ==
  \A s \in Sources :
    camera[s].streaming /\ "QBUF" \notin machine[s].faults
      => camera[s].queued + camera[s].filled = NumBuffers

\* The table of formats has two that CreateVideoFrame has no case for: such a
\* camera streams and never delivers.  A device that has any format the program
\* can convert is never started in one of those (v4l2_video_source.cc:75-110).
ConvertibleIfPossible ==
  \A s \in Sources :
    camera[s].streaming /\ (\E f \in machine[s].formats : Convertible(f))
      => Convertible(camera[s].format)
=============================================================================
