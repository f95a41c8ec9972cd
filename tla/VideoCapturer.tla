--------------------------- MODULE VideoCapturer ---------------------------
(***************************************************************************)
(* VideoCapturer (media/video/video_capturer.cc) over the cameras of       *)
(* V4L2VideoSource.  Every operation posts a task to the capturer's runner;*)
(* a camera's runner posts the frames it reads there, and the capturer's   *)
(* runner posts back to the cameras' when the source is exchanged.         *)
(*                                                                         *)
(* Any thread may call the operations: the conductor sets the source, the  *)
(* encoders attach themselves.  A processor is external and hands a frame  *)
(* back before its OnFrame returns, as the one of                          *)
(* media/test/video_capturer_unittest.cc does, or keeps it.  It knows the  *)
(* capturer as the VideoSinkInterface it was given by AddOrUpdateSink; one *)
(* in Wired was told of it as a VideoProcessorSink besides.                *)
(***************************************************************************)
EXTENDS V4L2VideoSource

CONSTANTS
  Encoders,       \* the sinks of the capturer
  Processors,
  Wired,
  None,           \* nullptr
  capturer,       \* the capturer, as a sink of cameras
  MaxFrames,      \* bound: frames of one camera on the capturer's runner
  MaxCalls        \* bound: other tasks on it, and tasks on a camera's runner
                  \* when the source is exchanged

ASSUME CapturerAssumption ==
  /\ Sinks = {capturer}
  /\ Wired \subseteq Processors
  /\ None \notin Sources \cup Processors
  /\ MaxFrames \in Nat /\ MaxCalls \in Nat

VARIABLES
  runner,         \* task_runner_: the queue of posted tasks
  video_source,   \* video_source_
  processor,      \* video_processor_
  sinks,          \* sinks_broadcaster_
  called          \* the source, the processor and the sinks as of the calls made

vars == <<cameraVars, runner, video_source, processor, sinks, called>>

\* A frame of a camera; processed when a processor has handed it back.
FrameTask ==
  [what : {"OnFrame", "OnProcessedFrame"}, from : Sources, processed : BOOLEAN]
EncoderTask == [what : {"AddOrUpdateSink", "RemoveSink"}, sink : Encoders]
SourceTask == [what : {"SetVideoSource"}, source : Sources \cup {None}]
ProcessorTask == [what : {"SetProcessor"}, processor : Processors \cup {None}]

IsFrame(task) == task.what \in {"OnFrame", "OnProcessedFrame"}

FramesOf(s) == Len(SelectSeq(runner, LAMBDA t : IsFrame(t) /\ t.from = s))
Calls == Len(SelectSeq(runner, LAMBDA t : ~IsFrame(t)))

Init ==
  /\ CameraInit
  /\ runner = <<>>
  /\ video_source = None
  /\ processor = None
  /\ sinks = {}
  /\ called = [source |-> None, processor |-> None, sinks |-> {}]

-----------------------------------------------------------------------------
(* Operations.                                                              *)

Post(task) == runner' = Append(runner, task)

Call(task) ==
  /\ Calls < MaxCalls
  /\ Post(task)
  /\ UNCHANGED <<cameraVars, video_source, processor, sinks>>

AddOrUpdateSink(k) ==
  /\ Call([what |-> "AddOrUpdateSink", sink |-> k])
  /\ called' = [called EXCEPT !.sinks = @ \cup {k}]

\* Only a sink that was added may be removed (video_source_base.h:35).
RemoveSink(k) ==
  /\ k \in called.sinks
  /\ Call([what |-> "RemoveSink", sink |-> k])
  /\ called' = [called EXCEPT !.sinks = @ \ {k}]

SetVideoSource(s) ==
  /\ \A c \in Sources : Len(camera_runner[c]) <= MaxCalls
  /\ Call([what |-> "SetVideoSource", source |-> s])
  /\ called' = [called EXCEPT !.source = s]

SetProcessor(p) ==
  /\ Call([what |-> "SetProcessor", processor |-> p])
  /\ called' = [called EXCEPT !.processor = p]

\* A camera's task reads: OnFrame of its only possible sink posts the frame.
CameraReads(s) ==
  /\ FramesOf(s) < MaxFrames
  /\ \E read \in Read(camera[s], machine[s].faults) :
       /\ Capture(s, read)
       /\ runner' = IF read.frame /\ capturer \in camera_sinks[s]
            THEN Append(runner, [what |-> "OnFrame", from |-> s, processed |-> FALSE])
            ELSE runner
  /\ UNCHANGED <<video_source, processor, sinks, called>>

CameraRuns(s) == RunSinkTask(s) /\ UNCHANGED <<runner, video_source, processor, sinks, called>>

CameraFills(s) == Fill(s) /\ UNCHANGED <<runner, video_source, processor, sinks, called>>

-----------------------------------------------------------------------------
(* Tasks of the capturer's runner.                                          *)

Task == Head(runner)

Takes(what) == runner # <<>> /\ Task.what = what

RunAddOrUpdateSink ==
  /\ Takes("AddOrUpdateSink")
  /\ sinks' = sinks \cup {Task.sink}
  /\ runner' = Tail(runner)
  /\ UNCHANGED <<cameraVars, video_source, processor, called>>

RunRemoveSink ==
  /\ Takes("RemoveSink")
  /\ sinks' = sinks \ {Task.sink}
  /\ runner' = Tail(runner)
  /\ UNCHANGED <<cameraVars, video_source, processor, called>>

\* Mutant: the old source is not asked to let go of the capturer.
OnlyTakes(old, new) ==
  IF new = None THEN camera_runner ELSE Posted(camera_runner, new, "AddOrUpdateSink", capturer)

\* Mutant: the new source is taken before the old one, maybe the same, is left.
TakesThenLeaves(old, new) ==
  LET taken == OnlyTakes(old, new)
  IN  IF old = None THEN taken ELSE Posted(taken, old, "RemoveSink", capturer)

\* The source is let go of and the new one taken, both by their own runners.
Exchanged(old, new) ==
  LET left == IF old = None THEN camera_runner
              ELSE Posted(camera_runner, old, "RemoveSink", capturer)
  IN  IF new = None THEN left ELSE Posted(left, new, "AddOrUpdateSink", capturer)

\* Mutant: a source that is taken away stays in video_source_.
RunKeepsSource ==
  /\ Takes("SetVideoSource")
  /\ camera_runner' = Exchanged(video_source, Task.source)
  /\ video_source' = IF Task.source = None THEN video_source ELSE Task.source
  /\ runner' = Tail(runner)
  /\ UNCHANGED <<machine, camera, camera_sinks, processor, sinks, called>>

RunSetVideoSource ==
  /\ Takes("SetVideoSource")
  /\ camera_runner' = Exchanged(video_source, Task.source)
  /\ video_source' = Task.source
  /\ runner' = Tail(runner)
  /\ UNCHANGED <<machine, camera, camera_sinks, processor, sinks, called>>

\* The processor that is replaced loses its sink, the new one gets the capturer.
RunSetProcessor ==
  /\ Takes("SetProcessor")
  /\ processor' = Task.processor
  /\ runner' = Tail(runner)
  /\ UNCHANGED <<cameraVars, video_source, sinks, called>>

\* The processor hands the frame back to the sink it knows, or keeps it.
HandsBack(what) ==
  LET frame == [what |-> what, from |-> Task.from, processed |-> TRUE]
  IN  runner' \in {Tail(runner), Append(Tail(runner), frame)}

\* A frame without a processor, or that comes from it, is given to every sink.
RunOnFrame ==
  /\ Takes("OnFrame")
  /\ \/ processor = None /\ runner' = Tail(runner)
     \/ processor \in Wired /\ HandsBack("OnProcessedFrame")
     \/ processor \in Processors \ Wired /\ HandsBack("OnFrame")
  /\ UNCHANGED <<cameraVars, video_source, processor, sinks, called>>

RunOnProcessedFrame ==
  /\ Takes("OnProcessedFrame")
  /\ runner' = Tail(runner)
  /\ UNCHANGED <<cameraVars, video_source, processor, sinks, called>>

RunnerTakes ==
  \/ RunAddOrUpdateSink
  \/ RunRemoveSink
  \/ RunSetVideoSource
  \/ RunSetProcessor
  \/ RunOnFrame
  \/ RunOnProcessedFrame

Next ==
  \/ \E k \in Encoders : AddOrUpdateSink(k) \/ RemoveSink(k)
  \/ \E s \in Sources \cup {None} : SetVideoSource(s)
  \/ \E p \in Processors \cup {None} : SetProcessor(p)
  \/ \E s \in Sources : CameraReads(s) \/ CameraRuns(s) \/ CameraFills(s)
  \/ RunnerTakes

\* The runners' threads take every task, each camera's repeating task comes
\* back, and a driver with buffers fills them.
Fairness ==
  /\ WF_vars(RunnerTakes)
  /\ \A s \in Sources :
       WF_vars(CameraReads(s)) /\ WF_vars(CameraRuns(s)) /\ WF_vars(CameraFills(s))

Spec == Init /\ [][Next]_vars /\ Fairness

-----------------------------------------------------------------------------
(* Properties.                                                              *)

TypeOK ==
  /\ CameraTypeOK
  /\ runner \in Seq(FrameTask \cup EncoderTask \cup SourceTask \cup ProcessorTask)
  /\ video_source \in Sources \cup {None}
  /\ processor \in Processors \cup {None}
  /\ sinks \subseteq Encoders
  /\ called \in [source : Sources \cup {None}, processor : Processors \cup {None},
                 sinks : SUBSET Encoders]

\* Whatever is still on the cameras' runners, once it is executed the capturer
\* is a sink of its source and of no other camera (video_capturer.cc:92-103).
SourceFollows ==
  \A s \in Sources :
    (IF camera_runner[s] = <<>> THEN capturer \in camera_sinks[s]
     ELSE Last(camera_runner[s]).what = "AddOrUpdateSink")
      <=> video_source = s

\* A camera is only asked to remove a sink it has: the check at
\* video_source_base.h:35, on the camera's runner, after every exchange of
\* sources on the capturer's.
CameraKnowsSink ==
  \A s \in Sources :
    camera_runner[s] # <<>> /\ Head(camera_runner[s]).what = "RemoveSink"
      => Head(camera_runner[s]).sink \in camera_sinks[s]

\* Encoder k is given a frame of s.
Delivers(k, s) ==
  /\ RunOnFrame \/ RunOnProcessedFrame
  /\ Takes("OnFrame") => processor = None
  /\ Task.from = s
  /\ k \in sinks

Exchanging == \E i \in DOMAIN runner : runner[i].what = "SetVideoSource"

\* A camera that streams pictures the program converts, on a machine without
\* faults, keeps feeding the encoders that stay attached while it stays the
\* source: however often sinks, source and processor were changed before, and
\* wherever the changes met the frames in flight.
FramesKeepComing ==
  \A k \in Encoders, s \in Sources :
    machine[s].faults = {} /\ Convertible(camera[s].format)
      => (<>[](called.source = s /\ called.processor = None /\ k \in called.sinks
                /\ ~Exchanging)
            => []<><<Delivers(k, s)>>_vars)

\* A source that is left for good falls silent: the frames it had in flight and
\* those it reads before it executes the RemoveSink are the last ones.
LeftSourceFallsSilent ==
  \A s \in Sources :
    <>[](called.source # s) => <>[](\A i \in DOMAIN runner :
      IsFrame(runner[i]) /\ runner[i].from = s => runner[i].processed)
=============================================================================
