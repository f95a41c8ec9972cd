------------------------ MODULE VideoCapturerProofs ------------------------
(***************************************************************************)
(* Proofs about VideoCapturer and its cameras, for any sets of cameras,    *)
(* encoders, processors and machines and any number of buffers.            *)
(*                                                                         *)
(* What a camera's runner still has to do alternates: RemoveSink and       *)
(* AddOrUpdateSink take turns, beginning with what the capturer's presence *)
(* among the camera's sinks asks for.  That, with the last one agreeing    *)
(* with video_source_, is preserved by an exchange of sources at one end of*)
(* the runner and by the execution of a task at the other.                 *)
(***************************************************************************)
EXTENDS VideoCapturer, TLAPS

\* The capturer is a sink once the tasks q are executed; in: it is one now.
Hangs(q, in) == IF q = <<>> THEN in ELSE Last(q).what = "AddOrUpdateSink"

Alternates(q, in) ==
  \A i \in 1..Len(q) :
    q[i].what = "RemoveSink" <=>
      (IF i = 1 THEN in ELSE q[i - 1].what = "AddOrUpdateSink")

In(s) == capturer \in camera_sinks[s]

\* The runners R agree with the source src.
Agree(R, src) ==
  \A s \in Sources : Alternates(R[s], In(s)) /\ (Hangs(R[s], In(s)) <=> src = s)

Machine == [formats : SUBSET Formats, faults : SUBSET Faults]

\* What holds of one camera on machine m.
Sane(c, m) ==
  /\ c \in Camera
  /\ c.queued + c.filled <= NumBuffers
  /\ c.streaming /\ "QBUF" \notin m.faults => c.queued + c.filled = NumBuffers
  /\ c.streaming /\ (\E f \in m.formats : Convertible(f)) => Convertible(c.format)

CamerasSane == \A s \in Sources : Sane(camera[s], machine[s])

IInv ==
  /\ TypeOK
  /\ CamerasSane
  /\ Agree(camera_runner, video_source)

-----------------------------------------------------------------------------
(* Cameras.                                                                 *)

\* The list begins with I420, as the table does.
LEMMA UsableIs == UsableFourCcs(PreferredFormat) = SupportedFormats
  BY DEF UsableFourCcs, PreferredFormat, SupportedFormats

\* The format chosen is the device's, and one the program converts if it can.
LEMMA PreferredIs ==
  ASSUME NEW formats \in SUBSET Formats
  PROVE  LET f == PreferFormatFourCc(formats, PreferredFormat)
         IN  /\ f \in Formats \cup {NoFormat}
             /\ (\E g \in formats : Convertible(g)) => Convertible(f)
<1> DEFINE desired == UsableFourCcs(PreferredFormat)
           found == {i \in DOMAIN desired : desired[i] \in formats}
           first == CHOOSE i \in found : \A j \in found : i <= j
<1>1. PreferFormatFourCc(formats, PreferredFormat) =
        IF found = {} THEN NoFormat ELSE SupportedFormats[first]
  BY UsableIs DEF PreferFormatFourCc
<1>2. \A i : i \in found <=> i \in 1..5 /\ SupportedFormats[i] \in formats
  BY UsableIs DEF SupportedFormats
<1> HIDE DEF found
<1>3. ASSUME found # {}
      PROVE  first \in found /\ \A j \in found : first <= j
  <2>1. \E i \in found : \A j \in found : i <= j
    <3>1. PICK k \in found : TRUE
      BY <1>3
    <3>2. k \in 1..5
      BY <1>2
    <3> QED
      BY <1>2, <3>1, <3>2
  <2> QED
    BY <2>1
<1>4. ASSUME NEW g \in formats, Convertible(g)
      PROVE  \E i \in found : i <= 3
  <2>1. g = SupportedFormats[1] \/ g = SupportedFormats[2] \/ g = SupportedFormats[3]
    BY <1>4 DEF Convertible, SupportedFormats
  <2> QED
    BY <1>2, <2>1
<1>5. \A i \in 1..5 : i <= 3 => Convertible(SupportedFormats[i])
  BY DEF Convertible, SupportedFormats
<1> HIDE DEF first
<1>6. CASE found = {}
  BY <1>1, <1>4, <1>6
<1>7. CASE found # {}
  <2>1. first \in 1..5 /\ SupportedFormats[first] \in formats
    BY <1>2, <1>3, <1>7
  <2>2. ASSUME NEW g \in formats, Convertible(g)
        PROVE  Convertible(SupportedFormats[first])
    <3>1. PICK i \in found : i <= 3
      BY <1>4, <2>2
    <3>2. first <= i /\ i \in 1..5
      BY <1>2, <1>3, <1>7
    <3> QED
      BY <1>5, <2>1, <3>1, <3>2
  <2> QED
    BY <1>1, <1>7, <2>1, <2>2
<1> QED
  BY <1>6, <1>7

\* However far its construction gets, a camera is sane.
LEMMA ConstructedSane ==
  ASSUME NEW m \in Machine, NEW c, c \in Constructed(m)
  PROVE  Sane(c, m)
<1> DEFINE format == PreferFormatFourCc(m.formats, PreferredFormat)
<1>1. /\ m.formats \in SUBSET Formats
      /\ format \in Formats \cup {NoFormat}
      /\ (\E g \in m.formats : Convertible(g)) => Convertible(format)
  BY PreferredIs DEF Machine
<1> HIDE DEF format
<1> DEFINE Fresh(d) == /\ d \in Camera
                       /\ d.filled = 0
                       /\ d.streaming => d.queued = NumBuffers /\ d.format = format
<1>2. /\ Closed \in Camera
      /\ Closed.filled = 0
      /\ ~Closed.streaming
  BY CameraAssumption DEF Closed, Camera
<1>3. ASSUME NEW d \in Start(Closed, m)
      PROVE  Fresh(d)
  <2> DEFINE chosen == [Closed EXCEPT !.format = format]
  <2>1. d = Closed \/ d = chosen \/ d \in StartStream(chosen, m.faults)
    BY DEF Start, format
  <2>2. /\ chosen \in Camera
        /\ chosen.filled = 0
        /\ ~chosen.streaming
        /\ chosen.format = format
    BY <1>1, <1>2 DEF Camera
  <2> HIDE DEF chosen
  <2>3. CASE d \in StartStream(chosen, m.faults)
    <3> DEFINE With(b, q, on) == [chosen EXCEPT !.mapped = b, !.queued = q, !.streaming = on]
    <3>1. ASSUME NEW b \in 0..NumBuffers, NEW q \in 0..NumBuffers, NEW on \in BOOLEAN,
                 on => q = NumBuffers
          PROVE  Fresh(With(b, q, on))
      BY <2>2, <3>1 DEF Camera
    <3>2. \/ d = With(NumBuffers, NumBuffers, TRUE)
          \/ d = With(NumBuffers, NumBuffers, FALSE)
          \/ d = chosen
          \/ \E i \in 0..NumBuffers - 1 : d = With(i, i, FALSE) \/ d = With(i + 1, i, FALSE)
      BY <2>3 DEF StartStream
    <3>3. /\ NumBuffers \in 0..NumBuffers
          /\ \A i \in 0..NumBuffers - 1 : i \in 0..NumBuffers /\ i + 1 \in 0..NumBuffers
      BY CameraAssumption
    <3> HIDE DEF With, Fresh
    <3>4. CASE d = chosen
      BY <2>2, <3>4 DEF Fresh
    <3> QED
      BY <3>1, <3>2, <3>3, <3>4
  <2> QED
    BY <1>2, <2>1, <2>2, <2>3
<1>4. Fresh(c)
  <2>1. CASE c = Closed
    BY <1>2, <2>1
  <2>2. CASE \E d \in Start(Closed, m) : c = [d EXCEPT !.capturing = TRUE]
    <3>1. PICK d \in Start(Closed, m) : c = [d EXCEPT !.capturing = TRUE]
      BY <2>2
    <3>2. Fresh(d)
      BY <1>3
    <3> QED
      BY <3>1, <3>2 DEF Camera
  <2> QED
    BY <2>1, <2>2 DEF Constructed
<1> QED
  BY <1>1, <1>4, CameraAssumption DEF Sane, Camera

\* A read keeps a camera sane: what is dequeued is queued again, or QBUF failed.
LEMMA ReadSane ==
  ASSUME NEW m \in Machine, NEW c, Sane(c, m), NEW r, r \in Read(c, m.faults)
  PROVE  Sane(r.camera, m) /\ r.frame \in BOOLEAN
<1>1. CASE r = [camera |-> c, frame |-> FALSE]
  BY <1>1
<1>2. CASE c.filled > 0 /\ \E d \in Requeued(c, m.faults) :
             r = [camera |-> d, frame |-> Convertible(c.format)]
  <2>1. PICK d \in Requeued(c, m.faults) : r = [camera |-> d, frame |-> Convertible(c.format)]
    BY <1>2
  <2> DEFINE e == [c EXCEPT !.filled = @ - 1]
  <2>2. /\ e \in Camera /\ e.filled = c.filled - 1 /\ e.queued = c.queued
        /\ e.streaming <=> c.streaming
        /\ e.format = c.format
    BY <1>2, CameraAssumption DEF Sane, Camera
  <2>3. \/ d = [e EXCEPT !.queued = @ + 1]
        \/ d = e /\ "QBUF" \in m.faults
    BY DEF Requeued
  <2> HIDE DEF e
  <2>4. Sane(d, m)
    <3>1. c.queued \in Nat /\ c.filled \in Nat /\ c.queued + c.filled <= NumBuffers
      BY CameraAssumption DEF Sane, Camera
    <3>2. CASE d = [e EXCEPT !.queued = @ + 1]
      <4>1. /\ d \in Camera /\ d.filled = c.filled - 1 /\ d.queued = c.queued + 1
            /\ d.streaming <=> c.streaming
            /\ d.format = c.format
        BY <1>2, <2>2, <3>1, <3>2, CameraAssumption DEF Camera
      <4> QED
        BY <3>1, <4>1, CameraAssumption DEF Sane
    <3>3. CASE d = e /\ "QBUF" \in m.faults
      BY <2>2, <3>1, <3>3, CameraAssumption DEF Sane
    <3> QED
      BY <2>3, <3>2, <3>3
  <2> QED
    BY <2>1, <2>4 DEF Convertible
<1> QED
  BY <1>1, <1>2 DEF Read

-----------------------------------------------------------------------------
(* A camera's runner.                                                       *)

LEMMA AppendTask ==
  ASSUME NEW q \in Seq(SinkTask), NEW in \in BOOLEAN, Alternates(q, in),
         NEW what \in {"AddOrUpdateSink", "RemoveSink"},
         what = "RemoveSink" <=> Hangs(q, in)
  PROVE  LET r == Append(q, [what |-> what, sink |-> capturer])
         IN  /\ r \in Seq(SinkTask)
             /\ Alternates(r, in)
             /\ Hangs(r, in) <=> what = "AddOrUpdateSink"
<1> DEFINE t == [what |-> what, sink |-> capturer]
           r == Append(q, t)
<1>1. t \in SinkTask /\ t.what = what
  BY CapturerAssumption DEF SinkTask
<1> HIDE DEF t
<1>2. /\ r \in Seq(SinkTask)
      /\ Len(r) = Len(q) + 1
      /\ \A i \in 1..Len(q) : r[i] = q[i]
      /\ r[Len(r)] = t
      /\ r # <<>>
  BY <1>1
<1> HIDE DEF r
<1>3. Hangs(r, in) <=> what = "AddOrUpdateSink"
  BY <1>1, <1>2 DEF Hangs, Last
<1>4. ASSUME NEW i \in 1..Len(r)
      PROVE  r[i].what = "RemoveSink" <=>
               (IF i = 1 THEN in ELSE r[i - 1].what = "AddOrUpdateSink")
  <2>1. Len(q) \in Nat
    OBVIOUS
  <2>2. CASE i <= Len(q)
    <3>1. i \in 1..Len(q) /\ (i # 1 => i - 1 \in 1..Len(q))
      BY <2>1, <2>2, <1>2
    <3> QED
      BY <1>2, <3>1, SMTT(30) DEF Alternates
  <2>3. CASE i = Len(q) + 1
    <3>1. CASE q = <<>>
      BY <1>1, <1>2, <2>3, <3>1 DEF Hangs
    <3>2. CASE q # <<>>
      <4>1. i # 1 /\ i - 1 = Len(q) /\ r[i - 1] = q[Len(q)]
        BY <1>2, <2>1, <2>3, <3>2
      <4> QED
        BY <1>1, <1>2, <2>3, <3>2, <4>1 DEF Hangs, Last
    <3> QED
      BY <3>1, <3>2
  <2> QED
    BY <1>2, <2>1, <2>2, <2>3
<1> QED
  BY <1>2, <1>3, <1>4 DEF Alternates, r, t

LEMMA TailTask ==
  ASSUME NEW q \in Seq(SinkTask), q # <<>>, NEW in \in BOOLEAN, Alternates(q, in),
         NEW now \in BOOLEAN, now <=> Head(q).what = "AddOrUpdateSink"
  PROVE  /\ Tail(q) \in Seq(SinkTask)
         /\ Alternates(Tail(q), now)
         /\ Hangs(Tail(q), now) <=> Hangs(q, in)
<1> DEFINE r == Tail(q)
<1>1. /\ r \in Seq(SinkTask)
      /\ Len(q) \in Nat /\ Len(q) > 0
      /\ Len(r) = Len(q) - 1
      /\ \A i \in 1..Len(r) : r[i] = q[i + 1]
      /\ Head(q) = q[1]
  OBVIOUS
<1> HIDE DEF r
<1>2. Alternates(r, now)
  <2> SUFFICES ASSUME NEW i \in 1..Len(r)
               PROVE  r[i].what = "RemoveSink" <=>
                        (IF i = 1 THEN now ELSE r[i - 1].what = "AddOrUpdateSink")
    BY DEF Alternates
  <2>1. i + 1 \in 1..Len(q) /\ i + 1 # 1 /\ (i + 1) - 1 = i /\ r[i] = q[i + 1]
    BY <1>1
  <2>2. r[i].what = "RemoveSink" <=> q[i].what = "AddOrUpdateSink"
    BY <2>1 DEF Alternates
  <2>3. i # 1 => i - 1 \in 1..Len(r) /\ r[i - 1] = q[i]
    BY <1>1
  <2> QED
    BY <1>1, <2>2, <2>3
<1>3. Hangs(r, now) <=> Hangs(q, in)
  <2>1. CASE r = <<>>
    <3>1. Len(q) = 1
      BY <1>1, <2>1
    <3> QED
      BY <1>1, <2>1, <3>1 DEF Hangs, Last
  <2>2. CASE r # <<>>
    <3>1. Len(r) \in 1..Len(r) /\ r[Len(r)] = q[Len(q)]
      BY <1>1, <2>2
    <3> QED
      BY <1>1, <2>2, <3>1 DEF Hangs, Last
  <2> QED
    BY <2>1, <2>2
<1> QED
  BY <1>1, <1>2, <1>3 DEF r

\* An exchange leaves the old source and takes the new one, the same or another.
LEMMA ExchangedAgrees ==
  ASSUME camera_runner \in [Sources -> Seq(SinkTask)],
         NEW old \in Sources \cup {None}, NEW new \in Sources \cup {None},
         Agree(camera_runner, old)
  PROVE  /\ Exchanged(old, new) \in [Sources -> Seq(SinkTask)]
         /\ Agree(Exchanged(old, new), new)
<1> DEFINE left == IF old = None THEN camera_runner
                   ELSE Posted(camera_runner, old, "RemoveSink", capturer)
<1>1. \A s \in Sources : In(s) \in BOOLEAN /\ s # None
  BY CapturerAssumption DEF In
<1>2. left \in [Sources -> Seq(SinkTask)] /\ Agree(left, None)
  <2>1. CASE old = None
    BY <2>1
  <2>2. CASE old # None
    <3> DEFINE q == Append(camera_runner[old], [what |-> "RemoveSink", sink |-> capturer])
    <3>1. /\ q \in Seq(SinkTask)
          /\ Alternates(q, In(old))
          /\ ~Hangs(q, In(old))
      BY <1>1, <2>2, AppendTask DEF Agree
    <3>2. left = [camera_runner EXCEPT ![old] = q]
      BY <2>2 DEF Posted
    <3> HIDE DEF q, left
    <3> QED
      BY <1>1, <2>2, <3>1, <3>2 DEF Agree
  <2> QED
    BY <2>1, <2>2
<1>3. Exchanged(old, new) =
        IF new = None THEN left ELSE Posted(left, new, "AddOrUpdateSink", capturer)
  BY DEF Exchanged
<1> HIDE DEF left
<1>4. CASE new = None
  BY <1>2, <1>3, <1>4
<1>5. CASE new # None
  <2> DEFINE q == Append(left[new], [what |-> "AddOrUpdateSink", sink |-> capturer])
  <2>1. /\ q \in Seq(SinkTask)
        /\ Alternates(q, In(new))
        /\ Hangs(q, In(new))
    BY <1>1, <1>2, <1>5, AppendTask DEF Agree
  <2>2. Exchanged(old, new) = [left EXCEPT ![new] = q]
    BY <1>3, <1>5 DEF Posted
  <2> HIDE DEF q
  <2> QED
    BY <1>1, <1>2, <1>5, <2>1, <2>2 DEF Agree
<1> QED
  BY <1>4, <1>5

-----------------------------------------------------------------------------
(* The steps.                                                               *)

AnyTask == FrameTask \cup EncoderTask \cup SourceTask \cup ProcessorTask

\* A step that leaves the cameras and the source as they are.
LEMMA CamerasUntouched ==
  ASSUME IInv, UNCHANGED <<cameraVars, video_source>>
  PROVE  CameraTypeOK' /\ CamerasSane' /\ Agree(camera_runner, video_source)'
<1>1. /\ camera' = camera /\ machine' = machine /\ camera_runner' = camera_runner
      /\ camera_sinks' = camera_sinks /\ video_source' = video_source
  BY DEF cameraVars
<1> QED
  BY <1>1 DEF IInv, TypeOK, CameraTypeOK, CamerasSane, Agree, In

\* The operations append a task and note the call.
LEMMA CallsKeep ==
  ASSUME IInv,
         \/ \E k \in Encoders : AddOrUpdateSink(k) \/ RemoveSink(k)
         \/ \E s \in Sources \cup {None} : SetVideoSource(s)
         \/ \E p \in Processors \cup {None} : SetProcessor(p)
  PROVE  IInv'
<1>1. PICK task \in AnyTask : Call(task)
  <2>1. CASE \E k \in Encoders : AddOrUpdateSink(k) \/ RemoveSink(k)
    BY <2>1 DEF AddOrUpdateSink, RemoveSink, AnyTask, EncoderTask
  <2>2. CASE \E s \in Sources \cup {None} : SetVideoSource(s)
    BY <2>2 DEF SetVideoSource, AnyTask, SourceTask
  <2>3. CASE \E p \in Processors \cup {None} : SetProcessor(p)
    BY <2>3 DEF SetProcessor, AnyTask, ProcessorTask
  <2> QED
    BY <2>1, <2>2, <2>3
<1>2. /\ runner' \in Seq(AnyTask)
      /\ UNCHANGED <<cameraVars, video_source, processor, sinks>>
  BY <1>1 DEF Call, Post, IInv, TypeOK, AnyTask
<1>3. called' \in [source : Sources \cup {None}, processor : Processors \cup {None},
                  sinks : SUBSET Encoders]
  <2>1. CASE \E k \in Encoders : AddOrUpdateSink(k) \/ RemoveSink(k)
    BY <2>1 DEF AddOrUpdateSink, RemoveSink, IInv, TypeOK
  <2>2. CASE \E s \in Sources \cup {None} : SetVideoSource(s)
    BY <2>2 DEF SetVideoSource, IInv, TypeOK
  <2>3. CASE \E p \in Processors \cup {None} : SetProcessor(p)
    BY <2>3 DEF SetProcessor, IInv, TypeOK
  <2> QED
    BY <2>1, <2>2, <2>3
<1>4. CameraTypeOK' /\ CamerasSane' /\ Agree(camera_runner, video_source)'
  BY <1>2, CamerasUntouched
<1> QED
  BY <1>2, <1>3, <1>4 DEF IInv, TypeOK, AnyTask

\* A camera that changes to a sane one leaves the runners' agreement alone.
LEMMA CameraChanges ==
  ASSUME IInv, NEW s \in Sources, NEW c, Sane(c, machine[s]),
         camera' = [camera EXCEPT ![s] = c],
         UNCHANGED <<machine, camera_runner, camera_sinks, video_source>>
  PROVE  CameraTypeOK' /\ CamerasSane' /\ Agree(camera_runner, video_source)'
<1>1. c \in Camera
  BY DEF Sane
<1>2. camera' \in [Sources -> Camera] /\ \A t \in Sources \ {s} : camera'[t] = camera[t]
  BY <1>1 DEF IInv, TypeOK, CameraTypeOK
<1>3. CamerasSane'
  BY <1>2 DEF IInv, TypeOK, CameraTypeOK, CamerasSane
<1> QED
  BY <1>2, <1>3 DEF IInv, TypeOK, CameraTypeOK, Agree, In

LEMMA MachineIs ==
  ASSUME IInv, NEW s \in Sources
  PROVE  machine[s] \in Machine /\ Sane(camera[s], machine[s])
  BY CameraAssumption DEF IInv, TypeOK, CameraTypeOK, CamerasSane, Machine

LEMMA ReadKeeps ==
  ASSUME IInv, NEW s \in Sources, CameraReads(s)
  PROVE  IInv'
<1>1. PICK read \in Read(camera[s], machine[s].faults) :
        /\ Capture(s, read)
        /\ runner' = IF read.frame /\ capturer \in camera_sinks[s]
             THEN Append(runner, [what |-> "OnFrame", from |-> s, processed |-> FALSE])
             ELSE runner
  BY DEF CameraReads
<1>2. Sane(read.camera, machine[s])
  BY MachineIs, ReadSane
<1>3. /\ UNCHANGED <<machine, camera_runner, camera_sinks, video_source, processor, sinks, called>>
      /\ camera' = [camera EXCEPT ![s] = read.camera]
  BY <1>1 DEF CameraReads, Capture
<1>4. CameraTypeOK' /\ CamerasSane' /\ Agree(camera_runner, video_source)'
  BY <1>2, <1>3, CameraChanges
<1>5. runner' \in Seq(AnyTask)
  <2>1. [what |-> "OnFrame", from |-> s, processed |-> FALSE] \in AnyTask
    BY DEF AnyTask, FrameTask
  <2>2. runner \in Seq(AnyTask)
    BY DEF IInv, TypeOK, AnyTask
  <2> HIDE DEF AnyTask
  <2> QED
    BY <1>1, <2>1, <2>2
<1> QED
  BY <1>3, <1>4, <1>5 DEF IInv, TypeOK, AnyTask

LEMMA FillKeeps ==
  ASSUME IInv, NEW s \in Sources, CameraFills(s)
  PROVE  IInv'
<1> DEFINE c == [camera[s] EXCEPT !.queued = @ - 1, !.filled = @ + 1]
<1>1. Sane(camera[s], machine[s]) /\ camera[s].queued > 0
  BY MachineIs DEF CameraFills, Fill
<1>2. /\ c \in Camera
      /\ c.queued + c.filled = camera[s].queued + camera[s].filled
      /\ c.streaming <=> camera[s].streaming
      /\ c.format = camera[s].format
  <2> DEFINE d == [camera[s] EXCEPT !.queued = @ - 1]
  <2>1. /\ camera[s] \in Camera
        /\ camera[s].queued \in 1..NumBuffers /\ camera[s].filled \in 0..NumBuffers
        /\ camera[s].queued + camera[s].filled <= NumBuffers
    BY <1>1, CameraAssumption DEF Sane, Camera
  <2>2. /\ d \in Camera
        /\ d.queued = camera[s].queued - 1 /\ d.filled = camera[s].filled
        /\ d.streaming <=> camera[s].streaming
        /\ d.format = camera[s].format
    BY <2>1, CameraAssumption DEF Camera
  <2>3. c = [d EXCEPT !.filled = @ + 1]
    BY <2>1 DEF Camera
  <2> HIDE DEF c, d
  <2>4. d.filled + 1 \in 0..NumBuffers
    BY <2>1, <2>2, CameraAssumption
  <2>5. c \in Camera
    BY <2>2, <2>3, <2>4 DEF Camera
  <2>6. /\ c.queued = d.queued /\ c.filled = d.filled + 1
        /\ c.streaming <=> d.streaming
        /\ c.format = d.format
    BY <2>2, <2>3 DEF Camera
  <2> QED
    BY <2>1, <2>2, <2>5, <2>6, CameraAssumption
<1>3. camera' = [camera EXCEPT ![s] = c]
  BY DEF CameraFills, Fill, IInv, TypeOK, CameraTypeOK
<1> HIDE DEF c
<1>4. Sane(c, machine[s])
  BY <1>1, <1>2 DEF Sane
<1>5. UNCHANGED <<machine, camera_runner, camera_sinks, runner, video_source, processor,
                  sinks, called>>
  BY DEF CameraFills, Fill
<1>6. CameraTypeOK' /\ CamerasSane' /\ Agree(camera_runner, video_source)'
  BY <1>3, <1>4, <1>5, CameraChanges
<1> QED
  BY <1>5, <1>6 DEF IInv, TypeOK

\* The execution of a sink task takes it from the runner and does what it says.
LEMMA CameraRunKeeps ==
  ASSUME IInv, NEW s \in Sources, CameraRuns(s)
  PROVE  IInv'
<1> DEFINE q == camera_runner[s]
           now == Head(q).what = "AddOrUpdateSink"
<1>1. /\ q \in Seq(SinkTask) /\ q # <<>>
      /\ Alternates(q, In(s))
      /\ In(s) \in BOOLEAN
  BY DEF CameraRuns, RunSinkTask, IInv, TypeOK, CameraTypeOK, Agree, In
<1>2. /\ Head(q) \in SinkTask
      /\ Head(q).sink = capturer
      /\ Head(q).what \in {"AddOrUpdateSink", "RemoveSink"}
  <2> HIDE DEF q
  <2>1. Head(q) \in SinkTask
    BY <1>1
  <2> QED
    BY <2>1, CapturerAssumption DEF SinkTask
<1>3. /\ camera_sinks' \in [Sources -> SUBSET Sinks]
      /\ camera_runner' = [camera_runner EXCEPT ![s] = Tail(q)]
      /\ In(s)' <=> now
      /\ \A t \in Sources \ {s} : In(t)' <=> In(t)
  BY <1>2, CapturerAssumption
     DEF CameraRuns, RunSinkTask, IInv, TypeOK, CameraTypeOK, In
<1>4. /\ Tail(q) \in Seq(SinkTask)
      /\ Alternates(Tail(q), In(s)')
      /\ Hangs(Tail(q), In(s)') <=> Hangs(q, In(s))
  <2>1. In(s)' \in BOOLEAN
    BY DEF In
  <2>2. In(s)' <=> Head(q).what = "AddOrUpdateSink"
    BY <1>3
  <2> DEFINE was == In(s)
             is == In(s)'
  <2>3. was \in BOOLEAN /\ is \in BOOLEAN /\ (is <=> Head(q).what = "AddOrUpdateSink")
        /\ q \in Seq(SinkTask) /\ q # <<>> /\ Alternates(q, was)
    BY <1>1, <2>1, <2>2
  <2> HIDE DEF q, was, is
  <2>4. /\ Tail(q) \in Seq(SinkTask)
        /\ Alternates(Tail(q), is)
        /\ Hangs(Tail(q), is) <=> Hangs(q, was)
    BY ONLY <2>3, TailTask
  <2> QED
    BY <2>4 DEF was, is
<1>5. UNCHANGED <<machine, camera, runner, video_source, processor, sinks, called>>
  BY DEF CameraRuns, RunSinkTask
<1>6. camera_runner' \in [Sources -> Seq(SinkTask)]
  BY <1>3, <1>4 DEF IInv, TypeOK, CameraTypeOK
<1>7. Agree(camera_runner, video_source)'
  <2> SUFFICES ASSUME NEW t \in Sources
               PROVE  /\ Alternates(camera_runner'[t], In(t)')
                      /\ Hangs(camera_runner'[t], In(t)') <=> video_source' = t
    BY DEF Agree
  <2>1. Alternates(camera_runner[t], In(t)) /\ (Hangs(camera_runner[t], In(t)) <=> video_source = t)
    BY DEF IInv, Agree
  <2>2. CASE t = s
    <3>1. camera_runner'[t] = Tail(q)
      BY <1>3, <2>2 DEF IInv, TypeOK, CameraTypeOK
    <3> QED
      BY <1>4, <1>5, <2>1, <2>2, <3>1
  <2>3. CASE t # s
    <3>1. camera_runner'[t] = camera_runner[t]
      BY <1>3, <2>3 DEF IInv, TypeOK, CameraTypeOK
    <3>2. In(t)' = In(t)
      BY <1>3, <2>3 DEF In
    <3> QED
      BY <1>5, <2>1, <3>1, <3>2
  <2> QED
    BY <2>2, <2>3
<1>8. CamerasSane'
  BY <1>5 DEF IInv, CamerasSane
<1> QED
  BY <1>3, <1>5, <1>6, <1>7, <1>8 DEF IInv, TypeOK, CameraTypeOK

\* The runner's first task is one of the kind its name says.
LEMMA TaskIs ==
  ASSUME IInv, runner # <<>>
  PROVE  /\ Tail(runner) \in Seq(AnyTask)
         /\ Takes("AddOrUpdateSink") \/ Takes("RemoveSink") => Task.sink \in Encoders
         /\ Takes("SetVideoSource") => Task.source \in Sources \cup {None}
         /\ Takes("SetProcessor") => Task.processor \in Processors \cup {None}
         /\ Takes("OnFrame") \/ Takes("OnProcessedFrame") => Task.from \in Sources
<1>1. runner \in Seq(AnyTask)
  BY DEF IInv, TypeOK, AnyTask
<1>2. Task \in AnyTask /\ Tail(runner) \in Seq(AnyTask)
  <2> HIDE DEF AnyTask
  <2> QED
    BY <1>1 DEF Task
<1> QED
  BY <1>2 DEF Takes, AnyTask, FrameTask, EncoderTask, SourceTask, ProcessorTask

\* A source may be exchanged for itself: it is left first.
LEMMA SetVideoSourceKeeps ==
  ASSUME IInv, RunSetVideoSource
  PROVE  IInv'
<1>1. /\ Tail(runner) \in Seq(AnyTask)
      /\ Task.source \in Sources \cup {None}
  BY TaskIs DEF RunSetVideoSource, Takes
<1>2. /\ camera_runner' = Exchanged(video_source, Task.source)
      /\ video_source' = Task.source
      /\ runner' = Tail(runner)
      /\ UNCHANGED <<machine, camera, camera_sinks, processor, sinks, called>>
  BY DEF RunSetVideoSource
<1>3. /\ camera_runner \in [Sources -> Seq(SinkTask)]
      /\ video_source \in Sources \cup {None}
      /\ Agree(camera_runner, video_source)
  BY DEF IInv, TypeOK, CameraTypeOK
<1>4. /\ camera_runner' \in [Sources -> Seq(SinkTask)]
      /\ Agree(Exchanged(video_source, Task.source), Task.source)
  BY <1>1, <1>2, <1>3, ExchangedAgrees
<1>5. Agree(camera_runner, video_source)'
  BY <1>2, <1>4 DEF Agree, In
<1>6. CamerasSane'
  BY <1>2 DEF IInv, CamerasSane
<1> QED
  BY <1>1, <1>2, <1>4, <1>5, <1>6 DEF IInv, TypeOK, CameraTypeOK, AnyTask

\* The other tasks of the capturer's runner are about its own state.
LEMMA TakesKeeps ==
  ASSUME IInv,
         RunAddOrUpdateSink \/ RunRemoveSink \/ RunSetProcessor \/ RunOnFrame
           \/ RunOnProcessedFrame
  PROVE  IInv'
<1>1. UNCHANGED <<cameraVars, video_source, called>>
  BY DEF RunAddOrUpdateSink, RunRemoveSink, RunSetProcessor, RunOnFrame, RunOnProcessedFrame
<1>2. CameraTypeOK' /\ CamerasSane' /\ Agree(camera_runner, video_source)'
  BY <1>1, CamerasUntouched
<1>3. Tail(runner) \in Seq(AnyTask)
  BY TaskIs
     DEF RunAddOrUpdateSink, RunRemoveSink, RunSetProcessor, RunOnFrame, RunOnProcessedFrame,
         Takes
<1>4. runner' \in Seq(AnyTask)
  <2>1. ASSUME NEW what \in {"OnFrame", "OnProcessedFrame"}, Takes("OnFrame"), HandsBack(what)
        PROVE  runner' \in Seq(AnyTask)
    <3> DEFINE frame == [what |-> what, from |-> Task.from, processed |-> TRUE]
    <3>1. frame \in AnyTask
      BY <2>1, TaskIs DEF Takes, AnyTask, FrameTask
    <3>2. runner' = Tail(runner) \/ runner' = Append(Tail(runner), frame)
      BY <2>1 DEF HandsBack
    <3> HIDE DEF frame, AnyTask
    <3> QED
      BY <1>3, <3>1, <3>2
  <2> QED
    BY <1>3, <2>1
       DEF RunAddOrUpdateSink, RunRemoveSink, RunSetProcessor, RunOnFrame, RunOnProcessedFrame
<1>5. /\ processor' \in Processors \cup {None}
      /\ sinks' \subseteq Encoders
  BY TaskIs
     DEF RunAddOrUpdateSink, RunRemoveSink, RunSetProcessor, RunOnFrame, RunOnProcessedFrame,
         IInv, TypeOK, Takes
<1> QED
  BY <1>1, <1>2, <1>4, <1>5 DEF IInv, TypeOK, AnyTask

LEMMA InitInv == Init => IInv
<1> SUFFICES ASSUME Init PROVE IInv
  OBVIOUS
<1>1. \A s \in Sources : machine[s] \in Machine /\ Sane(camera[s], machine[s])
  BY CameraAssumption, ConstructedSane DEF Init, CameraInit, Machine
<1>2. CameraTypeOK
  BY <1>1 DEF Init, CameraInit, CameraTypeOK, Sane
<1>3. Agree(camera_runner, video_source)
  BY CapturerAssumption
     DEF Init, CameraInit, Agree, In, Alternates, Hangs
<1> QED
  BY <1>1, <1>2, <1>3 DEF Init, IInv, TypeOK, CamerasSane

LEMMA NextInv == IInv /\ [Next]_vars => IInv'
<1> SUFFICES ASSUME IInv, [Next]_vars PROVE IInv'
  OBVIOUS
<1>1. CASE \/ \E k \in Encoders : AddOrUpdateSink(k) \/ RemoveSink(k)
           \/ \E s \in Sources \cup {None} : SetVideoSource(s)
           \/ \E p \in Processors \cup {None} : SetProcessor(p)
  BY <1>1, CallsKeep
<1>2. ASSUME NEW s \in Sources, CameraReads(s)
      PROVE  IInv'
  BY <1>2, ReadKeeps
<1>3. ASSUME NEW s \in Sources, CameraRuns(s)
      PROVE  IInv'
  BY <1>3, CameraRunKeeps
<1>4. ASSUME NEW s \in Sources, CameraFills(s)
      PROVE  IInv'
  BY <1>4, FillKeeps
<1>5. CASE RunSetVideoSource
  BY <1>5, SetVideoSourceKeeps
<1>6. CASE RunAddOrUpdateSink \/ RunRemoveSink \/ RunSetProcessor \/ RunOnFrame
             \/ RunOnProcessedFrame
  BY <1>6, TakesKeeps
<1>7. CASE UNCHANGED vars
  <2>1. UNCHANGED <<cameraVars, runner, video_source, processor, sinks, called>>
    BY <1>7 DEF vars
  <2> QED
    BY <2>1, CamerasUntouched DEF IInv, TypeOK
<1> QED
  BY <1>1, <1>2, <1>3, <1>4, <1>5, <1>6, <1>7 DEF Next, RunnerTakes

-----------------------------------------------------------------------------
(* The theorems.                                                            *)

\* Every reachable state satisfies the inductive invariant: well-typed, every
\* camera's buffers and format sane, its posted sink tasks taking turns and the
\* last of them agreeing with video_source_.
THEOREM Invariance == Spec => []IInv
  BY InitInv, NextInv, PTL DEF Spec

\* The type invariant, whatever was called and however cameras failed.
THEOREM TypeCorrect == Spec => []TypeOK
  BY Invariance, PTL DEF IInv

\* However often the source is exchanged, and however far the cameras' runners
\* are behind, they will leave the capturer a sink of its source alone.
THEOREM SourceFollowsAlways == Spec => []SourceFollows
<1>1. IInv => SourceFollows
  BY DEF IInv, Agree, Hangs, In, SourceFollows
<1> QED
  BY <1>1, Invariance, PTL

\* No camera is ever asked to remove the capturer when it is not a sink: the
\* check of RemoveSink in video_source_base.h cannot fail.
THEOREM KnownSinks == Spec => []CameraKnowsSink
<1>1. IInv => CameraKnowsSink
  <2> SUFFICES ASSUME IInv, NEW s \in Sources, camera_runner[s] # <<>>,
                      Head(camera_runner[s]).what = "RemoveSink"
               PROVE  Head(camera_runner[s]).sink \in camera_sinks[s]
    BY DEF CameraKnowsSink
  <2> DEFINE q == camera_runner[s]
  <2>1. q \in Seq(SinkTask) /\ q # <<>> /\ Alternates(q, In(s)) /\ Head(q).what = "RemoveSink"
    BY DEF IInv, TypeOK, CameraTypeOK, Agree
  <2> HIDE DEF q
  <2>2. 1 \in 1..Len(q) /\ Head(q) = q[1] /\ Head(q) \in SinkTask
    BY <2>1
  <2>3. In(s)
    BY <2>1, <2>2 DEF Alternates
  <2>4. Head(q).sink = capturer
    BY <2>2, CapturerAssumption DEF SinkTask
  <2> QED
    BY <2>3, <2>4 DEF In, q
<1> QED
  BY <1>1, Invariance, PTL

\* Where QBUF works no buffer of a streaming camera is ever lost, whichever
\* formats the device has and whatever else fails.
THEOREM NoBufferLost == Spec => []BuffersConserved
<1>1. IInv => BuffersConserved
  BY DEF IInv, CamerasSane, Sane, BuffersConserved
<1> QED
  BY <1>1, Invariance, PTL

\* A camera that streams does so in a format the program converts, if its device
\* has one.
THEOREM ConvertibleChosen == Spec => []ConvertibleIfPossible
<1>1. IInv => ConvertibleIfPossible
  BY DEF IInv, CamerasSane, Sane, ConvertibleIfPossible
<1> QED
  BY <1>1, Invariance, PTL
=============================================================================
