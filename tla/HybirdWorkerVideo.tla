------------------------- MODULE HybirdWorkerVideo -------------------------
(***************************************************************************)
(* The video half of HybirdWorker (media/hybird_worker.cc) with the parts  *)
(* it drives: MediaTransport's list of VideoStreamSenders, the sinks each  *)
(* sender broadcasts to, and the VideoSendStreams, which hold raw pointers *)
(* to their sender and are themselves captured by raw pointer in tasks.    *)
(*                                                                         *)
(* Every public operation posts one task on worker_task_runner_; the       *)
(* runner executes tasks one at a time in the order they were posted.      *)
(* Objects are identified by the address they live at; an address may be   *)
(* used again once the object that lived there has been erased.            *)
(***************************************************************************)
EXTENDS Naturals, Sequences, SequencesExt

CONSTANTS
  Sources,        \* video sources (shared_ptr identity)
  Streams,        \* stream ids
  StreamOf,       \* the id MediaService::GenerateStreamId gave each source
  Sinks,          \* encoded video sinks
  StreamAddrs,    \* addresses for VideoSendStream objects
  SenderAddrs,    \* addresses for VideoStreamSender objects
  MaxTasks        \* bound: clients do not post beyond this queue length

ASSUME StreamOfAssumption ==
  /\ StreamOf \in [Sources -> Streams]
  /\ \A s, t \in Sources : StreamOf[s] = StreamOf[t] => s = t

ASSUME MaxTasksAssumption == MaxTasks \in Nat

VARIABLES
  tasks,                 \* worker_task_runner_: the queue of posted tasks
  video_sources,         \* HybirdWorker::video_sources_
  video_send_streams,    \* HybirdWorker::video_send_streams_, in list order
  video_stream_senders,  \* MediaTransport::video_stream_senders_
  source_sinks,          \* per source, the encoders registered as its sinks
  key_requests,          \* encoders with a key frame request on their runner
  client_sinks,          \* sinks the clients have added and not yet removed
  crashed                \* the process has ended

vars == <<tasks, video_sources, video_send_streams, video_stream_senders,
          source_sinks, key_requests, client_sinks, crashed>>

SourceTask == [what : {"AddVideoSource", "RemoveVideoSource"}, source : Sources]
SinkTask == [what : {"AddEncodedVideoSink", "RemoveEncodedVideoSink"},
             sink : Sinks, id : Streams]
StreamTask == [what : {"Start", "SendKeyFrame"}, addr : StreamAddrs]
PlainTask == [what : {"RequestKeyFrame", "Stop"}]
Task == SourceTask \cup SinkTask \cup StreamTask \cup PlainTask

SendStream == [id : Streams, addr : StreamAddrs, sender : SenderAddrs]
StreamSender == [id : Streams, addr : SenderAddrs, sinks : SUBSET Sinks]

-----------------------------------------------------------------------------
LiveStreamAddrs == {s.addr : s \in ToSet(video_send_streams)}

\* MediaTransport::GetVideoStreamSender: the sender of the stream, made (at
\* any free address) when there is none yet.
GetVideoStreamSender(id) ==
  IF \E r \in video_stream_senders : r.id = id
  THEN {r \in video_stream_senders : r.id = id}
  ELSE {[id |-> id, addr |-> a, sinks |-> {}] :
          a \in SenderAddrs \ {r.addr : r \in video_stream_senders}}

\* Mutant: the sender stays behind when its stream is removed.
KeepsVideoStreamSender(id) == video_stream_senders

\* MediaTransport::RemoveVideoStreamSender: the senders that are left.
RemoveVideoStreamSender(id) == {r \in video_stream_senders : r.id # id}

\* MediaTransport::frame_wanted over the senders given.
frame_wanted(senders, id) == \E r \in senders : r.id = id /\ r.sinks # {}

\* Mutant: the sink is dropped from sinks_ and stays in the broadcaster.
StaysInBroadcaster(sink) == video_stream_senders

\* MediaTransport::RemoveVideoSink: every sender there is lets go of the sink.
RemoveVideoSink(sink) ==
  {[r EXCEPT !.sinks = @ \ {sink}] : r \in video_stream_senders}

\* "AVE_DCHECK(FindSinkPair(sink))", asked in every sender of the removal.
FoundInEverySender(sink) == \A r \in video_stream_senders : sink \in r.sinks

\* Positions of the send streams of a stream id; the code's find_if takes the
\* first of them.
StreamsWithId(id) ==
  {i \in 1..Len(video_send_streams) : video_send_streams[i].id = id}

IsFirst(i, positions) == i \in positions /\ \A j \in positions : i <= j

\* Mutant: the stream is stopped and not erased.
KeepsSendStream(i) == video_send_streams

\* video_send_streams_.erase.
EraseSendStream(i) == RemoveAt(video_send_streams, i)

\* Mutant: AddVideoSource does not look for the source.
NeverAdded(source) == FALSE

\* "VideoSource already exist in video_sources_".
AlreadyAdded(source) == source \in video_sources

\* The tasks a handler posts to start or stop the stream it has found, none
\* when no stream has the id.
StartTasks(id) ==
  {<<[what |-> "Start", addr |-> video_send_streams[i].addr]>> :
      i \in {j \in StreamsWithId(id) : IsFirst(j, StreamsWithId(id))}}

-----------------------------------------------------------------------------
(* The clients: MediaService's handlers, which only post.                   *)

Post(task) ==
  /\ ~crashed
  /\ Len(tasks) < MaxTasks
  /\ tasks' = Append(tasks, task)
  /\ UNCHANGED <<video_sources, video_send_streams, video_stream_senders,
                 source_sinks, key_requests, crashed>>

PostSource(source) ==
  /\ \E what \in {"AddVideoSource", "RemoveVideoSource"} :
        Post([what |-> what, source |-> source])
  /\ UNCHANGED client_sinks

PostAddSink(sink, id) ==
  /\ Post([what |-> "AddEncodedVideoSink", sink |-> sink, id |-> id])
  /\ client_sinks' = client_sinks \cup {<<id, sink>>}

\* A client removes only a sink it has added.
PostRemoveSink(sink, id) ==
  /\ <<id, sink>> \in client_sinks
  /\ Post([what |-> "RemoveEncodedVideoSink", sink |-> sink, id |-> id])
  /\ client_sinks' = client_sinks \ {<<id, sink>>}

PostRequestKeyFrame ==
  /\ Post([what |-> "RequestKeyFrame"])
  /\ UNCHANGED client_sinks

-----------------------------------------------------------------------------
(* The worker: one action per task.                                         *)

Running(what) == ~crashed /\ tasks # <<>> /\ Head(tasks).what = what

\* The handler finishes and leaves the tasks it has posted behind the others.
Finish(posted) == tasks' = Tail(tasks) \o posted

RunAddVideoSource ==
  LET source == Head(tasks).source
      id == StreamOf[source]
  IN
  /\ Running("AddVideoSource")
  /\ IF AlreadyAdded(source)
     THEN /\ Finish(<<>>)
          /\ UNCHANGED <<video_sources, video_send_streams,
                         video_stream_senders, source_sinks>>
     ELSE \E addr \in StreamAddrs \ LiveStreamAddrs,
             r \in GetVideoStreamSender(id) :
            /\ video_sources' = video_sources \cup {source}
            /\ video_stream_senders' = video_stream_senders \cup {r}
            /\ video_send_streams' = Append(video_send_streams,
                 [id |-> id, addr |-> addr, sender |-> r.addr])
            /\ source_sinks' =
                 [source_sinks EXCEPT ![source] = @ \cup {addr}]
            /\ Finish(IF r.sinks # {}
                      THEN <<[what |-> "Start", addr |-> addr]>> ELSE <<>>)
  /\ UNCHANGED <<key_requests, client_sinks, crashed>>

\* The send stream is destroyed, its encoder is not taken off the source.
\* An erased stream's runner goes with it, and the requests queued there.
RunRemoveVideoSource ==
  LET source == Head(tasks).source
      id == StreamOf[source]
  IN
  /\ Running("RemoveVideoSource")
  /\ IF source \notin video_sources
     THEN /\ Finish(<<>>)
          /\ UNCHANGED <<video_sources, video_send_streams,
                         video_stream_senders, key_requests>>
     ELSE \E i \in StreamsWithId(id) :
            /\ IsFirst(i, StreamsWithId(id))
            /\ video_send_streams' = EraseSendStream(i)
            /\ key_requests' = key_requests \ {video_send_streams[i].addr}
            /\ video_stream_senders' = RemoveVideoStreamSender(id)
            /\ video_sources' = video_sources \ {source}
            /\ Finish(<<[what |-> "Stop"]>>)
  /\ UNCHANGED <<source_sinks, client_sinks, crashed>>

RunAddEncodedVideoSink ==
  LET sink == Head(tasks).sink
      id == Head(tasks).id
  IN
  /\ Running("AddEncodedVideoSink")
  /\ \E r \in GetVideoStreamSender(id) :
       video_stream_senders' = (video_stream_senders \ {r})
                                 \cup {[r EXCEPT !.sinks = @ \cup {sink}]}
  /\ IF frame_wanted(video_stream_senders, id) \/ StartTasks(id) = {}
     THEN Finish(<<>>)
     ELSE \E posted \in StartTasks(id) : Finish(posted)
  /\ UNCHANGED <<video_sources, video_send_streams, source_sinks,
                 key_requests, client_sinks, crashed>>

\* The id only says which stream may be stopped.  A sender without the sink
\* fails its AVE_DCHECK: the process ends there, or goes on as if it held.
RunRemoveEncodedVideoSink ==
  LET sink == Head(tasks).sink
      id == Head(tasks).id
  IN
  /\ Running("RemoveEncodedVideoSink")
  /\ \/ /\ video_stream_senders' = RemoveVideoSink(sink)
        /\ Finish(IF frame_wanted(video_stream_senders', id) \/ StreamsWithId(id) = {}
                  THEN <<>> ELSE <<[what |-> "Stop"]>>)
        /\ UNCHANGED crashed
     \/ /\ ~FoundInEverySender(sink)
        /\ crashed' = TRUE
        /\ UNCHANGED <<tasks, video_stream_senders>>
  /\ UNCHANGED <<video_sources, video_send_streams, source_sinks,
                 key_requests, client_sinks>>

\* Mutant: only the first stream is asked.
AsksFirstStream ==
  [i \in 1..(IF video_send_streams = <<>> THEN 0 ELSE 1) |->
     [what |-> "SendKeyFrame", addr |-> video_send_streams[i].addr]]

\* Each send stream posts a task of its own to reach its encoder.
KeyFrameTasks ==
  [i \in 1..Len(video_send_streams) |->
     [what |-> "SendKeyFrame", addr |-> video_send_streams[i].addr]]

RunRequestKeyFrame ==
  /\ Running("RequestKeyFrame")
  /\ Finish(KeyFrameTasks)
  /\ UNCHANGED <<video_sources, video_send_streams, video_stream_senders,
                 source_sinks, key_requests, client_sinks, crashed>>

\* The task holds the stream by raw pointer.  When the stream has been erased
\* since, the access is undefined: it ends the process or reaches nothing.
RunSendKeyFrame ==
  LET addr == Head(tasks).addr
  IN
  /\ Running("SendKeyFrame")
  /\ key_requests' = key_requests \cup ({addr} \cap LiveStreamAddrs)
  /\ crashed' \in {FALSE, addr \notin LiveStreamAddrs}
  /\ Finish(<<>>)
  /\ UNCHANGED <<video_sources, video_send_streams, video_stream_senders,
                 source_sinks, client_sinks>>

\* VideoSendStream::Start and Stop do nothing in the task they post.
RunStartOrStop ==
  /\ Running("Start") \/ Running("Stop")
  /\ Finish(<<>>)
  /\ UNCHANGED <<video_sources, video_send_streams, video_stream_senders,
                 source_sinks, key_requests, client_sinks, crashed>>

\* The encoder's own runner takes the request (see VideoStreamEncoder).
EncoderTakesKeyRequest(addr) ==
  /\ ~crashed
  /\ addr \in key_requests
  /\ key_requests' = key_requests \ {addr}
  /\ UNCHANGED <<tasks, video_sources, video_send_streams, video_stream_senders,
                 source_sinks, client_sinks, crashed>>

-----------------------------------------------------------------------------
Init ==
  /\ tasks = <<>>
  /\ video_sources = {}
  /\ video_send_streams = <<>>
  /\ video_stream_senders = {}
  /\ source_sinks = [s \in Sources |-> {}]
  /\ key_requests = {}
  /\ client_sinks = {}
  /\ crashed = FALSE

RunTask ==
  \/ RunAddVideoSource
  \/ RunRemoveVideoSource
  \/ RunAddEncodedVideoSink
  \/ RunRemoveEncodedVideoSink
  \/ RunRequestKeyFrame
  \/ RunSendKeyFrame
  \/ RunStartOrStop

Client ==
  \/ \E s \in Sources : PostSource(s)
  \/ \E k \in Sinks, id \in Streams : PostAddSink(k, id)
  \/ \E k \in Sinks, id \in Streams : PostRemoveSink(k, id)
  \/ PostRequestKeyFrame

Next ==
  \/ Client
  \/ RunTask
  \/ \E addr \in StreamAddrs : EncoderTakesKeyRequest(addr)

Spec == Init /\ [][Next]_vars

\* The runner's thread keeps taking tasks; nothing makes a client post.
FairSpec == Spec /\ WF_vars(RunTask)

-----------------------------------------------------------------------------
(* Properties.                                                              *)

TypeOK ==
  /\ tasks \in Seq(Task)
  /\ video_sources \subseteq Sources
  /\ video_send_streams \in Seq(SendStream)
  /\ video_stream_senders \subseteq StreamSender
  /\ source_sinks \in [Sources -> SUBSET StreamAddrs]
  /\ key_requests \subseteq StreamAddrs
  /\ client_sinks \subseteq Streams \X Sinks
  /\ crashed \in BOOLEAN

\* The two lists the worker keeps side by side stay in step: a source has
\* exactly one send stream and every send stream belongs to a source that is
\* still there (the AVE_DCHECK of RemoveVideoSource relies on it).
SourcesMatchStreams ==
  /\ \A v \in video_sources :
       \E s \in ToSet(video_send_streams) : s.id = StreamOf[v]
  /\ \A s \in ToSet(video_send_streams) :
       \E v \in video_sources : s.id = StreamOf[v]
  /\ \A i, j \in 1..Len(video_send_streams) :
       video_send_streams[i].id = video_send_streams[j].id => i = j

\* The raw VideoStreamSender pointer of a send stream is never dangling, and
\* it is the sender to which sinks of that stream id are added.
SendersLive ==
  \A s \in ToSet(video_send_streams) :
    \E r \in video_stream_senders : r.addr = s.sender /\ r.id = s.id

\* One sender object per stream id and one stream id per sender object.
SendersUnique ==
  \A r, q \in video_stream_senders :
    (r.id = q.id \/ r.addr = q.addr) => r = q

-----------------------------------------------------------------------------
(* The worker implements VideoRouting as long as its process runs: a crash  *)
(* changes nothing that VideoRouting shows.                                 *)

active == {s.id : s \in ToSet(video_send_streams)}
route == {p \in Streams \X Sinks :
            \E r \in video_stream_senders : r.id = p[1] /\ p[2] \in r.sinks}

Routing == INSTANCE VideoRouting
RoutingSpec == Routing!Spec

\* An image encoded by a send stream goes to the sender it points to, and
\* from there to that sender's sinks.
Delivered ==
  {p \in Streams \X Sinks :
     \E s \in ToSet(video_send_streams), r \in video_stream_senders :
       s.id = p[1] /\ r.addr = s.sender /\ p[2] \in r.sinks}

\* An image reaches the sinks routed to its stream, through the pointer its
\* stream was made with; and among them is no sink but those its clients have
\* added to that stream and not taken off it, except while the task that takes
\* it off still waits: no order of sources coming and going beside tasks that
\* add and remove the sink brings it back (AddEncodedVideoSink,
\* RemoveEncodedVideoSink, RemoveVideoSource, GetVideoStreamSender).  Not every
\* sink that was added is among them: a removal takes the sink off all streams,
\* and a source that goes takes its sinks along.
DeliveredAsAsked ==
  /\ Delivered = Routing!Deliverable
  /\ \A p \in Delivered \ client_sinks :
       \E i \in 1..Len(tasks) :
         tasks[i] = [what |-> "RemoveEncodedVideoSink", sink |-> p[2], id |-> p[1]]

\* When the worker runs a key frame request, every stream it then has is
\* asked for a key frame, unless the stream is removed or the process ends
\* first.
KeyFrameReachesStreams ==
  \A addr \in StreamAddrs :
    (Running("RequestKeyFrame") /\ addr \in LiveStreamAddrs)
      ~> (addr \in key_requests \/ addr \notin LiveStreamAddrs \/ crashed)

-----------------------------------------------------------------------------
(* What comments and assertions say and the code does not do.               *)

\* "find, stop and erase video send stream" (hybird_worker.cc:96): once a
\* stream is erased its source feeds it no more.
ErasedStreamStopped ==
  \A s \in Sources : source_sinks[s] \subseteq LiveStreamAddrs
=============================================================================
