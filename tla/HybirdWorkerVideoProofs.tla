---------------------- MODULE HybirdWorkerVideoProofs ----------------------
(***************************************************************************)
(* Theorems about HybirdWorkerVideo, for any number of sources, streams,   *)
(* sinks and addresses and any queue length.                               *)
(***************************************************************************)
EXTENDS HybirdWorkerVideo, TLAPS

AddTask(p) == [what |-> "AddEncodedVideoSink", sink |-> p[2], id |-> p[1]]
RemovalTask(p) == [what |-> "RemoveEncodedVideoSink", sink |-> p[2], id |-> p[1]]

\* A removal of the pair waits behind the first n tasks.
RemovedAfter(p, n) == \E j \in (n + 1)..Len(tasks) : tasks[j] = RemovalTask(p)

\* A pair that its clients have given up is still routed, or about to be, only
\* in front of a removal that waits.
RemovalsFollow ==
  \A p \in (Streams \X Sinks) \ client_sinks :
    /\ p \in route => RemovedAfter(p, 0)
    /\ \A i \in 1..Len(tasks) : tasks[i] = AddTask(p) => RemovedAfter(p, i)

\* The worker's lists agree with each other in every reachable state, and what
\* waits agrees with what the clients have asked for.
IInv ==
  /\ TypeOK
  /\ SourcesMatchStreams
  /\ SendersLive
  /\ SendersUnique
  /\ RemovalsFollow

-----------------------------------------------------------------------------
(* Lemmas on the operators.                                                 *)

\* Erasing an element of a sequence (the erase of a vector) shifts the ones
\* behind it.
LEMMA RemoveAtElements ==
  ASSUME NEW S, NEW s \in Seq(S), NEW i \in 1..Len(s)
  PROVE  /\ RemoveAt(s, i) \in Seq(S)
         /\ Len(RemoveAt(s, i)) = Len(s) - 1
         /\ \A j \in 1..(Len(s) - 1) :
              RemoveAt(s, i)[j] = IF j < i THEN s[j] ELSE s[j + 1]
<1> DEFINE pre == SubSeq(s, 1, i - 1)
           post == SubSeq(s, i + 1, Len(s))
<1>1. /\ pre \in Seq(S)
      /\ Len(pre) = i - 1
      /\ \A j \in 1..(i - 1) : pre[j] = s[j]
  OBVIOUS
<1>2. /\ post \in Seq(S)
      /\ Len(post) = Len(s) - i
      /\ \A j \in 1..(Len(s) - i) : post[j] = s[i + j]
  OBVIOUS
<1>3. RemoveAt(s, i) = pre \o post
  BY DEF RemoveAt
<1> HIDE DEF pre, post
<1>4. /\ pre \o post \in Seq(S)
      /\ Len(pre \o post) = Len(s) - 1
  BY <1>1, <1>2
<1>5. ASSUME NEW j \in 1..(Len(s) - 1)
      PROVE  (pre \o post)[j] = IF j < i THEN s[j] ELSE s[j + 1]
  <2>1. CASE j < i
    BY <1>1, <1>2, <2>1
  <2>2. CASE ~(j < i)
    <3>1. (pre \o post)[j] = post[j - (i - 1)]
      BY <1>1, <1>2, <2>2
    <3>2. j - (i - 1) \in 1..(Len(s) - i) /\ i + (j - (i - 1)) = j + 1
      BY <2>2
    <3> QED BY <1>2, <2>2, <3>1, <3>2
  <2> QED BY <2>1, <2>2
<1> QED BY <1>3, <1>4, <1>5

\* The elements left by the erasure are those of the other positions.
LEMMA RemoveAtSet ==
  ASSUME NEW S, NEW s \in Seq(S), NEW i \in 1..Len(s)
  PROVE  ToSet(RemoveAt(s, i)) = {s[j] : j \in (1..Len(s)) \ {i}}
<1> DEFINE t == RemoveAt(s, i)
<1>1. /\ t \in Seq(S)
      /\ Len(t) = Len(s) - 1
      /\ \A j \in 1..(Len(s) - 1) : t[j] = IF j < i THEN s[j] ELSE s[j + 1]
  BY RemoveAtElements
<1> HIDE DEF t
<1>2. ToSet(t) = {t[j] : j \in 1..(Len(s) - 1)}
  BY <1>1 DEF ToSet
<1>3. ASSUME NEW j \in 1..(Len(s) - 1)
      PROVE  t[j] \in {s[k] : k \in (1..Len(s)) \ {i}}
  <2>1. CASE j < i
    <3>1. t[j] = s[j] /\ j \in (1..Len(s)) \ {i}
      BY <1>1, <2>1
    <3> QED BY <3>1
  <2>2. CASE ~(j < i)
    <3>1. t[j] = s[j + 1] /\ j + 1 \in (1..Len(s)) \ {i}
      BY <1>1, <2>2
    <3> QED BY <3>1
  <2> QED BY <2>1, <2>2
<1>4. ASSUME NEW k \in (1..Len(s)) \ {i}
      PROVE  \E j \in 1..(Len(s) - 1) : t[j] = s[k]
  <2>1. CASE k < i
    <3>1. t[k] = s[k] /\ k \in 1..(Len(s) - 1)
      BY <1>1, <2>1
    <3> QED BY <3>1
  <2>2. CASE k > i
    <3>1. k - 1 \in 1..(Len(s) - 1) /\ ~(k - 1 < i) /\ (k - 1) + 1 = k
      BY <2>2
    <3>2. t[k - 1] = s[k]
      BY <1>1, <3>1
    <3> QED BY <3>1, <3>2
  <2> QED BY <2>1, <2>2
<1> QED BY <1>2, <1>3, <1>4 DEF t

\* Appending to a list adds one element to its set.
LEMMA AppendSet ==
  ASSUME NEW S, NEW s \in Seq(S), NEW e \in S
  PROVE  ToSet(Append(s, e)) = ToSet(s) \cup {e}
<1>1. /\ Len(Append(s, e)) = Len(s) + 1
      /\ \A j \in 1..Len(s) : Append(s, e)[j] = s[j]
      /\ Append(s, e)[Len(s) + 1] = e
  OBVIOUS
<1>2. DOMAIN Append(s, e) = 1..(Len(s) + 1) /\ DOMAIN s = 1..Len(s)
  OBVIOUS
<1>3. ASSUME NEW j \in 1..(Len(s) + 1)
      PROVE  Append(s, e)[j] \in ToSet(s) \cup {e}
  <2>1. CASE j \in 1..Len(s)
    BY <1>1, <1>2, <2>1 DEF ToSet
  <2>2. CASE j = Len(s) + 1
    BY <1>1, <2>2
  <2> QED BY <2>1, <2>2
<1>4. ASSUME NEW x \in ToSet(s) \cup {e}
      PROVE  \E j \in 1..(Len(s) + 1) : Append(s, e)[j] = x
  <2>1. CASE x = e
    BY <1>1, <2>1
  <2>2. CASE x \in ToSet(s)
    <3>1. PICK j \in 1..Len(s) : s[j] = x
      BY <1>2, <2>2 DEF ToSet
    <3> QED BY <1>1, <3>1
  <2> QED BY <2>1, <2>2
<1> QED BY <1>2, <1>3, <1>4 DEF ToSet

-----------------------------------------------------------------------------
(* Type correctness.                                                        *)

\* GetVideoStreamSender returns senders of the stream asked for: the one
\* there is, or a new one at an address no other sender has.
LEMMA GetVideoStreamSenderResult ==
  ASSUME TypeOK, NEW id \in Streams, NEW r \in GetVideoStreamSender(id)
  PROVE  /\ r \in StreamSender
         /\ r.id = id
         /\ \/ r \in video_stream_senders
            \/ /\ r.sinks = {}
               /\ \A q \in video_stream_senders : q.id # id /\ q.addr # r.addr
<1>1. CASE \E q \in video_stream_senders : q.id = id
  BY <1>1 DEF GetVideoStreamSender, TypeOK
<1>2. CASE ~ \E q \in video_stream_senders : q.id = id
  <2>1. PICK a \in SenderAddrs \ {q.addr : q \in video_stream_senders} :
          r = [id |-> id, addr |-> a, sinks |-> {}]
    BY <1>2 DEF GetVideoStreamSender
  <2> QED BY <1>2, <2>1 DEF StreamSender
<1> QED BY <1>1, <1>2

\* What a running task carries.
LEMMA HeadTask ==
  ASSUME TypeOK, tasks # <<>>
  PROVE  /\ Head(tasks) \in Task
         /\ Tail(tasks) \in Seq(Task)
         /\ Head(tasks).what \in {"AddVideoSource", "RemoveVideoSource"} =>
              Head(tasks).source \in Sources
         /\ Head(tasks).what \in {"AddEncodedVideoSink", "RemoveEncodedVideoSink"} =>
              Head(tasks).sink \in Sinks /\ Head(tasks).id \in Streams
         /\ Head(tasks).what \in {"Start", "SendKeyFrame"} =>
              Head(tasks).addr \in StreamAddrs
<1>1. Head(tasks) \in Task /\ Tail(tasks) \in Seq(Task)
  BY DEF TypeOK
<1> QED BY <1>1 DEF Task, SourceTask, SinkTask, StreamTask, PlainTask

\* The queue stays well typed when a handler finishes.
LEMMA FinishType ==
  ASSUME TypeOK, tasks # <<>>, NEW posted \in Seq(Task), Finish(posted)
  PROVE  tasks' \in Seq(Task)
BY HeadTask DEF Finish

\* The members of a send stream of the list.
LEMMA StreamElement ==
  ASSUME TypeOK, NEW i \in 1..Len(video_send_streams)
  PROVE  /\ video_send_streams[i] \in SendStream
         /\ video_send_streams[i].id \in Streams
         /\ video_send_streams[i].addr \in StreamAddrs
         /\ video_send_streams[i].sender \in SenderAddrs
         /\ \A what \in {"Start", "SendKeyFrame"} :
              [what |-> what, addr |-> video_send_streams[i].addr] \in Task
<1>1. video_send_streams[i] \in SendStream
  BY DEF TypeOK
<1>2. /\ video_send_streams[i].id \in Streams
      /\ video_send_streams[i].addr \in StreamAddrs
      /\ video_send_streams[i].sender \in SenderAddrs
  BY <1>1 DEF SendStream
<1> QED BY <1>1, <1>2 DEF Task, StreamTask

\* The addresses of the send streams are addresses.
LEMMA LiveStreamAddrsType ==
  ASSUME TypeOK
  PROVE  LiveStreamAddrs \subseteq StreamAddrs
<1>1. DOMAIN video_send_streams = 1..Len(video_send_streams)
  BY DEF TypeOK
<1>2. \A s \in ToSet(video_send_streams) : s.addr \in StreamAddrs
  BY <1>1, StreamElement DEF ToSet
<1> QED BY <1>2 DEF LiveStreamAddrs

\* A task posted by a client is queued and nothing of the worker changes.
LEMMA PostType ==
  ASSUME TypeOK, NEW task \in Task, Post(task)
  PROVE  /\ tasks' \in Seq(Task)
         /\ UNCHANGED <<video_sources, video_send_streams, video_stream_senders,
                        source_sinks, key_requests, crashed>>
BY DEF Post, TypeOK

\* The variables keep their types through every step.
LEMMA TypeStep == TypeOK /\ [Next]_vars => TypeOK'
<1> SUFFICES ASSUME TypeOK, [Next]_vars PROVE TypeOK'
  OBVIOUS
<1>1. ASSUME NEW s \in Sources, PostSource(s) PROVE TypeOK'
  <2>1. PICK what \in {"AddVideoSource", "RemoveVideoSource"} :
          Post([what |-> what, source |-> s])
    BY <1>1 DEF PostSource
  <2>2. [what |-> what, source |-> s] \in Task
    BY DEF Task, SourceTask
  <2> QED BY <1>1, <2>1, <2>2, PostType DEF PostSource, TypeOK
<1>2. ASSUME NEW k \in Sinks, NEW id \in Streams, PostAddSink(k, id)
      PROVE TypeOK'
  <2>1. [what |-> "AddEncodedVideoSink", sink |-> k, id |-> id] \in Task
    BY DEF Task, SinkTask
  <2> QED BY <1>2, <2>1, PostType DEF PostAddSink, TypeOK
<1>3. ASSUME NEW k \in Sinks, NEW id \in Streams, PostRemoveSink(k, id)
      PROVE TypeOK'
  <2>1. [what |-> "RemoveEncodedVideoSink", sink |-> k, id |-> id] \in Task
    BY DEF Task, SinkTask
  <2> QED BY <1>3, <2>1, PostType DEF PostRemoveSink, TypeOK
<1>4. CASE PostRequestKeyFrame
  <2>1. [what |-> "RequestKeyFrame"] \in Task
    BY DEF Task, PlainTask
  <2> QED BY <1>4, <2>1, PostType DEF PostRequestKeyFrame, TypeOK
<1>5. CASE RunAddVideoSource
  <2> DEFINE source == Head(tasks).source
             id == StreamOf[source]
  <2>1. source \in Sources /\ id \in Streams /\ tasks # <<>>
    BY <1>5, HeadTask, StreamOfAssumption DEF RunAddVideoSource, Running
  <2>2. CASE source \in video_sources
    <3>1. Finish(<<>>) /\ <<>> \in Seq(Task)
      BY <1>5, <2>2 DEF RunAddVideoSource, AlreadyAdded
    <3> QED BY <1>5, <2>1, <2>2, <3>1, FinishType
           DEF RunAddVideoSource, AlreadyAdded, TypeOK
  <2>3. CASE source \notin video_sources
    <3>1. PICK addr \in StreamAddrs \ LiveStreamAddrs, r \in GetVideoStreamSender(id) :
            /\ video_sources' = video_sources \cup {source}
            /\ video_stream_senders' = video_stream_senders \cup {r}
            /\ video_send_streams' = Append(video_send_streams,
                 [id |-> id, addr |-> addr, sender |-> r.addr])
            /\ source_sinks' = [source_sinks EXCEPT ![source] = @ \cup {addr}]
            /\ Finish(IF r.sinks # {}
                      THEN <<[what |-> "Start", addr |-> addr]>> ELSE <<>>)
      BY <1>5, <2>3 DEF RunAddVideoSource, AlreadyAdded
    <3>2. r \in StreamSender
      BY <2>1, GetVideoStreamSenderResult
    <3>3. [id |-> id, addr |-> addr, sender |-> r.addr] \in SendStream
      BY <2>1, <3>2 DEF SendStream, StreamSender
    <3>4. [what |-> "Start", addr |-> addr] \in Task
      BY DEF Task, StreamTask
    <3>5. (IF r.sinks # {} THEN <<[what |-> "Start", addr |-> addr]>> ELSE <<>>)
            \in Seq(Task)
      BY <3>4
    <3>6. tasks' \in Seq(Task)
      BY <2>1, <3>1, <3>5, FinishType
    <3>7. video_send_streams' \in Seq(SendStream)
      BY <3>1, <3>3 DEF TypeOK
    <3>8. source_sinks' \in [Sources -> SUBSET StreamAddrs]
      BY <2>1, <3>1 DEF TypeOK
    <3>9. video_stream_senders' \subseteq StreamSender
      BY <3>1, <3>2 DEF TypeOK
    <3> QED BY <1>5, <2>1, <3>1, <3>6, <3>7, <3>8, <3>9 DEF RunAddVideoSource, TypeOK
  <2> QED BY <2>2, <2>3
<1>6. CASE RunRemoveVideoSource
  <2> DEFINE source == Head(tasks).source
             id == StreamOf[source]
  <2>1. source \in Sources /\ id \in Streams /\ tasks # <<>>
    BY <1>6, HeadTask, StreamOfAssumption DEF RunRemoveVideoSource, Running
  <2>2. CASE source \notin video_sources
    <3>1. Finish(<<>>) /\ <<>> \in Seq(Task)
      BY <1>6, <2>2 DEF RunRemoveVideoSource
    <3> QED BY <1>6, <2>1, <2>2, <3>1, FinishType DEF RunRemoveVideoSource, TypeOK
  <2>3. CASE source \in video_sources
    <3>1. PICK i \in StreamsWithId(id) :
            /\ video_send_streams' = RemoveAt(video_send_streams, i)
            /\ key_requests' = key_requests \ {video_send_streams[i].addr}
            /\ video_stream_senders' = {r \in video_stream_senders : r.id # id}
            /\ video_sources' = video_sources \ {source}
            /\ Finish(<<[what |-> "Stop"]>>)
      BY <1>6, <2>3 DEF RunRemoveVideoSource, EraseSendStream,
                        RemoveVideoStreamSender
    <3>2. video_send_streams' \in Seq(SendStream)
      BY <3>1, RemoveAtElements DEF TypeOK, StreamsWithId
    <3>3. <<[what |-> "Stop"]>> \in Seq(Task)
      BY DEF Task, PlainTask
    <3>4. tasks' \in Seq(Task)
      BY <2>1, <3>1, <3>3, FinishType
    <3> QED BY <1>6, <3>1, <3>2, <3>4 DEF RunRemoveVideoSource, TypeOK
  <2> QED BY <2>2, <2>3
<1>7. CASE RunAddEncodedVideoSink
  <2> DEFINE sink == Head(tasks).sink
             id == Head(tasks).id
  <2>1. sink \in Sinks /\ id \in Streams /\ tasks # <<>>
    BY <1>7, HeadTask DEF RunAddEncodedVideoSink, Running
  <2>2. PICK r \in GetVideoStreamSender(id) :
          video_stream_senders' = (video_stream_senders \ {r})
                                    \cup {[r EXCEPT !.sinks = @ \cup {sink}]}
    BY <1>7 DEF RunAddEncodedVideoSink
  <2>3. r \in StreamSender
    BY <2>1, GetVideoStreamSenderResult
  <2>4. [r EXCEPT !.sinks = @ \cup {sink}] \in StreamSender
    BY <2>1, <2>3 DEF StreamSender
  <2>5. \A posted \in StartTasks(id) : posted \in Seq(Task)
    <3>1. \A i \in StreamsWithId(id) :
            [what |-> "Start", addr |-> video_send_streams[i].addr] \in Task
      BY StreamElement DEF StreamsWithId
    <3>2. \A i \in StreamsWithId(id) :
            <<[what |-> "Start", addr |-> video_send_streams[i].addr]>> \in Seq(Task)
      BY <3>1
    <3> QED BY <3>2 DEF StartTasks
  <2>6. tasks' \in Seq(Task)
    <3>1. CASE Finish(<<>>)
      <4>1. <<>> \in Seq(Task)
        OBVIOUS
      <4> QED BY <2>1, <3>1, <4>1, FinishType
    <3>2. CASE \E posted \in StartTasks(id) : Finish(posted)
      BY <2>1, <2>5, <3>2, FinishType
    <3> QED BY <1>7, <3>1, <3>2 DEF RunAddEncodedVideoSink
  <2> QED BY <1>7, <2>2, <2>4, <2>6 DEF RunAddEncodedVideoSink, TypeOK
<1>8. CASE RunRemoveEncodedVideoSink
  <2> DEFINE sink == Head(tasks).sink
  <2>1. tasks # <<>>
    BY <1>8 DEF RunRemoveEncodedVideoSink, Running
  <2>6. CASE crashed'
    <3>1. crashed' \in BOOLEAN
      BY <1>8 DEF RunRemoveEncodedVideoSink, TypeOK
    <3>2. UNCHANGED <<tasks, video_sources, video_send_streams,
                      video_stream_senders, source_sinks, key_requests, client_sinks>>
      BY <1>8, <2>6 DEF RunRemoveEncodedVideoSink, Running
    <3> QED BY <3>1, <3>2 DEF TypeOK
  <2>7. CASE ~crashed'
    <3>1. video_stream_senders' = RemoveVideoSink(sink)
      BY <1>8, <2>7 DEF RunRemoveEncodedVideoSink
    <3>2. \A r \in video_stream_senders :
            [r EXCEPT !.sinks = @ \ {sink}] \in StreamSender
      BY DEF TypeOK, StreamSender
    <3>3. <<[what |-> "Stop"]>> \in Seq(Task) /\ <<>> \in Seq(Task)
      BY DEF Task, PlainTask
    <3>4. tasks' \in Seq(Task)
      BY <1>8, <2>1, <2>7, <3>3, FinishType DEF RunRemoveEncodedVideoSink
    <3>5. video_stream_senders' \subseteq StreamSender
      BY <3>1, <3>2 DEF RemoveVideoSink
    <3> QED BY <1>8, <3>4, <3>5 DEF RunRemoveEncodedVideoSink, TypeOK
  <2> QED BY <2>6, <2>7
<1>9. CASE RunRequestKeyFrame
  <2>1. KeyFrameTasks \in Seq(Task)
    <3>1. \A i \in 1..Len(video_send_streams) :
            [what |-> "SendKeyFrame", addr |-> video_send_streams[i].addr] \in Task
      BY StreamElement
    <3>2. Len(video_send_streams) \in Nat
      BY DEF TypeOK
    <3> QED BY <3>1, <3>2 DEF KeyFrameTasks
  <2> QED BY <1>9, <2>1, FinishType DEF RunRequestKeyFrame, Running, TypeOK
<1>10. CASE RunSendKeyFrame
  <2>1. <<>> \in Seq(Task)
    OBVIOUS
  <2> QED BY <1>10, <2>1, FinishType, LiveStreamAddrsType
          DEF RunSendKeyFrame, Running, TypeOK
<1>11. CASE RunStartOrStop
  <2>1. <<>> \in Seq(Task)
    OBVIOUS
  <2> QED BY <1>11, <2>1, FinishType DEF RunStartOrStop, Running, TypeOK
<1>12. ASSUME NEW addr \in StreamAddrs, EncoderTakesKeyRequest(addr)
       PROVE TypeOK'
  BY <1>12 DEF EncoderTakesKeyRequest, TypeOK
<1>13. CASE UNCHANGED vars
  BY <1>13 DEF vars, TypeOK
<1> QED
  BY <1>1, <1>2, <1>3, <1>4, <1>5, <1>6, <1>7, <1>8, <1>9, <1>10, <1>11, <1>12,
     <1>13 DEF Next, Client, RunTask
-----------------------------------------------------------------------------
(* The worker's lists.                                                      *)

Lists == SourcesMatchStreams /\ SendersLive /\ SendersUnique

ListVars == <<video_sources, video_send_streams, video_stream_senders>>

\* Steps that touch none of the three lists.
LEMMA OtherSteps ==
  ASSUME [Next]_vars,
         ~RunAddVideoSource, ~RunRemoveVideoSource,
         ~RunAddEncodedVideoSink, ~RunRemoveEncodedVideoSink
  PROVE  UNCHANGED ListVars
BY DEF Next, Client, RunTask, vars, ListVars, PostSource, PostAddSink,
       PostRemoveSink, PostRequestKeyFrame, Post, RunRequestKeyFrame,
       RunSendKeyFrame, RunStartOrStop, EncoderTakesKeyRequest

\* What a first AddVideoSource of a source does to the lists.
LEMMA AddVideoSourceEffect ==
  ASSUME TypeOK, Lists, RunAddVideoSource
  PROVE  \/ UNCHANGED ListVars
         \/ \E source \in Sources \ video_sources, addr \in StreamAddrs :
            \E r \in GetVideoStreamSender(StreamOf[source]) :
              /\ video_sources' = video_sources \cup {source}
              /\ video_stream_senders' = video_stream_senders \cup {r}
              /\ video_send_streams' = Append(video_send_streams,
                   [id |-> StreamOf[source], addr |-> addr, sender |-> r.addr])
<1>1. Head(tasks).source \in Sources
  BY HeadTask DEF RunAddVideoSource, Running
<1>2. CASE Head(tasks).source \in video_sources
  BY <1>2 DEF RunAddVideoSource, AlreadyAdded, ListVars
<1>3. CASE Head(tasks).source \notin video_sources
  BY <1>1, <1>3 DEF RunAddVideoSource, AlreadyAdded
<1> QED BY <1>2, <1>3

\* What RemoveVideoSource of a known source does to the lists.
LEMMA RemoveVideoSourceEffect ==
  ASSUME TypeOK, Lists, RunRemoveVideoSource
  PROVE  \/ UNCHANGED ListVars
         \/ \E source \in video_sources, i \in 1..Len(video_send_streams) :
              /\ video_send_streams[i].id = StreamOf[source]
              /\ video_send_streams' = RemoveAt(video_send_streams, i)
              /\ video_stream_senders' =
                   {r \in video_stream_senders : r.id # StreamOf[source]}
              /\ video_sources' = video_sources \ {source}
<1>1. CASE Head(tasks).source \notin video_sources
  BY <1>1 DEF RunRemoveVideoSource, ListVars
<1>2. CASE Head(tasks).source \in video_sources
  BY <1>2 DEF RunRemoveVideoSource, StreamsWithId, EraseSendStream,
              RemoveVideoStreamSender
<1> QED BY <1>1, <1>2

\* Adding a sink replaces or adds one sender.
LEMMA AddSinkEffect ==
  ASSUME TypeOK, RunAddEncodedVideoSink
  PROVE  \E sink \in Sinks, id \in Streams : \E r \in GetVideoStreamSender(id) :
           /\ video_stream_senders' = (video_stream_senders \ {r})
                                \cup {[r EXCEPT !.sinks = @ \cup {sink}]}
           /\ UNCHANGED <<video_sources, video_send_streams>>
<1>1. Head(tasks).sink \in Sinks /\ Head(tasks).id \in Streams
  BY HeadTask DEF RunAddEncodedVideoSink, Running
<1> QED BY <1>1 DEF RunAddEncodedVideoSink

\* Removing a sink takes it from every sender, unless the process ends.
LEMMA RemoveSinkEffect ==
  ASSUME TypeOK, RunRemoveEncodedVideoSink
  PROVE  \/ UNCHANGED ListVars
         \/ \E sink \in Sinks :
              /\ video_stream_senders' =
                   {[r EXCEPT !.sinks = @ \ {sink}] : r \in video_stream_senders}
              /\ UNCHANGED <<video_sources, video_send_streams>>
<1>1. Head(tasks).sink \in Sinks
  BY HeadTask DEF RunRemoveEncodedVideoSink, Running
<1>2. CASE crashed'
  BY <1>2 DEF RunRemoveEncodedVideoSink, Running, ListVars
<1>3. CASE ~crashed'
  <2>1. /\ video_stream_senders' =
             {[r EXCEPT !.sinks = @ \ {Head(tasks).sink}] : r \in video_stream_senders}
        /\ UNCHANGED <<video_sources, video_send_streams>>
    BY <1>3 DEF RunRemoveEncodedVideoSink, RemoveVideoSink
  <2> QED BY <1>1, <2>1
<1> QED BY <1>2, <1>3

\* The stream list read as a set.
LEMMA StreamSet ==
  ASSUME TypeOK
  PROVE  /\ ToSet(video_send_streams) =
              {video_send_streams[i] : i \in 1..Len(video_send_streams)}
         /\ ToSet(video_send_streams) \subseteq SendStream
<1>1. DOMAIN video_send_streams = 1..Len(video_send_streams)
  BY DEF TypeOK
<1> QED BY <1>1, StreamElement DEF ToSet

\* The lists stay in step with each other.
LEMMA ListsStep == TypeOK /\ Lists /\ [Next]_vars => Lists'
<1> SUFFICES ASSUME TypeOK, Lists, [Next]_vars PROVE Lists'
  OBVIOUS
<1>0. CASE UNCHANGED ListVars
  BY <1>0 DEF ListVars, Lists, SourcesMatchStreams, SendersLive, SendersUnique
<1>1. CASE RunAddVideoSource
  <2> SUFFICES
        ASSUME NEW source \in Sources \ video_sources, NEW addr \in StreamAddrs,
               NEW r \in GetVideoStreamSender(StreamOf[source]),
               video_sources' = video_sources \cup {source},
               video_stream_senders' = video_stream_senders \cup {r},
               video_send_streams' = Append(video_send_streams,
                 [id |-> StreamOf[source], addr |-> addr, sender |-> r.addr])
        PROVE  Lists'
    BY <1>0, <1>1, AddVideoSourceEffect
  <2> DEFINE id == StreamOf[source]
             new == [id |-> id, addr |-> addr, sender |-> r.addr]
  <2>1. id \in Streams /\ new \in SendStream
    BY StreamOfAssumption, GetVideoStreamSenderResult DEF SendStream, StreamSender
  <2>2. ToSet(video_send_streams') = ToSet(video_send_streams) \cup {new}
    BY <2>1, AppendSet DEF TypeOK
  <2>3. \A i \in 1..Len(video_send_streams) : video_send_streams[i].id # id
    <3> SUFFICES ASSUME NEW i \in 1..Len(video_send_streams),
                        video_send_streams[i].id = id
                 PROVE  FALSE
      OBVIOUS
    <3>1. video_send_streams[i] \in ToSet(video_send_streams)
      BY StreamSet
    <3>2. PICK v \in video_sources : StreamOf[v] = id
      BY <3>1 DEF Lists, SourcesMatchStreams
    <3> QED BY <3>2, StreamOfAssumption DEF TypeOK
  <2>4. SourcesMatchStreams'
    <3>1. /\ \A v \in video_sources' :
               \E s \in ToSet(video_send_streams') : s.id = StreamOf[v]
          /\ \A s \in ToSet(video_send_streams') :
               \E v \in video_sources' : s.id = StreamOf[v]
      BY <2>2 DEF Lists, SourcesMatchStreams
    <3>2. /\ Len(video_send_streams') = Len(video_send_streams) + 1
          /\ \A i \in 1..Len(video_send_streams) :
               video_send_streams'[i] = video_send_streams[i]
          /\ video_send_streams'[Len(video_send_streams) + 1] = new
      BY <2>1 DEF TypeOK
    <3>3. \A i, j \in 1..Len(video_send_streams') :
            video_send_streams'[i].id = video_send_streams'[j].id => i = j
      BY <2>3, <3>2 DEF Lists, SourcesMatchStreams, TypeOK
    <3> QED BY <3>1, <3>3 DEF SourcesMatchStreams
  <2>5. SendersLive'
    BY <2>1, <2>2, GetVideoStreamSenderResult DEF Lists, SendersLive
  <2>6. SendersUnique'
    BY <2>1, GetVideoStreamSenderResult DEF Lists, SendersUnique
  <2> QED BY <2>4, <2>5, <2>6 DEF Lists
<1>2. CASE RunRemoveVideoSource
  <2> SUFFICES
        ASSUME NEW source \in video_sources, NEW i \in 1..Len(video_send_streams),
               video_send_streams[i].id = StreamOf[source],
               video_send_streams' = RemoveAt(video_send_streams, i),
               video_stream_senders' =
                 {r \in video_stream_senders : r.id # StreamOf[source]},
               video_sources' = video_sources \ {source}
        PROVE  Lists'
    BY <1>0, <1>2, RemoveVideoSourceEffect
  <2>1. ToSet(video_send_streams') =
          {video_send_streams[j] : j \in (1..Len(video_send_streams)) \ {i}}
    BY RemoveAtSet DEF TypeOK
  <2>2. \A s \in ToSet(video_send_streams') :
          s \in ToSet(video_send_streams) /\ s.id # StreamOf[source]
    BY <2>1, StreamSet DEF Lists, SourcesMatchStreams
  <2>3. SourcesMatchStreams'
    <3>1. ASSUME NEW v \in video_sources'
          PROVE  \E s \in ToSet(video_send_streams') : s.id = StreamOf[v]
      <4>1. v \in video_sources /\ StreamOf[v] # StreamOf[source]
        BY StreamOfAssumption DEF TypeOK
      <4>2. PICK j \in 1..Len(video_send_streams) :
              video_send_streams[j].id = StreamOf[v]
        BY <4>1, StreamSet DEF Lists, SourcesMatchStreams
      <4>3. j # i
        BY <4>1, <4>2
      <4> QED BY <2>1, <4>2, <4>3
    <3>2. ASSUME NEW s \in ToSet(video_send_streams')
          PROVE  \E v \in video_sources' : s.id = StreamOf[v]
      BY <2>2 DEF Lists, SourcesMatchStreams
    <3>4. /\ Len(video_send_streams') = Len(video_send_streams) - 1
          /\ \A j \in 1..(Len(video_send_streams) - 1) :
               video_send_streams'[j] =
                 IF j < i THEN video_send_streams[j] ELSE video_send_streams[j + 1]
      BY RemoveAtElements DEF TypeOK
    <3>5. ASSUME NEW j \in 1..Len(video_send_streams'),
                 NEW k \in 1..Len(video_send_streams'),
                 video_send_streams'[j].id = video_send_streams'[k].id
          PROVE  j = k
      <4> DEFINE shift(n) == IF n < i THEN n ELSE n + 1
      <4>1. /\ shift(j) \in 1..Len(video_send_streams)
            /\ shift(k) \in 1..Len(video_send_streams)
        BY <3>4 DEF TypeOK
      <4>2. /\ video_send_streams'[j] = video_send_streams[shift(j)]
            /\ video_send_streams'[k] = video_send_streams[shift(k)]
        BY <3>4
      <4>3. shift(j) = shift(k)
        BY <3>5, <4>1, <4>2 DEF Lists, SourcesMatchStreams
      <4> QED BY <4>3, <3>4 DEF TypeOK
    <3> QED BY <3>1, <3>2, <3>5 DEF SourcesMatchStreams
  <2>4. SendersLive'
    BY <2>2 DEF Lists, SendersLive
  <2>5. SendersUnique'
    BY DEF Lists, SendersUnique
  <2> QED BY <2>3, <2>4, <2>5 DEF Lists
<1>3. CASE RunAddEncodedVideoSink
  <2>1. PICK sink \in Sinks, id \in Streams : \E r \in GetVideoStreamSender(id) :
           /\ video_stream_senders' = (video_stream_senders \ {r})
                                \cup {[r EXCEPT !.sinks = @ \cup {sink}]}
           /\ UNCHANGED <<video_sources, video_send_streams>>
    BY <1>3, AddSinkEffect
  <2>2. PICK r \in GetVideoStreamSender(id) :
           /\ video_stream_senders' = (video_stream_senders \ {r})
                                \cup {[r EXCEPT !.sinks = @ \cup {sink}]}
           /\ UNCHANGED <<video_sources, video_send_streams>>
    BY <2>1
  <2> DEFINE new == [r EXCEPT !.sinks = @ \cup {sink}]
  <2>3. /\ r \in StreamSender
        /\ r.id = id
        /\ \/ r \in video_stream_senders
           \/ \A q \in video_stream_senders : q.id # id /\ q.addr # r.addr
    BY GetVideoStreamSenderResult
  <2>4. /\ new.id = r.id /\ new.addr = r.addr
        /\ video_stream_senders' = (video_stream_senders \ {r}) \cup {new}
    BY <2>2, <2>3 DEF StreamSender
  <2> HIDE DEF new
  <2>5. SourcesMatchStreams'
    BY <2>2 DEF Lists, SourcesMatchStreams
  <2>6. SendersLive'
    BY <2>2, <2>3, <2>4 DEF Lists, SendersLive
  <2>7. SendersUnique'
    BY <2>3, <2>4 DEF Lists, SendersUnique
  <2> QED BY <2>5, <2>6, <2>7 DEF Lists
<1>4. CASE RunRemoveEncodedVideoSink /\ ~UNCHANGED ListVars
  <2>0. RunRemoveEncodedVideoSink /\ ~UNCHANGED ListVars
    BY <1>4
  <2>1. PICK sink \in Sinks :
           /\ video_stream_senders' =
                {[r EXCEPT !.sinks = @ \ {sink}] : r \in video_stream_senders}
           /\ UNCHANGED <<video_sources, video_send_streams>>
    BY <1>0, <1>4, <2>0, RemoveSinkEffect
  <2> DEFINE less(r) == [r EXCEPT !.sinks = @ \ {sink}]
  <2>2. \A r \in video_stream_senders :
          less(r).id = r.id /\ less(r).addr = r.addr
    BY DEF TypeOK, StreamSender
  <2>3. video_stream_senders' = {less(r) : r \in video_stream_senders}
    BY <2>1
  <2> HIDE DEF less
  <2>4. SourcesMatchStreams'
    BY <2>1 DEF Lists, SourcesMatchStreams
  <2>5. SendersLive'
    BY <2>1, <2>2, <2>3 DEF Lists, SendersLive
  <2>6. SendersUnique'
    BY <2>2, <2>3 DEF Lists, SendersUnique
  <2> QED BY <2>4, <2>5, <2>6 DEF Lists
<1> QED BY <1>0, <1>1, <1>2, <1>3, <1>4, OtherSteps
-----------------------------------------------------------------------------
(* The tasks that add and remove sinks.                                     *)

\* What a step may add to the routing, and what a removal leaves of it.
LEMMA RouteStep ==
  ASSUME TypeOK, Lists, [Next]_vars, NEW p \in route'
  PROVE  /\ \/ p \in route
            \/ RunAddEncodedVideoSink /\ Head(tasks) = AddTask(p)
         /\ RunRemoveEncodedVideoSink /\ ~crashed' => p[2] # Head(tasks).sink
<1>p. p \in Streams \X Sinks
  BY DEF route
<1>0. CASE UNCHANGED ListVars /\ ~RunRemoveEncodedVideoSink
  BY <1>0 DEF ListVars, route
<1>1. CASE RunAddVideoSource
  <2>0. ~RunRemoveEncodedVideoSink
    BY <1>1 DEF RunAddVideoSource, RunRemoveEncodedVideoSink, Running
  <2>1. CASE UNCHANGED ListVars
    BY <1>0, <2>0, <2>1
  <2>2. CASE ~UNCHANGED ListVars
    <3>1. PICK source \in Sources : \E r \in GetVideoStreamSender(StreamOf[source]) :
            video_stream_senders' = video_stream_senders \cup {r}
      BY <1>1, <2>2, AddVideoSourceEffect
    <3>2. PICK r \in GetVideoStreamSender(StreamOf[source]) :
            video_stream_senders' = video_stream_senders \cup {r}
      BY <3>1
    <3>3. r \in video_stream_senders \/ r.sinks = {}
      BY StreamOfAssumption, GetVideoStreamSenderResult
    <3>4. p \in route
      BY <3>2, <3>3 DEF route
    <3> QED BY <2>0, <3>4
  <2> QED BY <2>1, <2>2
<1>2. CASE RunRemoveVideoSource
  <2>0. ~RunRemoveEncodedVideoSink
    BY <1>2 DEF RunRemoveVideoSource, RunRemoveEncodedVideoSink, Running
  <2>1. video_stream_senders' \subseteq video_stream_senders
    BY <1>2, RemoveVideoSourceEffect DEF ListVars
  <2>2. p \in route
    BY <2>1 DEF route
  <2> QED BY <2>0, <2>2
<1>3. CASE RunAddEncodedVideoSink
  <2> DEFINE sink == Head(tasks).sink
             id == Head(tasks).id
  <2>0. ~RunRemoveEncodedVideoSink
    BY <1>3 DEF RunAddEncodedVideoSink, RunRemoveEncodedVideoSink, Running
  <2>1. /\ sink \in Sinks /\ id \in Streams
        /\ Head(tasks) \in Task /\ Head(tasks).what = "AddEncodedVideoSink"
    BY <1>3, HeadTask DEF RunAddEncodedVideoSink, Running
  <2>2. Head(tasks) = [what |-> "AddEncodedVideoSink", sink |-> sink, id |-> id]
    BY <2>1 DEF Task, SourceTask, SinkTask, StreamTask, PlainTask
  <2>3. PICK r \in GetVideoStreamSender(id) :
          video_stream_senders' = (video_stream_senders \ {r})
                                    \cup {[r EXCEPT !.sinks = @ \cup {sink}]}
    BY <1>3 DEF RunAddEncodedVideoSink
  <2>4. r \in StreamSender /\ r.id = id /\ (r \in video_stream_senders \/ r.sinks = {})
    BY <2>1, GetVideoStreamSenderResult
  <2>5. PICK q \in video_stream_senders' : q.id = p[1] /\ p[2] \in q.sinks
    BY DEF route
  <2>6. CASE q \in video_stream_senders
    BY <1>p, <2>0, <2>5, <2>6 DEF route
  <2>7. CASE q = [r EXCEPT !.sinks = @ \cup {sink}]
    <3>1. q.id = id /\ q.sinks = r.sinks \cup {sink}
      BY <2>4, <2>7 DEF StreamSender
    <3>2. CASE p[2] \in r.sinks
      <4>1. p \in route
        BY <1>p, <2>4, <2>5, <3>1, <3>2 DEF route
      <4> QED BY <2>0, <4>1
    <3>3. CASE p[2] = sink
      BY <1>3, <2>0, <2>2, <2>5, <3>1, <3>3 DEF AddTask
    <3> QED BY <2>5, <3>1, <3>2, <3>3
  <2> QED BY <2>3, <2>5, <2>6, <2>7
<1>4. CASE RunRemoveEncodedVideoSink /\ crashed'
  BY <1>4 DEF RunRemoveEncodedVideoSink, Running, route
<1>5. CASE RunRemoveEncodedVideoSink /\ ~crashed'
  <2> DEFINE less(r) == [r EXCEPT !.sinks = @ \ {Head(tasks).sink}]
  <2>1. video_stream_senders' = {less(r) : r \in video_stream_senders}
    BY <1>5 DEF RunRemoveEncodedVideoSink, RemoveVideoSink
  <2>2. \A r \in video_stream_senders :
          less(r).id = r.id /\ less(r).sinks = r.sinks \ {Head(tasks).sink}
    BY DEF TypeOK, StreamSender
  <2> HIDE DEF less
  <2>3. PICK r \in video_stream_senders : r.id = p[1] /\ p[2] \in less(r).sinks
    BY <2>1, <2>2 DEF route
  <2> QED BY <1>p, <2>2, <2>3 DEF route
<1> QED BY <1>0, <1>1, <1>2, <1>3, <1>4, <1>5, OtherSteps

\* A step that runs a task, without the process ending, takes it from the
\* front and posts tasks about no sink.
LEMMA TaskRuns ==
  ASSUME TypeOK, RunTask, ~(RunRemoveEncodedVideoSink /\ crashed')
  PROVE  /\ tasks # <<>>
         /\ UNCHANGED client_sinks
         /\ \E posted \in Seq(StreamTask \cup PlainTask) : Finish(posted)
<1> DEFINE Q == Seq(StreamTask \cup PlainTask)
<1>1. tasks # <<>> /\ UNCHANGED client_sinks
  BY DEF RunTask, Running, RunAddVideoSource, RunRemoveVideoSource,
         RunAddEncodedVideoSink, RunRemoveEncodedVideoSink, RunRequestKeyFrame,
         RunSendKeyFrame, RunStartOrStop
<1>2. /\ <<>> \in Q
      /\ <<[what |-> "Stop"]>> \in Q
      /\ \A a \in StreamAddrs : <<[what |-> "Start", addr |-> a]>> \in Q
  BY DEF StreamTask, PlainTask
<1>3. \A i \in 1..Len(video_send_streams) :
        [what |-> "SendKeyFrame", addr |-> video_send_streams[i].addr] \in StreamTask
  BY StreamElement DEF StreamTask
<1>4. KeyFrameTasks \in Q
  <2>1. Len(video_send_streams) \in Nat
    BY DEF TypeOK
  <2> QED BY <1>3, <2>1 DEF KeyFrameTasks
<1>5. \A id \in Streams : StartTasks(id) \subseteq Q
  BY <1>2, StreamElement DEF StartTasks, StreamsWithId
<1> HIDE DEF Q
<1>6. \E posted \in Q : Finish(posted)
  <2>1. CASE RunAddVideoSource
    BY <1>2, <2>1 DEF RunAddVideoSource
  <2>2. CASE RunRemoveVideoSource
    BY <1>2, <2>2 DEF RunRemoveVideoSource
  <2>3. CASE RunAddEncodedVideoSink
    <3>1. Head(tasks).id \in Streams
      BY <2>3, HeadTask DEF RunAddEncodedVideoSink, Running
    <3> QED BY <1>2, <1>5, <2>3, <3>1 DEF RunAddEncodedVideoSink
  <2>4. CASE RunRemoveEncodedVideoSink
    BY <1>2, <2>4 DEF RunRemoveEncodedVideoSink
  <2>5. CASE RunRequestKeyFrame
    BY <1>4, <2>5 DEF RunRequestKeyFrame
  <2>6. CASE RunSendKeyFrame
    BY <1>2, <2>6 DEF RunSendKeyFrame
  <2>7. CASE RunStartOrStop
    BY <1>2, <2>7 DEF RunStartOrStop
  <2> QED BY <2>1, <2>2, <2>3, <2>4, <2>5, <2>6, <2>7 DEF RunTask
<1> QED BY <1>1, <1>6 DEF Q

\* The queue after a handler that took its task from the front and posted
\* others: the tasks that waited are one place further on.
LEMMA QueueAfterRun ==
  ASSUME TypeOK, tasks # <<>>,
         NEW posted \in Seq(StreamTask \cup PlainTask), Finish(posted)
  PROVE  /\ Len(tasks) \in Nat /\ Len(tasks') \in Nat
         /\ Len(tasks) >= 1 /\ Len(tasks') >= Len(tasks) - 1
         /\ Head(tasks) = tasks[1]
         /\ \A j \in 2..Len(tasks) : tasks'[j - 1] = tasks[j]
         /\ \A i \in Len(tasks)..Len(tasks') : tasks'[i] \in StreamTask \cup PlainTask
<1> DEFINE S == StreamTask \cup PlainTask
           rest == Tail(tasks)
<1>1. tasks \in Seq(Task) /\ Len(tasks) >= 1 /\ Len(tasks) \in Nat
  BY DEF TypeOK
<1>2. /\ rest \in Seq(Task)
      /\ Len(rest) = Len(tasks) - 1
      /\ \A j \in 1..(Len(tasks) - 1) : rest[j] = tasks[j + 1]
      /\ Head(tasks) = tasks[1]
  BY <1>1
<1>3. posted \in Seq(Task)
  BY DEF Task
<1>4. tasks' = rest \o posted
  BY DEF Finish
<1> HIDE DEF rest
<1>5. Len(tasks') = Len(rest) + Len(posted) /\ Len(posted) \in Nat
  BY <1>2, <1>3, <1>4
<1>6. ASSUME NEW j \in 2..Len(tasks)
      PROVE  tasks'[j - 1] = tasks[j]
  <2>1. j - 1 \in 1..Len(rest) /\ (j - 1) + 1 = j
    BY <1>1, <1>2
  <2>2. tasks'[j - 1] = rest[j - 1]
    BY <1>2, <1>3, <1>4, <2>1
  <2> QED BY <1>2, <2>1, <2>2
<1>7. ASSUME NEW i \in Len(tasks)..Len(tasks')
      PROVE  tasks'[i] \in S
  <2>1. i - Len(rest) \in 1..Len(posted) /\ i \in Nat /\ i > Len(rest)
    BY <1>1, <1>2, <1>5
  <2>2. tasks'[i] = posted[i - Len(rest)]
    BY <1>2, <1>3, <1>4, <2>1
  <2>3. posted[i - Len(rest)] \in S
    BY <2>1
  <2> QED BY <2>2, <2>3
<1> QED BY <1>1, <1>2, <1>5, <1>6, <1>7

\* A task that a stream or the worker posts is about no sink.
LEMMA NotAboutSinks ==
  ASSUME NEW task \in StreamTask \cup PlainTask, NEW p
  PROVE  task # AddTask(p) /\ task # RemovalTask(p)
BY DEF StreamTask, PlainTask, AddTask, RemovalTask

\* What waits keeps agreeing with what the clients have asked for.
LEMMA RemovalsStep == TypeOK /\ Lists /\ RemovalsFollow /\ [Next]_vars => RemovalsFollow'
<1> SUFFICES ASSUME TypeOK, Lists, RemovalsFollow, [Next]_vars,
                    NEW p \in (Streams \X Sinks) \ client_sinks'
             PROVE  /\ p \in route' => RemovedAfter(p, 0)'
                    /\ \A i \in 1..Len(tasks') : tasks'[i] = AddTask(p)
                          => RemovedAfter(p, i)'
  BY DEF RemovalsFollow
<1>1. CASE Client
  <2>1. PICK task \in Task :
           /\ Post(task)
           /\ \/ /\ task.what \in {"AddVideoSource", "RemoveVideoSource",
                                  "RequestKeyFrame"}
                 /\ client_sinks' = client_sinks
              \/ \E k \in Sinks, id \in Streams :
                   /\ task = [what |-> "AddEncodedVideoSink", sink |-> k, id |-> id]
                   /\ client_sinks' = client_sinks \cup {<<id, k>>}
              \/ \E k \in Sinks, id \in Streams :
                   /\ task = [what |-> "RemoveEncodedVideoSink", sink |-> k, id |-> id]
                   /\ client_sinks' = client_sinks \ {<<id, k>>}
    <3>1. /\ \A s \in Sources, what \in {"AddVideoSource", "RemoveVideoSource"} :
               [what |-> what, source |-> s] \in Task
          /\ \A k \in Sinks, id \in Streams,
               what \in {"AddEncodedVideoSink", "RemoveEncodedVideoSink"} :
               [what |-> what, sink |-> k, id |-> id] \in Task
          /\ [what |-> "RequestKeyFrame"] \in Task
      BY DEF Task, SourceTask, SinkTask, PlainTask
    <3>2. CASE \E s \in Sources : PostSource(s)
      BY <3>1, <3>2 DEF PostSource
    <3>3. CASE \E k \in Sinks, id \in Streams : PostAddSink(k, id)
      BY <3>1, <3>3 DEF PostAddSink
    <3>4. CASE \E k \in Sinks, id \in Streams : PostRemoveSink(k, id)
      BY <3>1, <3>4 DEF PostRemoveSink
    <3>5. CASE PostRequestKeyFrame
      BY <3>1, <3>5 DEF PostRequestKeyFrame
    <3> QED BY <1>1, <3>2, <3>3, <3>4, <3>5 DEF Client
  <2>2. /\ Len(tasks) \in Nat
        /\ Len(tasks') = Len(tasks) + 1
        /\ \A j \in 1..Len(tasks) : tasks'[j] = tasks[j]
        /\ tasks'[Len(tasks) + 1] = task
    BY <2>1 DEF Post, TypeOK
  <2>3. route' = route
    BY <2>1 DEF Post, route
  <2>8. p = <<p[1], p[2]>>
    OBVIOUS
  <2>4. task # AddTask(p)
    BY <2>1, <2>8 DEF AddTask
  <2>5. p \notin client_sinks \/ task = RemovalTask(p)
    BY <2>1, <2>8 DEF RemovalTask
  <2>6. CASE p \notin client_sinks
    <3>1. /\ p \in route => RemovedAfter(p, 0)
          /\ \A i \in 1..Len(tasks) : tasks[i] = AddTask(p) => RemovedAfter(p, i)
      BY <2>6 DEF RemovalsFollow
    <3>2. \A n \in Nat : RemovedAfter(p, n) => RemovedAfter(p, n)'
      BY <2>2 DEF RemovedAfter, RemovalTask
    <3>3. \A i \in 1..Len(tasks') : tasks'[i] = AddTask(p) => i \in 1..Len(tasks)
      BY <2>2, <2>4
    <3> QED BY <2>2, <2>3, <3>1, <3>2, <3>3
  <2>7. CASE task = RemovalTask(p)
    <3>1. \A n \in 0..Len(tasks) : RemovedAfter(p, n)'
      BY <2>2, <2>7 DEF RemovedAfter, RemovalTask
    <3>2. \A i \in 1..Len(tasks') : tasks'[i] = AddTask(p) => i \in 1..Len(tasks)
      BY <2>2, <2>4
    <3> QED BY <2>2, <3>1, <3>2
  <2> QED BY <2>5, <2>6, <2>7
<1>2. CASE RunTask /\ ~(RunRemoveEncodedVideoSink /\ crashed')
  <2>1. /\ tasks # <<>> /\ client_sinks' = client_sinks
        /\ \E posted \in Seq(StreamTask \cup PlainTask) : Finish(posted)
    BY <1>2, TaskRuns
  <2>2. /\ Len(tasks) \in Nat /\ Len(tasks') \in Nat
        /\ Len(tasks) >= 1 /\ Len(tasks') >= Len(tasks) - 1
        /\ Head(tasks) = tasks[1]
        /\ \A j \in 2..Len(tasks) : tasks'[j - 1] = tasks[j]
        /\ \A i \in Len(tasks)..Len(tasks') : tasks'[i] \in StreamTask \cup PlainTask
    BY <2>1, QueueAfterRun
  <2>3. /\ p \in route => RemovedAfter(p, 0)
        /\ \A i \in 1..Len(tasks) : tasks[i] = AddTask(p) => RemovedAfter(p, i)
    BY <2>1 DEF RemovalsFollow
  <2>4. ASSUME NEW n \in 1..Len(tasks), RemovedAfter(p, n)
        PROVE  RemovedAfter(p, n - 1)'
    <3>1. PICK j \in (n + 1)..Len(tasks) : tasks[j] = RemovalTask(p)
      BY <2>4 DEF RemovedAfter
    <3>2. j \in 2..Len(tasks) /\ j - 1 \in ((n - 1) + 1)..Len(tasks')
      BY <2>2, <3>1
    <3>3. tasks'[j - 1] = RemovalTask(p)
      BY <2>2, <3>1, <3>2
    <3> QED BY <3>2, <3>3 DEF RemovedAfter, RemovalTask
  <2>5. ASSUME p \in route' PROVE RemovedAfter(p, 0)'
    <3>1. CASE Head(tasks) = AddTask(p)
      <4>1. RemovedAfter(p, 1)
        BY <2>2, <2>3, <3>1
      <4> QED BY <2>2, <2>4, <4>1
    <3>2. CASE Head(tasks) # AddTask(p)
      <4>1. p \in route
        BY <2>5, <3>2, RouteStep
      <4>2. Head(tasks) # RemovalTask(p)
        <5>1. SUFFICES ASSUME Head(tasks) = RemovalTask(p) PROVE FALSE
          OBVIOUS
        <5>2. Head(tasks).what = "RemoveEncodedVideoSink" /\ Head(tasks).sink = p[2]
          BY <5>1 DEF RemovalTask
        <5>3. RunRemoveEncodedVideoSink
          BY <1>2, <5>2 DEF RunTask, RunAddVideoSource, RunRemoveVideoSource,
               RunAddEncodedVideoSink, RunRequestKeyFrame, RunSendKeyFrame,
               RunStartOrStop, Running
        <5> QED BY <1>2, <2>5, <5>2, <5>3, RouteStep
      <4>3. PICK j \in 1..Len(tasks) : tasks[j] = RemovalTask(p)
        BY <2>3, <4>1 DEF RemovedAfter
      <4>4. j # 1
        BY <2>2, <4>2, <4>3
      <4>5. RemovedAfter(p, 1)
        BY <2>2, <4>3, <4>4 DEF RemovedAfter
      <4> QED BY <2>2, <2>4, <4>5
    <3> QED BY <3>1, <3>2
  <2>6. ASSUME NEW i \in 1..Len(tasks'), tasks'[i] = AddTask(p)
        PROVE  RemovedAfter(p, i)'
    <3>1. i + 1 \in 2..Len(tasks)
      <4>1. i \notin Len(tasks)..Len(tasks')
        BY <2>2, <2>6, NotAboutSinks
      <4> QED BY <2>2, <4>1
    <3>2. tasks[i + 1] = AddTask(p)
      <4>1. tasks'[(i + 1) - 1] = tasks[i + 1] /\ (i + 1) - 1 = i
        BY <2>2, <3>1
      <4> QED BY <2>6, <4>1
    <3>3. RemovedAfter(p, i + 1) /\ i + 1 \in 1..Len(tasks)
      BY <2>2, <2>3, <3>1, <3>2
    <3>4. RemovedAfter(p, (i + 1) - 1)'
      BY <2>4, <3>3
    <3>5. (i + 1) - 1 = i
      BY <2>2
    <3> QED BY <3>4, <3>5
  <2> QED BY <2>5, <2>6
<1>3. CASE UNCHANGED <<tasks, video_stream_senders, client_sinks>>
  BY <1>3 DEF RemovalsFollow, RemovedAfter, RemovalTask, AddTask, route
<1>4. CASE RunRemoveEncodedVideoSink /\ crashed'
  BY <1>3, <1>4 DEF RunRemoveEncodedVideoSink, Running
<1>5. CASE \E addr \in StreamAddrs : EncoderTakesKeyRequest(addr)
  BY <1>3, <1>5 DEF EncoderTakesKeyRequest
<1>6. CASE UNCHANGED vars
  BY <1>3, <1>6 DEF vars
<1> QED BY <1>1, <1>2, <1>4, <1>5, <1>6 DEF Next

-----------------------------------------------------------------------------
(* The invariants.                                                          *)

\* The initial values have the types TypeOK gives them.
LEMMA InitType == Init => TypeOK
<1>1. Init => crashed \in BOOLEAN
  BY DEF Init
<1>2. Init => /\ tasks \in Seq(Task)
              /\ video_sources \subseteq Sources
              /\ video_send_streams \in Seq(SendStream)
              /\ video_stream_senders \subseteq StreamSender
              /\ source_sinks \in [Sources -> SUBSET StreamAddrs]
              /\ key_requests \subseteq StreamAddrs
              /\ client_sinks \subseteq Streams \X Sinks
  BY DEF Init
<1> QED BY <1>1, <1>2 DEF TypeOK

\* The variables of the worker always have the types TypeOK gives them.
THEOREM TypeCorrect == Spec => []TypeOK
<1>1. Init => TypeOK
  BY InitType
<1> QED BY <1>1, TypeStep, PTL DEF Spec

\* The lists agree in every reachable state: this is the inductive invariant
\* from which the theorems below follow.
THEOREM ListsInvariant == Spec => []IInv
<1>1. Init => IInv
  <2> SUFFICES ASSUME Init PROVE IInv
    OBVIOUS
  <2>1. TypeOK
    BY InitType
  <2>2. ToSet(video_send_streams) = {}
    BY DEF Init, ToSet
  <2>3. SourcesMatchStreams
    BY <2>2 DEF Init, SourcesMatchStreams
  <2>4. RemovalsFollow
    BY DEF Init, RemovalsFollow, route
  <2> QED BY <2>1, <2>2, <2>3, <2>4 DEF Init, IInv, SendersLive, SendersUnique
<1>2. IInv /\ [Next]_vars => IInv'
  BY TypeStep, ListsStep, RemovalsStep DEF IInv, Lists
<1> QED BY <1>1, <1>2, PTL DEF Spec

\* A source has exactly one send stream, so the AVE_DCHECK of
\* RemoveVideoSource that looks the stream up by id cannot fail.
THEOREM SourcesAndStreamsInStep == Spec => []SourcesMatchStreams
BY ListsInvariant, PTL DEF IInv

\* No send stream ever holds a dangling pointer to its sender.
THEOREM NoDanglingSender == Spec => []SendersLive
BY ListsInvariant, PTL DEF IInv

\* GetVideoStreamSender never makes a second sender for a stream id.
THEOREM OneSenderPerStream == Spec => []SendersUnique
BY ListsInvariant, PTL DEF IInv

-----------------------------------------------------------------------------
(* Implementation of VideoRouting.                                          *)

\* What a send stream delivers is what is routed to its stream: the pointer
\* to the sender and the list of senders tell the same story.
LEMMA DeliveredFromLists == IInv => Delivered = Routing!Deliverable
<1> SUFFICES ASSUME IInv PROVE Delivered = Routing!Deliverable
  OBVIOUS
<1> USE DEF IInv
<1>1. ASSUME NEW p \in Delivered PROVE p \in Routing!Deliverable
  <2>1. PICK s \in ToSet(video_send_streams), r \in video_stream_senders :
          s.id = p[1] /\ r.addr = s.sender /\ p[2] \in r.sinks
    BY DEF Delivered
  <2>2. PICK q \in video_stream_senders : q.addr = s.sender /\ q.id = s.id
    BY DEF SendersLive
  <2>3. q = r
    BY <2>1, <2>2 DEF SendersUnique
  <2>4. p \in Streams \X Sinks
    BY DEF Delivered
  <2> QED BY <2>1, <2>2, <2>3, <2>4 DEF Routing!Deliverable, route, active
<1>2. ASSUME NEW p \in Routing!Deliverable PROVE p \in Delivered
  <2>1. p \in Streams \X Sinks
    BY DEF Routing!Deliverable, route
  <2>2. PICK r \in video_stream_senders : r.id = p[1] /\ p[2] \in r.sinks
    BY DEF Routing!Deliverable, route
  <2>3. PICK s \in ToSet(video_send_streams) : s.id = p[1]
    BY DEF Routing!Deliverable, active
  <2>4. PICK q \in video_stream_senders : q.addr = s.sender /\ q.id = s.id
    BY DEF SendersLive
  <2>5. q = r
    BY <2>2, <2>3, <2>4 DEF SendersUnique
  <2> QED BY <2>1, <2>2, <2>3, <2>4, <2>5 DEF Delivered
<1> QED BY <1>1, <1>2

\* An encoded image reaches the sinks routed to its stream and, of those, only
\* sinks that clients have added to it, or whose removal still waits.
THEOREM DeliveryAsAsked == Spec => []DeliveredAsAsked
<1>1. IInv => DeliveredAsAsked
  <2> SUFFICES ASSUME IInv PROVE DeliveredAsAsked
    OBVIOUS
  <2>1. Delivered = Routing!Deliverable
    BY DeliveredFromLists
  <2>2. ASSUME NEW p \in Delivered \ client_sinks
        PROVE  \E i \in 1..Len(tasks) : tasks[i] = RemovalTask(p)
    <3>1. p \in route /\ p \in (Streams \X Sinks) \ client_sinks
      BY <2>1 DEF Routing!Deliverable, route
    <3>2. RemovedAfter(p, 0)
      BY <3>1 DEF IInv, RemovalsFollow
    <3> QED BY <3>2 DEF RemovedAfter
  <2> QED BY <2>1, <2>2 DEF DeliveredAsAsked, RemovalTask
<1> QED BY <1>1, ListsInvariant, PTL

\* Every step of the worker is a step of VideoRouting or changes nothing a
\* client can see.
LEMMA RoutingStep == IInv /\ [Next]_vars => [Routing!Next]_(Routing!vars)
<1> SUFFICES ASSUME IInv, [Next]_vars PROVE [Routing!Next]_(Routing!vars)
  OBVIOUS
<1> USE DEF IInv
<1>a. Lists
  BY DEF Lists
<1>0. CASE UNCHANGED ListVars
  BY <1>0 DEF ListVars, Routing!vars, active, route
<1>1. CASE RunAddVideoSource
  <2> SUFFICES
        ASSUME NEW source \in Sources \ video_sources, NEW addr \in StreamAddrs,
               NEW r \in GetVideoStreamSender(StreamOf[source]),
               video_sources' = video_sources \cup {source},
               video_stream_senders' = video_stream_senders \cup {r},
               video_send_streams' = Append(video_send_streams,
                 [id |-> StreamOf[source], addr |-> addr, sender |-> r.addr])
        PROVE  Routing!Next
    BY <1>a, <1>0, <1>1, AddVideoSourceEffect
  <2> DEFINE id == StreamOf[source]
             new == [id |-> id, addr |-> addr, sender |-> r.addr]
  <2>1. id \in Streams /\ new \in SendStream
    BY StreamOfAssumption, GetVideoStreamSenderResult DEF SendStream, StreamSender
  <2>2. ToSet(video_send_streams') = ToSet(video_send_streams) \cup {new}
    BY <2>1, AppendSet DEF TypeOK
  <2>3. active' = active \cup {id}
    BY <2>2 DEF active
  <2>4. r \in video_stream_senders \/ r.sinks = {}
    BY <2>1, GetVideoStreamSenderResult
  <2>5. route' = route
    BY <2>4 DEF route
  <2> QED BY <2>1, <2>3, <2>5 DEF Routing!Next, Routing!AddSource
<1>2. CASE RunRemoveVideoSource
  <2> SUFFICES
        ASSUME NEW source \in video_sources, NEW i \in 1..Len(video_send_streams),
               video_send_streams[i].id = StreamOf[source],
               video_send_streams' = RemoveAt(video_send_streams, i),
               video_stream_senders' =
                 {r \in video_stream_senders : r.id # StreamOf[source]},
               video_sources' = video_sources \ {source}
        PROVE  Routing!Next
    BY <1>a, <1>0, <1>2, RemoveVideoSourceEffect
  <2> DEFINE id == StreamOf[source]
  <2>1. ToSet(video_send_streams') =
          {video_send_streams[j] : j \in (1..Len(video_send_streams)) \ {i}}
    BY RemoveAtSet DEF TypeOK
  <2>2. id \in Streams /\ id \in active
    BY StreamOfAssumption, StreamSet DEF TypeOK, active
  <2>3. \A s \in ToSet(video_send_streams') :
          s \in ToSet(video_send_streams) /\ s.id # id
    BY <2>1, StreamSet DEF SourcesMatchStreams
  <2>4. \A s \in ToSet(video_send_streams) :
          s.id # id => s \in ToSet(video_send_streams')
    BY <2>1, StreamSet
  <2>5. active' = active \ {id}
    BY <2>3, <2>4 DEF active
  <2>6. route' = route \ ({id} \X Sinks)
    <3>1. ASSUME NEW p \in route' PROVE p \in route /\ p \notin {id} \X Sinks
      BY DEF route
    <3>2. ASSUME NEW p \in route, p \notin {id} \X Sinks PROVE p \in route'
      <4>1. p \in Streams \X Sinks /\ p[1] # id
        BY <3>2 DEF route
      <4>2. PICK r \in video_stream_senders : r.id = p[1] /\ p[2] \in r.sinks
        BY DEF route
      <4>3. r \in video_stream_senders'
        BY <4>1, <4>2
      <4> QED BY <4>1, <4>2, <4>3 DEF route
    <3> QED BY <3>1, <3>2
  <2> QED BY <2>2, <2>5, <2>6 DEF Routing!Next, Routing!RemoveSource
<1>3. CASE RunAddEncodedVideoSink
  <2>1. PICK sink \in Sinks, id \in Streams : \E r \in GetVideoStreamSender(id) :
           /\ video_stream_senders' = (video_stream_senders \ {r})
                                \cup {[r EXCEPT !.sinks = @ \cup {sink}]}
           /\ UNCHANGED <<video_sources, video_send_streams>>
    BY <1>3, AddSinkEffect
  <2>2. PICK r \in GetVideoStreamSender(id) :
           /\ video_stream_senders' = (video_stream_senders \ {r})
                                \cup {[r EXCEPT !.sinks = @ \cup {sink}]}
           /\ UNCHANGED <<video_sources, video_send_streams>>
    BY <2>1
  <2> DEFINE new == [r EXCEPT !.sinks = @ \cup {sink}]
  <2>3. /\ r \in StreamSender
        /\ r.id = id
        /\ r \in video_stream_senders \/ r.sinks = {}
    BY GetVideoStreamSenderResult
  <2>4. /\ new.id = id /\ new.sinks = r.sinks \cup {sink}
        /\ video_stream_senders' = (video_stream_senders \ {r}) \cup {new}
    BY <2>2, <2>3 DEF StreamSender
  <2> HIDE DEF new
  <2>5. active' = active
    BY <2>2 DEF active
  <2>6. route' = route \cup {<<id, sink>>}
    <3>1. ASSUME NEW p \in Streams \X Sinks
          PROVE  p \in route' <=> p \in route \/ p = <<id, sink>>
      BY <2>3, <2>4 DEF route
    <3>2. route' \subseteq Streams \X Sinks /\ route \subseteq Streams \X Sinks
      BY DEF route
    <3> QED BY <3>1, <3>2
  <2> QED BY <2>5, <2>6 DEF Routing!Next, Routing!AddSink
<1>4. CASE RunRemoveEncodedVideoSink /\ ~UNCHANGED ListVars
  <2>0. RunRemoveEncodedVideoSink /\ ~UNCHANGED ListVars
    BY <1>4
  <2>1. PICK sink \in Sinks :
           /\ video_stream_senders' =
                {[r EXCEPT !.sinks = @ \ {sink}] : r \in video_stream_senders}
           /\ UNCHANGED <<video_sources, video_send_streams>>
    BY <1>0, <1>4, <2>0, RemoveSinkEffect
  <2> DEFINE less(r) == [r EXCEPT !.sinks = @ \ {sink}]
  <2>2. \A r \in video_stream_senders :
          less(r).id = r.id /\ less(r).sinks = r.sinks \ {sink}
    BY DEF TypeOK, StreamSender
  <2>3. video_stream_senders' = {less(r) : r \in video_stream_senders}
    BY <2>1
  <2> HIDE DEF less
  <2>4. active' = active
    BY <2>1 DEF active
  <2>5. route' = route \ (Streams \X {sink})
    <3>1. ASSUME NEW p \in Streams \X Sinks
          PROVE  p \in route' <=> p \in route /\ p[2] # sink
      BY <2>2, <2>3 DEF route
    <3>2. route' \subseteq Streams \X Sinks /\ route \subseteq Streams \X Sinks
      BY DEF route
    <3> QED BY <3>1, <3>2
  <2> QED BY <2>4, <2>5 DEF Routing!Next, Routing!RemoveSink
<1> QED BY <1>0, <1>1, <1>2, <1>3, <1>4, OtherSteps

\* The worker, with its queue, its three lists and its pointers, implements
\* the routing its clients are promised.
THEOREM ImplementsRouting == Spec => RoutingSpec
<1>1. Init => Routing!Init
  <2> SUFFICES ASSUME Init PROVE Routing!Init
    OBVIOUS
  <2>1. ToSet(video_send_streams) = {}
    BY DEF Init, ToSet
  <2> QED BY <2>1 DEF Init, Routing!Init, active, route
<1> QED BY <1>1, RoutingStep, ListsInvariant, PTL DEF Spec, RoutingSpec, Routing!Spec
=============================================================================
