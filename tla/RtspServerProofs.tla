-------------------------- MODULE RtspServerProofs --------------------------
(***************************************************************************)
(* Proofs about RtspServer under any owner: the chains of pulls.           *)
(*                                                                         *)
(* A pull that waits, is delayed or is still to come, because the request  *)
(* for its sink waits, is paid for by a request of the owner: a handler    *)
(* exchanges a request for a pull, and a pull for at most one delayed pull.*)
(***************************************************************************)
EXTENDS RtspServerOwner, Integers, FiniteSets, SequenceTheorems, FiniteSetTheorems, TLAPS

(***************************************************************************)
(* How many messages of a kind wait in a looper's queue, as messages are   *)
(* posted at its end and taken at its front.                               *)
(***************************************************************************)
Positions(queue, what) == {i \in DOMAIN queue : queue[i].what = what}
Waiting(queue, what) == Cardinality(Positions(queue, what))

\* What one message counts for.
One(msg, what) == IF msg.what = what THEN 1 ELSE 0

LEMMA WaitingIsNat ==
  ASSUME NEW M, NEW q \in Seq(M), NEW w
  PROVE  /\ IsFiniteSet(Positions(q, w))
         /\ Waiting(q, w) \in Nat
<1>1. DOMAIN q = 1..Len(q) /\ Len(q) \in Nat
  BY LenProperties
<1>2. IsFiniteSet(1..Len(q))
  BY <1>1, FS_Interval
<1>3. Positions(q, w) \in SUBSET (1..Len(q))
  BY <1>1 DEF Positions
<1>4. IsFiniteSet(Positions(q, w))
  BY <1>2, <1>3, FS_Subset
<1> QED
  BY <1>4, FS_CardinalityType DEF Waiting

LEMMA WaitingEmpty ==
  ASSUME NEW w
  PROVE  Waiting(<<>>, w) = 0
<1>1. Positions(<<>>, w) = {}
  BY DEF Positions
<1> QED
  BY <1>1, FS_EmptySet DEF Waiting

\* One message more at the end.
LEMMA WaitingAppend ==
  ASSUME NEW M, NEW q \in Seq(M), NEW m \in M, NEW w
  PROVE  Waiting(Append(q, m), w) = Waiting(q, w) + One(m, w)
<1> DEFINE n == Len(q) + 1
<1>1. /\ DOMAIN q = 1..Len(q) /\ Len(q) \in Nat
      /\ DOMAIN Append(q, m) = 1..n
      /\ \A i \in 1..Len(q) : Append(q, m)[i] = q[i]
      /\ Append(q, m)[n] = m
  BY AppendProperties, LenProperties
<1>2. IsFiniteSet(Positions(q, w)) /\ Waiting(q, w) \in Nat
  BY WaitingIsNat
<1>3. n \notin Positions(q, w)
  BY <1>1 DEF Positions
<1>4. CASE m.what = w
  <2>1. Positions(Append(q, m), w) = Positions(q, w) \cup {n}
    BY <1>1, <1>4 DEF Positions
  <2> QED
    BY <1>2, <1>3, <1>4, <2>1, FS_AddElement, ZenonT(60) DEF Waiting, One
<1>5. CASE m.what # w
  <2>1. Positions(Append(q, m), w) = Positions(q, w)
    BY <1>1, <1>5 DEF Positions
  <2> QED
    BY <1>2, <1>5, <2>1 DEF Waiting, One
<1> QED
  BY <1>4, <1>5

\* The first message taken: the others move up by one.
LEMMA WaitingTail ==
  ASSUME NEW M, NEW q \in Seq(M), q # <<>>, NEW w
  PROVE  Waiting(Tail(q), w) = Waiting(q, w) - One(Head(q), w)
<1> DEFINE before == Positions(q, w) \ {1}
           after == Positions(Tail(q), w)
<1>1. /\ DOMAIN q = 1..Len(q) /\ Len(q) \in Nat \ {0}
      /\ Tail(q) \in Seq(M)
      /\ DOMAIN Tail(q) = 1..(Len(q) - 1)
      /\ \A i \in 1..(Len(q) - 1) : Tail(q)[i] = q[i + 1]
      /\ Head(q) = q[1]
  BY LenProperties, HeadTailProperties, EmptySeq
<1>2. IsFiniteSet(Positions(q, w)) /\ Waiting(q, w) \in Nat
  BY WaitingIsNat
<1>3. IsFiniteSet(after) /\ Cardinality(after) \in Nat
  BY <1>1, WaitingIsNat DEF Waiting
<1>4. ExistsBijection(after, before)
  <2> DEFINE up == [i \in after |-> i + 1]
  <2>1. \A i \in after : i \in 1..(Len(q) - 1) /\ i + 1 \in before
    BY <1>1 DEF Positions
  <2>2. up \in [after -> before]
    BY <2>1
  <2>3. \A i, j \in after : up[i] = up[j] => i = j
    BY <2>1
  <2>4. \A k \in before : \E i \in after : up[i] = k
    <3> SUFFICES ASSUME NEW k \in before PROVE \E i \in after : up[i] = k
      OBVIOUS
    <3>1. k \in 2..Len(q) /\ q[k].what = w
      BY <1>1 DEF Positions
    <3>2. k - 1 \in after
      BY <1>1, <3>1 DEF Positions
    <3>3. up[k - 1] = k
      BY <3>1, <3>2
    <3> QED
      BY <3>2, <3>3
  <2> HIDE DEF up, before, after
  <2>5. up \in Injection(after, before)
    BY <2>2, <2>3 DEF Injection, IsInjective
  <2>6. up \in Surjection(after, before)
    BY <2>2, <2>4 DEF Surjection
  <2> QED
    BY <2>5, <2>6 DEF ExistsBijection, Bijection
<1>5. Cardinality(before) = Cardinality(after)
  BY <1>3, <1>4, FS_Bijection
<1>6. Cardinality(before) = IF 1 \in Positions(q, w) THEN Waiting(q, w) - 1 ELSE Waiting(q, w)
  BY <1>2, FS_RemoveElement DEF Waiting
<1>7. 1 \in Positions(q, w) <=> Head(q).what = w
  BY <1>1 DEF Positions
<1> QED
  BY <1>2, <1>3, <1>5, <1>6, <1>7 DEF Waiting, One

\* A turn of a looper: the first message is taken and others are posted.
LEMMA WaitingTurn ==
  ASSUME NEW M, NEW q \in Seq(M), q # <<>>, NEW m \in M, NEW w
  PROVE  /\ Tail(q) \o <<>> = Tail(q) /\ Tail(q) \o <<m>> = Append(Tail(q), m)
         /\ Tail(q) \in Seq(M) /\ Append(Tail(q), m) \in Seq(M)
         /\ Waiting(Tail(q), w) = Waiting(q, w) - One(Head(q), w)
         /\ Waiting(Append(Tail(q), m), w) = Waiting(q, w) - One(Head(q), w) + One(m, w)
<1>1. Tail(q) \in Seq(M)
  BY HeadTailProperties
<1>2. Tail(q) \o <<>> = Tail(q)
  BY <1>1, ConcatEmptySeq
<1>3. Tail(q) \o <<m>> = Append(Tail(q), m)
  BY <1>1, AppendIsConcat
<1>4. Append(Tail(q), m) \in Seq(M)
  BY <1>1, AppendProperties
<1>5. Waiting(Tail(q), w) = Waiting(q, w) - One(Head(q), w)
  BY WaitingTail
<1>6. Waiting(Append(Tail(q), m), w) = Waiting(Tail(q), w) + One(m, w)
  BY <1>1, WaitingAppend
<1> QED
  BY <1>1, <1>2, <1>3, <1>4, <1>5, <1>6

\* The same for a message of a known kind that is taken or posted.
LEMMA WaitingTaken ==
  ASSUME NEW M, NEW q \in Seq(M), q # <<>>
  PROVE  /\ Tail(q) \in Seq(M)
         /\ Waiting(q, Head(q).what) \in Nat \ {0}
         /\ \A w : Waiting(Tail(q), w) = IF w = Head(q).what THEN Waiting(q, w) - 1
                                         ELSE Waiting(q, w)
<1>1. Tail(q) \in Seq(M)
  BY HeadTailProperties
<1>2. \A w : Waiting(q, w) \in Nat /\ Waiting(Tail(q), w) \in Nat
  BY <1>1, WaitingIsNat
<1>3. \A w : Waiting(Tail(q), w) = Waiting(q, w) - One(Head(q), w)
  BY WaitingTail
<1>4. \A w : Waiting(Tail(q), w) = IF w = Head(q).what THEN Waiting(q, w) - 1 ELSE Waiting(q, w)
  BY <1>2, <1>3 DEF One
<1>5. Waiting(Tail(q), Head(q).what) = Waiting(q, Head(q).what) - 1
  BY <1>4
<1>6. Waiting(q, Head(q).what) \in Nat \ {0}
  BY <1>2, <1>5
<1> QED
  BY <1>1, <1>4, <1>6

LEMMA WaitingPosted ==
  ASSUME NEW M, NEW q \in Seq(M), NEW m \in M
  PROVE  /\ Append(q, m) \in Seq(M) /\ q \o <<m>> = Append(q, m)
         /\ \A w : Waiting(Append(q, m), w) = IF w = m.what THEN Waiting(q, w) + 1
                                              ELSE Waiting(q, w)
<1>1. \A w : Waiting(q, w) \in Nat
  BY WaitingIsNat
<1>2. \A w : Waiting(Append(q, m), w) = Waiting(q, w) + One(m, w)
  BY WaitingAppend
<1>3. \A w : Waiting(Append(q, m), w) = IF w = m.what THEN Waiting(q, w) + 1 ELSE Waiting(q, w)
  BY <1>1, <1>2 DEF One
<1>4. Append(q, m) \in Seq(M) /\ q \o <<m>> = Append(q, m)
  BY AppendProperties, AppendIsConcat
<1> QED
  BY <1>3, <1>4

-----------------------------------------------------------------------------
(* The pulls.                                                               *)

RequestOf(p) == IF p = "PullAudio" THEN "RequestAudioSink" ELSE "RequestVideoSink"

\* The pulls that will run, and those that a waiting request will start.
Coming(p) == rtsp_delayed[p] + Waiting(rtsp_looper, p) + Waiting(rtsp_looper, RequestOf(p))

OwnerTypeOK == TypeOK /\ requests \in [Pulls -> Nat]

PullInv == OwnerTypeOK /\ \A p \in Pulls : Coming(p) <= requests[p]

\* What a step may do to the pulls of one kind.
PullsPaid(p) ==
  /\ Coming(p)' - Coming(p) <= requests'[p] - requests[p]
  /\ started => Outstanding(p)' >= Outstanding(p)

LEMMA OutstandingIs ==
  ASSUME OwnerTypeOK, NEW p \in Pulls
  PROVE  /\ Outstanding(p) = rtsp_delayed[p] + Waiting(rtsp_looper, p)
         /\ rtsp_delayed[p] \in Nat
         /\ \A w : Waiting(rtsp_looper, w) \in Nat
         /\ requests[p] \in Nat
<1>1. Outstanding(p) = rtsp_delayed[p] + Waiting(rtsp_looper, p)
  BY DEF Outstanding, Waiting, Positions
<1>2. \A w : Waiting(rtsp_looper, w) \in Nat
  BY WaitingIsNat DEF OwnerTypeOK, TypeOK
<1> QED
  BY <1>1, <1>2 DEF OwnerTypeOK, TypeOK

\* A step that leaves the queue, the delays and the requests alone.
LEMMA QuietPaid ==
  ASSUME OwnerTypeOK, UNCHANGED <<rtsp_looper, rtsp_delayed, requests>>, NEW p \in Pulls
  PROVE  PullsPaid(p)
<1>1. /\ Outstanding(p) = rtsp_delayed[p] + Waiting(rtsp_looper, p)
      /\ Coming(p) \in Int /\ requests[p] \in Int
  BY OutstandingIs DEF Coming
<1>2. Outstanding(p) \in Int
  BY <1>1, OutstandingIs
<1>3. Outstanding(p)' = Outstanding(p) /\ Coming(p)' = Coming(p)
  BY DEF Outstanding, Coming
<1> QED
  BY <1>1, <1>2, <1>3 DEF PullsPaid

\* A message is posted: a request is counted by the owner.
LEMMA PostPaid ==
  ASSUME OwnerTypeOK, OwnerTypeOK', NEW p \in Pulls, NEW m \in RtspMessage,
         rtsp_looper' = Append(rtsp_looper, m),
         rtsp_delayed'[p] = rtsp_delayed[p] - One(m, p),
         requests'[p] = requests[p] + One(m, RequestOf(p))
  PROVE  PullsPaid(p)
<1>1. /\ Outstanding(p) = rtsp_delayed[p] + Waiting(rtsp_looper, p)
      /\ Outstanding(p)' = rtsp_delayed'[p] + Waiting(rtsp_looper', p)
      /\ rtsp_delayed[p] \in Nat /\ rtsp_delayed'[p] \in Nat
      /\ requests[p] \in Nat /\ requests'[p] \in Nat
      /\ Waiting(rtsp_looper, p) \in Nat /\ Waiting(rtsp_looper, RequestOf(p)) \in Nat
  BY OutstandingIs DEF OwnerTypeOK, TypeOK, Outstanding, Waiting, Positions
<1>2. \A w : Waiting(rtsp_looper', w) = Waiting(rtsp_looper, w) + One(m, w)
  BY WaitingAppend DEF OwnerTypeOK, TypeOK
<1>3. One(m, p) \in {0, 1} /\ One(m, RequestOf(p)) \in {0, 1}
  BY DEF One
<1>4. /\ Coming(p) = rtsp_delayed[p] + Waiting(rtsp_looper, p) + Waiting(rtsp_looper, RequestOf(p))
      /\ Coming(p)'
           = rtsp_delayed'[p] + Waiting(rtsp_looper', p) + Waiting(rtsp_looper', RequestOf(p))
  BY DEF Coming
<1>5. /\ Waiting(rtsp_looper', p) = Waiting(rtsp_looper, p) + One(m, p)
      /\ Waiting(rtsp_looper', RequestOf(p))
           = Waiting(rtsp_looper, RequestOf(p)) + One(m, RequestOf(p))
  BY <1>2
<1>6. Outstanding(p)' = Outstanding(p)
  BY <1>1, <1>3, <1>5, SMTT(30)
<1>7. Coming(p)' - Coming(p) = requests'[p] - requests[p]
  <2>1. One(m, p) \in Int /\ One(m, RequestOf(p)) \in Int
    BY <1>3
  <2>2. Coming(p) \in Int
    BY <1>1, <1>4
  <2>3. Coming(p)' = (rtsp_delayed[p] - One(m, p)) + (Waiting(rtsp_looper, p) + One(m, p))
                       + (Waiting(rtsp_looper, RequestOf(p)) + One(m, RequestOf(p)))
    BY <1>4, <1>5
  <2>4. Coming(p)' = Coming(p) + One(m, RequestOf(p))
    BY <1>1, <1>4, <2>1, <2>3, SMTT(30)
  <2> QED
    BY <1>1, <2>1, <2>2, <2>4
<1>8. Outstanding(p) \in Int /\ requests'[p] - requests[p] \in Int
  BY <1>1
<1> QED
  BY <1>6, <1>7, <1>8 DEF PullsPaid

\* A message is handled: what it counted for pays for what is posted.
LEMMA TurnPaid ==
  ASSUME OwnerTypeOK, OwnerTypeOK', NEW p \in Pulls, rtsp_looper # <<>>,
         NEW posted \in {<<>>, <<Plain("PullAudio")>>, <<Plain("PullVideo")>>},
         rtsp_looper' = Tail(rtsp_looper) \o posted,
         requests' = requests,
         LET taken == One(Head(rtsp_looper), p)
             request == One(Head(rtsp_looper), RequestOf(p))
             added == IF posted = <<Plain(p)>> THEN 1 ELSE 0
             delays == rtsp_delayed'[p] - rtsp_delayed[p]
         IN /\ delays + added <= taken + request
            /\ started => delays + added >= taken
  PROVE  PullsPaid(p)
<1> DEFINE q == rtsp_looper
           taken == One(Head(q), p)
           request == One(Head(q), RequestOf(p))
           added == IF posted = <<Plain(p)>> THEN 1 ELSE 0
<1>1. /\ Outstanding(p) = rtsp_delayed[p] + Waiting(q, p)
      /\ Outstanding(p)' = rtsp_delayed'[p] + Waiting(q', p)
      /\ rtsp_delayed[p] \in Nat /\ rtsp_delayed'[p] \in Nat
      /\ requests[p] \in Nat
      /\ Waiting(q, p) \in Nat /\ Waiting(q, RequestOf(p)) \in Nat
  BY OutstandingIs DEF OwnerTypeOK, TypeOK, Outstanding, Waiting, Positions
<1>2. q \in Seq(RtspMessage)
  BY DEF OwnerTypeOK, TypeOK
<1>3. /\ Waiting(q', p) = Waiting(q, p) - taken + added
      /\ Waiting(q', RequestOf(p)) = Waiting(q, RequestOf(p)) - request
  <2>1. CASE posted = <<>>
    <3>1. q' = Tail(q)
      BY <1>2, <2>1, HeadTailProperties, ConcatEmptySeq
    <3>3. added = 0
      BY <2>1
    <3>2. \A w : Waiting(Tail(q), w) = Waiting(q, w) - One(Head(q), w)
      BY <1>2, WaitingTail
    <3>4. One(Head(q), p) \in Int /\ Waiting(q, p) - One(Head(q), p) \in Int
      BY <1>1 DEF One
    <3>5. /\ Waiting(q', p) = Waiting(q, p) - One(Head(q), p)
          /\ Waiting(q', RequestOf(p)) = Waiting(q, RequestOf(p)) - One(Head(q), RequestOf(p))
      BY <3>1, <3>2
    <3> HIDE DEF added
    <3> QED
      BY <3>3, <3>4, <3>5
  <2>2. ASSUME NEW k \in Pulls, posted = <<Plain(k)>>
        PROVE  /\ Waiting(q', p) = Waiting(q, p) - taken + added
               /\ Waiting(q', RequestOf(p)) = Waiting(q, RequestOf(p)) - request
    <3>1. Plain(k) \in RtspMessage
      BY DEF RtspMessage, PlainMessage, Plain
    <3>2. /\ q' = Append(Tail(q), Plain(k))
          /\ \A w : Waiting(Append(Tail(q), Plain(k)), w)
                      = Waiting(q, w) - One(Head(q), w) + One(Plain(k), w)
      BY <1>2, <2>2, <3>1, WaitingTurn
    <3>3. One(Plain(k), p) = added
      BY <2>2 DEF One, Plain
    <3>4. One(Plain(k), RequestOf(p)) = 0
      BY DEF One, Plain, RequestOf, Pulls
    <3>5. /\ Waiting(q', p) = Waiting(q, p) - One(Head(q), p) + One(Plain(k), p)
          /\ Waiting(q', RequestOf(p)) = Waiting(q, RequestOf(p)) - One(Head(q), RequestOf(p))
                                          + One(Plain(k), RequestOf(p))
      BY <3>2
    <3>6. One(Head(q), RequestOf(p)) \in Int
      BY DEF One
    <3> HIDE DEF added
    <3> QED
      BY <1>1, <3>3, <3>4, <3>5, <3>6
  <2> QED
    BY <2>1, <2>2 DEF Pulls
<1>4. taken \in {0, 1} /\ request \in {0, 1} /\ added \in {0, 1}
  BY DEF One
<1>5. /\ Coming(p) = rtsp_delayed[p] + Waiting(q, p) + Waiting(q, RequestOf(p))
      /\ Coming(p)' = rtsp_delayed'[p] + Waiting(q', p) + Waiting(q', RequestOf(p))
  BY DEF Coming
<1> DEFINE d == rtsp_delayed[p]
           dd == rtsp_delayed'[p]
           w == Waiting(q, p)
           r == Waiting(q, RequestOf(p))
<1>6. /\ (dd - d) + added <= taken + request
      /\ started => (dd - d) + added >= taken
  OBVIOUS
<1>7. /\ Outstanding(p) = d + w /\ Outstanding(p)' = dd + (w - taken + added)
      /\ Coming(p) = d + w + r /\ Coming(p)' = dd + (w - taken + added) + (r - request)
  BY <1>1, <1>3, <1>5
<1>8. /\ d \in Int /\ dd \in Int /\ w \in Int /\ r \in Int
      /\ taken \in Int /\ request \in Int /\ added \in Int
  BY <1>1, <1>4
<1> HIDE DEF taken, request, added, d, dd, w, r
<1>9. Coming(p)' - Coming(p) <= 0
  BY <1>6, <1>7, <1>8
<1>10. started => Outstanding(p)' >= Outstanding(p)
  BY <1>6, <1>7, <1>8
<1>11. requests'[p] - requests[p] = 0
  BY <1>1
<1> QED
  BY <1>9, <1>10, <1>11 DEF PullsPaid

-----------------------------------------------------------------------------
(* Types.                                                                   *)

LEMMA TurnTyped ==
  ASSUME TypeOK, rtsp_looper # <<>>,
         NEW posted \in {<<>>, <<Plain("PullAudio")>>, <<Plain("PullVideo")>>,
                         <<Plain("PullAudio"), Plain("PullVideo")>>}
  PROVE  Tail(rtsp_looper) \o posted \in Seq(RtspMessage)
<1>1. Tail(rtsp_looper) \in Seq(RtspMessage)
  BY HeadTailProperties DEF TypeOK
<1>2. Plain("PullAudio") \in RtspMessage /\ Plain("PullVideo") \in RtspMessage
  BY DEF RtspMessage, PlainMessage, Plain, Pulls
<1>3. posted \in Seq(RtspMessage)
  <2>1. <<>> \in Seq(RtspMessage)
    OBVIOUS
  <2>2. \A a, b \in RtspMessage : <<a>> \in Seq(RtspMessage) /\ <<a, b>> \in Seq(RtspMessage)
    OBVIOUS
  <2> HIDE DEF Plain
  <2>3. posted = <<>> \/ posted = <<Plain("PullAudio")>> \/ posted = <<Plain("PullVideo")>>
          \/ posted = <<Plain("PullAudio"), Plain("PullVideo")>>
    BY Zenon
  <2> QED
    BY <1>2, <2>1, <2>2, <2>3, Zenon
<1> QED
  BY <1>1, <1>3, ConcatProperties

LEMMA HeadTyped ==
  ASSUME TypeOK, rtsp_looper # <<>>
  PROVE  /\ Head(rtsp_looper) \in RtspMessage
         /\ Handling("RequestAudioSink") => Head(rtsp_looper) \in AudioRequest
         /\ Handling("RequestVideoSink") => Head(rtsp_looper) \in VideoRequest
<1>1. Head(rtsp_looper) \in RtspMessage
  BY HeadTailProperties DEF TypeOK
<1> QED
  BY <1>1 DEF RtspMessage, PlainMessage, AudioRequest, VideoRequest, Handling, Pulls

LEMMA TypesKept ==
  ASSUME OwnerTypeOK, [OwnerNext]_ownerVars
  PROVE  OwnerTypeOK'
<1> USE DEF OwnerTypeOK
<1> USE RtspServerAssumption, OwnerAssumption
<1>1. CASE Switch
  <2>1. Plain("Start") \in RtspMessage /\ Plain("Stop") \in RtspMessage
    BY DEF RtspMessage, PlainMessage, Plain
  <2> QED
    BY <1>1, <2>1 DEF Switch, PostRtsp, TypeOK, Quiet
<1>2. CASE RequestAudioSink
  <2>1. \A id \in StreamIds, codec \in AudioCodecs, format \in AudioFormats :
          RequestAudioSinkMsg(id, codec, format) \in RtspMessage
    BY DEF RtspMessage, AudioRequest, RequestAudioSinkMsg
  <2>2. rtsp_looper' \in Seq(RtspMessage)
    BY <1>2, <2>1 DEF RequestAudioSink, PostRtsp, TypeOK
  <2>3. requests' \in [Pulls -> Nat]
    BY <1>2 DEF RequestAudioSink, Pulls
  <2> QED
    BY <1>2, <2>2, <2>3 DEF RequestAudioSink, TypeOK, Quiet
<1>3. CASE RequestVideoSink
  <2>1. \A id \in StreamIds, codec \in VideoCodecs : RequestVideoSinkMsg(id, codec) \in RtspMessage
    BY DEF RtspMessage, VideoRequest, RequestVideoSinkMsg
  <2>2. rtsp_looper' \in Seq(RtspMessage)
    BY <1>3, <2>1 DEF RequestVideoSink, PostRtsp, TypeOK
  <2>3. requests' \in [Pulls -> Nat]
    BY <1>3 DEF RequestVideoSink, Pulls
  <2> QED
    BY <1>3, <2>2, <2>3 DEF RequestVideoSink, TypeOK, Quiet
<1>4. CASE TakeNotice
  BY <1>4 DEF TakeNotice, TypeOK
<1>5. CASE Server
  <2> requests' = requests
    BY <1>5 DEF Server
  <2>1. CASE OnStart
    BY <2>1, TurnTyped DEF OnStart, Handling, Done, TypeOK
  <2>2. CASE OnStop
    BY <2>2, TurnTyped DEF OnStop, Handling, Done, TypeOK
  <2>3. CASE OnClientConnected
    BY <2>3, TurnTyped DEF OnClientConnected, Handling, Done, TypeOK
  <2>4. CASE OnClientDisconnected
    BY <2>4, TurnTyped DEF OnClientDisconnected, Handling, Done, TypeOK
  <2>5. CASE OnRequestAudioSink
    <3>1. /\ Head(rtsp_looper).codec \in AudioCodecs
          /\ Head(rtsp_looper).format \in [rate : Nat, channels : Nat]
      BY <2>5, HeadTyped DEF OnRequestAudioSink, Handling, AudioRequest
    <3>2. audio_format' \in [rate : Nat, channels : Nat]
      BY <2>5, <3>1 DEF OnRequestAudioSink, NegotiatedFormat
    <3>3. channel' \in [{0, 1} -> AudioCodecs \cup VideoCodecs \cup {None}]
      BY <2>5, <3>1 DEF OnRequestAudioSink, TypeOK
    <3>4. rtsp_looper' \in Seq(RtspMessage)
      BY <2>5, TurnTyped DEF OnRequestAudioSink, Handling, Done
    <3> QED
      BY <2>5, <3>2, <3>3, <3>4 DEF OnRequestAudioSink, TypeOK
  <2>6. CASE OnRequestVideoSink
    <3>1. Head(rtsp_looper).codec \in VideoCodecs
      BY <2>6, HeadTyped DEF OnRequestVideoSink, Handling, VideoRequest
    <3>3. channel' \in [{0, 1} -> AudioCodecs \cup VideoCodecs \cup {None}]
      BY <2>6, <3>1 DEF OnRequestVideoSink, TypeOK
    <3>4. rtsp_looper' \in Seq(RtspMessage)
      BY <2>6, TurnTyped DEF OnRequestVideoSink, Handling, Done
    <3> QED
      BY <2>6, <3>3, <3>4 DEF OnRequestVideoSink, TypeOK
  <2>7. CASE OnPullAudioSource
    <3>1. rtsp_looper' \in Seq(RtspMessage)
      BY <2>7, TurnTyped DEF OnPullAudioSource, Handling, Done
    <3>2. rtsp_delayed' \in [Pulls -> Nat]
      BY <2>7 DEF OnPullAudioSource, ContinuePull, TypeOK, Pulls
    <3> QED
      BY <2>7, <3>1, <3>2 DEF OnPullAudioSource, Pop, TypeOK
  <2>8. CASE OnPullVideoSource
    <3>1. rtsp_looper' \in Seq(RtspMessage)
      BY <2>8, TurnTyped DEF OnPullVideoSource, Handling, Done
    <3>2. rtsp_delayed' \in [Pulls -> Nat]
      BY <2>8 DEF OnPullVideoSource, ContinuePull, TypeOK, Pulls
    <3> QED
      BY <2>8, <3>1, <3>2 DEF OnPullVideoSource, Pop, TypeOK
  <2>9. CASE ClientConnects
    <3>1. Plain("ClientConnected") \in RtspMessage
      BY DEF RtspMessage, PlainMessage, Plain
    <3> QED
      BY <2>9, <3>1 DEF ClientConnects, PostRtsp, TypeOK
  <2>10. CASE ClientDisconnects
    <3>1. Plain("ClientDisconnected") \in RtspMessage
      BY DEF RtspMessage, PlainMessage, Plain
    <3> QED
      BY <2>10, <3>1 DEF ClientDisconnects, PostRtsp, TypeOK
  <2>11. CASE VideoOnFrame
    BY <2>11 DEF VideoOnFrame, Pushed, TypeOK
  <2>12. CASE AudioOnFrame
    BY <2>12 DEF AudioOnFrame, Pushed, TypeOK
  <2>13. ASSUME NEW what \in Pulls, PullDue(what) PROVE OwnerTypeOK'
    <3>1. Plain(what) \in RtspMessage
      BY DEF RtspMessage, PlainMessage, Plain
    <3>2. rtsp_delayed' \in [Pulls -> Nat]
      BY <2>13 DEF PullDue, TypeOK
    <3> QED
      BY <2>13, <3>1, <3>2 DEF PullDue, PostRtsp, TypeOK
  <2> QED
    BY <1>5, <2>1, <2>2, <2>3, <2>4, <2>5, <2>6, <2>7, <2>8, <2>9, <2>10, <2>11, <2>12, <2>13
    DEF Server, Loop, Timers
<1>6. CASE UNCHANGED ownerVars
  BY <1>6 DEF ownerVars, vars, TypeOK
<1> QED
  BY <1>1, <1>2, <1>3, <1>4, <1>5, <1>6 DEF OwnerNext

-----------------------------------------------------------------------------
(* No step makes more pulls than it is paid for.                            *)

LEMMA PostedPaid ==
  ASSUME OwnerTypeOK, OwnerTypeOK', NEW p \in Pulls, NEW m \in PlainMessage,
         m.what \notin Pulls, PostRtsp(m), UNCHANGED <<rtsp_delayed, requests>>
  PROVE  PullsPaid(p)
<1>1. One(m, p) = 0 /\ One(m, RequestOf(p)) = 0
  BY DEF One, RequestOf, PlainMessage, Pulls
<1>2. m \in RtspMessage
  BY DEF RtspMessage
<1>3. rtsp_delayed[p] \in Nat /\ requests[p] \in Nat
  BY DEF OwnerTypeOK, TypeOK
<1>4. rtsp_delayed'[p] = rtsp_delayed[p] - One(m, p)
  BY <1>1, <1>3
<1>5. requests'[p] = requests[p] + One(m, RequestOf(p))
  BY <1>1, <1>3
<1> QED
  BY <1>2, <1>4, <1>5, PostPaid DEF PostRtsp

LEMMA StepPaid ==
  ASSUME OwnerTypeOK, OwnerTypeOK', [OwnerNext]_ownerVars, NEW p \in Pulls
  PROVE  PullsPaid(p)
<1> rtsp_delayed[p] \in Nat /\ requests[p] \in Nat
  BY DEF OwnerTypeOK, TypeOK
<1>1. CASE Switch
  <2>1. PICK what \in {"Start", "Stop"} : PostRtsp(Plain(what))
    BY <1>1 DEF Switch
  <2>2. Plain(what) \in PlainMessage /\ Plain(what).what \notin Pulls
    BY DEF PlainMessage, Plain, Pulls
  <2> QED
    BY <1>1, <2>1, <2>2, PostedPaid DEF Switch, Quiet
<1>2. CASE RequestAudioSink
  <2>1. PICK id \in StreamIds, codec \in AudioCodecs, format \in AudioFormats :
               PostRtsp(RequestAudioSinkMsg(id, codec, format))
    BY <1>2 DEF RequestAudioSink
  <2> DEFINE m == RequestAudioSinkMsg(id, codec, format)
  <2>2. m \in RtspMessage /\ m.what = "RequestAudioSink"
    BY DEF RtspMessage, AudioRequest, RequestAudioSinkMsg
  <2>3. One(m, p) = 0 /\ One(m, RequestOf(p)) = (IF p = "PullAudio" THEN 1 ELSE 0)
    BY <2>2 DEF One, RequestOf, Pulls
  <2>4. requests'[p] = requests[p] + (IF p = "PullAudio" THEN 1 ELSE 0)
    BY <1>2 DEF RequestAudioSink, OwnerTypeOK, Pulls
  <2>5. rtsp_delayed'[p] = rtsp_delayed[p] - 0
    BY <1>2 DEF RequestAudioSink, Quiet
  <2> HIDE DEF m
  <2> QED
    BY <2>1, <2>2, <2>3, <2>4, <2>5, PostPaid DEF PostRtsp, m
<1>3. CASE RequestVideoSink
  <2>1. PICK id \in StreamIds, codec \in VideoCodecs : PostRtsp(RequestVideoSinkMsg(id, codec))
    BY <1>3 DEF RequestVideoSink
  <2> DEFINE m == RequestVideoSinkMsg(id, codec)
  <2>2. m \in RtspMessage /\ m.what = "RequestVideoSink"
    BY DEF RtspMessage, VideoRequest, RequestVideoSinkMsg
  <2>3. One(m, p) = 0 /\ One(m, RequestOf(p)) = (IF p = "PullVideo" THEN 1 ELSE 0)
    BY <2>2 DEF One, RequestOf, Pulls
  <2>4. requests'[p] = requests[p] + (IF p = "PullVideo" THEN 1 ELSE 0)
    BY <1>3 DEF RequestVideoSink, OwnerTypeOK, Pulls
  <2>5. rtsp_delayed'[p] = rtsp_delayed[p] - 0
    BY <1>3 DEF RequestVideoSink, Quiet
  <2> HIDE DEF m
  <2> QED
    BY <2>1, <2>2, <2>3, <2>4, <2>5, PostPaid DEF PostRtsp, m
<1>4. CASE TakeNotice
  BY <1>4, QuietPaid DEF TakeNotice
<1>5. CASE Server
  <2> requests' = requests
    BY <1>5 DEF Server
  <2> DEFINE quiet(what) == Handling(what) /\ Done(<<>>) /\ rtsp_delayed' = rtsp_delayed
  <2>1. ASSUME NEW what \in {"Start", "Stop", "ClientConnected", "ClientDisconnected"}, quiet(what)
        PROVE  PullsPaid(p)
    <3>1. One(Head(rtsp_looper), p) = 0 /\ One(Head(rtsp_looper), RequestOf(p)) = 0
      BY <2>1 DEF Handling, One, RequestOf, Pulls
    <3>2. <<>> # <<Plain(p)>>
      OBVIOUS
    <3> QED
      BY <2>1, <3>1, <3>2, TurnPaid DEF Handling, Done
  <2>2. OnStart \/ OnStop \/ OnClientConnected \/ OnClientDisconnected => PullsPaid(p)
    BY <2>1 DEF OnStart, OnStop, OnClientConnected, OnClientDisconnected
  <2>3. ASSUME NEW k \in Pulls, Handling(RequestOf(k)), Done(<<Plain(k)>>),
               rtsp_delayed' = rtsp_delayed
        PROVE  PullsPaid(p)
    <3>1. /\ One(Head(rtsp_looper), p) = 0
          /\ One(Head(rtsp_looper), RequestOf(p)) = (IF k = p THEN 1 ELSE 0)
      BY <2>3 DEF Handling, One, RequestOf, Pulls
    <3>2. <<Plain(k)>> = <<Plain(p)>> <=> k = p
      BY DEF Plain
    <3>3. <<Plain(k)>> \in {<<>>, <<Plain("PullAudio")>>, <<Plain("PullVideo")>>}
      BY DEF Pulls
    <3> QED
      BY <2>3, <3>1, <3>2, <3>3, TurnPaid, SMTT(30) DEF Handling, Done
  <2>4. OnRequestAudioSink \/ OnRequestVideoSink => PullsPaid(p)
    BY <2>3 DEF OnRequestAudioSink, OnRequestVideoSink, RequestOf, Pulls
  <2>5. ASSUME NEW k \in Pulls, NEW queue, Handling(k), Done(<<>>), ContinuePull(k, queue)
        PROVE  PullsPaid(p)
    <3>1. /\ One(Head(rtsp_looper), p) = (IF k = p THEN 1 ELSE 0)
          /\ One(Head(rtsp_looper), RequestOf(p)) = 0
      BY <2>5 DEF Handling, One, RequestOf, Pulls
    <3>2. rtsp_delayed'[p] - rtsp_delayed[p] = (IF started /\ k = p THEN 1 ELSE 0)
      <4>1. rtsp_delayed \in [Pulls -> Nat]
        BY DEF OwnerTypeOK, TypeOK
      <4>2. rtsp_delayed' = IF started THEN [rtsp_delayed EXCEPT ![k] = @ + 1] ELSE rtsp_delayed
        BY <2>5 DEF ContinuePull
      <4>3. started => rtsp_delayed'[p] = IF k = p THEN rtsp_delayed[p] + 1 ELSE rtsp_delayed[p]
        BY <4>1, <4>2
      <4> QED
        BY <4>1, <4>2, <4>3
    <3>3. <<>> # <<Plain(p)>>
      OBVIOUS
    <3> QED
      BY <2>5, <3>1, <3>2, <3>3, TurnPaid DEF Handling, Done
  <2>6. OnPullAudioSource \/ OnPullVideoSource => PullsPaid(p)
    BY <2>5 DEF OnPullAudioSource, OnPullVideoSource, Pulls
  <2>7. ASSUME NEW what \in {"ClientConnected", "ClientDisconnected"},
               PostRtsp(Plain(what)), rtsp_delayed' = rtsp_delayed
        PROVE  PullsPaid(p)
    <3>1. Plain(what) \in PlainMessage /\ Plain(what).what \notin Pulls
      BY DEF PlainMessage, Plain, Pulls
    <3> QED
      BY <2>7, <3>1, PostedPaid
  <2>8. ClientConnects \/ ClientDisconnects => PullsPaid(p)
    BY <2>7 DEF ClientConnects, ClientDisconnects
  <2>9. VideoOnFrame \/ AudioOnFrame => PullsPaid(p)
    BY QuietPaid DEF VideoOnFrame, AudioOnFrame
  <2>10. ASSUME NEW k \in Pulls, PullDue(k) PROVE PullsPaid(p)
    <3>1. Plain(k) \in RtspMessage /\ Plain(k).what = k
      BY DEF RtspMessage, PlainMessage, Plain
    <3>2. One(Plain(k), p) = (IF k = p THEN 1 ELSE 0) /\ One(Plain(k), RequestOf(p)) = 0
      BY <3>1 DEF One, RequestOf, Pulls
    <3>3. rtsp_delayed'[p] = rtsp_delayed[p] - (IF k = p THEN 1 ELSE 0)
      <4>1. rtsp_delayed \in [Pulls -> Nat] /\ rtsp_delayed' = [rtsp_delayed EXCEPT ![k] = @ - 1]
        BY <2>10 DEF PullDue, OwnerTypeOK, TypeOK
      <4> QED
        BY <4>1
    <3>4. requests'[p] = requests[p] + 0
      OBVIOUS
    <3> QED
      BY <2>10, <3>1, <3>2, <3>3, <3>4, PostPaid DEF PullDue, PostRtsp
  <2> QED
    BY <1>5, <2>2, <2>4, <2>6, <2>8, <2>9, <2>10 DEF Server, Loop, Timers
<1>6. CASE UNCHANGED ownerVars
  BY <1>6, QuietPaid DEF ownerVars, vars
<1> QED
  BY <1>1, <1>2, <1>3, <1>4, <1>5, <1>6 DEF OwnerNext

-----------------------------------------------------------------------------
LEMMA Initially == OwnerInit => PullInv
<1> SUFFICES ASSUME OwnerInit PROVE PullInv
  OBVIOUS
<1>1. OwnerTypeOK
  BY RtspServerAssumption DEF OwnerInit, Init, OwnerTypeOK, TypeOK, Pulls
<1>2. ASSUME NEW p \in Pulls PROVE Coming(p) <= requests[p]
  <2>1. rtsp_delayed[p] = 0 /\ requests[p] = 0
    BY DEF OwnerInit, Init
  <2>2. \A w : Waiting(rtsp_looper, w) = 0
    BY WaitingEmpty DEF OwnerInit, Init
  <2> QED
    BY <2>1, <2>2 DEF Coming
<1> QED
  BY <1>1, <1>2 DEF PullInv

LEMMA Step == PullInv /\ [OwnerNext]_ownerVars => PullInv'
<1> SUFFICES ASSUME PullInv, [OwnerNext]_ownerVars PROVE PullInv'
  OBVIOUS
<1>1. OwnerTypeOK /\ OwnerTypeOK'
  BY TypesKept DEF PullInv
<1>2. ASSUME NEW p \in Pulls PROVE Coming(p)' <= requests'[p]
  <2>1. Coming(p)' - Coming(p) <= requests'[p] - requests[p]
    BY <1>1, StepPaid DEF PullsPaid
  <2>2. Coming(p) <= requests[p]
    BY DEF PullInv
  <2>3. Coming(p) \in Int /\ requests[p] \in Int
    BY <1>1, OutstandingIs DEF Coming
  <2>4. Coming(p)' \in Int /\ requests'[p] \in Int
    <3>1. /\ rtsp_delayed'[p] \in Nat /\ requests'[p] \in Nat
          /\ \A w : Waiting(rtsp_looper', w) \in Nat
      BY <1>1, WaitingIsNat DEF OwnerTypeOK, TypeOK
    <3> QED
      BY <3>1 DEF Coming
  <2> QED
    BY <2>1, <2>2, <2>3, <2>4
<1> QED
  BY <1>1, <1>2 DEF PullInv

LEMMA Invariance == OwnerSpec => []PullInv
  BY Initially, Step, PTL DEF OwnerSpec

-----------------------------------------------------------------------------
\* The server's variables keep their types under any owner.
THEOREM TypeCorrect == OwnerSpec => []TypeOK
<1>1. PullInv => TypeOK
  BY DEF PullInv, OwnerTypeOK
<1> QED
  BY <1>1, Invariance, PTL

\* Stopping and starting the server in any order, with any number of pulls in
\* flight, never leaves more chains of pulls than sinks were requested.
THEOREM PullsNeverMultiply == OwnerSpec => []NoExtraPulls
<1>1. PullInv => NoExtraPulls
  <2> SUFFICES ASSUME PullInv, NEW p \in Pulls PROVE Outstanding(p) <= requests[p]
    BY DEF NoExtraPulls
  <2>1. Coming(p) <= requests[p] /\ OwnerTypeOK
    BY DEF PullInv
  <2>2. /\ Outstanding(p) = rtsp_delayed[p] + Waiting(rtsp_looper, p)
        /\ rtsp_delayed[p] \in Nat /\ requests[p] \in Nat
        /\ Waiting(rtsp_looper, p) \in Nat /\ Waiting(rtsp_looper, RequestOf(p)) \in Nat
    BY <2>1, OutstandingIs
  <2>3. Outstanding(p) \in Nat /\ Coming(p) = Outstanding(p) + Waiting(rtsp_looper, RequestOf(p))
    BY <2>2 DEF Coming
  <2> QED
    BY <2>1, <2>2, <2>3
<1> QED
  BY <1>1, Invariance, PTL

\* No step of a running server loses a chain of pulls.
THEOREM RunningServerKeepsPulls == OwnerSpec => RunningKeepsPulls
<1>1. PullInv /\ PullInv' /\ [OwnerNext]_ownerVars
        => [started => \A p \in Pulls : Outstanding(p)' >= Outstanding(p)]_ownerVars
  BY StepPaid DEF PullInv, PullsPaid
<1> QED
  BY <1>1, Invariance, PTL DEF OwnerSpec, RunningKeepsPulls
=============================================================================
