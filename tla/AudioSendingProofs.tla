------------------------- MODULE AudioSendingProofs -------------------------
(***************************************************************************)
(* Proofs about AudioSending, for any codecs, sinks, addresses and bounds. *)
(*                                                                         *)
(* A sender's sinks are changed by tasks that are executed after the lists *)
(* were: what relates them is the last task about a sink that waits for an *)
(* address.  It is to add the sink exactly when the address is that of the *)
(* sender of a codec the sink is attached to, whether or not a sender      *)
(* lives there, so that one that is made later at the address of a dead    *)
(* one inherits only removals.                                             *)
(***************************************************************************)
EXTENDS AudioSending, FiniteSetTheorems, TLAPS

AboutIn(q, a, k) ==
  {n \in DOMAIN q : /\ q[n].what # "OnFrame"
                    /\ q[n].to = a
                    /\ q[n].sink = k}

\* Once q is executed, the sender at a has k iff at; in: it has it now.
Ends(q, a, k, in, at) ==
  /\ AboutIn(q, a, k) = {} => (in <=> at)
  /\ \A n \in AboutIn(q, a, k) :
       (\A m \in AboutIn(q, a, k) : m <= n) => (q[n].what = "AddAudioSink" <=> at)

In(a, k) == Live(a) /\ k \in sender_sinks[a]

At(a, k) ==
  \E i \in Senders : audio_stream_senders[i].addr = a
                     /\ k \in attached[audio_stream_senders[i].codec]

SinksAgree ==
  \A a \in SenderAddrs, k \in Sinks : Ends(transport_runner, a, k, In(a, k), At(a, k))

\* A sink is attached to one codec at most.
AttachedOnce ==
  /\ \A c \in Codecs : IsFiniteSet(attached[c])
  /\ \A c, d \in Codecs : \A k \in attached[c] \cap attached[d] : c = d

\* A stream that has tasks is one that the flinger sends to, and has a sender.
RunnersLive ==
  \A c \in Codecs :
    /\ stream_runner[c] # <<>> => c \in flinger.senders
    /\ stream[c].alive => stream[c].sender \in SenderAddrs

IInv ==
  /\ TypeOK
  /\ ListsInStep
  /\ AttachedOnce
  /\ RunnersLive
  /\ SinksAgree

-----------------------------------------------------------------------------
(* Lemmas on the operators.                                                 *)

\* Erasing an element of a sequence shifts the ones behind it.
LEMMA RemoveAtElements ==
  ASSUME NEW S, NEW s \in Seq(S), NEW i \in 1..Len(s)
  PROVE  /\ RemoveAt(s, i) \in Seq(S)
         /\ Len(RemoveAt(s, i)) = Len(s) - 1
         /\ \A j \in 1..(Len(s) - 1) :
              RemoveAt(s, i)[j] = s[IF j < i THEN j ELSE j + 1]
<1> DEFINE pre == SubSeq(s, 1, i - 1)
           post == SubSeq(s, i + 1, Len(s))
<1>1. pre \in Seq(S) /\ Len(pre) = i - 1 /\ \A j \in 1..(i - 1) : pre[j] = s[j]
  OBVIOUS
<1>2. post \in Seq(S) /\ Len(post) = Len(s) - i /\ \A j \in 1..(Len(s) - i) : post[j] = s[i + j]
  OBVIOUS
<1>3. RemoveAt(s, i) = pre \o post
  BY DEF RemoveAt
<1> HIDE DEF pre, post
<1>4. ASSUME NEW j \in 1..(Len(s) - 1)
      PROVE  (pre \o post)[j] = s[IF j < i THEN j ELSE j + 1]
  <2>1. CASE j < i
    BY <1>1, <1>2, <2>1
  <2>2. CASE ~(j < i)
    <3>1. (pre \o post)[j] = post[j - (i - 1)]
      BY <1>1, <1>2, <2>2
    <3>2. j - (i - 1) \in 1..(Len(s) - i) /\ i + (j - (i - 1)) = j + 1
      BY <2>2
    <3> QED BY <1>2, <2>2, <3>1, <3>2
  <2> QED BY <2>1, <2>2
<1> QED BY <1>1, <1>2, <1>3, <1>4

\* Tasks that are not about a sink at an address change nothing for it; if there
\* are any, they decide.
LEMMA EndsBehind ==
  ASSUME NEW q \in Seq(SenderTask), NEW r \in Seq(SenderTask), NEW a, NEW k,
         NEW in \in BOOLEAN, NEW at \in BOOLEAN, NEW now \in BOOLEAN,
         Ends(q, a, k, in, at),
         \/ AboutIn(r, a, k) = {} /\ (now <=> at)
         \/ /\ AboutIn(r, a, k) # {}
            /\ \A n \in AboutIn(r, a, k) : r[n].what = "AddAudioSink" <=> now
  PROVE  Ends(q \o r, a, k, in, now)
<1> DEFINE s == q \o r
<1>1. /\ DOMAIN s = 1..(Len(q) + Len(r))
      /\ DOMAIN q = 1..Len(q) /\ DOMAIN r = 1..Len(r)
      /\ Len(q) \in Nat /\ Len(r) \in Nat
      /\ \A n \in 1..Len(q) : s[n] = q[n]
      /\ \A n \in 1..Len(r) : s[Len(q) + n] = r[n]
      /\ \A n \in (Len(q) + 1)..(Len(q) + Len(r)) :
           n - Len(q) \in 1..Len(r) /\ s[n] = r[n - Len(q)]
  OBVIOUS
<1> HIDE DEF s
<1>2. \A n \in AboutIn(q, a, k) : n \in AboutIn(s, a, k)
  BY <1>1 DEF AboutIn
<1>3. \A n \in AboutIn(r, a, k) : Len(q) + n \in AboutIn(s, a, k)
  BY <1>1 DEF AboutIn
<1>4. \A n \in AboutIn(s, a, k) :
        n \in AboutIn(q, a, k) \/ (n > Len(q) /\ n - Len(q) \in AboutIn(r, a, k))
  BY <1>1 DEF AboutIn
<1>5. CASE AboutIn(r, a, k) = {} /\ (now <=> at)
  <2>1. \A n : n \in AboutIn(s, a, k) <=> n \in AboutIn(q, a, k)
    BY <1>2, <1>4, <1>5
  <2>2. \A n \in AboutIn(q, a, k) : s[n] = q[n]
    BY <1>1 DEF AboutIn
  <2> QED BY <1>5, <2>1, <2>2 DEF Ends, s
<1>6. CASE /\ AboutIn(r, a, k) # {}
           /\ \A n \in AboutIn(r, a, k) : r[n].what = "AddAudioSink" <=> now
  <2>1. PICK w : w \in AboutIn(r, a, k)
    BY <1>6
  <2>2. Len(q) + w \in AboutIn(s, a, k) /\ w \in 1..Len(r)
    BY <1>1, <1>3, <2>1 DEF AboutIn
  <2>3. ASSUME NEW n \in AboutIn(s, a, k), \A m \in AboutIn(s, a, k) : m <= n
        PROVE  s[n].what = "AddAudioSink" <=> now
    <3>1. n \in 1..(Len(q) + Len(r)) /\ Len(q) + w <= n
      BY <1>1, <2>2, <2>3 DEF AboutIn
    <3>2. n > Len(q) /\ n \notin 1..Len(q)
      BY <1>1, <2>2, <3>1
    <3>3. n - Len(q) \in AboutIn(r, a, k)
      BY <1>1, <1>4, <3>2 DEF AboutIn
    <3>4. s[n] = r[n - Len(q)]
      BY <1>1, <3>1, <3>2
    <3> QED BY <1>6, <3>3, <3>4
  <2> QED BY <2>2, <2>3 DEF Ends, s
<1> QED BY <1>5, <1>6

\* Executing the head of the queue.
LEMMA EndsTail ==
  ASSUME NEW q \in Seq(SenderTask), q # <<>>, NEW a, NEW k,
         NEW in \in BOOLEAN, NEW at \in BOOLEAN, NEW after \in BOOLEAN,
         Ends(q, a, k, in, at),
         after <=> IF 1 \in AboutIn(q, a, k) THEN Head(q).what = "AddAudioSink" ELSE in
  PROVE  Ends(Tail(q), a, k, after, at)
<1> DEFINE t == Tail(q)
<1>1. /\ DOMAIN q = 1..Len(q) /\ Len(q) \in Nat
      /\ DOMAIN t = 1..(Len(q) - 1)
      /\ \A n \in 1..(Len(q) - 1) : t[n] = q[n + 1]
      /\ q[1] = Head(q)
  OBVIOUS
<1> HIDE DEF t
<1>2. \A n \in AboutIn(t, a, k) : n \in Nat /\ n + 1 \in AboutIn(q, a, k) /\ t[n] = q[n + 1]
  BY <1>1 DEF AboutIn
<1>3. \A n \in AboutIn(q, a, k) :
        n \in Nat /\ (n = 1 \/ (n > 1 /\ n - 1 \in AboutIn(t, a, k)))
  BY <1>1 DEF AboutIn
<1>4. ASSUME AboutIn(t, a, k) = {}
      PROVE  after <=> at
  <2>1. CASE 1 \in AboutIn(q, a, k)
    <3>1. \A m \in AboutIn(q, a, k) : m <= 1
      BY <1>3, <1>4
    <3> QED BY <1>1, <2>1, <3>1 DEF Ends
  <2>2. CASE 1 \notin AboutIn(q, a, k)
    <3>1. AboutIn(q, a, k) = {}
      BY <1>3, <1>4, <2>2
    <3> QED BY <2>2, <3>1 DEF Ends
  <2> QED BY <2>1, <2>2
<1>5. ASSUME NEW n \in AboutIn(t, a, k), \A m \in AboutIn(t, a, k) : m <= n
      PROVE  t[n].what = "AddAudioSink" <=> at
  <2>1. \A m \in AboutIn(q, a, k) : m <= n + 1
    BY <1>2, <1>3, <1>5
  <2> QED BY <1>2, <2>1 DEF Ends
<1> QED BY <1>4, <1>5 DEF Ends, t

LEMMA AboutIs ==
  ASSUME NEW a, NEW k
  PROVE  About(a, k) = AboutIn(transport_runner, a, k)
  BY DEF About, AboutIn

\* GetAudioStreamSender finds the codec's sender or makes one where none lives.
LEMMA SenderIs ==
  ASSUME TypeOK, NEW i \in Senders
  PROVE  /\ audio_stream_senders[i] \in [codec : Codecs, addr : SenderAddrs]
         /\ audio_stream_senders[i].codec \in Codecs
         /\ audio_stream_senders[i].addr \in SenderAddrs
<1> DEFINE S == [codec : Codecs, addr : SenderAddrs]
<1>1. audio_stream_senders \in Seq(S)
  BY DEF TypeOK
<1>2. audio_stream_senders[i] \in S
  <2> HIDE DEF S
  <2> QED BY <1>1 DEF Senders
<1> QED BY <1>2

\* There is one sender of a codec, which find_if finds.
LEMMA FoundIs ==
  ASSUME TypeOK, ListsInStep, NEW c \in Codecs
  PROVE  Found(c) = {i \in Senders : audio_stream_senders[i].codec = c}
<1>1. audio_stream_senders \in Seq([codec : Codecs, addr : SenderAddrs])
  BY DEF TypeOK
<1>2. Senders \subseteq Nat
  BY <1>1 DEF Senders
<1>3. \A i, j \in Senders :
        audio_stream_senders[i].codec = audio_stream_senders[j].codec => i = j
  BY DEF ListsInStep
<1>4. \A i \in Senders : i <= i
  BY <1>2
<1> QED BY <1>3, <1>4 DEF Found

\* GetAudioStreamSender finds the codec's sender or makes one where none lives.
LEMMA GetResult ==
  ASSUME TypeOK, ListsInStep, NEW c \in Codecs, NEW r, r \in GetAudioStreamSender(c)
  PROVE  /\ r.addr \in SenderAddrs
         /\ \/ /\ r.list = audio_stream_senders
               /\ \E i \in Senders : audio_stream_senders[i] = [codec |-> c, addr |-> r.addr]
            \/ /\ r.list = Append(audio_stream_senders, [codec |-> c, addr |-> r.addr])
               /\ ~Live(r.addr)
               /\ \A i \in Senders : audio_stream_senders[i].codec # c
<1>1. audio_stream_senders \in Seq([codec : Codecs, addr : SenderAddrs])
  BY DEF TypeOK
<1>2. CASE Found(c) # {}
  <2>1. PICK i \in Found(c) : r = [addr |-> audio_stream_senders[i].addr,
                                   list |-> audio_stream_senders]
    BY <1>2 DEF GetAudioStreamSender
  <2>2. i \in Senders /\ audio_stream_senders[i].codec = c
    BY <2>1 DEF Found
  <2>3. audio_stream_senders[i] \in [codec : Codecs, addr : SenderAddrs]
    BY <2>2, SenderIs
  <2> QED BY <2>1, <2>2, <2>3
<1>3. CASE Found(c) = {}
  <2>1. PICK a \in {b \in SenderAddrs : ~Live(b)} :
          r = [addr |-> a, list |-> Append(audio_stream_senders, [codec |-> c, addr |-> a])]
    BY <1>3 DEF GetAudioStreamSender
  <2>2. \A i \in Senders : audio_stream_senders[i].codec # c
    BY <1>3, FoundIs
  <2> HIDE DEF Live
  <2> QED BY <2>1, <2>2
<1> QED BY <1>2, <1>3

\* RemoveAudioStreamSender takes out the codec's sender and keeps the others.
LEMMA RemoveResult ==
  ASSUME TypeOK, ListsInStep, NEW c \in Codecs, NEW L, L \in RemoveAudioStreamSender(c)
  PROVE  /\ L \in Seq([codec : Codecs, addr : SenderAddrs])
         /\ \E f \in [DOMAIN L -> Senders] :
              /\ \A j \in DOMAIN L : L[j] = audio_stream_senders[f[j]]
              /\ \A j, l \in DOMAIN L : f[j] = f[l] => j = l
              /\ \A i \in Senders : audio_stream_senders[i].codec # c
                                      <=> \E j \in DOMAIN L : f[j] = i
<1> DEFINE S == [codec : Codecs, addr : SenderAddrs]
           s == audio_stream_senders
<1>1. s \in Seq(S) /\ Senders = 1..Len(s)
  BY DEF TypeOK, Senders
<1>2. CASE Found(c) # {}
  <2>1. PICK i \in Found(c) : L = RemoveAt(s, i)
    BY <1>2 DEF RemoveAudioStreamSender
  <2>2. /\ i \in 1..Len(s) /\ s[i].codec = c
        /\ \A j \in Senders : s[j].codec = c => j = i
    BY <1>1, <2>1, FoundIs DEF ListsInStep
  <2> HIDE DEF s, S
  <2>3. /\ L \in Seq(S) /\ Len(L) = Len(s) - 1
        /\ \A j \in 1..(Len(s) - 1) : L[j] = s[IF j < i THEN j ELSE j + 1]
    BY <1>1, <2>1, <2>2, RemoveAtElements
  <2>4. DOMAIN L = 1..(Len(s) - 1)
    BY <2>3
  <2> DEFINE f == [j \in DOMAIN L |-> IF j < i THEN j ELSE j + 1]
  <2>5. /\ f \in [DOMAIN L -> Senders]
        /\ \A j \in DOMAIN L : L[j] = s[f[j]]
        /\ \A j, l \in DOMAIN L : f[j] = f[l] => j = l
    BY <1>1, <2>2, <2>3, <2>4
  <2>6. ASSUME NEW n \in Senders
        PROVE  s[n].codec # c <=> \E j \in DOMAIN L : f[j] = n
    <3>1. CASE n < i
      <4>1. n \in DOMAIN L /\ f[n] = n
        BY <1>1, <2>2, <2>4, <3>1
      <4> QED BY <2>2, <3>1, <4>1, <1>1
    <3>2. CASE n = i
      BY <1>1, <2>2, <2>4, <3>2
    <3>3. CASE n > i
      <4>1. n - 1 \in DOMAIN L /\ f[n - 1] = n
        BY <1>1, <2>2, <2>4, <3>3
      <4> QED BY <2>2, <3>3, <4>1, <1>1
    <3> QED BY <1>1, <2>2, <3>1, <3>2, <3>3
  <2> QED BY <2>3, <2>5, <2>6 DEF s, S
<1>3. CASE Found(c) = {}
  <2>1. L = s
    BY <1>3 DEF RemoveAudioStreamSender
  <2> DEFINE f == [j \in DOMAIN L |-> j]
  <2>2. /\ f \in [DOMAIN L -> Senders]
        /\ \A j \in DOMAIN L : L[j] = s[f[j]]
        /\ \A j, l \in DOMAIN L : f[j] = f[l] => j = l
        /\ \A i \in Senders : s[i].codec # c <=> \E j \in DOMAIN L : f[j] = i
    BY <1>3, <2>1, FoundIs DEF Senders
  <2> QED BY <1>1, <2>1, <2>2
<1> QED BY <1>2, <1>3

-----------------------------------------------------------------------------
(* Types.                                                                   *)

LEMMA MaxFormat ==
  ASSUME NEW F \in SUBSET Formats
  PROVE  Max({0} \cup F) \in Formats
<1> DEFINE G == {0} \cup F
<1>1. G \subseteq 0..2 /\ 0 \in G
  BY DEF Formats
<1>2. \E x \in G : \A y \in G : x >= y
  <2>1. CASE 2 \in G
    BY <1>1, <2>1
  <2>2. CASE 2 \notin G /\ 1 \in G
    BY <1>1, <2>2
  <2>3. CASE 2 \notin G /\ 1 \notin G
    BY <1>1, <2>3
  <2> QED BY <2>1, <2>2, <2>3
<1>3. Max(G) \in G
  BY <1>2 DEF Max
<1> QED BY <1>1, <1>3 DEF Formats

LEMMA NewStreamIs ==
  ASSUME NEW a \in SenderAddrs, NEW s \in NewStreams(a)
  PROVE  /\ s \in Stream
         /\ s.alive /\ s.sender = a
<1>1. PICK pending \in BOOLEAN :
        s = [alive |-> TRUE, sender |-> a, shape |-> ConfiguredShape,
             reconfigure |-> pending, encoder |-> NoEncoder]
  BY DEF NewStreams
<1>2. ConfiguredShape \in Shape
  BY DEF ConfiguredShape, Shape, Samples, Formats, Configured
<1>3. NoEncoder \in Encoder
  BY DEF NoEncoder, Encoder
<1> HIDE DEF NoEncoder, ConfiguredShape
<1> QED BY <1>1, <1>2, <1>3 DEF Stream

LEMMA NoStreamIs == NoStream \in Stream
  BY DEF NoStream, Stream, NoEncoder, Encoder, ConfiguredShape, Shape, Samples, Formats,
         Configured

\* Setting the encoder leaves the stream alive or not, with its sender.
LEMMA ReconfiguredIs ==
  ASSUME NEW s \in Stream, NEW frame \in Shape, NEW r, r \in Reconfigured(s, frame)
  PROVE  /\ r \in Stream /\ r.alive = s.alive /\ r.sender = s.sender
<1>1. CASE s.reconfigure \/ s.shape # frame
  <2>1. PICK e \in InitEncoder(s.encoder, frame) :
          r = [s EXCEPT !.shape = frame, !.reconfigure = FALSE, !.encoder = e]
    BY <1>1 DEF Reconfigured
  <2>2. s.encoder \in Encoder
    BY DEF Stream
  <2>3. e \in Encoder
    <3>1. PICK ok \in BOOLEAN :
            e = [s.encoder EXCEPT !.made = TRUE, !.ready = ok]
      BY <2>1 DEF InitEncoder
    <3> QED BY <2>2, <3>1 DEF Encoder
  <2> QED BY <2>1, <2>3 DEF Stream
<1>2. CASE ~(s.reconfigure \/ s.shape # frame)
  BY <1>2 DEF Reconfigured
<1> QED BY <1>1, <1>2

\* Encoding gives a packet or none.
LEMMA EncodedIs ==
  ASSUME NEW e \in Encoder, NEW r, r \in Encoded(e)
  PROVE  /\ r.encoder \in Encoder /\ r.packet \in BOOLEAN
<1>1. \/ r = [encoder |-> e, packet |-> FALSE]
      \/ r = [encoder |-> [e EXCEPT !.fed = FALSE], packet |-> TRUE]
      \/ r = [encoder |-> [e EXCEPT !.fed = TRUE], packet |-> FALSE]
  BY DEF Encoded
<1>2. CASE r = [encoder |-> e, packet |-> FALSE]
  BY <1>2
<1>3. CASE r = [encoder |-> [e EXCEPT !.fed = FALSE], packet |-> TRUE]
  BY <1>3 DEF Encoder
<1>4. CASE r = [encoder |-> [e EXCEPT !.fed = TRUE], packet |-> FALSE]
  BY <1>4 DEF Encoder
<1> QED BY <1>1, <1>2, <1>3, <1>4

LEMMA AddType ==
  ASSUME TypeOK, ListsInStep, NEW k \in Sinks, NEW c \in Codecs, AddEncodedAudioSink(k, c)
  PROVE  TypeOK'
<1>1. PICK r \in GetAudioStreamSender(c) :
        /\ audio_stream_senders' = r.list
        /\ sender_sinks' = [sender_sinks EXCEPT ![r.addr] = IF Live(r.addr) THEN @ ELSE {}]
        /\ transport_runner' = Append(transport_runner, SinkTask("AddAudioSink", r.addr, k))
        /\ IF c \in audio_send_streams THEN UNCHANGED stream
           ELSE \E s \in NewStreams(r.addr) : stream' = [stream EXCEPT ![c] = s]
  BY DEF AddEncodedAudioSink
<1>2. r.addr \in SenderAddrs
  BY <1>1, GetResult
<1>3. audio_stream_senders' \in Seq([codec : Codecs, addr : SenderAddrs])
  <2> DEFINE S == [codec : Codecs, addr : SenderAddrs]
             e == [codec |-> c, addr |-> r.addr]
  <2>1. r.list = audio_stream_senders \/ r.list = Append(audio_stream_senders, e)
    BY <1>1, GetResult
  <2>2. audio_stream_senders \in Seq(S) /\ e \in S
    BY <1>2 DEF TypeOK
  <2> HIDE DEF S, e
  <2>3. r.list \in Seq(S)
    BY <2>1, <2>2
  <2> QED BY <1>1, <2>3 DEF S
<1>4. sender_sinks' \in [SenderAddrs -> SUBSET Sinks]
  BY <1>1, <1>2 DEF TypeOK
<1>5. transport_runner' \in Seq(SenderTask)
  <2>1. SinkTask("AddAudioSink", r.addr, k) \in SenderTask
    BY <1>2 DEF SinkTask, SenderTask
  <2> QED BY <1>1, <2>1 DEF TypeOK
<1>6. stream' \in [Codecs -> Stream]
  <2>1. CASE c \in audio_send_streams
    BY <1>1, <2>1 DEF TypeOK
  <2>2. CASE c \notin audio_send_streams
    <3>1. PICK s \in NewStreams(r.addr) : stream' = [stream EXCEPT ![c] = s]
      BY <1>1, <2>2
    <3>2. s \in Stream
      BY <1>2, NewStreamIs
    <3> QED BY <3>1, <3>2 DEF TypeOK
  <2> QED BY <2>1, <2>2
<1>7. sink_count' \in [Codecs -> Nat]
  BY DEF AddEncodedAudioSink, CountWith, TypeOK
<1>8. attached' \in [Codecs -> SUBSET Sinks]
  BY DEF AddEncodedAudioSink, TypeOK
<1> QED BY <1>3, <1>4, <1>5, <1>6, <1>7, <1>8 DEF AddEncodedAudioSink, TypeOK

\* What is asked of the senders when a sink is removed.
LEMMA RemovalTasks ==
  ASSUME TypeOK, NEW k \in Sinks
  PROVE  /\ RemoveAudioSenderSink(k) \in Seq(SenderTask)
         /\ DOMAIN RemoveAudioSenderSink(k) = Senders
         /\ \A i \in Senders :
              RemoveAudioSenderSink(k)[i] =
                [what |-> "RemoveAudioSink", to |-> audio_stream_senders[i].addr, sink |-> k]
<1>1. Senders = 1..Len(audio_stream_senders) /\ Len(audio_stream_senders) \in Nat
  BY DEF TypeOK, Senders
<1>2. ASSUME NEW i \in Senders
      PROVE  audio_stream_senders[i].addr \in SenderAddrs
  BY SenderIs
<1>3. ASSUME NEW i \in Senders
      PROVE  RemoveAudioSenderSink(k)[i] \in SenderTask
  BY <1>2 DEF RemoveAudioSenderSink, SinkTask, SenderTask
<1> DEFINE r == RemoveAudioSenderSink(k)
<1>4. r = [i \in 1..Len(audio_stream_senders) |-> r[i]]
  BY <1>1 DEF RemoveAudioSenderSink
<1>5. r \in Seq(SenderTask)
  <2> HIDE DEF r
  <2> QED BY <1>1, <1>3, <1>4 DEF r
<1> QED BY <1>5 DEF RemoveAudioSenderSink, SinkTask

LEMMA CountsDown ==
  ASSUME TypeOK, ListsInStep, AttachedOnce, NEW c \in Codecs, NEW k \in attached[c]
  PROVE  /\ sink_count[c] - 1 \in Nat
         /\ IsFiniteSet(attached[c] \ {k})
         /\ sink_count[c] - 1 = Cardinality(attached[c] \ {k})
         /\ sink_count[c] = 1 <=> attached[c] \ {k} = {}
<1>1. IsFiniteSet(attached[c]) /\ sink_count[c] = Cardinality(attached[c])
  BY DEF AttachedOnce, ListsInStep
<1>2. /\ IsFiniteSet(attached[c] \ {k})
      /\ Cardinality(attached[c] \ {k}) = Cardinality(attached[c]) - 1
  BY <1>1, FS_RemoveElement
<1>3. Cardinality(attached[c] \ {k}) \in Nat /\ Cardinality(attached[c]) \in Nat
  BY <1>1, <1>2, FS_CardinalityType
<1>4. Cardinality(attached[c] \ {k}) = 0 <=> attached[c] \ {k} = {}
  BY <1>2, FS_EmptySet
<1> QED BY <1>1, <1>2, <1>3, <1>4

LEMMA RemoveType ==
  ASSUME TypeOK, ListsInStep, AttachedOnce, NEW k \in Sinks, NEW c \in Codecs,
         RemoveEncodedAudioSink(k, c)
  PROVE  TypeOK'
<1>1. sink_count' \in [Codecs -> Nat]
  BY CountsDown DEF RemoveEncodedAudioSink, TypeOK
<1>2. transport_runner' \in Seq(SenderTask)
  BY RemovalTasks DEF RemoveEncodedAudioSink, TypeOK
<1>3. audio_stream_senders' \in Seq([codec : Codecs, addr : SenderAddrs])
  <2>1. \/ audio_stream_senders' \in RemoveAudioStreamSender(c)
        \/ UNCHANGED audio_stream_senders
    BY DEF RemoveEncodedAudioSink
  <2>2. audio_stream_senders' \in RemoveAudioStreamSender(c)
          => audio_stream_senders' \in Seq([codec : Codecs, addr : SenderAddrs])
    BY RemoveResult
  <2> QED BY <2>1, <2>2 DEF TypeOK
<1>4. audio_send_streams' \subseteq Codecs
  BY DEF RemoveEncodedAudioSink, TypeOK
<1>5. attached' \in [Codecs -> SUBSET Sinks]
  BY DEF RemoveEncodedAudioSink, TypeOK
<1>6. updating' \in BOOLEAN
  BY DEF RemoveEncodedAudioSink
<1>7. UNCHANGED <<stream, stream_runner, sender_sinks, flinger, recorded, crashed>>
  BY DEF RemoveEncodedAudioSink, streamVars
<1> QED BY <1>1, <1>2, <1>3, <1>4, <1>5, <1>6, <1>7 DEF TypeOK

LEMMA UpdateType ==
  ASSUME TypeOK, UpdateSender
  PROVE  TypeOK'
<1>1. flinger' \in [senders : SUBSET Codecs, format : Formats]
  <2> DEFINE F == {stream[c].shape.format : c \in audio_send_streams}
  <2>1. F \in SUBSET Formats
    BY DEF TypeOK, Stream, Shape
  <2>2. Max({0} \cup F) \in Formats
    BY <2>1, MaxFormat
  <2> QED BY <2>2 DEF UpdateSender, TypeOK
<1>2. stream' \in [Codecs -> Stream]
  BY NoStreamIs DEF UpdateSender, TypeOK
<1>3. stream_runner' \in [Codecs -> Seq(StreamTask)]
  BY DEF UpdateSender, TypeOK
<1>4. crashed' \in BOOLEAN /\ updating' \in BOOLEAN
  BY DEF UpdateSender
<1> QED BY <1>1, <1>2, <1>3, <1>4 DEF UpdateSender, TypeOK, senderVars

LEMMA CaptureType ==
  ASSUME TypeOK, DataIsRecorded \/ SendFrame
  PROVE  TypeOK'
<1>1. CASE DataIsRecorded
  <2>1. [samples |-> Captured, format |-> flinger.format] \in Shape
    BY DEF TypeOK, Shape, Samples, Captured
  <2>2. recorded' \in Seq(Shape) /\ Len(recorded') <= 1
    BY <1>1, <2>1 DEF DataIsRecorded
  <2> QED BY <1>1, <2>2 DEF DataIsRecorded, TypeOK, workerVars, streamVars, senderVars
<1>2. CASE SendFrame
  <2>1. recorded[1] \in Shape
    BY <1>2 DEF SendFrame, TypeOK
  <2>2. [what |-> "SendAudioData", shape |-> recorded[1]] \in StreamTask
    BY <2>1 DEF StreamTask, FrameTask
  <2>3. stream_runner' \in [Codecs -> Seq(StreamTask)]
    BY <1>2, <2>2 DEF SendFrame, TypeOK
  <2>4. recorded' \in Seq(Shape) /\ Len(recorded') <= 1
    BY <1>2 DEF SendFrame
  <2> QED BY <1>2, <2>3, <2>4 DEF SendFrame, TypeOK, workerVars, senderVars
<1> QED BY <1>1, <1>2

\* What a stream's task leaves of the stream.
LEMMA FrameResult ==
  ASSUME TypeOK, NEW c \in Codecs, RunSendAudioData(c)
  PROVE  \E s \in Stream :
           /\ stream' = [stream EXCEPT ![c] = s]
           /\ s.alive = stream[c].alive /\ s.sender = stream[c].sender
<1> DEFINE frame == Head(stream_runner[c]).shape
<1>1. frame \in Shape
  <2>1. Head(stream_runner[c]) \in StreamTask /\ Head(stream_runner[c]).what = "SendAudioData"
    BY DEF RunSendAudioData, Takes, TypeOK
  <2> QED BY <2>1 DEF StreamTask, FrameTask
<1>2. stream[c] \in Stream
  BY DEF TypeOK
<1>3. PICK r \in Reconfigured(stream[c], frame) : \E end \in Encoded(r.encoder) :
        stream' = [stream EXCEPT ![c] = [r EXCEPT !.encoder = end.encoder]]
  BY DEF RunSendAudioData
<1>4. PICK end \in Encoded(r.encoder) :
        stream' = [stream EXCEPT ![c] = [r EXCEPT !.encoder = end.encoder]]
  BY <1>3
<1>5. r \in Stream /\ r.alive = stream[c].alive /\ r.sender = stream[c].sender
  BY <1>1, <1>2, <1>3, ReconfiguredIs
<1>6. r.encoder \in Encoder
  BY <1>5 DEF Stream
<1>7. end.encoder \in Encoder
  BY <1>4, <1>6, EncodedIs
<1> DEFINE s == [r EXCEPT !.encoder = end.encoder]
<1>8. s \in Stream /\ s.alive = r.alive /\ s.sender = r.sender
  BY <1>5, <1>7 DEF Stream
<1> HIDE DEF s
<1>9. stream' = [stream EXCEPT ![c] = s]
  BY <1>4 DEF s
<1> QED BY <1>5, <1>7, <1>8, <1>9

LEMMA StreamType ==
  ASSUME TypeOK, ListsInStep, RunnersLive, NEW c \in Codecs, StreamRuns(c)
  PROVE  TypeOK'
<1>1. CASE EncoderMissing(c)
  BY <1>1 DEF EncoderMissing, TypeOK, workerVars, streamVars, senderVars
<1>2. CASE RunSendAudioData(c)
  <2>1. stream' \in [Codecs -> Stream]
    BY <1>2, FrameResult DEF TypeOK
  <2>2. stream_runner[c] \in Seq(StreamTask) /\ stream_runner[c] # <<>>
    BY <1>2 DEF RunSendAudioData, Takes, TypeOK
  <2>3. [what |-> "OnEncoded"] \in StreamTask
    BY DEF StreamTask
  <2>4. PICK more \in {<<>>, <<[what |-> "OnEncoded"]>>} :
          stream_runner' = [stream_runner EXCEPT ![c] = Tail(@) \o more]
    BY <1>2 DEF RunSendAudioData
  <2>5. more \in Seq(StreamTask)
    <3> DEFINE task == [what |-> "OnEncoded"]
    <3>1. task \in StreamTask /\ more \in {<<>>, <<task>>}
      BY <2>3, <2>4
    <3> HIDE DEF task
    <3>2. <<>> \in Seq(StreamTask) /\ <<task>> \in Seq(StreamTask)
      BY <3>1
    <3> QED BY <3>1, <3>2
  <2>6. Tail(stream_runner[c]) \o more \in Seq(StreamTask)
    BY <2>2, <2>5
  <2>7. stream_runner' \in [Codecs -> Seq(StreamTask)]
    BY <2>4, <2>6 DEF TypeOK
  <2> QED BY <1>2, <2>1, <2>7 DEF RunSendAudioData, TypeOK, workerVars, senderVars
<1>3. CASE RunOnEncoded(c)
  <2>1. stream_runner' \in [Codecs -> Seq(StreamTask)]
    BY <1>3 DEF RunOnEncoded, Takes, TypeOK
  <2>2. stream[c].sender \in SenderAddrs
    BY <1>3 DEF RunOnEncoded, Takes, RunnersLive, ListsInStep
  <2>3. [what |-> "OnFrame", to |-> stream[c].sender] \in SenderTask
    BY <2>2 DEF SenderTask
  <2>4. transport_runner' \in Seq(SenderTask)
    <3> DEFINE task == [what |-> "OnFrame", to |-> stream[c].sender]
    <3>1. transport_runner' = Append(transport_runner, task)
      BY <1>3 DEF RunOnEncoded
    <3> HIDE DEF task
    <3> QED BY <2>3, <3>1 DEF TypeOK, task
  <2>5. crashed' \in BOOLEAN
    BY <1>3 DEF RunOnEncoded
  <2> QED BY <1>3, <2>1, <2>4, <2>5 DEF RunOnEncoded, TypeOK, workerVars, senderVars
<1> QED BY <1>1, <1>2, <1>3 DEF StreamRuns

LEMMA TransportType ==
  ASSUME TypeOK, TransportRuns
  PROVE  TypeOK'
<1>1. Head(transport_runner) \in SenderTask /\ Tail(transport_runner) \in Seq(SenderTask)
  BY DEF TransportRuns, TypeOK
<1>2. ASSUME NEW S \in SUBSET Sinks
      PROVE  SinksAfter(S, Head(transport_runner)) \subseteq Sinks
  BY <1>1 DEF SinksAfter, SenderTask
<1>3. sender_sinks' \in [SenderAddrs -> SUBSET Sinks]
  <2> DEFINE task == Head(transport_runner)
  <2>1. task.to \in SenderAddrs
    BY <1>1 DEF SenderTask
  <2>2. sender_sinks[task.to] \in SUBSET Sinks
    BY <2>1 DEF TypeOK
  <2>3. SinksAfter(sender_sinks[task.to], task) \in SUBSET Sinks
    BY <1>2, <2>2
  <2>4. \/ UNCHANGED sender_sinks
        \/ sender_sinks' =
             [sender_sinks EXCEPT ![task.to] = SinksAfter(sender_sinks[task.to], task)]
    BY DEF TransportRuns
  <2> HIDE DEF task
  <2> QED BY <2>3, <2>4 DEF TypeOK
<1>4. transport_runner' \in Seq(SenderTask) /\ crashed' \in BOOLEAN
  BY <1>1 DEF TransportRuns, TypeOK
<1> QED BY <1>3, <1>4 DEF TransportRuns, TypeOK, workerVars, streamVars

-----------------------------------------------------------------------------
(* The lists.                                                               *)

LEMMA CodecHasSender ==
  ASSUME ListsInStep, NEW c \in Codecs
  PROVE  c \in audio_send_streams <=> \E i \in Senders : audio_stream_senders[i].codec = c
<1>1. ASSUME c \in audio_send_streams
      PROVE  \E i \in Senders : audio_stream_senders[i].codec = c
  <2>1. PICK i \in Senders :
          audio_stream_senders[i] = [codec |-> c, addr |-> stream[c].sender]
    BY <1>1 DEF ListsInStep
  <2> QED BY <2>1
<1>2. \A i \in Senders : audio_stream_senders[i].codec \in audio_send_streams
  BY DEF ListsInStep
<1> QED BY <1>1, <1>2

LEMMA AddLists ==
  ASSUME TypeOK, ListsInStep, AttachedOnce, RunnersLive,
         NEW k \in Sinks, NEW c \in Codecs, AddEncodedAudioSink(k, c)
  PROVE  ListsInStep' /\ AttachedOnce' /\ RunnersLive'
<1>1. PICK r \in GetAudioStreamSender(c) :
        /\ audio_stream_senders' = r.list
        /\ IF c \in audio_send_streams THEN UNCHANGED stream
           ELSE \E s \in NewStreams(r.addr) : stream' = [stream EXCEPT ![c] = s]
  BY DEF AddEncodedAudioSink
<1>2. /\ k \notin attached[c] /\ \A d \in Codecs : k \notin attached[d]
      /\ audio_send_streams' = audio_send_streams \cup {c}
      /\ sink_count' = [sink_count EXCEPT ![c] = IF c \in audio_send_streams THEN @ + 1 ELSE 1]
      /\ attached' = [attached EXCEPT ![c] = @ \cup {k}]
      /\ updating' = TRUE
      /\ UNCHANGED <<stream_runner, flinger>>
  BY DEF AddEncodedAudioSink, CountWith
<1>3. /\ r.addr \in SenderAddrs
      /\ \/ /\ r.list = audio_stream_senders
            /\ \E i \in Senders : audio_stream_senders[i] = [codec |-> c, addr |-> r.addr]
         \/ /\ r.list = Append(audio_stream_senders, [codec |-> c, addr |-> r.addr])
            /\ ~Live(r.addr)
            /\ \A i \in Senders : audio_stream_senders[i].codec # c
  BY <1>1, GetResult
<1>4. c \in audio_send_streams
        <=> \E i \in Senders : audio_stream_senders[i].codec = c
  BY CodecHasSender
\* The streams.
<1>5. /\ c \notin audio_send_streams =>
           stream'[c].alive /\ stream'[c].sender = r.addr
      /\ \A d \in Codecs : d # c \/ c \in audio_send_streams => stream'[d] = stream[d]
  <2>1. CASE c \in audio_send_streams
    BY <1>1, <2>1
  <2>2. CASE c \notin audio_send_streams
    <3>1. PICK s \in NewStreams(r.addr) : stream' = [stream EXCEPT ![c] = s]
      BY <1>1, <2>2
    <3>2. s.alive /\ s.sender = r.addr
      BY <1>3, NewStreamIs
    <3> QED BY <2>2, <3>1, <3>2 DEF TypeOK
  <2> QED BY <2>1, <2>2
\* The senders.
<1>6. /\ \A i \in Senders : i \in Senders' /\ audio_stream_senders'[i] = audio_stream_senders[i]
      /\ \E i \in Senders' : audio_stream_senders'[i] = [codec |-> c, addr |-> r.addr]
      /\ \A i \in Senders' : \/ i \in Senders
                             \/ /\ audio_stream_senders'[i] = [codec |-> c, addr |-> r.addr]
                                /\ ~Live(r.addr)
                                /\ \A j \in Senders : audio_stream_senders[j].codec # c
                                /\ \A j \in Senders' : j = i \/ j \in Senders
  <2> DEFINE e == [codec |-> c, addr |-> r.addr]
  <2>1. CASE r.list = audio_stream_senders /\ \E i \in Senders : audio_stream_senders[i] = e
    BY <1>1, <2>1 DEF Senders
  <2>2. CASE /\ r.list = Append(audio_stream_senders, e)
             /\ ~Live(r.addr)
             /\ \A i \in Senders : audio_stream_senders[i].codec # c
    <3> DEFINE s == audio_stream_senders
               S == [codec : Codecs, addr : SenderAddrs]
    <3>1. s \in Seq(S) /\ e \in S
      BY <1>3 DEF TypeOK
    <3> HIDE DEF e, S
    <3>2. /\ DOMAIN s = 1..Len(s) /\ Len(s) \in Nat
          /\ DOMAIN Append(s, e) = 1..(Len(s) + 1)
          /\ \A i \in 1..Len(s) : Append(s, e)[i] = s[i]
          /\ Append(s, e)[Len(s) + 1] = e
      BY <3>1
    <3>3. audio_stream_senders' = Append(s, e)
      BY <1>1, <2>2
    <3>4. Senders' = 1..(Len(s) + 1) /\ Senders = 1..Len(s)
      BY <3>2, <3>3 DEF Senders
    <3> HIDE DEF s
    <3> QED BY <2>2, <3>2, <3>3, <3>4 DEF s, e
  <2> QED BY <1>3, <2>1, <2>2
<1> HIDE DEF Senders
<1>7. attached'[c] = attached[c] \cup {k} /\ \A d \in Codecs : d # c => attached'[d] = attached[d]
  BY <1>2 DEF TypeOK
<1>8. \A d \in Codecs :
        /\ d \in audio_send_streams' <=> attached'[d] # {}
        /\ sink_count'[d] = Cardinality(attached'[d])
        /\ IsFiniteSet(attached'[d])
  <2>1. ASSUME NEW d \in Codecs, d # c
        PROVE  /\ d \in audio_send_streams' <=> attached'[d] # {}
               /\ sink_count'[d] = Cardinality(attached'[d])
               /\ IsFiniteSet(attached'[d])
    BY <1>2, <1>7, <2>1 DEF ListsInStep, AttachedOnce, TypeOK
  <2>2. IsFiniteSet(attached[c]) /\ sink_count[c] = Cardinality(attached[c])
    BY DEF ListsInStep, AttachedOnce
  <2>3. /\ IsFiniteSet(attached[c] \cup {k})
        /\ Cardinality(attached[c] \cup {k}) = Cardinality(attached[c]) + 1
    BY <1>2, <2>2, FS_AddElement
  <2>4. c \notin audio_send_streams => attached[c] = {} /\ Cardinality(attached[c]) = 0
    BY FS_EmptySet DEF ListsInStep
  <2>5. sink_count'[c] = Cardinality(attached[c]) + 1
    BY <1>2, <2>2, <2>4 DEF TypeOK
  <2> QED BY <1>2, <1>7, <2>1, <2>3, <2>5
<1>9. \A d \in audio_send_streams' :
        /\ stream'[d].alive
        /\ \E i \in Senders' : audio_stream_senders'[i] = [codec |-> d, addr |-> stream'[d].sender]
  <2>1. ASSUME NEW d \in audio_send_streams
        PROVE  /\ stream'[d].alive
               /\ \E i \in Senders' :
                    audio_stream_senders'[i] = [codec |-> d, addr |-> stream'[d].sender]
    <3>1. d \in Codecs /\ stream'[d] = stream[d]
      BY <1>5, <2>1 DEF TypeOK
    <3> QED BY <1>6, <2>1, <3>1 DEF ListsInStep
  <2> QED BY <1>2, <1>5, <1>6, <2>1
<1>10. \A i \in Senders' : audio_stream_senders'[i].codec \in audio_send_streams'
  BY <1>2, <1>6 DEF ListsInStep
<1>11. \A i, j \in Senders' :
         (audio_stream_senders'[i].codec = audio_stream_senders'[j].codec
            \/ audio_stream_senders'[i].addr = audio_stream_senders'[j].addr) => i = j
  BY <1>6 DEF ListsInStep, Live
<1>12. \A d \in flinger.senders' : stream'[d].alive
  BY <1>2, <1>5 DEF ListsInStep, TypeOK
<1>13. ListsInStep'
  BY <1>2, <1>8, <1>9, <1>10, <1>11, <1>12 DEF ListsInStep
<1>14. AttachedOnce'
  BY <1>2, <1>7, <1>8 DEF AttachedOnce
<1>15. RunnersLive'
  BY <1>2, <1>3, <1>5 DEF RunnersLive
<1> QED BY <1>13, <1>14, <1>15

\* What a removal leaves of the list of senders: each of them was one before, and
\* those of other codecs are still there.
LEMMA SendersLeft ==
  ASSUME TypeOK, ListsInStep, AttachedOnce,
         NEW k \in Sinks, NEW c \in Codecs, RemoveEncodedAudioSink(k, c)
  PROVE  \E f \in [Senders' -> Senders] :
           /\ \A j \in Senders' : audio_stream_senders'[j] = audio_stream_senders[f[j]]
           /\ \A j, l \in Senders' : f[j] = f[l] => j = l
           /\ \A i \in Senders :
                (\E j \in Senders' : f[j] = i)
                  <=> (audio_stream_senders[i].codec # c \/ attached[c] # {k})
<1>1. k \in attached[c] /\ (sink_count[c] = 1 <=> attached[c] = {k})
  <2>1. k \in attached[c]
    BY DEF RemoveEncodedAudioSink
  <2>2. sink_count[c] = 1 <=> attached[c] \ {k} = {}
    BY <2>1, CountsDown
  <2> QED BY <2>1, <2>2
<1>2. CASE attached[c] = {k}
  <2>1. audio_stream_senders' \in RemoveAudioStreamSender(c)
    BY <1>1, <1>2 DEF RemoveEncodedAudioSink
  <2> QED BY <1>2, <2>1, RemoveResult DEF Senders
<1>3. CASE attached[c] # {k}
  <2>1. audio_stream_senders' = audio_stream_senders
    BY <1>1, <1>3 DEF RemoveEncodedAudioSink
  <2> DEFINE f == [i \in Senders |-> i]
  <2>2. /\ f \in [Senders' -> Senders]
        /\ \A j \in Senders' : audio_stream_senders'[j] = audio_stream_senders[f[j]]
        /\ \A j, l \in Senders' : f[j] = f[l] => j = l
        /\ \A i \in Senders : \E j \in Senders' : f[j] = i
    BY <2>1 DEF Senders
  <2> QED BY <1>3, <2>2
<1> QED BY <1>2, <1>3

LEMMA RemoveLists ==
  ASSUME TypeOK, ListsInStep, AttachedOnce, RunnersLive,
         NEW k \in Sinks, NEW c \in Codecs, RemoveEncodedAudioSink(k, c)
  PROVE  ListsInStep' /\ AttachedOnce' /\ RunnersLive'
<1>1. /\ k \in attached[c]
      /\ sink_count' = [sink_count EXCEPT ![c] = @ - 1]
      /\ attached' = [attached EXCEPT ![c] = @ \ {k}]
      /\ updating' = TRUE
      /\ UNCHANGED <<stream, stream_runner, flinger>>
      /\ audio_send_streams' =
           IF sink_count[c] = 1 THEN audio_send_streams \ {c} ELSE audio_send_streams
  BY DEF RemoveEncodedAudioSink, streamVars
<1>2. /\ sink_count[c] - 1 = Cardinality(attached[c] \ {k})
      /\ IsFiniteSet(attached[c] \ {k})
      /\ sink_count[c] = 1 <=> attached[c] \ {k} = {}
  BY <1>1, CountsDown
<1>3. attached'[c] = attached[c] \ {k} /\ \A d \in Codecs : d # c => attached'[d] = attached[d]
  BY <1>1 DEF TypeOK
<1>4. PICK f \in [Senders' -> Senders] :
        /\ \A j \in Senders' : audio_stream_senders'[j] = audio_stream_senders[f[j]]
        /\ \A j, l \in Senders' : f[j] = f[l] => j = l
        /\ \A i \in Senders :
             (\E j \in Senders' : f[j] = i)
               <=> (audio_stream_senders[i].codec # c \/ attached[c] # {k})
  BY SendersLeft
<1> HIDE DEF Senders
<1>5. \A d \in Codecs :
        /\ d \in audio_send_streams' <=> attached'[d] # {}
        /\ sink_count'[d] = Cardinality(attached'[d])
        /\ IsFiniteSet(attached'[d])
  <2>1. ASSUME NEW d \in Codecs, d # c
        PROVE  /\ d \in audio_send_streams' <=> attached'[d] # {}
               /\ sink_count'[d] = Cardinality(attached'[d])
               /\ IsFiniteSet(attached'[d])
    BY <1>1, <1>3, <2>1 DEF ListsInStep, AttachedOnce, TypeOK
  <2>2. c \in audio_send_streams
    BY <1>1 DEF ListsInStep
  <2>3. sink_count'[c] = sink_count[c] - 1
    BY <1>1 DEF TypeOK
  <2> QED BY <1>1, <1>2, <1>3, <2>1, <2>2, <2>3
<1>6. ASSUME NEW d \in audio_send_streams'
      PROVE  /\ stream'[d].alive
             /\ \E j \in Senders' : audio_stream_senders'[j] = [codec |-> d, addr |-> stream'[d].sender]
  <2>1. d \in audio_send_streams /\ d \in Codecs
    BY <1>1, <1>6 DEF TypeOK
  <2>2. stream[d].alive
    BY <2>1 DEF ListsInStep
  <2>3. PICK i \in Senders : audio_stream_senders[i] = [codec |-> d, addr |-> stream[d].sender]
    BY <2>1 DEF ListsInStep
  <2>4. audio_stream_senders[i].codec # c \/ attached[c] # {k}
    BY <1>1, <1>2, <1>6, <2>3
  <2>5. PICK j \in Senders' : f[j] = i
    BY <1>4, <2>4
  <2> QED BY <1>1, <1>4, <2>2, <2>3, <2>5
<1>7. ASSUME NEW j \in Senders'
      PROVE  audio_stream_senders'[j].codec \in audio_send_streams'
  <2>1. f[j] \in Senders /\ audio_stream_senders[f[j]].codec \in audio_send_streams
    BY <1>4 DEF ListsInStep
  <2>2. audio_stream_senders[f[j]].codec # c \/ attached[c] # {k}
    BY <1>4, <2>1
  <2>3. attached[c] # {k} => sink_count[c] # 1
    BY <1>1, <1>2
  <2> QED BY <1>1, <1>4, <2>1, <2>2, <2>3
<1>8. ASSUME NEW i \in Senders', NEW j \in Senders',
             \/ audio_stream_senders'[i].codec = audio_stream_senders'[j].codec
             \/ audio_stream_senders'[i].addr = audio_stream_senders'[j].addr
      PROVE  i = j
  <2>1. f[i] = f[j]
    BY <1>4, <1>8 DEF ListsInStep
  <2> QED BY <1>4, <2>1
<1>9. \A d \in flinger.senders' : stream'[d].alive
  BY <1>1 DEF ListsInStep
<1>10. ListsInStep'
  BY <1>1, <1>5, <1>6, <1>7, <1>8, <1>9 DEF ListsInStep
<1>11. AttachedOnce'
  BY <1>3, <1>5 DEF AttachedOnce
<1>12. RunnersLive'
  BY <1>1 DEF RunnersLive
<1> QED BY <1>10, <1>11, <1>12

LEMMA UpdateLists ==
  ASSUME TypeOK, ListsInStep, AttachedOnce, RunnersLive, UpdateSender
  PROVE  ListsInStep' /\ AttachedOnce' /\ RunnersLive'
<1>1. /\ flinger'.senders = audio_send_streams
      /\ \A c \in Codecs :
           IF c \in flinger.senders \ audio_send_streams
           THEN stream'[c] = NoStream /\ stream_runner'[c] = <<>>
           ELSE stream'[c] = stream[c] /\ stream_runner'[c] = stream_runner[c]
      /\ UNCHANGED <<audio_send_streams, sink_count, attached, audio_stream_senders>>
  BY DEF UpdateSender, senderVars
<1>2. \A c \in audio_send_streams : c \in Codecs /\ stream'[c] = stream[c]
  BY <1>1 DEF TypeOK
<1>3. ListsInStep'
  <2>1. Senders' = Senders
    BY <1>1 DEF Senders
  <2>2. \A c \in flinger'.senders : stream'[c].alive
    BY <1>1, <1>2 DEF ListsInStep
  <2> HIDE DEF Senders
  <2>3. ASSUME NEW c \in Codecs
        PROVE  /\ c \in audio_send_streams' <=> attached'[c] # {}
               /\ sink_count'[c] = Cardinality(attached'[c])
    BY <1>1 DEF ListsInStep
  <2>4. ASSUME NEW c \in audio_send_streams'
        PROVE  /\ stream'[c].alive
               /\ \E i \in Senders' :
                    audio_stream_senders'[i] = [codec |-> c, addr |-> stream'[c].sender]
    BY <1>1, <1>2, <2>1, <2>4 DEF ListsInStep
  <2>5. /\ \A i \in Senders' : audio_stream_senders'[i].codec \in audio_send_streams'
        /\ \A i, j \in Senders' :
             (audio_stream_senders'[i].codec = audio_stream_senders'[j].codec
                \/ audio_stream_senders'[i].addr = audio_stream_senders'[j].addr) => i = j
    BY <1>1, <2>1 DEF ListsInStep
  <2> QED BY <1>1, <2>2, <2>3, <2>4, <2>5 DEF ListsInStep
<1>4. RunnersLive'
  <2>1. ~NoStream.alive
    BY DEF NoStream
  <2> HIDE DEF NoStream
  <2> QED BY <1>1, <2>1 DEF RunnersLive
<1> QED BY <1>1, <1>3, <1>4 DEF AttachedOnce

\* Everything else that happens leaves the lists alone, and of a stream what they
\* depend on.
LEMMA OtherLists ==
  ASSUME TypeOK, ListsInStep, AttachedOnce, RunnersLive,
         \/ DataIsRecorded \/ SendFrame \/ TransportRuns
         \/ \E c \in Codecs : StreamRuns(c)
  PROVE  ListsInStep' /\ AttachedOnce' /\ RunnersLive'
<1>1. UNCHANGED <<audio_send_streams, sink_count, updating, attached, audio_stream_senders, flinger>>
  BY DEF DataIsRecorded, SendFrame, TransportRuns, StreamRuns, EncoderMissing, RunSendAudioData,
         RunOnEncoded, workerVars, senderVars
<1>2. \A d \in Codecs : /\ stream'[d].alive <=> stream[d].alive
                        /\ stream'[d].sender = stream[d].sender
  <2>1. CASE \E c \in Codecs : RunSendAudioData(c)
    BY <2>1, FrameResult DEF TypeOK
  <2>2. CASE ~\E c \in Codecs : RunSendAudioData(c)
    BY <2>2 DEF DataIsRecorded, SendFrame, TransportRuns, StreamRuns, EncoderMissing,
                RunOnEncoded, streamVars
  <2> QED BY <2>1, <2>2
<1>3. \A d \in Codecs : stream_runner'[d] # <<>> => d \in flinger.senders
  <2>1. CASE SendFrame
    BY <2>1 DEF SendFrame, SendsTo, RunnersLive
  <2>2. CASE \E c \in Codecs : StreamRuns(c)
    <3>1. PICK c \in Codecs : StreamRuns(c)
      BY <2>2
    <3>2. CASE EncoderMissing(c)
      BY <3>2 DEF EncoderMissing, streamVars, RunnersLive
    <3>3. CASE RunSendAudioData(c) \/ RunOnEncoded(c)
      <4>1. stream_runner[c] # <<>>
        BY <3>3 DEF RunSendAudioData, RunOnEncoded, Takes
      <4>2. \A d \in Codecs : d # c => stream_runner'[d] = stream_runner[d]
        BY <3>3 DEF RunSendAudioData, RunOnEncoded, TypeOK
      <4> QED BY <4>1, <4>2 DEF RunnersLive
    <3> QED BY <3>1, <3>2, <3>3 DEF StreamRuns
  <2>3. CASE DataIsRecorded \/ TransportRuns
    BY <2>3 DEF DataIsRecorded, TransportRuns, streamVars, RunnersLive
  <2> QED BY <2>1, <2>2, <2>3
<1>4. Senders' = Senders
  BY <1>1 DEF Senders
<1> HIDE DEF Senders
<1>5. /\ \A c \in audio_send_streams : c \in Codecs
      /\ \A c \in flinger.senders : c \in Codecs
  BY DEF TypeOK
<1>6. ListsInStep'
  BY <1>1, <1>2, <1>4, <1>5 DEF ListsInStep
<1>7. RunnersLive'
  BY <1>1, <1>2, <1>3 DEF RunnersLive
<1> QED BY <1>1, <1>6, <1>7 DEF AttachedOnce

-----------------------------------------------------------------------------
(* Sinks and the tasks about them.                                          *)

\* A sink that a sender should not have may be gone already.
LEMMA EndsWithout ==
  ASSUME NEW q, NEW a, NEW k, NEW in \in BOOLEAN, NEW at \in BOOLEAN, NEW now \in BOOLEAN,
         Ends(q, a, k, in, at), (now <=> in) \/ (~at /\ ~now)
  PROVE  Ends(q, a, k, now, at)
  BY DEF Ends

LEMMA AtIsLive ==
  ASSUME NEW a, NEW k
  PROVE  /\ At(a, k) => Live(a)
         /\ In(a, k) \in BOOLEAN /\ At(a, k) \in BOOLEAN /\ Live(a) \in BOOLEAN
         /\ In(a, k)' \in BOOLEAN /\ At(a, k)' \in BOOLEAN
  BY DEF At, In, Live

LEMMA AddSinks ==
  ASSUME TypeOK, ListsInStep, AttachedOnce, SinksAgree,
         NEW k \in Sinks, NEW c \in Codecs, AddEncodedAudioSink(k, c)
  PROVE  SinksAgree'
<1>1. PICK r \in GetAudioStreamSender(c) :
        /\ audio_stream_senders' = r.list
        /\ sender_sinks' = [sender_sinks EXCEPT ![r.addr] = IF Live(r.addr) THEN @ ELSE {}]
        /\ transport_runner' = Append(transport_runner, SinkTask("AddAudioSink", r.addr, k))
  BY DEF AddEncodedAudioSink
<1>2. r.addr \in SenderAddrs
  BY <1>1, GetResult
<1>3. \/ /\ UNCHANGED audio_stream_senders /\ UNCHANGED sender_sinks
         /\ \E i \in Senders : audio_stream_senders[i] = [codec |-> c, addr |-> r.addr]
      \/ /\ ~Live(r.addr)
         /\ attached[c] = {}
         /\ sender_sinks' = [sender_sinks EXCEPT ![r.addr] = {}]
         /\ \A i \in Senders : audio_stream_senders[i].codec # c
         /\ \A i \in Senders : i \in Senders' /\ audio_stream_senders'[i] = audio_stream_senders[i]
         /\ \E i \in Senders' : audio_stream_senders'[i] = [codec |-> c, addr |-> r.addr]
         /\ \A i \in Senders' :
              i \in Senders \/ audio_stream_senders'[i] = [codec |-> c, addr |-> r.addr]
  <2> DEFINE e == [codec |-> c, addr |-> r.addr]
  <2>1. CASE r.list = audio_stream_senders /\ \E i \in Senders : audio_stream_senders[i] = e
    <3>1. Live(r.addr)
      BY <2>1 DEF Live
    <3> QED BY <1>1, <2>1, <3>1 DEF TypeOK
  <2>2. CASE /\ r.list = Append(audio_stream_senders, e)
             /\ ~Live(r.addr)
             /\ \A i \in Senders : audio_stream_senders[i].codec # c
    <3> DEFINE s == audio_stream_senders
               S == [codec : Codecs, addr : SenderAddrs]
    <3>1. s \in Seq(S) /\ e \in S
      BY <1>2 DEF TypeOK
    <3> HIDE DEF e, S
    <3>2. /\ DOMAIN s = 1..Len(s) /\ Len(s) \in Nat
          /\ DOMAIN Append(s, e) = 1..(Len(s) + 1)
          /\ \A i \in 1..Len(s) : Append(s, e)[i] = s[i]
          /\ Append(s, e)[Len(s) + 1] = e
      BY <3>1
    <3>3. audio_stream_senders' = Append(s, e)
      BY <1>1, <2>2
    <3>4. Senders' = 1..(Len(s) + 1) /\ Senders = 1..Len(s)
      BY <3>2, <3>3 DEF Senders
    <3>5. attached[c] = {}
      BY <2>2, CodecHasSender DEF ListsInStep
    <3>6. sender_sinks' = [sender_sinks EXCEPT ![r.addr] = {}]
      BY <1>1, <2>2
    <3> HIDE DEF s
    <3>7. /\ \A i \in Senders : i \in Senders' /\ audio_stream_senders'[i] = s[i]
          /\ Len(s) + 1 \in Senders' /\ audio_stream_senders'[Len(s) + 1] = e
          /\ \A i \in Senders' : i \in Senders \/ audio_stream_senders'[i] = e
      BY <3>2, <3>3, <3>4
    <3> QED BY <2>2, <3>5, <3>6, <3>7 DEF s, e
  <2> QED BY <1>1, <2>1, <2>2, GetResult
<1>4. /\ attached'[c] = attached[c] \cup {k}
      /\ \A d \in Codecs : d # c => attached'[d] = attached[d]
  BY DEF AddEncodedAudioSink, TypeOK
<1>5. \A i \in Senders : audio_stream_senders[i].codec \in Codecs
  BY SenderIs
<1>6. \A i, j \in Senders :
        \/ audio_stream_senders[i].codec = audio_stream_senders[j].codec
        \/ audio_stream_senders[i].addr = audio_stream_senders[j].addr
        => i = j
  BY DEF ListsInStep
<1> DEFINE task == SinkTask("AddAudioSink", r.addr, k)
           q == transport_runner
<1>7. /\ task \in SenderTask /\ task.what = "AddAudioSink"
      /\ task.to = r.addr /\ task.sink = k
  BY <1>2 DEF SinkTask, SenderTask
<1>8. transport_runner' = q \o <<task>> /\ q \in Seq(SenderTask) /\ <<task>> \in Seq(SenderTask)
  <2>1. q \in Seq(SenderTask)
    BY DEF TypeOK
  <2>2. transport_runner' = Append(q, task)
    BY <1>1
  <2> HIDE DEF task, q
  <2> QED BY <1>7, <2>1, <2>2
<1> HIDE DEF task, q
<1>9. ASSUME NEW a \in SenderAddrs, NEW l \in Sinks
      PROVE  Ends(transport_runner, a, l, In(a, l), At(a, l))'
  <2>1. In(a, l)' <=> In(a, l)
    <3>1. CASE UNCHANGED audio_stream_senders /\ UNCHANGED sender_sinks
      BY <3>1 DEF In, Live, Senders
    <3>2. CASE ~(UNCHANGED audio_stream_senders /\ UNCHANGED sender_sinks)
      <4>1. CASE a = r.addr
        <5>1. sender_sinks'[a] = {} /\ ~Live(a)
          BY <1>2, <1>3, <3>2, <4>1 DEF TypeOK
        <5> QED BY <5>1 DEF In
      <4>2. CASE a # r.addr
        <5>1. sender_sinks'[a] = sender_sinks[a]
          BY <1>3, <3>2, <4>2 DEF TypeOK
        <5>2. Live(a)' <=> Live(a)
          BY <1>3, <3>2, <4>2 DEF Live
        <5> QED BY <5>1, <5>2 DEF In
      <4> QED BY <4>1, <4>2
    <3> QED BY <3>1, <3>2
  <2>2. Ends(q, a, l, In(a, l), At(a, l))
    BY <1>9 DEF SinksAgree, q
  <2>3. CASE a = r.addr /\ l = k
    <3>1. At(a, l)'
      BY <1>3, <1>4, <2>3 DEF At, Senders
    <3>2. /\ AboutIn(<<task>>, a, l) # {}
          /\ \A n \in AboutIn(<<task>>, a, l) : <<task>>[n].what = "AddAudioSink"
      BY <1>7, <2>3 DEF AboutIn
    <3>3. Ends(q \o <<task>>, a, l, In(a, l), TRUE)
      BY <1>7, <1>8, <2>2, <3>2, EndsBehind, AtIsLive
    <3> QED BY <1>8, <2>1, <3>1, <3>3 DEF Ends
  <2>4. CASE ~(a = r.addr /\ l = k)
    <3>1. At(a, l)' <=> At(a, l)
      <4>1. CASE UNCHANGED audio_stream_senders
        <5>1. PICK i \in Senders : audio_stream_senders[i] = [codec |-> c, addr |-> r.addr]
          BY <1>3, <4>1 DEF Senders
        <5>2. ASSUME NEW j \in Senders, audio_stream_senders[j].addr = a
              PROVE  l \in attached'[audio_stream_senders[j].codec]
                       <=> l \in attached[audio_stream_senders[j].codec]
          <6>1. CASE audio_stream_senders[j].codec = c
            <7>1. a = r.addr
              BY <1>6, <5>1, <5>2, <6>1
            <7> QED BY <1>4, <2>4, <6>1, <7>1
          <6>2. CASE audio_stream_senders[j].codec # c
            BY <1>4, <1>5, <6>2
          <6> QED BY <6>1, <6>2
        <5> QED BY <4>1, <5>2 DEF At, Senders
      <4>2. CASE ~UNCHANGED audio_stream_senders
        <5>1. At(a, l) => At(a, l)'
          BY <1>3, <1>4, <1>5, <4>2 DEF At
        <5>2. ASSUME At(a, l)'
              PROVE  At(a, l)
          <6>1. PICK i \in Senders' : /\ audio_stream_senders'[i].addr = a
                                      /\ l \in attached'[audio_stream_senders'[i].codec]
            BY <5>2 DEF At
          <6>2. i \in Senders
            BY <1>3, <1>4, <2>4, <4>2, <6>1
          <6> QED BY <1>3, <1>4, <1>5, <4>2, <6>1, <6>2 DEF At
        <5> QED BY <5>1, <5>2
      <4> QED BY <4>1, <4>2
    <3>2. AboutIn(<<task>>, a, l) = {}
      BY <1>7, <2>4 DEF AboutIn
    <3>3. Ends(q \o <<task>>, a, l, In(a, l), At(a, l)')
      BY <1>8, <2>2, <3>1, <3>2, EndsBehind, AtIsLive, ZenonT(60)
    <3> QED BY <1>8, <2>1, <3>3 DEF Ends
  <2> QED BY <2>3, <2>4
<1> QED BY <1>9 DEF SinksAgree

LEMMA RemoveSinks ==
  ASSUME TypeOK, ListsInStep, AttachedOnce, SinksAgree,
         NEW k \in Sinks, NEW c \in Codecs, RemoveEncodedAudioSink(k, c)
  PROVE  SinksAgree'
<1> DEFINE q == transport_runner
           r == RemoveAudioSenderSink(k)
<1>1. /\ k \in attached[c]
      /\ attached' = [attached EXCEPT ![c] = @ \ {k}]
      /\ transport_runner' = q \o r
      /\ UNCHANGED sender_sinks
  BY DEF RemoveEncodedAudioSink
<1>2. /\ r \in Seq(SenderTask)
      /\ DOMAIN r = Senders
      /\ \A i \in Senders :
           r[i] = [what |-> "RemoveAudioSink", to |-> audio_stream_senders[i].addr, sink |-> k]
  BY RemovalTasks
<1>3. q \in Seq(SenderTask)
  BY DEF TypeOK
<1> HIDE DEF q, r
<1>4. PICK f \in [Senders' -> Senders] :
        /\ \A j \in Senders' : audio_stream_senders'[j] = audio_stream_senders[f[j]]
        /\ \A i \in Senders :
             (\E j \in Senders' : f[j] = i)
               <=> (audio_stream_senders[i].codec # c \/ attached[c] # {k})
  BY SendersLeft
<1>5. /\ attached'[c] = attached[c] \ {k}
      /\ \A d \in Codecs : d # c => attached'[d] = attached[d] /\ k \notin attached[d]
  BY <1>1 DEF TypeOK, AttachedOnce
<1>6. \A i \in Senders : audio_stream_senders[i].codec \in Codecs
  BY SenderIs
<1> HIDE DEF Senders
<1>7. ASSUME NEW a \in SenderAddrs, NEW l \in Sinks
      PROVE  Ends(transport_runner, a, l, In(a, l), At(a, l))'
  <2>1. Ends(q, a, l, In(a, l), At(a, l))
    BY DEF SinksAgree, q
  <2>2. Live(a)' => Live(a)
    BY <1>4 DEF Live
  <2>3. At(a, l)' <=> At(a, l) /\ l # k
    <3>1. ASSUME At(a, l)'
          PROVE  At(a, l) /\ l # k
      <4>1. PICK j \in Senders' : /\ audio_stream_senders'[j].addr = a
                                  /\ l \in attached'[audio_stream_senders'[j].codec]
        BY <3>1 DEF At
      <4> QED BY <1>4, <1>5, <1>6, <4>1 DEF At
    <3>2. ASSUME At(a, l), l # k
          PROVE  At(a, l)'
      <4>1. PICK i \in Senders : /\ audio_stream_senders[i].addr = a
                                 /\ l \in attached[audio_stream_senders[i].codec]
        BY <3>2 DEF At
      <4>2. audio_stream_senders[i].codec # c \/ attached[c] # {k}
        BY <3>2, <4>1
      <4>3. PICK j \in Senders' : f[j] = i
        BY <1>4, <4>2
      <4>4. l \in attached'[audio_stream_senders[i].codec]
        BY <1>5, <1>6, <3>2, <4>1
      <4> QED BY <1>4, <4>1, <4>3, <4>4 DEF At
    <3> QED BY <3>1, <3>2
  <2>4. Live(a) => AboutIn(r, a, k) # {}
    BY <1>2 DEF Live, AboutIn
  <2>5. \A n \in AboutIn(r, a, l) : r[n].what = "RemoveAudioSink" /\ l = k
    BY <1>2 DEF AboutIn
  <2>6. Ends(q \o r, a, l, In(a, l), At(a, l)')
    <3>1. CASE AboutIn(r, a, l) = {}
      <4>1. At(a, l)' <=> At(a, l)
        BY <2>3, <2>4, <3>1, AtIsLive
      <4> QED BY <1>2, <1>3, <2>1, <3>1, <4>1, EndsBehind, AtIsLive, ZenonT(60)
    <3>2. CASE AboutIn(r, a, l) # {}
      <4>1. ~At(a, l)'
        BY <2>3, <2>5, <3>2
      <4>2. \A n \in AboutIn(r, a, l) : r[n].what = "AddAudioSink" <=> At(a, l)'
        BY <2>5, <4>1
      <4> QED BY <1>2, <1>3, <2>1, <3>2, <4>2, EndsBehind, AtIsLive
    <3> QED BY <3>1, <3>2
  <2>7. (In(a, l)' <=> In(a, l)) \/ (~At(a, l)' /\ ~In(a, l)')
    <3>1. CASE Live(a)' <=> Live(a)
      BY <1>1, <3>1 DEF In
    <3>2. CASE ~Live(a)' /\ Live(a)
      <4>1. ~At(a, l)'
        BY <3>2 DEF At, Live
      <4> QED BY <3>2, <4>1 DEF In
    <3> QED BY <2>2, <3>1, <3>2
  <2>8. Ends(q \o r, a, l, In(a, l)', At(a, l)')
    BY <2>6, <2>7, EndsWithout, AtIsLive
  <2> QED BY <1>1, <2>8 DEF Ends
<1> QED BY <1>7 DEF SinksAgree

LEMMA TransportSinks ==
  ASSUME TypeOK, SinksAgree, TransportRuns
  PROVE  SinksAgree'
<1> DEFINE q == transport_runner
           task == Head(q)
<1>1. /\ q \in Seq(SenderTask) /\ q # <<>>
      /\ transport_runner' = Tail(q)
      /\ UNCHANGED <<audio_stream_senders, attached>>
      /\ IF Live(task.to)
         THEN sender_sinks' =
                [sender_sinks EXCEPT ![task.to] = SinksAfter(sender_sinks[task.to], task)]
         ELSE UNCHANGED sender_sinks
  BY DEF TransportRuns, TypeOK, workerVars
<1>2. task \in SenderTask /\ task = q[1] /\ 1 \in DOMAIN q
  BY <1>1
<1>3. task.to \in SenderAddrs
  BY <1>2 DEF SenderTask
<1> HIDE DEF q, task
<1>4. ASSUME NEW a \in SenderAddrs, NEW k \in Sinks
      PROVE  Ends(transport_runner, a, k, In(a, k), At(a, k))'
  <2>1. Ends(q, a, k, In(a, k), At(a, k))
    BY DEF SinksAgree, q
  <2>2. (At(a, k)' <=> At(a, k)) /\ (Live(a)' <=> Live(a))
    BY <1>1 DEF At, Live, Senders
  <2> DEFINE after == IF 1 \in AboutIn(q, a, k) THEN task.what = "AddAudioSink" ELSE In(a, k)
  <2>3. Ends(Tail(q), a, k, after, At(a, k))
    <3>1. after \in BOOLEAN
      BY AtIsLive
    <3> QED BY <1>1, <2>1, <3>1, EndsTail, AtIsLive DEF task
  <2>4. (In(a, k)' <=> after) \/ (~At(a, k) /\ ~In(a, k)')
    <3>1. CASE ~Live(a)
      BY <2>2, <3>1, AtIsLive DEF In
    <3>2. CASE Live(a) /\ a # task.to
      <4>1. 1 \notin AboutIn(q, a, k)
        BY <1>2, <3>2 DEF AboutIn
      <4>2. sender_sinks'[a] = sender_sinks[a]
        BY <1>1, <3>2 DEF TypeOK
      <4> QED BY <2>2, <4>1, <4>2 DEF In
    <3>3. CASE Live(a) /\ a = task.to
      <4>1. sender_sinks'[a] = SinksAfter(sender_sinks[a], task)
        BY <1>1, <3>3 DEF TypeOK
      <4>2. 1 \in AboutIn(q, a, k) <=> task.what # "OnFrame" /\ task.sink = k
        BY <1>2, <3>3 DEF AboutIn
      <4>3. /\ task.what = "AddAudioSink" => sender_sinks'[a] = sender_sinks[a] \cup {task.sink}
            /\ task.what = "RemoveAudioSink" => sender_sinks'[a] = sender_sinks[a] \ {task.sink}
            /\ task.what = "OnFrame" => sender_sinks'[a] = sender_sinks[a]
        BY <4>1 DEF SinksAfter
      <4>4. task.what \in {"AddAudioSink", "RemoveAudioSink", "OnFrame"}
        BY <1>2 DEF SenderTask
      <4> QED BY <2>2, <3>3, <4>2, <4>3, <4>4 DEF In
    <3> QED BY <3>1, <3>2, <3>3
  <2>5. Ends(Tail(q), a, k, In(a, k)', At(a, k))
    <3>1. after \in BOOLEAN
      BY AtIsLive
    <3> HIDE DEF after
    <3> QED BY <2>3, <2>4, <3>1, EndsWithout, AtIsLive
  <2> QED BY <1>1, <2>2, <2>5 DEF Ends
<1> QED BY <1>4 DEF SinksAgree

\* A packet for a sender is about no sink.
LEMMA PacketSinks ==
  ASSUME TypeOK, ListsInStep, RunnersLive, SinksAgree, NEW c \in Codecs, RunOnEncoded(c)
  PROVE  SinksAgree'
<1> DEFINE q == transport_runner
           task == [what |-> "OnFrame", to |-> stream[c].sender]
<1>1. /\ transport_runner' = Append(q, task)
      /\ UNCHANGED <<audio_stream_senders, attached, sender_sinks>>
  BY DEF RunOnEncoded, workerVars, senderVars
<1>2. stream[c].sender \in SenderAddrs
  BY DEF RunOnEncoded, Takes, RunnersLive, ListsInStep
<1>3. task \in SenderTask /\ task.what = "OnFrame" /\ q \in Seq(SenderTask)
  BY <1>2 DEF SenderTask, TypeOK
<1> HIDE DEF q, task
<1>4. <<task>> \in Seq(SenderTask) /\ transport_runner' = q \o <<task>>
  BY <1>1, <1>3
<1>5. ASSUME NEW a \in SenderAddrs, NEW k \in Sinks
      PROVE  Ends(transport_runner, a, k, In(a, k), At(a, k))'
  <2>1. Ends(q, a, k, In(a, k), At(a, k))
    BY DEF SinksAgree, q
  <2>2. (At(a, k)' <=> At(a, k)) /\ (In(a, k)' <=> In(a, k))
    BY <1>1 DEF At, In, Live, Senders
  <2>3. AboutIn(<<task>>, a, k) = {}
    BY <1>3 DEF AboutIn
  <2>4. Ends(q \o <<task>>, a, k, In(a, k), At(a, k))
    BY <1>3, <1>4, <2>1, <2>3, EndsBehind, AtIsLive
  <2> QED BY <1>4, <2>2, <2>4 DEF Ends
<1> QED BY <1>5 DEF SinksAgree

LEMMA SameSinks ==
  ASSUME SinksAgree,
         UNCHANGED <<transport_runner, audio_stream_senders, attached, sender_sinks>>
  PROVE  SinksAgree'
<1>1. ASSUME NEW a \in SenderAddrs, NEW k \in Sinks
      PROVE  Ends(transport_runner, a, k, In(a, k), At(a, k))'
  <2>1. (At(a, k)' <=> At(a, k)) /\ (In(a, k)' <=> In(a, k))
    BY DEF At, In, Live, Senders
  <2>2. Ends(transport_runner, a, k, In(a, k), At(a, k))
    BY DEF SinksAgree
  <2> QED BY <2>1, <2>2 DEF Ends
<1> QED BY <1>1 DEF SinksAgree

-----------------------------------------------------------------------------
(* The invariant.                                                           *)

LEMMA InitIInv == Init => IInv
<1> SUFFICES ASSUME Init PROVE IInv
  OBVIOUS
<1>1. TypeOK
  <2>1. /\ audio_send_streams \subseteq Codecs
        /\ sink_count \in [Codecs -> Nat]
        /\ updating \in BOOLEAN /\ crashed \in BOOLEAN
        /\ attached \in [Codecs -> SUBSET Sinks]
        /\ sender_sinks \in [SenderAddrs -> SUBSET Sinks]
    BY DEF Init
  <2>2. flinger \in [senders : SUBSET Codecs, format : Formats]
    <3>1. PICK f \in Formats : flinger = [senders |-> {}, format |-> f]
      BY DEF Init
    <3> QED BY <3>1
  <2>3. stream \in [Codecs -> Stream]
    BY NoStreamIs DEF Init
  <2>4. /\ audio_stream_senders \in Seq([codec : Codecs, addr : SenderAddrs])
        /\ transport_runner \in Seq(SenderTask)
        /\ recorded \in Seq(Shape) /\ Len(recorded) <= 1
        /\ stream_runner \in [Codecs -> Seq(StreamTask)]
    BY DEF Init
  <2> QED BY <2>1, <2>2, <2>3, <2>4 DEF TypeOK
<1>2. Senders = {}
  BY DEF Init, Senders
<1>3. ListsInStep
  BY <1>2, FS_EmptySet DEF Init, ListsInStep
<1>4. AttachedOnce
  BY FS_EmptySet DEF Init, AttachedOnce
<1>5. RunnersLive
  BY DEF Init, RunnersLive, NoStream
<1>6. SinksAgree
  BY <1>2 DEF Init, SinksAgree, Ends, AboutIn, In, At
<1> QED BY <1>1, <1>3, <1>4, <1>5, <1>6 DEF IInv

LEMMA NextIInv == IInv /\ [Next]_vars => IInv'
<1> SUFFICES ASSUME IInv, [Next]_vars PROVE IInv'
  OBVIOUS
<1> USE DEF IInv
<1>1. CASE UNCHANGED vars
  <2>1. TypeOK' /\ ListsInStep' /\ AttachedOnce' /\ RunnersLive'
    BY <1>1 DEF vars, workerVars, streamVars, senderVars, TypeOK, ListsInStep, Senders,
                AttachedOnce, RunnersLive
  <2>2. SinksAgree'
    BY <1>1, SameSinks DEF vars, workerVars, senderVars
  <2> QED BY <2>1, <2>2
<1>2. ASSUME NEW k \in Sinks, NEW c \in Codecs, AddEncodedAudioSink(k, c)
      PROVE  IInv'
  BY <1>2, AddType, AddLists, AddSinks
<1>3. ASSUME NEW k \in Sinks, NEW c \in Codecs, RemoveEncodedAudioSink(k, c)
      PROVE  IInv'
  BY <1>3, RemoveType, RemoveLists, RemoveSinks
<1>4. CASE UpdateSender
  <2>1. SinksAgree'
    BY <1>4, SameSinks DEF UpdateSender, senderVars
  <2> QED BY <1>4, <2>1, UpdateType, UpdateLists
<1>5. CASE DataIsRecorded \/ SendFrame
  <2>1. SinksAgree'
    BY <1>5, SameSinks DEF DataIsRecorded, SendFrame, senderVars, workerVars
  <2> QED BY <1>5, <2>1, CaptureType, OtherLists
<1>6. ASSUME NEW c \in Codecs, StreamRuns(c)
      PROVE  IInv'
  <2>1. SinksAgree'
    <3>1. CASE RunOnEncoded(c)
      BY <3>1, PacketSinks
    <3>2. CASE EncoderMissing(c) \/ RunSendAudioData(c)
      BY <3>2, SameSinks DEF EncoderMissing, RunSendAudioData, senderVars, workerVars
    <3> QED BY <1>6, <3>1, <3>2 DEF StreamRuns
  <2> QED BY <1>6, <2>1, StreamType, OtherLists
<1>7. CASE TransportRuns
  BY <1>7, TransportType, TransportSinks, OtherLists
<1> QED BY <1>1, <1>2, <1>3, <1>4, <1>5, <1>6, <1>7 DEF Next

\* The invariant holds in every behaviour.
THEOREM Invariance == Spec => []IInv
  BY InitIInv, NextIInv, PTL DEF Spec

\* Every variable of the worker, of the flinger, of streams, senders and runners
\* keeps its type; no count of sinks goes below zero (hybird_worker.cc:221).
THEOREM TypeCorrect == Spec => []TypeOK
<1>1. IInv => TypeOK
  BY DEF IInv
<1> QED BY <1>1, Invariance, PTL

\* The lists of the worker, of the transport and of the flinger agree, whatever is
\* added, removed and captured (hybird_worker.cc:165-231).
THEOREM ListsAlwaysInStep == Spec => []ListsInStep
<1>1. IInv => ListsInStep
  BY DEF IInv
<1> QED BY <1>1, Invariance, PTL

\* Once the tasks posted about it are executed, a sender has the sinks attached to
\* its codec and no others (audio_stream_sender.cc:31-70).
THEOREM SinksAlwaysFollow == Spec => []SinksFollow
<1>1. IInv => SinksFollow
  <2> SUFFICES ASSUME IInv, NEW i \in Senders, NEW k \in Sinks
               PROVE  LET sender == audio_stream_senders[i]
                          about == About(sender.addr, k)
                      IN  /\ about = {} => (k \in sender_sinks[sender.addr]
                                              <=> k \in attached[sender.codec])
                          /\ \A n \in about : (\A m \in about : m <= n) =>
                               (transport_runner[n].what = "AddAudioSink"
                                  <=> k \in attached[sender.codec])
    BY DEF SinksFollow
  <2> DEFINE a == audio_stream_senders[i].addr
             c == audio_stream_senders[i].codec
  <2>1. a \in SenderAddrs
    BY SenderIs DEF IInv
  <2>2. Ends(transport_runner, a, k, In(a, k), At(a, k))
    BY <2>1 DEF IInv, SinksAgree
  <2>3. Live(a)
    BY DEF Live
  <2>4. At(a, k) <=> k \in attached[c]
    BY DEF IInv, ListsInStep, At
  <2>5. About(a, k) = AboutIn(transport_runner, a, k)
    BY AboutIs
  <2> HIDE DEF a, c
  <2>6. /\ About(a, k) = {} => (k \in sender_sinks[a] <=> k \in attached[c])
        /\ \A n \in About(a, k) : (\A m \in About(a, k) : m <= n) =>
             (transport_runner[n].what = "AddAudioSink" <=> k \in attached[c])
    BY <2>2, <2>3, <2>4, <2>5 DEF Ends, In
  <2> QED BY <2>6 DEF a, c
<1> QED BY <1>1, Invariance, PTL
=============================================================================
