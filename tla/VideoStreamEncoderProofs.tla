--------------------- MODULE VideoStreamEncoderProofs ---------------------
(***************************************************************************)
(* Proofs about VideoStreamEncoder, for every set of frame kinds,          *)
(* configurations and faults.                                              *)
(*                                                                         *)
(* The inductive invariant IInv adds to the properties what they rest on:  *)
(* ConfigureEncoder is on the runner at most once, an encoder is made only *)
(* before one has been initialized, a configuration that has been set      *)
(* passes the check, and whoever is owed a key frame will have it from an  *)
(* encoder that is marked for one.                                         *)
(***************************************************************************)
EXTENDS VideoStreamEncoder, TLAPS

\* The members agree with each other.
Consistent(s) ==
  /\ s.encoder.callback => s.encoder.stage = "ready"
  /\ s.encoder.stage = "ready" => s.encoder.size # NoInfo
  /\ s.initialized <=> s.encoder.callback
  /\ s.encoder.stage = "ready" /\ s.encoder.size # s.last => s.reconfigure
  /\ s.creation => ~s.initialized /\ s.payload # 0
  /\ s.payload = 0 => s.encoder.stage = "absent" /\ ~s.initialized
  /\ s.payload # 0 => SetupCheckPasses(s)

\* The next picture this encoder codes is a key frame.
Marked(e) == e.stage = "ready" => e.intra \/ (e.key_request /\ e.sending)

ConfigureAt(i) == runner[i].what = "ConfigureEncoder"

ConfiguredOnce ==
  \A i \in 1..Len(runner) :
    ConfigureAt(i) => /\ built = "configured"
                      /\ vse.payload = 0
                      /\ \A j \in 1..Len(runner) : ConfigureAt(j) => i = j

IInv ==
  /\ TypeOK
  /\ Consistent(vse)
  /\ built # "configured" => vse.payload = 0
  /\ ConfiguredOnce
  /\ owed => Marked(vse.encoder)
  /\ OnlyEarlyFramesFail

-----------------------------------------------------------------------------
(* Types.                                                                   *)

\* Setting or clearing one of the flags.
LEMMA FlagSet ==
  ASSUME NEW s \in State, NEW b \in BOOLEAN
  PROVE  /\ [s EXCEPT !.initialized = b] \in State
         /\ [s EXCEPT !.reconfigure = b] \in State
         /\ [s EXCEPT !.creation = b] \in State
  BY DEF State

\* A new OpenH264Encoder has no native encoder and no callback.
LEMMA NewEncoderIs ==
  /\ NewEncoder \in Encoder
  /\ NewEncoder.stage = "empty"
  /\ ~NewEncoder.callback
  BY DEF NewEncoder, NoEncoder, Encoder

LEMMA CreatedIs ==
  ASSUME NEW s \in State
  PROVE  /\ Created(s) \in State
         /\ Created(s).encoder = NewEncoder
         /\ ~Created(s).creation
         /\ Created(s).initialized <=> s.initialized
         /\ Created(s).payload = s.payload
         /\ Created(s).last = s.last
         /\ Created(s).config = s.config
<1>1. [s EXCEPT !.encoder = NewEncoder] \in State
  BY NewEncoderIs DEF State
<1>2. [s EXCEPT !.encoder = NewEncoder, !.creation = FALSE] \in State
  BY <1>1, FlagSet
<1>3. Created(s) \in State
  BY <1>2, FlagSet DEF Created
<1> QED
  BY <1>3 DEF Created, State

\* SetStreamState(true) on a stream that is not sent asks for a key frame.
LEMMA SetStreamStateIs ==
  ASSUME NEW e \in Encoder, ~e.sending
  PROVE  /\ SetStreamState(e, TRUE) \in Encoder
         /\ SetStreamState(e, TRUE).stage = e.stage
         /\ SetStreamState(e, TRUE).size = e.size
         /\ SetStreamState(e, TRUE).callback <=> e.callback
         /\ SetStreamState(e, TRUE).sending
         /\ SetStreamState(e, TRUE).key_request
  BY DEF SetStreamState, Encoder

-----------------------------------------------------------------------------
(* What the operations end with.                                            *)

\* InitEncoder on a new object either makes it ready, with its request for a key
\* frame, or leaves it not ready; it registers no callback.
LEMMA InitEncoderEnds ==
  ASSUME NEW config \in Config, NEW info \in Infos,
         NEW end, end \in InitEncoder(NewEncoder, config, info)
  PROVE  /\ end.encoder \in Encoder
         /\ ~end.encoder.callback
         /\ end.ok => /\ end.encoder.stage = "ready"
                      /\ end.encoder.size = info
                      /\ end.encoder.key_request
                      /\ end.encoder.sending
         /\ ~end.ok => end.encoder.stage # "ready"
<1> DEFINE made == Made(NewEncoder, info)
           started == SetStreamState([made EXCEPT !.stage = "ready"], TRUE)
<1>1. /\ made \in Encoder
      /\ made.stage = "made"
      /\ made.size = info
      /\ ~made.callback
      /\ ~made.sending
  BY NewEncoderIs DEF Made, Encoder
<1>2. /\ [made EXCEPT !.stage = "ready"] \in Encoder
      /\ [made EXCEPT !.stage = "ready"].stage = "ready"
      /\ [made EXCEPT !.stage = "ready"].size = info
      /\ ~[made EXCEPT !.stage = "ready"].callback
      /\ ~[made EXCEPT !.stage = "ready"].sending
  <2> HIDE DEF made
  <2> QED
    BY <1>1 DEF Encoder
<1>3. /\ started \in Encoder
      /\ started.stage = "ready"
      /\ started.size = info
      /\ ~started.callback
      /\ started.sending
      /\ started.key_request
  <2> DEFINE e == [made EXCEPT !.stage = "ready"]
  <2> HIDE DEF e
  <2>1. /\ e \in Encoder /\ e.stage = "ready" /\ e.size = info
        /\ ~e.callback /\ ~e.sending
    BY <1>2 DEF e
  <2>2. started = SetStreamState(e, TRUE)
    BY DEF e
  <2> HIDE DEF started
  <2> QED
    BY <2>1, <2>2, SetStreamStateIs
<1>4. CASE config.codec # "H264"
  <2>1. end = [encoder |-> NewEncoder, ok |-> FALSE]
    BY <1>4 DEF InitEncoder
  <2> QED
    BY <2>1, NewEncoderIs
<1>5. CASE config.codec = "H264"
  <2>1. \/ end = [encoder |-> NewEncoder, ok |-> FALSE]
        \/ end = [encoder |-> made, ok |-> FALSE]
        \/ end = [encoder |-> started, ok |-> TRUE]
    BY <1>5 DEF InitEncoder, OnFault
  <2> HIDE DEF made, started
  <2>2. CASE end.ok
    <3>1. end.encoder = started
      BY <2>1, <2>2
    <3> QED
      BY <1>3, <2>1, <2>2, <3>1
  <2>3. CASE ~end.ok
    <3>1. end.encoder = NewEncoder \/ end.encoder = made
      BY <2>1, <2>3
    <3>2. CASE end.encoder = NewEncoder
      BY <2>3, <3>2, NewEncoderIs
    <3>3. CASE end.encoder = made
      BY <1>1, <2>3, <3>3
    <3> QED
      BY <3>1, <3>2, <3>3
  <2> QED
    BY <2>2, <2>3
<1> QED
  BY <1>4, <1>5

\* A reconfiguration keeps the members consistent, and an encoder it has made is
\* marked for a key frame.
LEMMA ReConfigureEnds ==
  ASSUME NEW s \in State, Consistent(s), s.last # NoInfo, s.reconfigure,
         NEW r, r \in ReConfigureEncoder(s)
  PROVE  /\ r \in State
         /\ Consistent(r)
         /\ r.payload = s.payload
         /\ r.encoder = s.encoder \/ Marked(r.encoder)
<1>1. CASE ~s.creation
  <2>1. r = s
    BY <1>1 DEF ReConfigureEncoder
  <2> QED
    BY <2>1
<1>2. CASE s.creation
  <2> DEFINE c == Created(s)
  <2>1. /\ c \in State
        /\ c.encoder = NewEncoder
        /\ ~c.initialized
        /\ ~c.creation
        /\ c.payload = s.payload
        /\ c.payload # 0
        /\ c.last = s.last
        /\ SetupCheckPasses(c)
    BY <1>2, CreatedIs DEF Consistent, SetupCheckPasses
  <2>2. CASE r = c
    <3> HIDE DEF c
    <3> QED
      BY <2>1, <2>2, NewEncoderIs DEF Consistent, Marked
  <2>3. CASE r # c
    <3>1. r \in {Registered(c, end) : end \in InitEncoder(c.encoder, c.config, c.last)}
      BY <1>2, <2>3 DEF ReConfigureEncoder
    <3> HIDE DEF c
    <3>2. PICK end \in InitEncoder(c.encoder, c.config, c.last) : r = Registered(c, end)
      BY <3>1
    <3>3. c.config \in Config /\ c.last \in Infos
      BY <2>1 DEF State
    <3>4. /\ end.encoder \in Encoder
           /\ ~end.encoder.callback
          /\ end.ok => /\ end.encoder.stage = "ready"
                       /\ end.encoder.size = c.last
                       /\ end.encoder.key_request
                       /\ end.encoder.sending
          /\ ~end.ok => end.encoder.stage # "ready"
      BY <2>1, <3>2, <3>3, InitEncoderEnds
    <3>5. CASE end.ok
      <4> DEFINE e == [end.encoder EXCEPT !.callback = TRUE]
      <4>1. /\ e \in Encoder
            /\ e.stage = "ready"
            /\ e.size = c.last
            /\ e.callback
            /\ e.key_request
            /\ e.sending
        BY <3>4, <3>5 DEF Encoder
      <4>2. r = [c EXCEPT !.encoder = e, !.initialized = TRUE]
        BY <3>2, <3>5 DEF Registered
      <4> HIDE DEF e
      <4>3. [c EXCEPT !.encoder = e] \in State
        BY <2>1, <4>1 DEF State
      <4>4. r \in State
        BY <4>2, <4>3, FlagSet
      <4>5. /\ r.encoder = e
            /\ r.initialized
            /\ r.last = c.last
            /\ ~r.creation
            /\ r.payload = c.payload
            /\ SetupCheckPasses(r)
        BY <2>1, <4>2 DEF State, SetupCheckPasses
      <4> QED
        BY <2>1, <3>3, <4>1, <4>4, <4>5, EncoderAssumption DEF Consistent, Marked
    <3>6. CASE ~end.ok
      <4>1. r = [c EXCEPT !.encoder = end.encoder]
        BY <3>2, <3>6 DEF Registered
      <4>2. r \in State
        BY <2>1, <3>4, <4>1 DEF State
      <4>3. /\ r.encoder = end.encoder
            /\ ~r.initialized
            /\ r.last = c.last
            /\ ~r.creation
            /\ r.payload = c.payload
            /\ SetupCheckPasses(r)
        BY <2>1, <4>1 DEF State, SetupCheckPasses
      <4> QED
        BY <2>1, <3>4, <3>6, <4>2, <4>3 DEF Consistent, Marked
    <3> QED
      BY <3>5, <3>6
  <2> QED
    BY <2>2, <2>3
<1> QED
  BY <1>1, <1>2

\* ConfigureEncoder, which runs once, keeps the members consistent.
LEMMA ConfigureEnds ==
  ASSUME NEW s \in State, Consistent(s), s.payload = 0, NEW config \in Config,
         config.min_bitrate > 0, NEW r, r \in ConfigureEncoder(s, config)
  PROVE  /\ r \in State
         /\ Consistent(r)
         /\ r.payload = 10000
         /\ r.encoder = s.encoder \/ Marked(r.encoder)
<1> DEFINE c == [s EXCEPT !.creation = s.encoder.stage = "absent" \/ s.payload # 10000,
                          !.config = config, !.payload = 10000, !.reconfigure = TRUE]
           b == s.encoder.stage = "absent" \/ s.payload # 10000
<1>1. c \in State
  <2> DEFINE c1 == [s EXCEPT !.creation = b]
             c2 == [c1 EXCEPT !.config = config]
             c3 == [c2 EXCEPT !.payload = 10000]
             c4 == [c3 EXCEPT !.reconfigure = TRUE]
  <2>1. c = c4
    OBVIOUS
  <2>2. c1 \in State
    <3>1. b \in BOOLEAN
      OBVIOUS
    <3> HIDE DEF b
    <3> QED
      BY <3>1, FlagSet
  <2>3. c2 \in State
    <3> HIDE DEF c1
    <3> QED
      BY <2>2 DEF State
  <2>4. c3 \in State
    <3> HIDE DEF c2
    <3> QED
      BY <2>3 DEF State
  <2>5. c4 \in State
    <3> HIDE DEF c3
    <3> QED
      BY <2>4, FlagSet
  <2> QED
    BY <2>1, <2>5
<1>2. /\ c.encoder = s.encoder
      /\ c.initialized <=> s.initialized
      /\ c.payload = 10000
      /\ c.last = s.last
      /\ c.reconfigure
      /\ SetupCheckPasses(c)
  BY <1>1 DEF State, SetupCheckPasses
<1>3. Consistent(c)
  <2> HIDE DEF c
  <2> QED
    BY <1>2 DEF Consistent
<1>4. r \in IF c.last # NoInfo THEN ReConfigureEncoder(c) ELSE {c}
  BY DEF ConfigureEncoder
<1> HIDE DEF c
<1>5. CASE c.last # NoInfo
  BY <1>1, <1>2, <1>3, <1>4, <1>5, ReConfigureEnds
<1>6. CASE c.last = NoInfo
  BY <1>1, <1>2, <1>3, <1>4, <1>6
<1> QED
  BY <1>5, <1>6

\* So does what is done before a frame is encoded.
LEMMA PrepareEnds ==
  ASSUME NEW s \in State, Consistent(s), NEW info \in Infos,
         NEW r, r \in PrepareForFrame(s, info)
  PROVE  /\ r \in State
         /\ Consistent(r)
         /\ r.payload = s.payload
         /\ r.encoder = s.encoder \/ Marked(r.encoder)
<1> DEFINE n == NoteInfo(s, info)
<1>1. /\ n \in State
      /\ n.encoder = s.encoder
      /\ n.initialized <=> s.initialized
      /\ n.creation <=> s.creation
      /\ n.payload = s.payload
      /\ n.last = info
      /\ s.reconfigure => n.reconfigure
      /\ s.last # info => n.reconfigure
      /\ SetupCheckPasses(s) => SetupCheckPasses(n)
  <2>1. CASE s.last = info
    BY <2>1 DEF NoteInfo
  <2>2. CASE s.last # info
    <3>1. n = [s EXCEPT !.last = info, !.reconfigure = TRUE]
      BY <2>2 DEF NoteInfo
    <3>2. [s EXCEPT !.last = info] \in State
      BY DEF State
    <3>3. n \in State
      BY <3>1, <3>2, FlagSet
    <3> HIDE DEF n
    <3> QED
      BY <3>1, <3>3 DEF State, SetupCheckPasses
  <2> QED
    BY <2>1, <2>2
<1>2. r \in IF n.reconfigure THEN ReConfigureEncoder(n) ELSE {n}
  BY DEF PrepareForFrame
<1> HIDE DEF n
<1>3. Consistent(n)
  BY <1>1 DEF Consistent
<1>4. CASE n.reconfigure
  BY <1>1, <1>2, <1>3, <1>4, ReConfigureEnds, EncoderAssumption
<1>5. CASE ~n.reconfigure
  BY <1>1, <1>2, <1>3, <1>5
<1> QED
  BY <1>4, <1>5

\* Encode leaves the encoder what it is.  From an encoder marked for a key frame
\* comes a key frame or, if nothing comes, the mark stays.
LEMMA EncodeEnds ==
  ASSUME NEW e \in Encoder, NEW info \in Infos,
         e.callback => e.stage = "ready" /\ e.size \in Infos,
         NEW end, end \in Encode(e, info)
  PROVE  /\ end.encoder \in Encoder
         /\ end.encoder.stage = e.stage
         /\ end.encoder.size = e.size
         /\ end.encoder.callback <=> e.callback
         /\ end.image \in Image \cup {NoImage}
         /\ Marked(e) => end.image.key \/ (end.image = NoImage /\ Marked(end.encoder))
<1> DEFINE p == PassRequest(e)
<1>1. /\ p \in Encoder
      /\ p.stage = e.stage
      /\ p.size = e.size
      /\ p.callback <=> e.callback
      /\ Marked(e) /\ e.stage = "ready" => p.intra
  BY DEF PassRequest, Encoder, Marked
<1>2. CASE end \in Uncoded(e)
  BY <1>2 DEF Uncoded
<1>3. CASE end \in Uncoded(p)
  <2> HIDE DEF p
  <2> QED
    BY <1>1, <1>3 DEF Uncoded, Marked
<1>4. CASE end \in Coded(p, info) /\ e.callback
  <2> HIDE DEF p
  <2>1. PICK key \in {p.intra, TRUE} :
          end = [encoder |-> [p EXCEPT !.intra = FALSE],
                 image |-> [size |-> p.size, frame |-> info, key |-> key]]
    BY <1>4 DEF Coded
  <2>2. end.encoder = [p EXCEPT !.intra = FALSE]
    BY <2>1
  <2>3. end.image = [size |-> p.size, frame |-> info, key |-> key]
    BY <2>1
  <2>4. key \in BOOLEAN /\ (p.intra => key)
    BY <1>1 DEF Encoder
  <2>5. end.image \in Image
    BY <1>1, <1>4, <2>3, <2>4 DEF Image
  <2>6. Marked(e) => end.image.key
    BY <1>1, <1>4, <2>3, <2>4
  <2> QED
    BY <1>1, <2>2, <2>5, <2>6 DEF Encoder
<1>5. \/ end \in Uncoded(e)
      \/ end \in Uncoded(p)
      \/ end \in Coded(p, info) /\ e.callback
  BY DEF Encode, OnFault
<1> QED
  BY <1>2, <1>3, <1>4, <1>5
-----------------------------------------------------------------------------
(* The invariant.                                                           *)

LEMMA InitIInv == Init => IInv
<1> SUFFICES ASSUME Init PROVE IInv
  OBVIOUS
<1>1. vse \in State
  BY DEF Init, State, Encoder, NoEncoder, Config, DefaultConfig, Codecs
<1>2. runner = <<>> /\ runner \in Seq(Task)
  BY DEF Init
<1>3. TypeOK
  BY <1>1, <1>2 DEF Init, TypeOK
<1>4. Consistent(vse) /\ Marked(vse.encoder) /\ vse.payload = 0
  BY DEF Init, Consistent, Marked, NoEncoder
<1>5. ConfiguredOnce /\ OnlyEarlyFramesFail
  BY <1>2 DEF ConfiguredOnce, Init, OnlyEarlyFramesFail
<1> QED
  BY <1>3, <1>4, <1>5 DEF IInv

\* What a post does to the tasks that configure.
LEMMA PostKeeps ==
  ASSUME NEW q \in Seq(Task), NEW task \in Task
  PROVE  /\ Append(q, task) \in Seq(Task)
         /\ Len(Append(q, task)) = Len(q) + 1
         /\ \A i \in 1..Len(q) : Append(q, task)[i] = q[i]
         /\ Append(q, task)[Len(q) + 1] = task
  OBVIOUS

LEMMA TakeKeeps ==
  ASSUME NEW q \in Seq(Task), q # <<>>
  PROVE  /\ Head(q) \in Task
         /\ Head(q) = q[1]
         /\ 1 \in 1..Len(q)
         /\ Tail(q) \in Seq(Task)
         /\ Len(Tail(q)) = Len(q) - 1
         /\ \A i \in 1..Len(Tail(q)) : i + 1 \in 1..Len(q) /\ Tail(q)[i] = q[i + 1]
  OBVIOUS

\* Taking a task leaves at most the one that configures, and none once it is
\* the one that was taken.
LEMMA TakeConfiguredOnce ==
  ASSUME IInv, NEW what, Take(what),
         vse'.payload = vse.payload \/ what = "ConfigureEncoder"
  PROVE  ConfiguredOnce'
<1>1. /\ runner \in Seq(Task) /\ runner # <<>>
      /\ runner' = Tail(runner) /\ built' = built
      /\ runner[1].what = what
  BY TakeKeeps DEF IInv, TypeOK, Take
<1>2. \A i \in 1..Len(runner') :
        /\ i + 1 \in 1..Len(runner) /\ 1 \in 1..Len(runner) /\ i \in Nat /\ i > 0
        /\ runner'[i] = runner[i + 1]
  BY <1>1, TakeKeeps
<1>3. CASE what = "ConfigureEncoder"
  <2>1. ASSUME NEW i \in 1..Len(runner') PROVE ~ConfigureAt(i)'
    BY <1>1, <1>2, <1>3 DEF IInv, ConfiguredOnce, ConfigureAt
  <2> QED
    BY <2>1 DEF ConfiguredOnce
<1>4. CASE what # "ConfigureEncoder"
  BY <1>1, <1>2, <1>4 DEF IInv, ConfiguredOnce, ConfigureAt
<1> QED
  BY <1>3, <1>4

LEMMA NextIInv == IInv /\ [Next]_vars => IInv'
<1> SUFFICES ASSUME IInv, [Next]_vars PROVE IInv'
  OBVIOUS
<1> USE DEF IInv, OnlyEarlyFramesFail
<1>1. CASE SetSource
  BY <1>1 DEF SetSource, TypeOK, ConfiguredOnce, ConfigureAt
<1>2. CASE PostConfigure
  <2>1. [what |-> "ConfigureEncoder"] \in Task
    BY DEF Task, PlainTask
  <2>2. /\ runner' = Append(runner, [what |-> "ConfigureEncoder"])
        /\ built = "source" /\ built' = "configured"
        /\ UNCHANGED <<faults, asked, vse, image, owed, crashed>>
    BY <1>2 DEF PostConfigure, Post
  <2>3. TypeOK'
    BY <2>1, <2>2, PostKeeps DEF TypeOK
  <2>4. \A i \in 1..Len(runner) : ~ConfigureAt(i)
    BY <2>2 DEF ConfiguredOnce
  <2>5. ConfiguredOnce'
    <3>1. \A i \in 1..Len(runner') : i = Len(runner) + 1 \/ ~ConfigureAt(i)'
      BY <2>1, <2>2, <2>4, PostKeeps DEF TypeOK, ConfigureAt
    <3> QED
      BY <2>2, <3>1 DEF ConfiguredOnce
  <2> QED
    BY <2>2, <2>3, <2>5
<1>3. ASSUME NEW task \in Task, Post(task), task.what # "ConfigureEncoder",
             UNCHANGED <<faults, asked, built, vse, image, owed, crashed>>
      PROVE  IInv'
  <2>1. runner' = Append(runner, task)
    BY <1>3 DEF Post
  <2>2. TypeOK'
    BY <1>3, <2>1, PostKeeps DEF TypeOK
  <2>3. \A i \in 1..Len(runner') :
          ConfigureAt(i)' => i \in 1..Len(runner) /\ ConfigureAt(i)
    BY <1>3, <2>1, PostKeeps DEF TypeOK, ConfigureAt
  <2>4. ConfiguredOnce'
    BY <1>3, <2>3 DEF ConfiguredOnce
  <2> QED
    BY <1>3, <2>2, <2>4
<1>4. CASE PostKeyFrame
  <2>1. [what |-> "SendKeyFrame"] \in Task
    BY DEF Task, PlainTask
  <2> QED
    BY <1>3, <1>4, <2>1 DEF PostKeyFrame
<1>5. ASSUME NEW info \in Infos, PostFrame(info) PROVE IInv'
  <2>1. [what |-> "OnFrame", info |-> info] \in Task
    BY DEF Task, FrameTask
  <2> QED
    BY <1>3, <1>5, <2>1 DEF PostFrame
<1>6. CASE TakeConfigure
  <2>1. /\ vse \in State /\ Consistent(vse)
        /\ vse.payload = 0 /\ built = "configured"
        /\ asked \in Config /\ asked.min_bitrate > 0
        /\ vse' \in ConfigureEncoder(vse, asked)
    BY <1>6, TakeKeeps, EncoderAssumption
       DEF TakeConfigure, Take, TypeOK, ConfiguredOnce, ConfigureAt
  <2>2. /\ vse' \in State
        /\ Consistent(vse')
        /\ vse'.encoder = vse.encoder \/ Marked(vse'.encoder)
    BY <2>1, ConfigureEnds
  <2>3. TypeOK' /\ built' = "configured" /\ owed' = owed /\ ~crashed'
    BY <1>6, <2>1, <2>2, TakeKeeps DEF TakeConfigure, Take, TypeOK
  <2>4. ConfiguredOnce'
    BY <1>6, TakeConfiguredOnce DEF TakeConfigure
  <2> QED
    BY <2>2, <2>3, <2>4
<1>7. CASE TakeKeyFrame
  <2> DEFINE e == RequestKeyFrame(vse.encoder)
  <2>1. /\ vse \in State /\ Consistent(vse) /\ vse.encoder \in Encoder
        /\ vse' = [vse EXCEPT !.encoder = e]
    BY <1>7 DEF TakeKeyFrame, TypeOK, State
  <2>2. /\ e \in Encoder
        /\ e.stage = vse.encoder.stage
        /\ e.size = vse.encoder.size
        /\ e.callback <=> vse.encoder.callback
        /\ Marked(e)
    BY <2>1 DEF RequestKeyFrame, Encoder, Marked
  <2> HIDE DEF e
  <2>3. /\ vse' \in State
        /\ vse'.encoder = e
        /\ vse'.initialized <=> vse.initialized
        /\ vse'.creation <=> vse.creation
        /\ vse'.reconfigure <=> vse.reconfigure
        /\ vse'.last = vse.last
        /\ vse'.payload = vse.payload
        /\ vse'.config = vse.config
    BY <2>1, <2>2 DEF State
  <2>4. Consistent(vse')
    BY <2>1, <2>2, <2>3 DEF Consistent, SetupCheckPasses
  <2>5. TypeOK' /\ built' = built /\ ~crashed'
    BY <1>7, <2>3, TakeKeeps DEF TakeKeyFrame, Take, TypeOK
  <2>6. ConfiguredOnce'
    BY <1>7, <2>3, TakeConfiguredOnce DEF TakeKeyFrame
  <2> QED
    BY <2>2, <2>3, <2>4, <2>5, <2>6
<1>8. CASE TakeFrame
  <2>1. Head(runner).info \in Infos
    BY <1>8, TakeKeeps DEF TakeFrame, Take, TypeOK, Task, FrameTask, PlainTask
  <2>2. PICK s \in PrepareForFrame(vse, Head(runner).info) :
          \E end \in Encode(s.encoder, Head(runner).info) :
            /\ vse' = [s EXCEPT !.encoder = end.encoder]
            /\ image' = end.image
            /\ owed' = (owed /\ ~end.image.key)
    BY <1>8 DEF TakeFrame
  <2>3. PICK end \in Encode(s.encoder, Head(runner).info) :
            /\ vse' = [s EXCEPT !.encoder = end.encoder]
            /\ image' = end.image
            /\ owed' = (owed /\ ~end.image.key)
    BY <2>2
  <2>4. /\ s \in State
        /\ Consistent(s)
        /\ s.payload = vse.payload
        /\ s.encoder = vse.encoder \/ Marked(s.encoder)
    BY <2>1, PrepareEnds DEF TypeOK
  <2>5. /\ s.encoder \in Encoder
        /\ s.encoder.callback => s.encoder.stage = "ready" /\ s.encoder.size \in Infos
    BY <2>4 DEF State, Encoder, Consistent
  <2>6. /\ end.encoder \in Encoder
        /\ end.encoder.stage = s.encoder.stage
        /\ end.encoder.size = s.encoder.size
        /\ end.encoder.callback <=> s.encoder.callback
        /\ end.image \in Image \cup {NoImage}
        /\ Marked(s.encoder) => \/ end.image.key
                                \/ end.image = NoImage /\ Marked(end.encoder)
    BY <2>1, <2>5, EncodeEnds
  <2>7. /\ vse' \in State
        /\ vse'.encoder = end.encoder
        /\ vse'.initialized <=> s.initialized
        /\ vse'.creation <=> s.creation
        /\ vse'.reconfigure <=> s.reconfigure
        /\ vse'.last = s.last
        /\ vse'.payload = vse.payload
        /\ vse'.config = s.config
    BY <2>3, <2>4, <2>6 DEF State
  <2>8. Consistent(vse')
    BY <2>4, <2>6, <2>7 DEF Consistent, SetupCheckPasses
  <2>9. TypeOK' /\ built' = built /\ ~crashed'
    BY <1>8, <2>3, <2>6, <2>7, TakeKeeps DEF TakeFrame, Take, TypeOK
  <2>10. ConfiguredOnce'
    BY <1>8, <2>7, TakeConfiguredOnce DEF TakeFrame
  <2>11. owed' => Marked(vse.encoder) /\ ~end.image.key
    BY <2>3
  <2>12. owed' => Marked(vse'.encoder)
    BY <2>4, <2>6, <2>7, <2>11
  <2> QED
    BY <2>7, <2>8, <2>9, <2>10, <2>12
\* Before the configuration the check may fail, and after it, it cannot.
<1>10. CASE FrameFailsCheck
  <2> DEFINE noted == NoteInfo(vse, Head(runner).info)
  <2>1. /\ Take("OnFrame") /\ ~SetupCheckPasses(noted)
        /\ crashed' = TRUE /\ UNCHANGED <<vse, image, owed>>
    BY <1>10 DEF FrameFailsCheck
  <2>2. vse \in State /\ noted.config = vse.config
    BY DEF TypeOK, NoteInfo, State
  <2>3. vse.payload = 0
    BY <2>1, <2>2 DEF Consistent, SetupCheckPasses
  <2>4. TypeOK' /\ built' = built
    BY <2>1, TakeKeeps DEF Take, TypeOK
  <2>5. ConfiguredOnce'
    BY <2>1, TakeConfiguredOnce
  <2> QED
    BY <2>1, <2>3, <2>4, <2>5
<1>9. CASE UNCHANGED vars
  BY <1>9 DEF vars, TypeOK, ConfiguredOnce, ConfigureAt
<1> QED
  BY <1>1, <1>2, <1>4, <1>5, <1>6, <1>7, <1>8, <1>9, <1>10 DEF Next, Construct, RunnerTakes

\* IInv holds throughout.
THEOREM Invariance == Spec => []IInv
  BY InitIInv, NextIInv, PTL DEF Spec

-----------------------------------------------------------------------------
(* The properties.                                                          *)

\* Every variable keeps its type.
THEOREM TypeCorrect == Spec => []TypeOK
<1>1. IInv => TypeOK
  BY DEF IInv
<1> QED
  BY <1>1, Invariance, PTL

\* No picture goes to a native encoder that has not been initialized, whatever
\* codec is asked for and whatever fails.
THEOREM OnlyInitializedEncode == Spec => []EncodesOnlyInitialized
<1>1. IInv => EncodesOnlyInitialized
  BY DEF IInv, Consistent, EncodesOnlyInitialized
<1> QED
  BY <1>1, Invariance, PTL

\* An encoder of the wrong size has a reconfiguration pending.
THEOREM MismatchPending == Spec => []MismatchIsPending
<1>1. IInv => MismatchIsPending
  BY DEF IInv, Consistent, MismatchIsPending
<1> QED
  BY <1>1, Invariance, PTL

\* AVE_DCHECK_GT of SetupVideoCodecProperity fails at most before ConfigureEncoder has
\* been executed, for every set of configurations that have a bitrate.
THEOREM OnlyEarlyFrames == Spec => []OnlyEarlyFramesFail
<1>1. IInv => OnlyEarlyFramesFail
  BY DEF IInv
<1> QED
  BY <1>1, Invariance, PTL

\* The first image is a key frame and so is the next one after a request.
THEOREM KeyFrameFirst == Spec => KeyFrameNext
<1> DEFINE Step == image' # image /\ image' # NoImage /\ owed => image'.key
<1>1. IInv /\ [Next]_vars => [Step]_vars
  <2> SUFFICES ASSUME IInv, Next, image' # image, image' # NoImage, owed
               PROVE image'.key
    OBVIOUS
  <2>1. TakeFrame
    BY DEF Next, Construct, SetSource, PostConfigure, PostKeyFrame, PostFrame,
           RunnerTakes, TakeConfigure, TakeKeyFrame, FrameFailsCheck
  <2>2. Head(runner).info \in Infos
    BY <2>1, TakeKeeps DEF TakeFrame, Take, IInv, TypeOK, Task, FrameTask, PlainTask
  <2>3. PICK s \in PrepareForFrame(vse, Head(runner).info) :
          \E end \in Encode(s.encoder, Head(runner).info) : image' = end.image
    BY <2>1 DEF TakeFrame
  <2>4. PICK end \in Encode(s.encoder, Head(runner).info) : image' = end.image
    BY <2>3
  <2>5. /\ s \in State
        /\ Consistent(s)
        /\ s.encoder = vse.encoder \/ Marked(s.encoder)
    BY <2>2, PrepareEnds DEF IInv, TypeOK
  <2>6. /\ s.encoder \in Encoder
        /\ s.encoder.callback => s.encoder.stage = "ready" /\ s.encoder.size \in Infos
        /\ Marked(s.encoder)
    BY <2>5 DEF State, Encoder, Consistent, IInv
  <2> QED
    BY <2>2, <2>4, <2>6, EncodeEnds
<1> QED
  BY <1>1, Invariance, PTL DEF Spec, KeyFrameNext
=============================================================================
