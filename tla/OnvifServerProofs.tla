------------------------- MODULE OnvifServerProofs -------------------------
(***************************************************************************)
(* Proofs about the ONVIF server, for any clients, requests and            *)
(* configurations.                                                         *)
(*                                                                         *)
(* What is left of a request's commands ends with a stop, unless they are  *)
(* a preset or a continuous move's; so that a head that moves for any      *)
(* other reason has its stop still to come.                                *)
(***************************************************************************)
EXTENDS OnvifServer, SequenceTheorems, TLAPS

LastOf(s) == s[Len(s)]

\* The commands left, while the operation d drives the head.
StopComes(commands, d) ==
  commands # <<>> =>
    LastOf(commands) = "stop" \/ commands = <<"preset">> \/ d = "ContinuousMove"

\* A head that moves although no client asked for a continuous move.
Astray == driver # "ContinuousMove" /\ ~unstopped /\ head # Still

DriveInv ==
  /\ TypeOK
  /\ soap.pc = "run" => StopComes(soap.commands, driver)
  /\ Astray => /\ soap.pc = "run" /\ soap.commands # <<>>
               /\ LastOf(soap.commands) = "stop"

-----------------------------------------------------------------------------
(* The commands of a request.                                               *)

LEMMA AxisIs ==
  ASSUME NEW v, NEW p \in HeadCommands, NEW n \in HeadCommands
  PROVE  Axis(v, p, n) \in {<<>>, <<p>>, <<n>>} /\ Axis(v, p, n) \in Seq(HeadCommands)
  BY DEF Axis

LEMMA NudgeIs ==
  ASSUME NEW m \in Seq(HeadCommands)
  PROVE  /\ Nudge(m) \in Seq(HeadCommands)
         /\ Nudge(m) # <<>> => LastOf(Nudge(m)) = "stop"
<1>1. CASE m = <<>>
  BY <1>1 DEF Nudge
<1>2. CASE m # <<>>
  <2>1. Nudge(m) = m \o <<"stop">>
    BY <1>2 DEF Nudge
  <2>2. <<"stop">> \in Seq(HeadCommands) /\ Len(<<"stop">>) = 1
    BY DEF HeadCommands
  <2>3. /\ m \o <<"stop">> \in Seq(HeadCommands)
        /\ Len(m \o <<"stop">>) = Len(m) + 1
        /\ (m \o <<"stop">>)[Len(m) + 1] = "stop"
    BY <2>2, ConcatProperties, LenProperties
  <2> QED
    BY <2>1, <2>3 DEF LastOf
<1> QED
  BY <1>1, <1>2

\* A relative move ends with a stop, or has no command.
LEMMA RelativeMoveStops ==
  ASSUME NEW vector
  PROVE  /\ RelativeMove(vector) \in Seq(HeadCommands)
         /\ RelativeMove(vector) # <<>> => LastOf(RelativeMove(vector)) = "stop"
<1>1. CASE vector = NULL
  BY <1>1 DEF RelativeMove
<1>2. CASE vector # NULL
  <2> DEFINE pan == Nudge(Axis(vector[1], "right", "left"))
             tilt == Nudge(Axis(vector[2], "up", "down"))
  <2>1. RelativeMove(vector) = pan \o tilt
    BY <1>2 DEF RelativeMove
  <2>2. /\ Axis(vector[1], "right", "left") \in Seq(HeadCommands)
        /\ Axis(vector[2], "up", "down") \in Seq(HeadCommands)
    BY AxisIs DEF HeadCommands
  <2>3. /\ pan \in Seq(HeadCommands) /\ tilt \in Seq(HeadCommands)
        /\ pan # <<>> => LastOf(pan) = "stop"
        /\ tilt # <<>> => LastOf(tilt) = "stop"
    BY <2>2, NudgeIs
  <2> HIDE DEF pan, tilt
  <2>4. /\ pan \o tilt \in Seq(HeadCommands)
        /\ Len(pan \o tilt) = Len(pan) + Len(tilt)
        /\ \A i \in 1..Len(pan) + Len(tilt) :
             (pan \o tilt)[i] = IF i <= Len(pan) THEN pan[i] ELSE tilt[i - Len(pan)]
    BY <2>3, ConcatProperties
  <2>5. CASE tilt = <<>>
    <3>1. pan \o tilt = pan
      BY <2>3, <2>5, ConcatEmptySeq
    <3> QED
      BY <2>1, <2>3, <3>1
  <2>6. CASE tilt # <<>>
    <3>1. Len(tilt) \in Nat \ {0} /\ Len(pan) \in Nat
      BY <2>3, <2>6, EmptySeq, LenProperties
    <3>2. (pan \o tilt)[Len(pan) + Len(tilt)] = tilt[Len(tilt)]
      BY <2>4, <3>1
    <3> QED
      BY <2>1, <2>3, <2>4, <2>6, <3>2 DEF LastOf
  <2> QED
    BY <2>5, <2>6
<1> QED
  BY <1>1, <1>2

LEMMA ContinuousMoveIs ==
  ASSUME NEW vector
  PROVE  ContinuousMove(vector) \in Seq(HeadCommands)
<1>1. /\ Axis(vector[1], "right", "left") \in Seq(HeadCommands)
      /\ Axis(vector[2], "up", "down") \in Seq(HeadCommands)
  BY AxisIs DEF HeadCommands
<1>2. Axis(vector[1], "right", "left") \o Axis(vector[2], "up", "down") \in Seq(HeadCommands)
  BY <1>1, ConcatProperties
<1> QED
  BY <1>2 DEF ContinuousMove

\* The commands of any request, with the operation that drives the head then.
LEMMA CommandsStop ==
  ASSUME NEW r, NEW d
  PROVE  LET commands == PTZCommands(ctx, r)
             drives == IF r.op \in MovingOperations /\ commands # <<>> THEN r.op ELSE d
         IN /\ commands \in Seq(HeadCommands)
            /\ StopComes(commands, drives)
            /\ drives \notin {"ContinuousMove", d} => LastOf(commands) = "stop" /\ commands # <<>>
<1> DEFINE commands == PTZCommands(ctx, r)
<1>1. CASE r.op \in {"GotoPreset", "GotoHomePosition"}
  <2>1. commands \in {<<>>, <<"preset">>}
    BY <1>1 DEF PTZCommands, GotoPreset, GotoHomePosition
  <2>2. r.op \notin MovingOperations
    BY <1>1 DEF MovingOperations
  <2>3. <<>> \in Seq(HeadCommands) /\ <<"preset">> \in Seq(HeadCommands)
    BY DEF HeadCommands
  <2>4. commands \in Seq(HeadCommands) /\ StopComes(commands, d)
    BY <2>1, <2>3 DEF StopComes
  <2> QED
    BY <2>2, <2>4, Zenon
<1>2. CASE r.op = "ContinuousMove"
  <2>1. commands = ContinuousMove(r.vector) /\ r.op \in MovingOperations
    BY <1>2 DEF PTZCommands, MovingOperations
  <2>2. commands \in Seq(HeadCommands)
    BY <2>1, ContinuousMoveIs
  <2> QED
    BY <1>2, <2>1, <2>2 DEF StopComes
<1>3. CASE r.op = "RelativeMove"
  <2>1. commands = RelativeMove(r.vector) /\ r.op \in MovingOperations
    BY <1>3 DEF PTZCommands, MovingOperations
  <2>2. commands \in Seq(HeadCommands) /\ (commands # <<>> => LastOf(commands) = "stop")
    BY <2>1, RelativeMoveStops
  <2> QED
    BY <1>3, <2>1, <2>2 DEF StopComes
<1>4. CASE r.op = "Stop"
  <2>1. commands = <<"stop">>
    BY <1>4 DEF PTZCommands, Stop
  <2>2. <<"stop">> \in Seq(HeadCommands) /\ LastOf(<<"stop">>) = "stop"
    BY DEF HeadCommands, LastOf
  <2> QED
    BY <2>1, <2>2 DEF StopComes
<1>5. CASE r.op \notin {"GotoPreset", "GotoHomePosition", "ContinuousMove", "RelativeMove", "Stop"}
  <2>1. commands = <<>>
    BY <1>5 DEF PTZCommands
  <2> QED
    BY <2>1 DEF StopComes
<1> QED
  BY <1>1, <1>2, <1>3, <1>4, <1>5

-----------------------------------------------------------------------------
(* The head.                                                                *)

LEMMA DriveInitial == Init => DriveInv
<1> SUFFICES ASSUME Init PROVE DriveInv
  OBVIOUS
<1>1. soap = [pc |-> "off", client |-> None, commands |-> <<>>] /\ head = Still
  BY DEF Init
<1>2. soap \in [pc : {"off", "accept", "serve", "run"}, client : Clients \cup {None},
                commands : Seq(HeadCommands)]
  BY <1>1
<1>3. /\ phase = "made" /\ looper = <<>> /\ backlog = <<>> /\ driver = None
      /\ client = [c \in Clients |-> "idle"] /\ ~unstopped /\ ~rebooting
      /\ unstopped \in BOOLEAN /\ rebooting \in BOOLEAN
  BY DEF Init
<1>4. TypeOK
  BY <1>1, <1>2, <1>3 DEF TypeOK, Still, Directions
<1> QED
  BY <1>1, <1>4 DEF DriveInv, Astray

LEMMA DriveStep == DriveInv /\ [Next]_vars => DriveInv'
<1> SUFFICES ASSUME DriveInv, [Next]_vars PROVE DriveInv'
  OBVIOUS
<1> USE DEF DriveInv
\* Steps that leave the SOAP thread and the head alone.
<1>1. ASSUME UNCHANGED <<soap, motion>>, TypeOK'
      PROVE  DriveInv'
  BY <1>1 DEF Astray, motion
\* Steps that leave the head alone while the SOAP thread has no command left.
<1>2. ASSUME UNCHANGED motion, TypeOK', soap'.pc # "run",
             soap.pc # "run" \/ soap.commands = <<>>
      PROVE  DriveInv'
  BY <1>2 DEF Astray, motion
<1>3. CASE ServerInit
  BY <1>1, <1>3 DEF ServerInit, TypeOK, conversation, motion, machine
<1>4. ASSUME NEW what \in {"Start", "Stop"}, Post(what)
      PROVE  DriveInv'
  BY <1>1, <1>4 DEF Post, TypeOK, conversation, motion, machine
<1>5. CASE OnStart
  <2>1. looper' \in Seq({"Start", "Stop"})
    BY <1>5, HeadTailProperties DEF OnStart, TypeOK
  <2>2. soap' = soap \/ (soap.pc = "off" /\ soap' = [soap EXCEPT !.pc = "accept"])
    BY <1>5 DEF OnStart
  <2>3. TypeOK'
    BY <1>5, <2>1, <2>2 DEF OnStart, TypeOK, conversation, motion
  <2>4. soap' = [soap EXCEPT !.pc = "accept"] => soap'.pc = "accept"
    BY DEF TypeOK
  <2> QED
    BY <1>1, <1>2, <1>5, <2>2, <2>3, <2>4 DEF OnStart
<1>6. CASE OnStop
  <2>1. looper' \in Seq({"Start", "Stop"})
    BY <1>6, HeadTailProperties DEF OnStop, TypeOK
  <2> QED
    BY <1>1, <1>6, <2>1 DEF OnStop, TypeOK, conversation, motion, machine
<1>7. CASE Destroy
  BY <1>1, <1>7 DEF Destroy, TypeOK, conversation, motion
<1>8. ASSUME NEW c \in Clients, NEW r \in scenario.requests, Connect(c, r)
      PROVE  DriveInv'
  BY <1>1, <1>8 DEF Connect, TypeOK, server, motion, machine
<1>9. ASSUME NEW c \in Clients, Leave(c)
      PROVE  DriveInv'
  BY <1>1, <1>9 DEF Leave, TypeOK, server, motion, machine
<1>10. CASE Accepts
  <2>1. Head(backlog) \in Clients /\ backlog' \in Seq(Clients)
    BY <1>10, HeadTailProperties DEF Accepts, TypeOK
  <2>2. soap.pc = "accept" /\ soap' = [pc |-> "serve", client |-> Head(backlog), commands |-> <<>>]
    BY <1>10 DEF Accepts, At, Goes
  <2>3. TypeOK'
    BY <1>10, <2>1, <2>2 DEF Accepts, TypeOK, server, motion, machine
  <2> QED
    BY <1>2, <1>10, <2>2, <2>3 DEF Accepts
<1>11. CASE AcceptFails
  <2>1. soap.pc = "accept" /\ soap' = [pc |-> "serve", client |-> None, commands |-> <<>>]
    BY <1>11 DEF AcceptFails, At, Goes
  <2>2. TypeOK'
    BY <1>11, <2>1 DEF AcceptFails, TypeOK, server, conversation, motion, machine
  <2> QED
    BY <1>2, <1>11, <2>1, <2>2 DEF AcceptFails
\* The three ways a connection is closed.
<1>12. ASSUME Closes, UNCHANGED <<server, backlog, motion, machine>>,
              soap.pc # "run" \/ soap.commands = <<>>
       PROVE  DriveInv'
  <2>1. soap' = [pc |-> "accept", client |-> None, commands |-> <<>>]
    BY <1>12 DEF Closes, Goes
  <2>2. client' \in [Clients -> {"idle", "waiting", "left"}]
    BY <1>12 DEF Closes, TypeOK
  <2>3. TypeOK'
    BY <1>12, <2>1, <2>2 DEF TypeOK, server, motion, machine
  <2> QED
    BY <1>2, <1>12, <2>1, <2>3
<1>13. CASE BeginServeFails
  BY <1>12, <1>13 DEF BeginServeFails, At
<1>14. CASE UnknownService
  BY <1>12, <1>14 DEF UnknownService, Serving, At
<1>15. CASE Dispatch
  <2> DEFINE r == Received
             given == PTZCommands(ctx, r)
             commands == IF ServiceOf(r) = "ptz" THEN given ELSE <<>>
  <2>1. /\ soap.pc = "serve" /\ soap.client # None
        /\ soap' = [pc |-> "run", client |-> soap.client, commands |-> commands]
        /\ driver' = IF r.op \in MovingOperations /\ commands # <<>> THEN r.op ELSE driver
        /\ UNCHANGED <<head, unstopped, server, conversation>>
        /\ rebooting' = (rebooting \/ Reboots(r))
    BY <1>15 DEF Dispatch, Serving, At, Goes
  <2>2. /\ given \in Seq(HeadCommands)
        /\ LET drives == IF r.op \in MovingOperations /\ given # <<>> THEN r.op ELSE driver
           IN /\ StopComes(given, drives)
              /\ drives \notin {"ContinuousMove", driver}
                   => LastOf(given) = "stop" /\ given # <<>>
    BY CommandsStop
  <2> HIDE DEF given
  <2>3. /\ commands \in Seq(HeadCommands)
        /\ StopComes(commands, driver')
        /\ driver' \notin {"ContinuousMove", driver}
             => LastOf(commands) = "stop" /\ commands # <<>>
        /\ driver' \in MovingOperations \cup {None}
    <3>1. CASE ServiceOf(r) = "ptz"
      BY <2>1, <2>2, <3>1 DEF TypeOK
    <3>2. CASE ServiceOf(r) # "ptz"
      BY <2>1, <3>2 DEF StopComes, TypeOK
    <3> QED
      BY <3>1, <3>2
  <2> HIDE DEF commands, r
  <2>4. rebooting' \in BOOLEAN
    BY <2>1 DEF TypeOK
  <2>5. TypeOK'
    BY <2>1, <2>3, <2>4 DEF TypeOK, server, conversation
  <2>6. soap'.pc = "run" /\ soap'.commands = commands
    BY <2>1
  <2>7. Astray' => driver' # driver
    BY <2>1 DEF Astray
  <2>8. Astray' => LastOf(soap'.commands) = "stop" /\ soap'.commands # <<>>
    BY <2>3, <2>6, <2>7 DEF Astray
  <2> QED
    BY <2>3, <2>5, <2>6, <2>8
<1>16. CASE RunCommand
  <2> DEFINE command == Head(soap.commands)
             rest == Tail(soap.commands)
  <2>1. /\ soap.pc = "run" /\ soap.commands # <<>>
        /\ soap' = [soap EXCEPT !.commands = rest]
        /\ UNCHANGED <<server, conversation, driver, machine>>
    BY <1>16 DEF RunCommand, At
  <2>2. PICK works \in BOOLEAN :
             /\ head' \in IF works THEN Moved(command) ELSE {head}
             /\ unstopped' = IF command = "stop" THEN ~works ELSE unstopped
    BY <1>16 DEF RunCommand
  <2>3. soap.commands \in Seq(HeadCommands) /\ head \in [pan : Directions, tilt : Directions]
    BY DEF TypeOK
  <2>4. /\ command \in HeadCommands
        /\ rest \in Seq(HeadCommands)
        /\ Len(rest) = Len(soap.commands) - 1
        /\ \A i \in 1..Len(rest) : rest[i] = soap.commands[i + 1]
        /\ Len(soap.commands) \in Nat \ {0}
        /\ command = soap.commands[1]
    BY <2>1, <2>3, HeadTailProperties, EmptySeq
  <2>5. /\ head' \in [pan : Directions, tilt : Directions]
        /\ command = "stop" /\ works => head' = Still
        /\ command = "preset" => head' \in {head, Still}
        /\ unstopped' \in BOOLEAN
    <3>1. \A h \in Moved(command) : h \in [pan : Directions, tilt : Directions]
      BY <2>3, <2>4 DEF Moved, HeadCommands, Directions, Still
    <3>2. Moved("stop") = {Still} /\ Moved("preset") = {head, Still}
      BY DEF Moved
    <3> QED
      BY <2>2, <2>3, <3>1, <3>2 DEF TypeOK
  <2> HIDE DEF command, rest
  <2>6. soap'.pc = "run" /\ soap'.commands = rest
    BY <2>1 DEF TypeOK
  <2>7. TypeOK'
    BY <2>1, <2>4, <2>5 DEF TypeOK, server, conversation, machine
  <2>8. rest # <<>> => LastOf(rest) = LastOf(soap.commands) /\ soap.commands # <<"preset">>
    BY <2>4, EmptySeq DEF LastOf
  <2>9. rest = <<>> => LastOf(soap.commands) = command
    BY <2>4 DEF LastOf
  <2>10. StopComes(rest, driver)
    BY <2>1, <2>8 DEF StopComes
  <2>11. ASSUME Astray'
         PROVE  rest # <<>> /\ LastOf(rest) = "stop"
    <3>1. driver # "ContinuousMove" /\ ~unstopped' /\ head' # Still
      BY <2>1, <2>11 DEF Astray
    <3>2. command # "stop"
      BY <2>2, <2>5, <3>1
    <3>3. unstopped' = unstopped
      BY <2>2, <3>2
    <3>4. CASE rest = <<>>
      <4>1. LastOf(soap.commands) # "stop"
        BY <2>9, <3>2, <3>4
      <4>2. soap.commands = <<"preset">>
        BY <2>1, <3>1, <4>1 DEF StopComes
      <4>3. command = "preset"
        BY <2>4, <4>2
      <4>4. head # Still
        BY <2>5, <3>1, <4>3
      <4> QED
        BY <3>1, <3>3, <4>1, <4>4 DEF Astray
    <3>5. CASE rest # <<>>
      BY <2>1, <2>8, <3>1, <3>5 DEF StopComes
    <3> QED
      BY <3>4, <3>5
  <2> QED
    BY <2>1, <2>6, <2>7, <2>10, <2>11
<1>17. CASE Reply
  BY <1>12, <1>17 DEF Reply, At
<1>18. CASE RebootTask
  BY <1>1, <1>18 DEF RebootTask, TypeOK, server, conversation, motion
<1>19. CASE UNCHANGED vars
  BY <1>1, <1>19 DEF vars, TypeOK, server, conversation, motion, machine
<1> QED
  BY <1>3, <1>4, <1>5, <1>6, <1>7, <1>8, <1>9, <1>10, <1>11, <1>13, <1>14, <1>15,
     <1>16, <1>17, <1>18, <1>19 DEF Next, LooperThread, Serves, Ended

LEMMA DriveInvariant == Spec => []DriveInv
<1>1. Init => DriveInv
  BY DriveInitial
<1>2. DriveInv /\ [Next]_vars => DriveInv'
  BY DriveStep
<1> QED
  BY <1>1, <1>2, PTL DEF Spec

\* The state of the server stays well formed, for any clients and scenarios.
THEOREM TypeCorrect == Spec => []TypeOK
<1>1. DriveInv => TypeOK
  BY DEF DriveInv
<1> QED
  BY <1>1, DriveInvariant, PTL

\* No request but a continuous move leaves the head moving, unless a stop
\* command fails.
THEOREM HeadComesToRest == Spec => []HeadStillOrDriven
<1>1. DriveInv => HeadStillOrDriven
  BY DEF DriveInv, HeadStillOrDriven, Astray, TypeOK
<1> QED
  BY <1>1, DriveInvariant, PTL

-----------------------------------------------------------------------------
(* Tokens.                                                                  *)

\* The program has one profile or none, and its type is one the program knows.
ContextSane ==
  ctx.profiles = <<>> \/ \E p : ctx.profiles = <<p>> /\ p.type \in Encodings

TokensOf(p) == {ProfileItem(p), SourceItem(p), EncoderItem(p)}

\* An item is about a profile, if it is a token.
Known(g) == g[1] \in TokenKinds => \E p \in Profiles(ctx) : g \in TokensOf(p)

TokenInv ==
  /\ phase = "made" => told = {} /\ soap.pc = "off"
  /\ ContextSane
  /\ \A g \in told : \E p \in Profiles(ctx) : g \in TokensOf(p)

LEMMA DeviceGives ==
  ASSUME NEW r, NEW g \in DeviceAnswer(ctx, r).gives
  PROVE  g[1] \notin TokenKinds
<1> USE DEF Gives, TokenKinds
<1>1. /\ \A h \in GetServices(ctx).gives : h[1] = "service"
      /\ \A h \in GetCapabilities(ctx, r.categories).gives : h[1] = "service"
  BY DEF GetServices, GetCapabilities, Services
<1>2. /\ \A h \in GetServiceCapabilities.gives : h[1] = "capabilities"
      /\ \A h \in GetDeviceInformation(ctx).gives : h[1] = "information"
      /\ \A h \in GetSystemDateAndTime.gives : h[1] = "zone"
      /\ \A h \in GetWsdlUrl.gives : h[1] = "url"
  BY DEF GetServiceCapabilities, GetDeviceInformation, GetSystemDateAndTime, GetWsdlUrl
<1>3. /\ \A h \in GetScopes(ctx).gives : h[1] = "scope"
      /\ \A h \in GetUsers(ctx).gives : h[1] = "user"
      /\ \A h \in GetNetworkInterfaces(ctx).gives : h[1] = "interface"
  <2>1. \A items : Gives(items).gives = items
    OBVIOUS
  <2> HIDE DEF Gives
  <2>2. \A h \in GetScopes(ctx).gives : h[1] = "scope"
    BY <2>1, \A h \in {<<"scope", s>> : s \in ToSet(ctx.scopes)} : h[1] = "scope" DEF GetScopes
  <2>3. \A h \in GetUsers(ctx).gives : h[1] = "user"
    <3>1. \A S : \A h \in {<<"user", u>> : u \in S} : h[1] = "user"
      OBVIOUS
    <3> DEFINE users == {ctx.user} \ {""}
    <3>2. GetUsers(ctx).gives = {<<"user", u>> : u \in users}
      BY DEF GetUsers, Gives
    <3> HIDE DEF users
    <3> QED
      BY <3>1, <3>2
  <2>4. \A h \in GetNetworkInterfaces(ctx).gives : h[1] = "interface"
    BY <2>1 DEF GetNetworkInterfaces
  <2> QED
    BY <2>2, <2>3, <2>4
<1>4. DeviceAnswer(ctx, r) \in
        {GetServices(ctx), GetServiceCapabilities, GetDeviceInformation(ctx),
         GetSystemDateAndTime, GetScopes(ctx), GetUsers(ctx), GetWsdlUrl,
         GetCapabilities(ctx, r.categories), GetNetworkInterfaces(ctx), Nothing}
  BY Zenon DEF DeviceAnswer
<1>5. Nothing.gives = {}
  BY DEF Nothing
<1> QED
  BY <1>1, <1>2, <1>3, <1>4, <1>5

LEMMA PTZGives ==
  ASSUME NEW r, NEW g \in PTZAnswer(ctx, r).gives
  PROVE  g[1] \notin TokenKinds
<1> USE DEF Gives, TokenKinds
<1>1. PTZAnswer(ctx, r) \in
        {GetConfigurations, GetPresets, GetPTZNode, GetConfigurationOptions, Nothing}
  BY Zenon DEF PTZAnswer
<1>2. /\ \A h \in GetConfigurations.gives : h[1] = "configuration"
      /\ \A h \in GetConfigurationOptions.gives : h[1] = "options"
  BY DEF GetConfigurations, GetConfigurationOptions
<1>3. \A h \in GetPresets.gives : h[1] = "preset"
  BY DEF GetPresets
<1>4. \A h \in GetPTZNode.gives : h[1] \in {"presets", "home"}
  BY DEF GetPTZNode
<1>5. Nothing.gives = {}
  BY DEF Nothing
<1> QED
  BY <1>1, <1>2, <1>3, <1>4, <1>5

LEMMA MediaGives ==
  ASSUME NEW r, NEW g \in MediaAnswer(ctx, r).gives, ContextSane
  PROVE  Known(g)
<1> USE DEF Gives, Fault
<1>1. \A h \in GetVideoSources(ctx).gives : Known(h)
  <2>1. CASE ctx.profiles = <<>>
    BY <2>1 DEF GetVideoSources, Nothing
  <2>2. ASSUME NEW p, ctx.profiles = <<p>>
        PROVE  \A h \in GetVideoSources(ctx).gives : Known(h)
    <3>1. p \in Profiles(ctx)
      BY <2>2 DEF Profiles, ToSet
    <3> QED
      BY <2>2, <3>1 DEF GetVideoSources, Known, TokensOf
  <2> QED
    BY <2>1, <2>2 DEF ContextSane
<1>2. /\ \A h \in GetProfile(ctx, r).gives : Known(h)
      /\ \A h \in GetStreamUri(ctx, r).gives : Known(h)
      /\ \A h \in GetSnapshotUri(ctx, r).gives : Known(h)
  BY DEF GetProfile, GetStreamUri, GetSnapshotUri, Found, WithToken, UriItem, SnapshotItem,
         Known, TokensOf, TokenKinds
<1>3. \A h \in GetProfiles(ctx).gives : Known(h)
  BY DEF GetProfiles, Known, TokensOf
<1>4. /\ \A h \in GetVideoSourceConfigurations(ctx).gives : Known(h)
      /\ \A h \in GetVideoEncoderConfigurations(ctx).gives : Known(h)
      /\ \A h \in GetVideoSourceConfiguration(ctx, r).gives : Known(h)
      /\ \A h \in GetVideoEncoderConfiguration(ctx, r).gives : Known(h)
  BY DEF GetVideoSourceConfigurations, GetVideoEncoderConfigurations,
         GetVideoSourceConfiguration, GetVideoEncoderConfiguration, Known, TokensOf
<1>5. /\ \A h \in GetCompatibleVideoEncoderConfigurations(ctx, r).gives : Known(h)
      /\ \A h \in GetCompatibleVideoSourceConfigurations(ctx, r).gives : Known(h)
  BY DEF GetCompatibleVideoEncoderConfigurations, GetCompatibleVideoSourceConfigurations,
         WithToken, Known, TokensOf
<1>6. /\ \A h \in GetVideoSourceConfigurationOptions(ctx, r).gives : Known(h)
      /\ \A h \in GetVideoEncoderConfigurationOptions(ctx, r).gives : Known(h)
      /\ \A h \in GetGuaranteedNumberOfVideoEncoderInstances(ctx).gives : Known(h)
      /\ Known(<<"capabilities", "media">>)
  BY DEF GetVideoSourceConfigurationOptions, GetVideoEncoderConfigurationOptions,
         OptionsItem, GetGuaranteedNumberOfVideoEncoderInstances, Known, TokenKinds
<1>7. MediaAnswer(ctx, r) \in
        {Gives({<<"capabilities", "media">>}), GetVideoSources(ctx), GetProfile(ctx, r),
         GetProfiles(ctx), GetVideoSourceConfigurations(ctx),
         GetVideoEncoderConfigurations(ctx), GetVideoSourceConfiguration(ctx, r),
         GetVideoEncoderConfiguration(ctx, r),
         GetCompatibleVideoEncoderConfigurations(ctx, r),
         GetCompatibleVideoSourceConfigurations(ctx, r),
         GetVideoSourceConfigurationOptions(ctx, r),
         GetVideoEncoderConfigurationOptions(ctx, r),
         GetGuaranteedNumberOfVideoEncoderInstances(ctx), GetStreamUri(ctx, r),
         GetSnapshotUri(ctx, r), Nothing}
  BY Zenon DEF MediaAnswer
<1>8. Nothing.gives = {} /\ Gives({<<"capabilities", "media">>}).gives = {<<"capabilities", "media">>}
  BY DEF Nothing
<1> QED
  BY <1>1, <1>2, <1>3, <1>4, <1>5, <1>6, <1>7, <1>8

LEMMA AnswerGives ==
  ASSUME NEW r, NEW g \in Answer(r).gives, ContextSane
  PROVE  Known(g)
  BY DeviceGives, PTZGives, MediaGives DEF Answer, Known, Nothing, Gives

LEMMA TokenInitial == Init => TokenInv
<1> SUFFICES ASSUME Init PROVE TokenInv
  OBVIOUS
<1>1. /\ ctx = NewServiceContext /\ told = {}
      /\ soap = [pc |-> "off", client |-> None, commands |-> <<>>]
  BY DEF Init
<1>2. soap.pc = "off" /\ ctx.profiles = <<>>
  BY <1>1 DEF NewServiceContext
<1> QED
  BY <1>1, <1>2 DEF TokenInv, ContextSane

LEMMA TokenStep == TokenInv /\ [Next]_vars => TokenInv'
<1> SUFFICES ASSUME TokenInv, [Next]_vars PROVE TokenInv'
  OBVIOUS
<1>1. ASSUME UNCHANGED <<ctx, told>>, phase' # "made" \/ UNCHANGED <<phase, soap>>
      PROVE  TokenInv'
  BY <1>1 DEF TokenInv, ContextSane, Profiles
<1>2. CASE ServerInit
  <2>1. told = {} /\ told' = told /\ phase' # "made"
    BY <1>2 DEF ServerInit, TokenInv, conversation
  <2>2. PICK opened \in BOOLEAN, config \in CreateAppConfigFromFile(scenario.file) :
          ctx' = convertConfig(config, opened)
    BY <1>2 DEF ServerInit
  <2>3. ctx'.profiles = IF opened /\ Accepted(config.stream) THEN <<config.stream>> ELSE <<>>
    BY <2>2 DEF convertConfig
  <2>4. ContextSane'
    BY <2>3 DEF ContextSane, Accepted
  <2> QED
    BY <2>1, <2>4 DEF TokenInv
<1>3. CASE Reply
  <2>1. phase = "ready" /\ UNCHANGED <<ctx, phase>>
    BY <1>3 DEF Reply, At, Ready, server
  <2>2. \A g \in told' :
          \/ g \in told
          \/ g \in Answer(Received).gives /\ g[1] \in TokenKinds
    BY <1>3 DEF Reply
  <2>3. \A g \in told' : \E p \in Profiles(ctx) : g \in TokensOf(p)
    BY <2>2, AnswerGives DEF TokenInv, Known
  <2> QED
    BY <2>1, <2>3 DEF TokenInv, ContextSane, Profiles
\* Every other step leaves the context and the tokens alone, and a server that was
\* not initialized has no SOAP thread.
<1>4. CASE (\E what \in {"Start", "Stop"} : Post(what)) \/ LooperThread \/ Destroy
  BY <1>1, <1>4 DEF Post, LooperThread, OnStart, OnStop, Destroy, Ready, server, conversation
<1>5. CASE \E c \in Clients : (\E r \in scenario.requests : Connect(c, r)) \/ Leave(c)
  BY <1>1, <1>5 DEF Connect, Leave, server
<1>6. CASE Accepts \/ AcceptFails
  BY <1>1, <1>6 DEF Accepts, AcceptFails, At, Ready, server, conversation
<1>7. CASE BeginServeFails \/ UnknownService \/ Dispatch \/ RunCommand
  BY <1>1, <1>7 DEF BeginServeFails, UnknownService, Dispatch, RunCommand, Serving, At,
                    Ready, server, conversation
<1>8. CASE RebootTask \/ UNCHANGED vars
  BY <1>1, <1>8 DEF RebootTask, vars, server, conversation
<1> QED
  BY <1>2, <1>3, <1>4, <1>5, <1>6, <1>7, <1>8 DEF Next, LooperThread, Serves, Ended

\* With tokens that a profile shares with its configurations, no request that
\* names a token of the profile is refused.
LEMMA ProfileAnswers ==
  ASSUME NEW r, NEW p, ~OwnTokens, ctx.profiles = <<p>>, p.type \in Encodings,
         NEW g \in TokensOf(p), g \in Named(r)
  PROVE  ~Refused(r)
<1>1. Profiles(ctx) = {p} /\ DOMAIN ctx.profiles = {1} /\ ctx.profiles[1] = p
  BY DEF Profiles, ToSet
<1>2. ProfileToken(p) = SourceToken(p) /\ SourceToken(p) = EncoderToken(p)
  BY DEF ProfileToken, SourceToken, EncoderToken
<1>3. g[2] = ProfileToken(p)
  BY <1>2 DEF TokensOf, ProfileItem, SourceItem, EncoderItem
<1>4. r.service = "media"
  BY DEF Named
<1>5. ASSUME r.op \in MediaOperations, ~MediaAnswer(ctx, r).fault,
             MediaAnswer(ctx, r).gives # {}
      PROVE  ~Refused(r)
  <2>1. ServiceOf(r) = "media"
    BY <1>4, <1>5 DEF ServiceOf
  <2> QED
    BY <1>5, <2>1 DEF Refused, Answer
<1>6. CASE r.op \in {"GetProfile", "GetStreamUri", "GetSnapshotUri"}
  <2>1. r.token = ProfileToken(p)
    BY <1>3, <1>4, <1>6 DEF Named
  <2>2. MediaAnswer(ctx, r) \in {GetProfile(ctx, r), GetStreamUri(ctx, r), GetSnapshotUri(ctx, r)}
    BY <1>6, Zenon DEF MediaAnswer
  <2>3. WithToken(ctx, r.token) = {p}
    BY <1>1, <2>1 DEF WithToken
  <2>4. /\ GetProfile(ctx, r) = Gives({ProfileItem(p)})
        /\ GetStreamUri(ctx, r) = Gives({UriItem(p)})
        /\ GetSnapshotUri(ctx, r) = Gives({SnapshotItem(p)})
    BY <2>3 DEF GetProfile, GetStreamUri, GetSnapshotUri, Found
  <2>5. \A item : ~Gives({item}).fault /\ Gives({item}).gives # {}
    BY DEF Gives
  <2>6. ~MediaAnswer(ctx, r).fault /\ MediaAnswer(ctx, r).gives # {}
    BY <2>2, <2>4, <2>5
  <2> QED
    BY <1>5, <1>6, <2>6 DEF MediaOperations
<1>7. CASE r.op \in {"GetCompatibleVideoEncoderConfigurations",
                     "GetCompatibleVideoSourceConfigurations",
                     "GetVideoSourceConfiguration", "GetVideoEncoderConfiguration"}
  <2>1. r.token = ProfileToken(p)
    BY <1>3, <1>4, <1>7 DEF Named
  <2>2. MediaAnswer(ctx, r) \in
          {GetCompatibleVideoEncoderConfigurations(ctx, r),
           GetCompatibleVideoSourceConfigurations(ctx, r),
           GetVideoSourceConfiguration(ctx, r), GetVideoEncoderConfiguration(ctx, r)}
    BY <1>7, Zenon DEF MediaAnswer
  <2>3. /\ GetCompatibleVideoEncoderConfigurations(ctx, r).gives # {}
        /\ GetCompatibleVideoSourceConfigurations(ctx, r).gives # {}
        /\ GetVideoSourceConfiguration(ctx, r).gives # {}
        /\ GetVideoEncoderConfiguration(ctx, r).gives # {}
    BY <1>1, <1>2, <2>1
       DEF GetCompatibleVideoEncoderConfigurations, GetCompatibleVideoSourceConfigurations,
           GetVideoSourceConfiguration, GetVideoEncoderConfiguration, WithToken, Gives
  <2>4. /\ ~GetCompatibleVideoEncoderConfigurations(ctx, r).fault
        /\ ~GetCompatibleVideoSourceConfigurations(ctx, r).fault
        /\ ~GetVideoSourceConfiguration(ctx, r).fault
        /\ ~GetVideoEncoderConfiguration(ctx, r).fault
    BY DEF GetCompatibleVideoEncoderConfigurations, GetCompatibleVideoSourceConfigurations,
           GetVideoSourceConfiguration, GetVideoEncoderConfiguration, Gives
  <2>5. ~MediaAnswer(ctx, r).fault /\ MediaAnswer(ctx, r).gives # {}
    BY <2>2, <2>3, <2>4
  <2> QED
    BY <1>5, <1>7, <2>5 DEF MediaOperations
<1>8. CASE r.op \in {"GetVideoSourceConfigurationOptions",
                     "GetVideoEncoderConfigurationOptions"}
  <2>1. AskedToken(ctx, r) \subseteq {SourceToken(p)}
    BY <1>1, <1>2 DEF AskedToken
  <2>2. Matching(ctx, r) = {1}
    BY <1>1, <2>1 DEF Matching
  <2>3. MediaAnswer(ctx, r) \in {GetVideoSourceConfigurationOptions(ctx, r),
                                 GetVideoEncoderConfigurationOptions(ctx, r)}
    BY <1>8, Zenon DEF MediaAnswer
  <2>4. /\ OptionsItem(p) \in GetVideoSourceConfigurationOptions(ctx, r).gives
        /\ ~GetVideoSourceConfigurationOptions(ctx, r).fault
    BY <1>1, <2>2 DEF GetVideoSourceConfigurationOptions, Gives
  <2>5. /\ OptionsItem(p) \in GetVideoEncoderConfigurationOptions(ctx, r).gives
        /\ ~GetVideoEncoderConfigurationOptions(ctx, r).fault
    BY <1>1, <2>2 DEF GetVideoEncoderConfigurationOptions, Gives, Encodings
  <2>6. ~MediaAnswer(ctx, r).fault /\ MediaAnswer(ctx, r).gives # {}
    BY <2>3, <2>4, <2>5
  <2> QED
    BY <1>5, <1>8, <2>6 DEF MediaOperations
<1> QED
  BY <1>4, <1>6, <1>7, <1>8 DEF Named

\* Whatever a client was given as a token is known to the questions about it, as
\* long as a profile shares its token with its configurations.
THEOREM TokensAlwaysHonoured == ~OwnTokens => (Spec => []TokensHonoured)
<1> SUFFICES ASSUME ~OwnTokens PROVE Spec => []TokensHonoured
  OBVIOUS
<1>1. Init => TokenInv
  BY TokenInitial
<1>2. TokenInv /\ [Next]_vars => TokenInv'
  BY TokenStep
<1>3. TokenInv => TokensHonoured
  <2> SUFFICES ASSUME TokenInv, NEW g \in Named(Received) \cap told
               PROVE  ~Refused(Received)
    BY DEF TokensHonoured
  <2>1. PICK p \in Profiles(ctx) : g \in TokensOf(p)
    BY DEF TokenInv
  <2>2. ctx.profiles = <<p>> /\ p.type \in Encodings
    BY <2>1 DEF TokenInv, ContextSane, Profiles, ToSet
  <2> QED
    BY <2>1, <2>2, ProfileAnswers
<1> QED
  BY <1>1, <1>2, <1>3, PTL DEF Spec
=============================================================================
