---------------------------- MODULE OnvifServer ----------------------------
(***************************************************************************)
(* OnvifServer (onvif/onvif_server.cc), which answers ONVIF clients with   *)
(* the services of OnvifServices, configured by AppConfig, and drives the  *)
(* camera's head by shell commands.                                        *)
(*                                                                         *)
(*   its owner  --Start, Stop--> looper thread --makes--> SOAP thread      *)
(*   clients    --connections--> SOAP thread --system()--> head            *)
(*                                                                         *)
(* One SOAP thread accepts a connection, receives one request, has the     *)
(* services try it in turn, and accepts the next: a request whose commands *)
(* run keeps every other client waiting.                                   *)
(***************************************************************************)
EXTENDS AppConfig, OnvifServices, FiniteSets

CONSTANTS
  Clients,        \* clients, each with at most one connection
  Scenarios,      \* what the program may be started with: its ini file, the
                  \* head's commands that may fail, and the requests that come
  MaxPosted       \* bound: messages waiting in looper_

None == "none"

ASSUME ServerAssumption ==
  /\ None \notin Clients
  /\ \A s \in Scenarios : s.failing \subseteq HeadCommands

VARIABLES
  scenario,       \* the scenario this runs in
  phase,          \* "made", "ready" (Init returned OK), "failed" or "gone"
  ctx,            \* service_info_
  looper,         \* messages waiting in looper_
  soap,           \* where the SOAP thread is: [pc, client, commands]
  backlog,        \* clients whose connections wait to be accepted
  client,         \* "idle", "waiting" for an answer, or "left" before it came
  request,        \* the request that each connection carries
  told,           \* the tokens that clients have been given
  head,           \* how the camera's head moves: [pan, tilt]
  driver,         \* the operation that ran a move or stop command last
  unstopped,      \* a stop command failed and none has worked since
  rebooting,      \* a reboot task waits for its three seconds
  ended           \* why the process ended, or "no"

server == <<scenario, phase, ctx, looper>>
conversation == <<backlog, client, request, told>>
motion == <<head, driver, unstopped>>
machine == <<rebooting, ended>>
vars == <<server, soap, conversation, motion, machine>>

Directions == -1..1
Still == [pan |-> 0, tilt |-> 0]
TokenKinds == {"profile", "source", "encoder"}
NoRequest == [service |-> None, op |-> None]
MovingOperations == {"ContinuousMove", "RelativeMove", "Stop"}

Running == ended = "no"
Ready == Running /\ phase = "ready"

-----------------------------------------------------------------------------
(* The owner, and the looper thread.                                        *)

\* The constructor's AVE_DCHECK asks that the file could be read.
Init ==
  /\ scenario \in Scenarios
  /\ phase = "made"
  /\ ctx = NewServiceContext
  /\ ended \in IF scenario.file.parses THEN {"no"} ELSE {"config", "no"}
  /\ looper = <<>>
  /\ soap = [pc |-> "off", client |-> None, commands |-> <<>>]
  /\ backlog = <<>>
  /\ client = [c \in Clients |-> "idle"]
  /\ request = [c \in Clients |-> NoRequest]
  /\ told = {}
  /\ head = Still
  /\ driver = None
  /\ unstopped = FALSE
  /\ rebooting = FALSE

\* OnvifServer::Init: the network interface is opened or not, and then the port is
\* bound or not; without them the program does not go on.
ServerInit ==
  /\ Running /\ phase = "made"
  /\ \E opened, bound \in BOOLEAN, config \in CreateAppConfigFromFile(scenario.file) :
       /\ ctx' = convertConfig(config, opened)
       /\ phase' = IF opened /\ bound THEN "ready" ELSE "failed"
  /\ UNCHANGED <<scenario, looper, soap, conversation, motion, machine>>

\* Start and Stop
Post(what) ==
  /\ Ready
  /\ Len(looper) < MaxPosted
  /\ looper' = Append(looper, what)
  /\ UNCHANGED <<scenario, phase, ctx, soap, conversation, motion, machine>>

\* A second thread is assigned to one that was not joined: std::terminate.
OnStart ==
  /\ Ready
  /\ looper # <<>> /\ Head(looper) = "Start"
  /\ looper' = Tail(looper)
  /\ IF soap.pc = "off"
     THEN /\ soap' = [soap EXCEPT !.pc = "accept"]
          /\ UNCHANGED ended
     ELSE /\ ended' = "terminate"
          /\ UNCHANGED soap
  /\ UNCHANGED <<scenario, phase, ctx, conversation, motion, rebooting>>

\* Does nothing.
OnStop ==
  /\ Ready
  /\ looper # <<>> /\ Head(looper) = "Stop"
  /\ looper' = Tail(looper)
  /\ UNCHANGED <<scenario, phase, ctx, soap, conversation, motion, machine>>

\* ~OnvifServer joins no thread.
Destroy ==
  /\ Running /\ phase \in {"ready", "failed"}
  /\ phase' = "gone"
  /\ looper' = <<>>
  /\ ended' = IF soap.pc = "off" THEN "destroyed" ELSE "terminate"
  /\ UNCHANGED <<scenario, ctx, soap, conversation, motion, rebooting>>

-----------------------------------------------------------------------------
(* The clients.                                                             *)

\* soap_bind listens from Init on, with a backlog of 10.
Connect(c, r) ==
  /\ Ready
  /\ client[c] = "idle"
  /\ backlog' = Append(backlog, c)
  /\ client' = [client EXCEPT ![c] = "waiting"]
  /\ request' = [request EXCEPT ![c] = r]
  /\ UNCHANGED <<server, soap, told, motion, machine>>

Leave(c) ==
  /\ Running
  /\ client[c] = "waiting"
  /\ client' = [client EXCEPT ![c] = "left"]
  /\ UNCHANGED <<server, soap, backlog, request, told, motion, machine>>

-----------------------------------------------------------------------------
(* The SOAP thread.                                                         *)

At(pc) == Ready /\ soap.pc = pc
Goes(pc, c, commands) == soap' = [pc |-> pc, client |-> c, commands |-> commands]

\* The connection is closed, answered or not.
Closes ==
  /\ Goes("accept", None, <<>>)
  /\ client' = [c \in Clients |-> IF c = soap.client THEN "idle" ELSE client[c]]
  /\ request' = [c \in Clients |-> IF c = soap.client THEN NoRequest ELSE request[c]]

Accepts ==
  /\ At("accept")
  /\ backlog # <<>>
  /\ Goes("serve", Head(backlog), <<>>)
  /\ backlog' = Tail(backlog)
  /\ UNCHANGED <<server, client, request, told, motion, machine>>

\* Mutant: the thread ends at an error.
AcceptEnds ==
  /\ At("accept")
  /\ Goes("off", None, <<>>)
  /\ UNCHANGED <<server, conversation, motion, machine>>

\* The error is logged and the thread goes on to serve no connection.
AcceptFails ==
  /\ At("accept")
  /\ Goes("serve", None, <<>>)
  /\ UNCHANGED <<server, conversation, motion, machine>>

\* No connection, no request within three seconds, or none that can be read.
BeginServeFails ==
  /\ At("serve")
  /\ Closes
  /\ UNCHANGED <<server, backlog, told, motion, machine>>

\* The services try the request in the order device, media, PTZ; each takes the
\* operations of its own namespace.
ServiceOf(r) ==
  IF r.service = "device" /\ r.op \in DeviceOperations THEN "device"
  ELSE IF r.service = "media" /\ r.op \in MediaOperations THEN "media"
  ELSE IF r.service = "ptz" /\ r.op \in PTZOperations THEN "ptz"
  ELSE None

Received == request[soap.client]
Serving == At("serve") /\ soap.client # None

UnknownService ==
  /\ Serving
  /\ ServiceOf(Received) = None
  /\ Closes
  /\ UNCHANGED <<server, backlog, told, motion, machine>>

\* SystemReboot detaches a thread and answers.
Reboots(r) == ServiceOf(r) = "device" /\ r.op = "SystemReboot"

Dispatch ==
  LET r == Received
      commands == IF ServiceOf(r) = "ptz" THEN PTZCommands(ctx, r) ELSE <<>>
  IN
  /\ Serving
  /\ ServiceOf(r) # None
  /\ Goes("run", soap.client, commands)
  /\ driver' = IF r.op \in MovingOperations /\ commands # <<>> THEN r.op ELSE driver
  /\ rebooting' = (rebooting \/ Reboots(r))
  /\ UNCHANGED <<server, conversation, head, unstopped, ended>>

\* What a command that works does to the head.  A preset moves it to a place of
\* its own, and ends the motion or does not.
Moved(command) ==
  CASE command = "left"   -> {[head EXCEPT !.pan = -1]}
    [] command = "right"  -> {[head EXCEPT !.pan = 1]}
    [] command = "up"     -> {[head EXCEPT !.tilt = 1]}
    [] command = "down"   -> {[head EXCEPT !.tilt = -1]}
    [] command = "stop"   -> {Still}
    [] command = "preset" -> {head, Still}

\* system(), whose result is ignored; an empty command does nothing.
RunCommand ==
  LET command == Head(soap.commands)
  IN
  /\ At("run") /\ soap.commands # <<>>
  /\ soap' = [soap EXCEPT !.commands = Tail(@)]
  /\ \E works \in IF command \notin ctx.commands THEN {FALSE}
                  ELSE IF command \in scenario.failing THEN BOOLEAN ELSE {TRUE} :
       /\ head' \in IF works THEN Moved(command) ELSE {head}
       /\ unstopped' = IF command = "stop" THEN ~works ELSE unstopped
  /\ UNCHANGED <<server, conversation, driver, machine>>

Answer(r) ==
  CASE ServiceOf(r) = "device" -> DeviceAnswer(ctx, r)
    [] ServiceOf(r) = "media"  -> MediaAnswer(ctx, r)
    [] ServiceOf(r) = "ptz"    -> PTZAnswer(ctx, r)
    [] OTHER                   -> Nothing

\* The answer is sent, and reaches the client if it is still there.
Reply ==
  /\ At("run") /\ soap.commands = <<>>
  /\ Closes
  /\ told' = IF client[soap.client] = "waiting"
             THEN told \cup {g \in Answer(Received).gives : g[1] \in TokenKinds}
             ELSE told
  /\ UNCHANGED <<server, backlog, motion, machine>>

\* reboot_task, three seconds later: setuid and reboot may be refused.
RebootTask ==
  /\ Running /\ rebooting
  /\ rebooting' = FALSE
  /\ ended' \in {"rebooted", "no"}
  /\ UNCHANGED <<server, soap, conversation, motion>>

-----------------------------------------------------------------------------
LooperThread == OnStart \/ OnStop

Serves == BeginServeFails \/ UnknownService \/ Dispatch \/ RunCommand \/ Reply

Ended == ~Running /\ UNCHANGED vars

Next ==
  \/ ServerInit
  \/ \E what \in {"Start", "Stop"} : Post(what)
  \/ LooperThread
  \/ Destroy
  \/ \E c \in Clients : \E r \in scenario.requests : Connect(c, r)
  \/ \E c \in Clients : Leave(c)
  \/ Accepts
  \/ AcceptFails
  \/ Serves
  \/ RebootTask
  \/ Ended

\* The SOAP thread goes on (every command ends, and begin_serve gives up after
\* three seconds), and accept does not fail for ever.
Fairness == WF_vars(Serves) /\ SF_vars(Accepts)

Spec == Init /\ [][Next]_vars /\ Fairness

-----------------------------------------------------------------------------
(* Properties.                                                              *)

\* The state is well formed.
TypeOK ==
  /\ phase \in {"made", "ready", "failed", "gone"}
  /\ looper \in Seq({"Start", "Stop"})
  /\ soap \in [pc : {"off", "accept", "serve", "run"}, client : Clients \cup {None},
               commands : Seq(HeadCommands)]
  /\ backlog \in Seq(Clients)
  /\ client \in [Clients -> {"idle", "waiting", "left"}]
  /\ head \in [pan : Directions, tilt : Directions]
  /\ driver \in MovingOperations \cup {None}
  /\ unstopped \in BOOLEAN
  /\ rebooting \in BOOLEAN

\* While no request is being carried out, the head moves only because a client
\* asked for a continuous move, or because a stop did not work: a RelativeMove
\* whose client has left, or that overtook another move, still ends its motion.
HeadStillOrDriven ==
  soap.pc # "run" /\ head # Still => driver = "ContinuousMove" \/ unstopped

\* Whether an answer says nothing of the token that was asked about.
Refused(r) == Answer(r).fault \/ Answer(r).gives = {}

\* The tokens that a request names, as they were given.
Named(r) ==
  IF r.service # "media" THEN {}
  ELSE CASE r.op \in {"GetProfile", "GetStreamUri", "GetSnapshotUri",
                      "GetCompatibleVideoEncoderConfigurations",
                      "GetCompatibleVideoSourceConfigurations"} -> {<<"profile", r.token>>}
         [] r.op = "GetVideoSourceConfiguration" -> {<<"source", r.token>>}
         [] r.op = "GetVideoEncoderConfiguration" -> {<<"encoder", r.token>>}
         [] r.op = "GetVideoSourceConfigurationOptions" ->
              {<<"source", r.configuration>>, <<"profile", r.profile>>}
         [] r.op = "GetVideoEncoderConfigurationOptions" ->
              {<<"encoder", r.configuration>>, <<"profile", r.profile>>}
         [] OTHER -> {}

\* A token that one question gave is known to every other question of its kind,
\* whatever happened in between: no client that goes from the profiles to their
\* addresses, configurations and options is turned away.
TokensHonoured ==
  soap.pc = "run" /\ Named(Received) \cap told # {} => ~Refused(Received)

\* Every connection comes to its end once the SOAP thread runs, whatever the
\* other clients ask for, and however often accept fails.
EveryClientServed ==
  \A c \in Clients :
    client[c] = "waiting" /\ soap.pc # "off" ~> client[c] # "waiting" \/ ~Running
=============================================================================
