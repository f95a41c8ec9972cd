---------------------------- MODULE MCOnvifServer ----------------------------
(* Two clients of the ONVIF server, in six scenarios.                         *)
EXTENDS OnvifServer

CONSTANTS c1, c2

TwoClients == {c1, c2}

File(values) == [parses |-> TRUE, values |-> values]
NoValues == [key \in {} |-> ""]

\* The device section of data/open_camera.ini, whose ptz keys are in [onvif].
Shipped == File(
  (<<"onvif", "manufacturer">> :> "youfa") @@ (<<"onvif", "hardware_id">> :> "123")
  @@ (<<"onvif", "stream_name">> :> "RTSP") @@ (<<"onvif", "ptz">> :> TRUE))

Motorized == File((<<"ptz", "ptz_enable">> :> TRUE))
NoStop == File((<<"ptz", "ptz_enable">> :> TRUE) @@ (<<"ptz", "ptz_move_stop">> :> "")
               @@ (<<"ptz", "ptz_move_preset">> :> ""))
BadStream == File((<<"onvif", "width">> :> 0))

Device(op) == [service |-> "device", op |-> op]
Media(op) == [service |-> "media", op |-> op]
About(op, token) == [service |-> "media", op |-> op, token |-> token]
Options(op, configuration, profile) ==
  [service |-> "media", op |-> op, configuration |-> configuration, profile |-> profile]
PTZ(op) == [service |-> "ptz", op |-> op]
Move(op, vector) == [service |-> "ptz", op |-> op, vector |-> vector]

Moves ==
  {Move("ContinuousMove", <<1, -1>>), Move("RelativeMove", <<1, 1>>),
   PTZ("Stop"), PTZ("GotoPreset"), Device("SystemReboot")}

TheProfile == [name |-> "RTSP"]
\* From the profiles to their addresses, and from the configurations to their
\* options.
Addresses ==
  {Media("GetProfiles"), Device("GetServices"), [service |-> "imaging", op |-> "GetStatus"]}
  \cup {About(op, ProfileToken(TheProfile)) :
          op \in {"GetProfile", "GetStreamUri", "GetSnapshotUri",
                  "GetCompatibleVideoSourceConfigurations"}}

Configurations ==
  {Media("GetVideoSourceConfigurations"), Media("GetVideoEncoderConfigurations"),
   About("GetVideoSourceConfiguration", SourceToken(TheProfile)),
   About("GetVideoEncoderConfiguration", EncoderToken(TheProfile)),
   Options("GetVideoSourceConfigurationOptions", SourceToken(TheProfile), NULL),
   Options("GetVideoEncoderConfigurationOptions", EncoderToken(TheProfile), NULL)}

SixScenarios ==
  {[file |-> Motorized, failing |-> {"stop", "right"}, requests |-> Moves],
   [file |-> NoStop, failing |-> {},
    requests |-> {Move("RelativeMove", <<0, 1>>), Move("RelativeMove", NULL), PTZ("Stop"),
                  PTZ("GotoHomePosition")}],
   [file |-> Shipped, failing |-> {}, requests |-> Addresses],
   [file |-> Shipped, failing |-> {}, requests |-> Configurations],
   [file |-> BadStream, failing |-> {}, requests |-> {Media("GetProfiles"), Media("GetVideoSources")}],
   [file |-> [parses |-> FALSE, values |-> NoValues], failing |-> {}, requests |-> {}]}
=============================================================================
