------------------------------ MODULE AppConfig ------------------------------
(***************************************************************************)
(* The configuration of the program: AppConfig (app/app_config.h), read    *)
(* from an ini file, and the context that convertConfig                    *)
(* (onvif/onvif_server.cc) makes of it for the ONVIF services.             *)
(*                                                                         *)
(* A file is [parses, values]: whether INIReader could read it, and the    *)
(* value of each <<section, key>> it has.                                  *)
(***************************************************************************)
EXTENDS Naturals, Sequences

\* INIReader::Get, GetInteger and GetBoolean, for values of the right type.
Get(file, section, key, default) ==
  IF <<section, key>> \in DOMAIN file.values THEN file.values[<<section, key>>]
  ELSE default

\* hardware_id is read into manufacturer, and no key is read into hardware_id.
Information(file) ==
  [manufacturer     |-> Get(file, "onvif", "hardware_id", "_hardware_id"),
   model            |-> Get(file, "onvif", "model", "_model"),
   firmware_version |-> Get(file, "onvif", "firmware_version", "_firmware_version"),
   serial_number    |-> Get(file, "onvif", "serial_number", "_serial_number"),
   hardware_id      |-> ""]

Stream(file) ==
  [name    |-> Get(file, "onvif", "stream_name", "RTSP"),
   width   |-> Get(file, "onvif", "width", 1920),
   height  |-> Get(file, "onvif", "height", 1080),
   url     |-> Get(file, "onvif", "stream_url", "rtsp://127.0.0.1:8554/live"),
   snapurl |-> Get(file, "onvif", "snapurl", "https://google.com"),
   type    |-> Get(file, "onvif", "stream_type", "H264")]

\* The shell commands that drive the head: those that are not empty.
HeadCommands == {"left", "right", "up", "down", "stop", "preset"}

Configured(file) ==
  LET key == [left |-> "ptz_move_left", right |-> "ptz_move_right",
              up |-> "ptz_move_up", down |-> "ptz_move_down",
              stop |-> "ptz_move_stop", preset |-> "ptz_move_preset"]
  IN {c \in HeadCommands : Get(file, "ptz", key[c], c) # ""}

\* An AppConfig as it is made: its strings are empty, and ptz_enable is whatever the
\* memory held.  (So is the stream's size, but no empty type is accepted.)
Unread(enable) ==
  [user |-> "", scopes |-> <<>>, eth_ifs |-> "", ptz_enable |-> enable, commands |-> {},
   information |-> [manufacturer |-> "", model |-> "", firmware_version |-> "",
                    serial_number |-> "", hardware_id |-> ""],
   stream |-> [name |-> "", width |-> 0, height |-> 0, url |-> "", snapurl |-> "",
               type |-> ""]]

\* The configurations that reading a file can end with; error says that the file
\* could not be read, and is file.parses here.
CreateAppConfigFromFile(file) ==
  IF ~file.parses THEN {Unread(enable) : enable \in BOOLEAN}
  ELSE {[user        |-> Get(file, "onvif", "onvif_user", "admin"),
         information |-> Information(file),
         scopes      |-> <<"name/OpenCamera", "Profile/S">>,
         eth_ifs     |-> Get(file, "onvif", "eth_ifs", "eth0"),
         stream      |-> Stream(file),
         ptz_enable  |-> Get(file, "ptz", "ptz_enable", FALSE),
         commands    |-> Configured(file)]}

\* A ServiceContext as it is made.
NewServiceContext ==
  [user |-> "", information |-> <<>>, scopes |-> <<>>, eth_ifs |-> <<>>,
   profiles |-> <<>>, ptz |-> FALSE, commands |-> {}]

\* ServiceContext::add_profile takes a profile of a known encoding and of a size.
Encodings == {"JPEG", "MPEG4", "H264"}
Accepted(stream) == stream.type \in Encodings /\ stream.width > 0 /\ stream.height > 0

\* What convertConfig has made of a configuration when it returns: without the
\* network interface it returns early, with an error.  What a setter refuses, a
\* profile too, is left out, and no error is returned: noerr is TRUE before the first
\* one is asked.
convertConfig(config, opened) ==
  [user        |-> config.user,
   information |-> config.information,
   scopes      |-> config.scopes,
   eth_ifs     |-> <<config.eth_ifs>>,
   profiles    |-> IF opened /\ Accepted(config.stream) THEN <<config.stream>> ELSE <<>>,
   ptz         |-> opened /\ config.ptz_enable,
   commands    |-> IF opened THEN config.commands ELSE {}]
=============================================================================
