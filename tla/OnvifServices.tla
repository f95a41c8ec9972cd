---------------------------- MODULE OnvifServices ----------------------------
(***************************************************************************)
(* What the three ONVIF services answer: OnvifDeviceBindingService,        *)
(* OnvifMediaBindingService and OnvifPTZBindingService                     *)
(* (onvif/onvif_device_binding_service.cc, onvif_media_binding_service.cc, *)
(* onvif_ptz_binding_service.cc).  They keep no state: an answer is a      *)
(* function of the ServiceContext, and the PTZ service has commands run.   *)
(*                                                                         *)
(* A request is [service, op] with the arguments of its operation.  An     *)
(* answer is [fault, gives]: a SOAP fault or SOAP_OK, and what the client  *)
(* learns, as pairs of a kind and a value.                                 *)
(***************************************************************************)
EXTENDS Integers, SequencesExt

CONSTANT
  OwnTokens       \* the source and the encoder configuration of a profile have
                  \* tokens of their own (decided by ServiceContext)

ASSUME ServicesAssumption == OwnTokens \in BOOLEAN

Gives(items) == [fault |-> FALSE, gives |-> items]
Nothing == Gives({})
Fault == [fault |-> TRUE, gives |-> {}]

\* A token or a vector that is not given.
NULL == <<>>

-----------------------------------------------------------------------------
(* Device.                                                                  *)

\* Handlers that are SOAP_EMPTY_HANDLER: SOAP_OK with an empty answer.
EmptySystemHandlers ==
  {"SetSystemDateAndTime", "SetSystemFactoryDefault", "UpgradeSystemFirmware"}
EmptyBackupHandlers ==
  {"RestoreSystem", "GetSystemBackup", "GetSystemLog", "GetSystemSupportInformation"}
EmptyDiscoveryHandlers ==
  {"SetScopes", "AddScopes", "RemoveScopes", "GetDiscoveryMode", "SetDiscoveryMode",
   "GetRemoteDiscoveryMode", "SetRemoteDiscoveryMode", "GetDPAddresses",
   "GetEndpointReference", "GetRemoteUser", "SetRemoteUser"}
EmptyUserHandlers == {"CreateUsers", "DeleteUsers", "SetUser"}
EmptyNameHandlers ==
  {"SetDPAddresses", "GetHostname", "SetHostname", "SetHostnameFromDHCP", "GetDNS",
   "SetDNS", "GetNTP", "SetNTP", "GetDynamicDNS", "SetDynamicDNS"}
EmptyNetworkHandlers ==
  {"SetNetworkInterfaces", "GetNetworkProtocols", "SetNetworkProtocols",
   "GetNetworkDefaultGateway", "SetNetworkDefaultGateway", "GetZeroConfiguration",
   "SetZeroConfiguration", "GetIPAddressFilter", "SetIPAddressFilter",
   "AddIPAddressFilter", "RemoveIPAddressFilter", "GetAccessPolicy", "SetAccessPolicy",
   "CreateCertificate", "GetCertificates", "GetCertificatesStatus",
   "SetCertificatesStatus", "DeleteCertificates", "GetPkcs10Request",
   "LoadCertificates", "GetClientCertificateMode", "SetClientCertificateMode"}
EmptyStorageHandlers ==
  {"GetRelayOutputs", "SetRelayOutputSettings", "SetRelayOutputState",
   "SendAuxiliaryCommand", "GetCACertificates", "LoadCertificateWithPrivateKey",
   "GetCertificateInformation", "LoadCACertificates", "CreateDot1XConfiguration",
   "SetDot1XConfiguration", "GetDot1XConfiguration", "GetDot1XConfigurations",
   "DeleteDot1XConfiguration", "GetDot11Capabilities", "GetDot11Status",
   "ScanAvailableDot11Networks", "GetSystemUris", "StartFirmwareUpgrade",
   "StartSystemRestore", "GetStorageConfigurations", "CreateStorageConfiguration",
   "GetStorageConfiguration"}
EmptyLocationHandlers ==
  {"SetStorageConfiguration", "DeleteStorageConfiguration", "GetGeoLocation",
   "SetGeoLocation", "DeleteGeoLocation"}

DeviceOperations ==
  {"GetServices", "GetServiceCapabilities", "GetDeviceInformation",
   "GetSystemDateAndTime", "SystemReboot", "GetScopes", "GetUsers", "GetWsdlUrl",
   "GetCapabilities", "GetNetworkInterfaces"}
    \cup EmptySystemHandlers \cup EmptyBackupHandlers \cup EmptyDiscoveryHandlers
    \cup EmptyUserHandlers \cup EmptyNameHandlers \cup EmptyNetworkHandlers
    \cup EmptyStorageHandlers \cup EmptyLocationHandlers

Services(names) == Gives({<<"service", n>> : n \in names})

\* PTZ is told of when it is enabled, and answers also when it is not.
GetServices(ctx) == Services({"device", "media"} \cup IF ctx.ptz THEN {"ptz"} ELSE {})

\* No category at all asks for all of them.
GetCapabilities(ctx, categories) ==
  LET asked(n) == categories = {} \/ {"all", n} \cap categories # {}
  IN Services({n \in {"device", "media"} : asked(n)}
              \cup {n \in {"ptz"} : ctx.ptz /\ asked(n)})

GetServiceCapabilities == Gives({<<"capabilities", "device">>})
GetDeviceInformation(ctx) == Gives({<<"information", ctx.information>>})
GetSystemDateAndTime == Gives({<<"zone", "GMT0">>})
GetScopes(ctx) == Gives({<<"scope", s>> : s \in ToSet(ctx.scopes)})
GetUsers(ctx) == Gives({<<"user", u>> : u \in {ctx.user} \ {""}})
GetWsdlUrl == Gives({<<"url", "endpoint">>})
GetNetworkInterfaces(ctx) == Gives({<<"interface", e>> : e \in ToSet(ctx.eth_ifs)})

DeviceAnswer(ctx, r) ==
  CASE r.op = "GetServices"            -> GetServices(ctx)
    [] r.op = "GetServiceCapabilities" -> GetServiceCapabilities
    [] r.op = "GetDeviceInformation"   -> GetDeviceInformation(ctx)
    [] r.op = "GetSystemDateAndTime"   -> GetSystemDateAndTime
    [] r.op = "GetScopes"              -> GetScopes(ctx)
    [] r.op = "GetUsers"               -> GetUsers(ctx)
    [] r.op = "GetWsdlUrl"             -> GetWsdlUrl
    [] r.op = "GetCapabilities"        -> GetCapabilities(ctx, r.categories)
    [] r.op = "GetNetworkInterfaces"   -> GetNetworkInterfaces(ctx)
    [] OTHER                           -> Nothing

-----------------------------------------------------------------------------
(* Media.                                                                   *)

EmptyProfileHandlers == {"GetAudioSources", "GetAudioOutputs", "CreateProfile"}
EmptyAddHandlers ==
  {"AddVideoEncoderConfiguration", "AddVideoSourceConfiguration",
   "AddAudioEncoderConfiguration", "AddAudioSourceConfiguration",
   "AddPTZConfiguration", "AddVideoAnalyticsConfiguration",
   "AddMetadataConfiguration", "AddAudioOutputConfiguration",
   "AddAudioDecoderConfiguration", "RemoveVideoEncoderConfiguration",
   "RemoveVideoSourceConfiguration", "RemoveAudioEncoderConfiguration",
   "RemoveAudioSourceConfiguration", "RemovePTZConfiguration",
   "RemoveVideoAnalyticsConfiguration", "RemoveMetadataConfiguration",
   "RemoveAudioOutputConfiguration", "RemoveAudioDecoderConfiguration", "DeleteProfile"}
EmptyListHandlers ==
  {"GetAudioSourceConfigurations", "GetAudioEncoderConfigurations",
   "GetVideoAnalyticsConfigurations", "GetMetadataConfigurations",
   "GetAudioOutputConfigurations", "GetAudioDecoderConfigurations"}
EmptyGetHandlers ==
  {"GetAudioSourceConfiguration", "GetAudioEncoderConfiguration",
   "GetVideoAnalyticsConfiguration", "GetMetadataConfiguration",
   "GetAudioOutputConfiguration", "GetAudioDecoderConfiguration"}
EmptyCompatibleHandlers ==
  {"GetCompatibleAudioEncoderConfigurations", "GetCompatibleAudioSourceConfigurations",
   "GetCompatibleVideoAnalyticsConfigurations", "GetCompatibleMetadataConfigurations",
   "GetCompatibleAudioOutputConfigurations", "GetCompatibleAudioDecoderConfigurations",
   "SetVideoSourceConfiguration", "SetVideoEncoderConfiguration",
   "SetAudioSourceConfiguration", "SetAudioEncoderConfiguration",
   "SetVideoAnalyticsConfiguration", "SetMetadataConfiguration",
   "SetAudioOutputConfiguration", "SetAudioDecoderConfiguration"}
EmptyOptionsHandlers ==
  {"GetAudioSourceConfigurationOptions", "GetAudioEncoderConfigurationOptions",
   "GetMetadataConfigurationOptions", "GetAudioOutputConfigurationOptions",
   "GetAudioDecoderConfigurationOptions"}
EmptyStreamingHandlers ==
  {"StartMulticastStreaming", "StopMulticastStreaming", "SetSynchronizationPoint"}
EmptyDisplayHandlers ==
  {"GetVideoSourceModes", "SetVideoSourceMode", "GetOSDs", "GetOSD", "GetOSDOptions",
   "SetOSD", "CreateOSD", "DeleteOSD"}

MediaOperations ==
  {"GetServiceCapabilities", "GetVideoSources", "GetProfile", "GetProfiles",
   "GetVideoSourceConfigurations", "GetVideoEncoderConfigurations",
   "GetVideoSourceConfiguration", "GetVideoEncoderConfiguration",
   "GetCompatibleVideoEncoderConfigurations", "GetCompatibleVideoSourceConfigurations",
   "GetVideoSourceConfigurationOptions", "GetVideoEncoderConfigurationOptions",
   "GetGuaranteedNumberOfVideoEncoderInstances", "GetStreamUri", "GetSnapshotUri"}
    \cup EmptyProfileHandlers \cup EmptyAddHandlers \cup EmptyListHandlers
    \cup EmptyGetHandlers \cup EmptyCompatibleHandlers \cup EmptyOptionsHandlers
    \cup EmptyStreamingHandlers \cup EmptyDisplayHandlers

\* StreamProfile's tokens: the profile's serves for its configurations too, or
\* each has one of its own.
ProfileToken(p) == <<"profile", p.name>>
SourceToken(p) == <<IF OwnTokens THEN "source" ELSE "profile", p.name>>
EncoderToken(p) == <<IF OwnTokens THEN "encoder" ELSE "profile", p.name>>

ProfileItem(p) == <<"profile", ProfileToken(p)>>
SourceItem(p) == <<"source", SourceToken(p)>>
EncoderItem(p) == <<"encoder", EncoderToken(p)>>

Profiles(ctx) == ToSet(ctx.profiles)

GetProfiles(ctx) ==
  Gives(UNION {{ProfileItem(p), SourceItem(p), EncoderItem(p)} : p \in Profiles(ctx)})

WithToken(ctx, token) == {p \in Profiles(ctx) : ProfileToken(p) = token}

\* A token that no profile has is a fault.
Found(items) == IF items = {} THEN Fault ELSE Gives(items)

UriItem(p) == <<"uri", p.url>>
SnapshotItem(p) == <<"uri", p.snapurl>>

GetProfile(ctx, r) == Found({ProfileItem(p) : p \in WithToken(ctx, r.token)})

\* Mutant: the address is looked for under the name of the encoding.
UriOfType(ctx, r) ==
  Found({UriItem(p) : p \in {q \in Profiles(ctx) : <<"profile", q.type>> = r.token}})

GetStreamUri(ctx, r) == Found({UriItem(p) : p \in WithToken(ctx, r.token)})
GetSnapshotUri(ctx, r) == Found({SnapshotItem(p) : p \in WithToken(ctx, r.token)})

\* "Get the video source from the 1st profile"
GetVideoSources(ctx) ==
  IF ctx.profiles = <<>> THEN Nothing ELSE Gives({SourceItem(Head(ctx.profiles))})

GetVideoSourceConfigurations(ctx) == Gives({SourceItem(p) : p \in Profiles(ctx)})
GetVideoEncoderConfigurations(ctx) == Gives({EncoderItem(p) : p \in Profiles(ctx)})

\* A token that no profile has gives nothing, without a fault.
GetVideoSourceConfiguration(ctx, r) ==
  Gives({SourceItem(p) : p \in {q \in Profiles(ctx) : SourceToken(q) = r.token}})
GetVideoEncoderConfiguration(ctx, r) ==
  Gives({EncoderItem(p) : p \in {q \in Profiles(ctx) : EncoderToken(q) = r.token}})

GetCompatibleVideoEncoderConfigurations(ctx, r) ==
  Gives({EncoderItem(p) : p \in WithToken(ctx, r.token)})
GetCompatibleVideoSourceConfigurations(ctx, r) ==
  Gives({SourceItem(p) : p \in WithToken(ctx, r.token)})

\* Both options questions: the token the answer is looked for under is the
\* encoder token that was asked for, or else the source token that was asked for
\* as a profile's, or none, and it is compared with source tokens.  The source's
\* options are those of the first profile that matches.
AskedToken(ctx, r) ==
  IF r.configuration # NULL
  THEN {EncoderToken(p) : p \in Profiles(ctx)} \cap {r.configuration}
  ELSE {SourceToken(p) : p \in Profiles(ctx)} \cap {r.profile}

Matching(ctx, r) ==
  {i \in DOMAIN ctx.profiles :
     AskedToken(ctx, r) = {} \/ SourceToken(ctx.profiles[i]) \in AskedToken(ctx, r)}

OptionsItem(p) == <<"options", p.name>>

GetVideoSourceConfigurationOptions(ctx, r) ==
  LET first == {i \in Matching(ctx, r) : \A j \in Matching(ctx, r) : i <= j}
  IN Gives({OptionsItem(ctx.profiles[i]) : i \in first})

GetVideoEncoderConfigurationOptions(ctx, r) ==
  Gives({OptionsItem(ctx.profiles[i]) :
           i \in {j \in Matching(ctx, r) :
                     ctx.profiles[j].type \in {"JPEG", "MPEG4", "H264"}}})

\* Three for every profile, by its encoding.
GetGuaranteedNumberOfVideoEncoderInstances(ctx) ==
  Gives({<<"instances", 3 * Len(ctx.profiles)>>})

MediaAnswer(ctx, r) ==
  CASE r.op = "GetServiceCapabilities" -> Gives({<<"capabilities", "media">>})
    [] r.op = "GetVideoSources" -> GetVideoSources(ctx)
    [] r.op = "GetProfile" -> GetProfile(ctx, r)
    [] r.op = "GetProfiles" -> GetProfiles(ctx)
    [] r.op = "GetVideoSourceConfigurations" -> GetVideoSourceConfigurations(ctx)
    [] r.op = "GetVideoEncoderConfigurations" -> GetVideoEncoderConfigurations(ctx)
    [] r.op = "GetVideoSourceConfiguration" -> GetVideoSourceConfiguration(ctx, r)
    [] r.op = "GetVideoEncoderConfiguration" -> GetVideoEncoderConfiguration(ctx, r)
    [] r.op = "GetCompatibleVideoEncoderConfigurations" ->
         GetCompatibleVideoEncoderConfigurations(ctx, r)
    [] r.op = "GetCompatibleVideoSourceConfigurations" ->
         GetCompatibleVideoSourceConfigurations(ctx, r)
    [] r.op = "GetVideoSourceConfigurationOptions" ->
         GetVideoSourceConfigurationOptions(ctx, r)
    [] r.op = "GetVideoEncoderConfigurationOptions" ->
         GetVideoEncoderConfigurationOptions(ctx, r)
    [] r.op = "GetGuaranteedNumberOfVideoEncoderInstances" ->
         GetGuaranteedNumberOfVideoEncoderInstances(ctx)
    [] r.op = "GetStreamUri" -> GetStreamUri(ctx, r)
    [] r.op = "GetSnapshotUri" -> GetSnapshotUri(ctx, r)
    [] OTHER -> Nothing

-----------------------------------------------------------------------------
(* PTZ.                                                                     *)

EmptyPresetHandlers == {"SetPreset", "RemovePreset"}
EmptyTourHandlers ==
  {"GetPresetTours", "GetPresetTour", "GetPresetTourOptions", "CreatePresetTour",
   "ModifyPresetTour", "OperatePresetTour", "RemovePresetTour",
   "GetCompatibleConfigurations", "GeoMove", "MoveAndStartTracking"}
EmptyMoveHandlers == {"SendAuxiliaryCommand", "AbsoluteMove"}

PTZOperations ==
  {"GetServiceCapabilities", "GetConfigurations", "GetPresets", "GotoPreset",
   "GetStatus", "GetConfiguration", "GetNodes", "GetNode", "SetConfiguration",
   "GetConfigurationOptions", "GotoHomePosition", "SetHomePosition",
   "ContinuousMove", "RelativeMove", "Stop"}
    \cup EmptyPresetHandlers \cup EmptyTourHandlers \cup EmptyMoveHandlers

MaximumNumberOfPresets == 8
GetPresets == Gives({<<"preset", n>> : n \in 0..7})
GetPTZNode == Gives({<<"presets", MaximumNumberOfPresets>>, <<"home", "supported">>})

\* The configuration and its options are ServiceContext's.
GetConfigurations == Gives({<<"configuration", "ptz">>})
GetConfigurationOptions == Gives({<<"options", "ptz">>})

PTZAnswer(ctx, r) ==
  CASE r.op \in {"GetConfigurations", "GetConfiguration"} -> GetConfigurations
    [] r.op = "GetPresets" -> GetPresets
    [] r.op \in {"GetNodes", "GetNode"} -> GetPTZNode
    [] r.op = "GetConfigurationOptions" -> GetConfigurationOptions
    [] OTHER -> Nothing

\* The commands a request has run, one after the other, by way of system(); a
\* vector that is NULL moves nothing.
Axis(v, positive, negative) ==
  IF v > 0 THEN <<positive>> ELSE IF v < 0 THEN <<negative>> ELSE <<>>

ContinuousMove(vector) ==
  IF vector = NULL THEN <<>>
  ELSE Axis(vector[1], "right", "left") \o Axis(vector[2], "up", "down")

\* Each move is given 300 ms and stopped, while the thread sleeps.
Nudge(move) == IF move = <<>> THEN <<>> ELSE move \o <<"stop">>

\* Mutant: the second move is left running.
NudgesOnce(vector) ==
  IF vector = NULL THEN <<>>
  ELSE Nudge(Axis(vector[1], "right", "left")) \o Axis(vector[2], "up", "down")

RelativeMove(vector) ==
  IF vector = NULL THEN <<>>
  ELSE Nudge(Axis(vector[1], "right", "left")) \o Nudge(Axis(vector[2], "up", "down"))

\* The preset command with the token asked for; home is preset 1.
GotoPreset(ctx) == IF "preset" \in ctx.commands THEN <<"preset">> ELSE <<>>
GotoHomePosition(ctx) == IF "preset" \in ctx.commands THEN <<"preset">> ELSE <<>>

Stop == <<"stop">>

PTZCommands(ctx, r) ==
  CASE r.op = "GotoPreset"       -> GotoPreset(ctx)
    [] r.op = "GotoHomePosition" -> GotoHomePosition(ctx)
    [] r.op = "ContinuousMove"   -> ContinuousMove(r.vector)
    [] r.op = "RelativeMove"     -> RelativeMove(r.vector)
    [] r.op = "Stop"             -> Stop
    [] OTHER                     -> <<>>
=============================================================================
