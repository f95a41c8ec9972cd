CONSTANTS
  StreamIds = {1}
  AudioCodecs = {"AAC", "PCM_ALAW"}
  VideoCodecs = {"H264"}
  AudioFormats <- MCFormats
  MaxClients = 1
  MaxQueue = 1
  MaxRequests = 1
  MaxSwitches = 3
SPECIFICATION OwnerSpec
INVARIANTS
  NoExtraPulls
PROPERTIES
  StoppedPullsEnd
  RunningKeepsPulls
CHECK_DEADLOCK FALSE
