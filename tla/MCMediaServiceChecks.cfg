CONSTANTS
  StreamIds = {1, 2}
  AudioCodecs = {"AAC"}
  AudioSinks = {s1, s2}
  MaxCalls = 4
SPECIFICATION OwnerSpec
INVARIANT
  OwnerPassesChecks
CHECK_DEADLOCK FALSE
