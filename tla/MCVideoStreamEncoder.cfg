CONSTANTS
  Infos = {small, large}
  NoInfo = NoInfo
  Configs <- MCConfigs
  FaultSets <- MCFaultSets
  MaxTasks = 4
SPECIFICATION Spec
INVARIANTS
  EncodesOnlyInitialized
  MismatchIsPending
  OnlyEarlyFramesFail
PROPERTIES
  KeyFrameNext
  EncodingStarts
CHECK_DEADLOCK FALSE
