CONSTANTS
  MaxClients = 2
  MaxQueue = 2
SPECIFICATION Spec
INVARIANTS
  ChecksHold
  KeyFramesConserved
  ChainsConserved
PROPERTIES
  StreamingSpec
  StreamingProgress
  QueuesDrained
