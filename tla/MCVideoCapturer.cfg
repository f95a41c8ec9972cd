CONSTANTS
  cam1 = cam1
  cam2 = cam2
  Sources = {cam1, cam2}
  Encoders = {e1}
  Processors = {plain, wired}
  Wired = {wired}
  None = None
  capturer = capturer
  Sinks <- MCSinks
  Machines <- MCMachines
  NumBuffers = 1
  MaxFrames = 1
  MaxCalls = 1
SPECIFICATION Spec
INVARIANTS
  BuffersConserved
  ConvertibleIfPossible
  SourceFollows
  CameraKnowsSink
PROPERTIES
  FramesKeepComing
  LeftSourceFallsSilent
