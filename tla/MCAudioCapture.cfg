CONSTANTS
  Machines <- MCMachines
  Frames = 2
  Threads = {t1, t2}
SPECIFICATION Spec
INVARIANTS
  RecordingReady
  HandlesAccounted
PROPERTIES
  CaptureEnds
  StereoProbeRestores
CHECK_DEADLOCK FALSE
