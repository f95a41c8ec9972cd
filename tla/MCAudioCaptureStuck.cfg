CONSTANTS
  Machines <- StartFails
  Frames = 2
  Threads = {t1, t2}
SPECIFICATION Spec
INVARIANTS
  StopRecordingExcludes
CHECK_DEADLOCK FALSE
