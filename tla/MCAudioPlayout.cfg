CONSTANTS
  Machines <- MCMachines
  Frames = 2
  Threads = {t1, t2}
  Top = 1
SPECIFICATION Spec
INVARIANTS
  PlayoutReady
  HandlesAccounted
  EveryDeviceChoosable
PROPERTIES
  MuteAnswered
  LoneThreadPlays
CHECK_DEADLOCK FALSE
