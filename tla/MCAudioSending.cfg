CONSTANTS
  Codecs = {AAC, other}
  Encodable = {AAC}
  Sinks = {k1, k2}
  SenderAddrs = {a1, a2}
  NoSender = NoSender
  MaxCalls = 2
  MaxFrames = 1
SPECIFICATION Spec
INVARIANTS
  ListsInStep
  SinksFollow
PROPERTIES
  KeepsSounding
CHECK_DEADLOCK FALSE
