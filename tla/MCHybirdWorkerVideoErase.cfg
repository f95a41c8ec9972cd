CONSTANTS
  src1 = src1
  src2 = src2
  Sources = {src1, src2}
  Streams = {1, 2}
  StreamOf <- MCStreamOf
  Sinks = {k1}
  StreamAddrs = {s1, s2}
  SenderAddrs = {r1, r2}
  MaxTasks = 2
SPECIFICATION Spec
INVARIANT ErasedStreamStopped
