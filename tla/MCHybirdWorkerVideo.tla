------------------------ MODULE MCHybirdWorkerVideo ------------------------
(* Two sources, each with its own stream id, for model checking.            *)
EXTENDS HybirdWorkerVideo

CONSTANTS src1, src2

MCStreamOf == [s \in Sources |-> IF s = src1 THEN 1 ELSE 2]

=============================================================================
