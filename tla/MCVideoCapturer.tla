-------------------------- MODULE MCVideoCapturer --------------------------
(***************************************************************************)
(* VideoCapturer with two cameras: one without faults, and beside it one   *)
(* that may lose buffers, or one whose pictures cannot be converted and    *)
(* where everything else fails.                                            *)
(***************************************************************************)
EXTENDS VideoCapturer

CONSTANTS cam1, cam2

MCSinks == {capturer}
Sound == [formats |-> {"YUYV", "Y16"}, faults |-> {}]
Losing == [formats |-> {"YUYV"}, faults |-> {"QBUF"}]
Failing == [formats |-> {"RGB3", "MJPG"}, faults |-> Faults \ {"QBUF"}]
MCMachines == {cam1 :> Sound @@ cam2 :> m : m \in {Losing, Failing}}
=============================================================================
