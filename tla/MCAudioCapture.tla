-------------------------- MODULE MCAudioCapture --------------------------
(***************************************************************************)
(* AudioCapture on two machines: one that has mono and stereo and where    *)
(* every ALSA call may fail, and a mono one where none does.               *)
(***************************************************************************)
EXTENDS AudioCapture

MCMachines ==
  {[modes |-> {1, 2}, failures |-> {"open", "params", "start", "drop", "close"}],
   [modes |-> {1}, failures |-> {}]}

\* Machines for the questions about one call.
StartFails == {[modes |-> {1, 2}, failures |-> {"start"}]}
Sound == {[modes |-> {1, 2}, failures |-> {}]}
=============================================================================
