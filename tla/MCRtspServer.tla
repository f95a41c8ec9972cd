---------------------------- MODULE MCRtspServer ----------------------------
(* The formats an audio sink is requested with in the checks.               *)
EXTENDS RtspServerOwner

MCFormats == {[rate |-> 44100, channels |-> 2]}
=============================================================================
