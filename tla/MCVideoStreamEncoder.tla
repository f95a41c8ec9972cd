----------------------- MODULE MCVideoStreamEncoder -----------------------
(***************************************************************************)
(* VideoStreamEncoder on frames of two kinds, for clients that ask for     *)
(* H.264, for a codec OpenH264Encoder refuses and for one that is unknown, *)
(* with no fault and with every fault.                                     *)
(***************************************************************************)
EXTENDS VideoStreamEncoder

MCConfigs == [codec : Codecs, min_bitrate : {1}]
MCFaultSets == {{}, Faults}
=============================================================================
