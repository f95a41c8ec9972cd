------------------------- MODULE MediaServiceOwner -------------------------
(***************************************************************************)
(* MediaService with an owner that uses every public operation and keeps   *)
(* to the contract of the audio sinks: it adds a sink it has not added and *)
(* removes a sink it has.  The worker's queue is kept whole, as the record *)
(* of what the worker is asked.                                            *)
(***************************************************************************)
EXTENDS MediaService

CONSTANT MaxCalls       \* bound, a natural number: calls the owner makes

VARIABLES
  added,                \* audio sinks the owner has added and not removed
  calls                 \* calls the owner has made

ownerVars == <<vars, added, calls>>

Call ==
  /\ ~check_failed
  /\ calls < MaxCalls
  /\ calls' = calls + 1

CallVideo ==
  /\ Call
  /\ \/ \E id \in StreamIds : AddVideoSource(id) \/ AddVideoSink(id)
     \/ RequesteKeyFrame
  /\ UNCHANGED added

CallAddAudio ==
  /\ Call
  /\ \E sink \in AudioSinks \ added, id \in StreamIds, codec \in AudioCodecs :
       /\ added' = added \cup {sink}
       /\ AddEncodedAudioSink(sink, id, codec)

CallRemoveAudio ==
  /\ Call
  /\ \E sink \in added, codec \in AudioCodecs :
       /\ added' = added \ {sink}
       /\ RemoveEncodedAudioSink(sink, codec)

OwnerInit == Init /\ added = {} /\ calls = 0

OwnerNext ==
  \/ CallVideo
  \/ CallAddAudio
  \/ CallRemoveAudio
  \/ Loop /\ UNCHANGED <<added, calls>>

OwnerSpec == OwnerInit /\ [][OwnerNext]_ownerVars

-----------------------------------------------------------------------------
\* The AVE_CHECKs hold for an owner that keeps to the contract: every message
\* carries the object its handler insists on.
OwnerPassesChecks == ~check_failed
=============================================================================
