-------------------------- MODULE RtspServerOwner --------------------------
(***************************************************************************)
(* RtspServer with an owner that starts and stops it and requests sinks in *)
(* any order, and takes the notices posted to it.                          *)
(***************************************************************************)
EXTENDS RtspServer

CONSTANTS
  MaxRequests,    \* bound: sinks the owner requests
  MaxSwitches     \* bound: Start and Stop calls

ASSUME OwnerAssumption == MaxRequests \in Nat /\ MaxSwitches \in Nat

VARIABLES
  requests,       \* sinks requested, per kind of pull they start
  switches        \* Start and Stop calls made

ownerVars == <<vars, requests, switches>>

Quiet == <<rtsp_delayed, started, channel, audio_format, video_queue,
           audio_queue, connected, left, notify>>

Switch ==
  /\ switches < MaxSwitches
  /\ switches' = switches + 1
  /\ \E what \in {"Start", "Stop"} : PostRtsp(Plain(what))
  /\ UNCHANGED <<Quiet, requests>>

RequestAudioSink ==
  /\ requests["PullAudio"] < MaxRequests
  /\ requests' = [requests EXCEPT !["PullAudio"] = @ + 1]
  /\ \E id \in StreamIds, codec \in AudioCodecs, format \in AudioFormats :
       PostRtsp(RequestAudioSinkMsg(id, codec, format))
  /\ UNCHANGED <<Quiet, switches>>

RequestVideoSink ==
  /\ requests["PullVideo"] < MaxRequests
  /\ requests' = [requests EXCEPT !["PullVideo"] = @ + 1]
  /\ \E id \in StreamIds, codec \in VideoCodecs :
       PostRtsp(RequestVideoSinkMsg(id, codec))
  /\ UNCHANGED <<Quiet, switches>>

TakeNotice ==
  /\ notify # <<>>
  /\ notify' = Tail(notify)
  /\ UNCHANGED <<rtsp_looper, rtsp_delayed, started, channel, audio_format,
                 video_queue, audio_queue, connected, left, requests, switches>>

OwnerInit ==
  /\ Init
  /\ requests = [p \in Pulls |-> 0]
  /\ switches = 0

Server ==
  /\ \/ Loop
     \/ ClientConnects
     \/ ClientDisconnects
     \/ VideoOnFrame
     \/ AudioOnFrame
     \/ Timers
  /\ UNCHANGED <<requests, switches>>

OwnerNext ==
  \/ Switch
  \/ RequestAudioSink
  \/ RequestVideoSink
  \/ TakeNotice
  \/ Server

\* The looper's thread keeps running and a delay always ends.
Fairness ==
  /\ WF_ownerVars(Loop /\ UNCHANGED <<requests, switches>>)
  /\ \A p \in Pulls : WF_ownerVars(PullDue(p) /\ UNCHANGED <<requests, switches>>)

OwnerSpec == OwnerInit /\ [][OwnerNext]_ownerVars /\ Fairness

-----------------------------------------------------------------------------
\* The number of pull chains never exceeds the number of sinks requested:
\* stopping and starting the server, in whatever order with the pulls in
\* flight, never makes the server take from a queue at a multiple of its rate.
NoExtraPulls == \A p \in Pulls : Outstanding(p) <= requests[p]

\* A server that stays stopped goes quiet: every chain of pulls ends.
StoppedPullsEnd ==
  (<>[](~started)) => \A p \in Pulls : <>[](Outstanding(p) = 0)

\* A pull chain breaks only at a pull that runs while the server is stopped:
\* in a running server no step makes the number of pulls smaller.
RunningKeepsPulls ==
  [][started => \A p \in Pulls : Outstanding(p)' >= Outstanding(p)]_ownerVars
=============================================================================
