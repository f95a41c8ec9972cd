----------------------------- MODULE AudioMixer -----------------------------
(***************************************************************************)
(* AudioMixerManagerLinuxALSA                                              *)
(* (modules/audio_device/linux/audio_mixer_manager_alsa_linux.cc): the     *)
(* mixer of the speaker and the mixer of the microphone, each a handle of  *)
(* libasound and the element of it that carries the volume and the mute.   *)
(*                                                                         *)
(* Each operation maps a mixer to the set of [mixer, answer] it can end    *)
(* with; the answer is -1 for an error, 1 and 0 for TRUE and FALSE.  hw is *)
(* the mixer hardware, external: the names of its active elements, those   *)
(* of them that have a volume and a switch, and the calls that may fail.   *)
(***************************************************************************)
EXTENDS Integers

CONSTANT Top      \* the loudest volume; the softest is 0

ASSUME MixerAssumption == Top \in Nat \ {0}

SpeakerElements == {"PCM", "Master", "Speaker"}
MicrophoneElements == {"Capture", "Mic"}

\* limit bounds the mixers that libasound has open on it at the same time.
Hardware(names) ==
  [limit : Nat, elements : SUBSET names, volumes : SUBSET names, switches : SUBSET names,
   failures : SUBSET {"open", "attach", "register", "load", "set", "get"}]

\* handle and element are the manager's pointers, level and muted the state of
\* the element of the hardware that Load...Element finds.
Mixers ==
  [handle  : {"null", "open"},
   element : {"null", "PCM", "Master", "Speaker", "Capture", "Mic"},
   opened  : Nat,                   \* mixers libasound has open
   level   : 0..Top,
   muted   : BOOLEAN]

ClosedMixer == [handle |-> "null", element |-> "null", opened |-> 0,
                level |-> 0, muted |-> FALSE]

Answers == {-1} \cup 0..Top \cup {1}

CallEnds(hw, call) == IF call \in hw.failures THEN BOOLEAN ELSE {TRUE}

Refused(x) == {[mixer |-> x, answer |-> -1]}
Says(x, answer) == {[mixer |-> x, answer |-> answer]}
Truth(b) == IF b THEN 1 ELSE 0

-----------------------------------------------------------------------------
(* Opening and closing.                                                     *)

CloseSpeakerLocked(x) ==
  IF x.handle = "null" THEN x
  ELSE [x EXCEPT !.handle = "null", !.element = "null", !.opened = @ - 1]

CloseMicrophoneLocked(x) ==
  IF x.handle = "null" THEN x
  ELSE [x EXCEPT !.handle = "null", !.element = "null", !.opened = @ - 1]

\* The first active "PCM", else the last "Master", else the last "Speaker".
SpeakerElement(hw) ==
  IF "PCM" \in hw.elements THEN "PCM"
  ELSE IF "Master" \in hw.elements THEN "Master"
  ELSE IF "Speaker" \in hw.elements THEN "Speaker"
  ELSE "null"

\* The first active "Capture", else the last "Mic".
MicrophoneElement(hw) ==
  IF "Capture" \in hw.elements THEN "Capture"
  ELSE IF "Mic" \in hw.elements THEN "Mic"
  ELSE "null"

\* snd_mixer_open, attach, selem_register and load, in this order.  A mixer that
\* cannot be attached, registered or loaded is forgotten without being closed.
\* Without an element the answer is -1, and the handle stays.  named says
\* whether the device's name, from which the control's is made, was found.
OpensAs(hw, x, named, element) ==
  IF x.opened = hw.limit THEN Refused(x)
  ELSE UNION {IF ~opens THEN Refused(x)
              ELSE LET y == [x EXCEPT !.opened = @ + 1]
                   IN (IF named THEN Says([y EXCEPT !.handle = "open", !.element = element],
                                          IF element = "null" THEN -1 ELSE 0)
                       ELSE {})
                      \cup (IF named /\ hw.failures \cap {"attach", "register", "load"} = {}
                            THEN {} ELSE Refused(y))
              : opens \in CallEnds(hw, "open")}

\* Mutant: the element of the mixer before is kept.
ReopensKeeping(hw, x, named) ==
  {[end EXCEPT !.mixer.element = IF @ = "null" THEN x.element ELSE @]
     : end \in OpensAs(hw, CloseSpeakerLocked(x), named, SpeakerElement(hw))}

\* Mutant: a mixer that is open is not closed before another is opened.
OpensSecondSpeaker(hw, x, named) ==
  OpensAs(hw, [x EXCEPT !.handle = "null"], named, SpeakerElement(hw))

\* "Close any existing output mixer handle"
OpenSpeaker(hw, x, named) ==
  OpensAs(hw, CloseSpeakerLocked(x), named, SpeakerElement(hw))

OpenMicrophone(hw, x, named) ==
  OpensAs(hw, CloseMicrophoneLocked(x), named, MicrophoneElement(hw))

SpeakerIsInitialized(x) == x.handle # "null"
MicrophoneIsInitialized(x) == x.handle # "null"

-----------------------------------------------------------------------------
(* Volume and mute.  Each is refused where there is no element.  libasound  *)
(* refuses to set or get a volume that the element has not.                 *)

SetVolume(hw, x, level) ==
  IF x.element \notin hw.volumes THEN Refused(x)
  ELSE UNION {IF sets THEN Says([x EXCEPT !.level = level], 0) ELSE Refused(x)
                : sets \in CallEnds(hw, "set")}

Volume(hw, x) ==
  IF x.element \notin hw.volumes THEN Refused(x)
  ELSE UNION {IF gets THEN Says(x, x.level) ELSE Refused(x)
                : gets \in CallEnds(hw, "get")}

\* What get_..._volume_range returns is logged, not looked at: 0 to 0 without a volume.
Loudest(hw, x) == Says(x, IF x.element \in hw.volumes THEN Top ELSE 0)

\* Note value = 0 (off) means muted: the switch is set to !enable.
SetSwitch(hw, x, on) ==
  UNION {IF sets THEN Says([x EXCEPT !.muted = ~on], 0) ELSE Refused(x)
           : sets \in CallEnds(hw, "set")}

Switch(hw, x) ==
  UNION {IF gets THEN Says(x, Truth(~x.muted)) ELSE Refused(x)
           : gets \in CallEnds(hw, "get")}

Negated(ends) == {[end EXCEPT !.answer = IF @ = -1 THEN -1 ELSE 1 - @] : end \in ends}

SetSpeakerVolume(hw, x, level) ==
  IF x.element = "null" THEN Refused(x) ELSE SetVolume(hw, x, level)
SpeakerVolume(hw, x) == IF x.element = "null" THEN Refused(x) ELSE Volume(hw, x)
MaxSpeakerVolume(hw, x) == IF x.element = "null" THEN Refused(x) ELSE Loudest(hw, x)
MinSpeakerVolume(hw, x) == IF x.element = "null" THEN Refused(x) ELSE Says(x, 0)

SpeakerMuteIsAvailable(hw, x) ==
  IF x.element = "null" THEN Refused(x)
  ELSE Says(x, Truth(x.element \in hw.switches))

\* Mutant: the switch is set to what is asked for muting.
SwitchesOn(hw, x, enable) ==
  IF x.element = "null" \/ x.element \notin hw.switches THEN Refused(x)
  ELSE SetSwitch(hw, x, enable)

SetSpeakerMute(hw, x, enable) ==
  IF x.element = "null" \/ x.element \notin hw.switches THEN Refused(x)
  ELSE SetSwitch(hw, x, ~enable)
SpeakerMute(hw, x) ==
  IF x.element = "null" \/ x.element \notin hw.switches THEN Refused(x)
  ELSE Negated(Switch(hw, x))

MicrophoneMuteIsAvailable(hw, x) ==
  IF x.element = "null" THEN Refused(x)
  ELSE Says(x, Truth(x.element \in hw.switches))
SetMicrophoneMute(hw, x, enable) ==
  IF x.element = "null" \/ x.element \notin hw.switches THEN Refused(x)
  ELSE SetSwitch(hw, x, ~enable)
MicrophoneMute(hw, x) ==
  IF x.element = "null" \/ x.element \notin hw.switches THEN Refused(x)
  ELSE Negated(Switch(hw, x))

SetMicrophoneVolume(hw, x, level) ==
  IF x.element = "null" THEN Refused(x) ELSE SetVolume(hw, x, level)
MicrophoneVolume(hw, x) == IF x.element = "null" THEN Refused(x) ELSE Volume(hw, x)
\* "check if we have mic volume at all", which the speaker's does not.
MaxMicrophoneVolume(hw, x) ==
  IF x.element = "null" \/ x.element \notin hw.volumes THEN Refused(x)
  ELSE Loudest(hw, x)
MinMicrophoneVolume(hw, x) == IF x.element = "null" THEN Refused(x) ELSE Says(x, 0)
=============================================================================
