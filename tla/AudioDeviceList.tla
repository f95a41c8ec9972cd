--------------------------- MODULE AudioDeviceList ---------------------------
(***************************************************************************)
(* GetDevicesInfo of AudioDeviceLinuxALSA: how the PCM devices that ALSA   *)
(* hints at, card by card, get the indices that SetPlayoutDevice and       *)
(* SetRecordingDevice take.  Index 0 is "default".                         *)
(*                                                                         *)
(* A card is [hinted, hints]: hinted is FALSE when snd_device_name_hint    *)
(* fails for it, hints is its list.  A hint's io is its IOID, "both" where *)
(* ALSA gives none; its name is one of those the code tells apart, "none"  *)
(* where ALSA gives none, "plain" for every other.                         *)
(***************************************************************************)
EXTENDS Integers, Sequences, FiniteSets

Hints == [io : {"Output", "Input", "both"},
          name : {"none", "default", "null", "pulse", "dmix:", "dsnoop:", "plain"}]

\* "dmix and dsnoop are only for playback and capture, respectively, but ALSA
\* stupidly includes them in both lists."
Ignored(playback) ==
  {"none", "default", "null", "pulse", IF playback THEN "dsnoop:" ELSE "dmix:"}

Wanted(hint, playback) ==
  /\ hint.io \in {"both", IF playback THEN "Output" ELSE "Input"}
  /\ hint.name \notin Ignored(playback)

\* The hints of one card that are shown.
Shown(card, playback) == {h \in 1..Len(card.hints) : Wanted(card.hints[h], playback)}

\* And those of the cards before card c.
ShownBefore(cards, playback, c) ==
  UNION {{d} \X Shown(cards[d], playback) : d \in 1..c - 1}

\* Mutant: no index is kept for "default".
FirstIndexNoDefault(cards, playback, c) ==
  c - 1 + Cardinality(ShownBefore(cards, playback, c))

\* enumCount when the loop over the hints of card c begins: it is stepped once for
\* every card ("default is 0") and once for every device shown.
FirstIndex(cards, playback, c) == c + Cardinality(ShownBefore(cards, playback, c))

\* Function 0, FUNC_GET_NUM_OF_DEVICE: -1 when a card cannot be asked.
DeviceCount(cards, playback) ==
  LET last  == Len(cards)
      count == IF last = 0 THEN 0
               ELSE FirstIndex(cards, playback, last) + Cardinality(Shown(cards[last], playback))
  IN IF \E c \in 1..last : ~cards[c].hinted THEN -1
     ELSE IF count = 1 THEN 0
     ELSE count

\* Functions 1 and 2: the device of an index, as {<<card, place>>}, the place among
\* those shown of the card, with <<0, 0>> for "default"; {} where the code returns -1
\* and leaves the name empty.
DeviceAt(cards, playback, index) ==
  IF index = 0
  THEN {<<0, 0>> : c \in {d \in 1..Len(cards) : d = 1 /\ cards[d].hinted}}
  ELSE {at \in {<<c, index - FirstIndex(cards, playback, c) + 1>> : c \in 1..Len(cards)} :
          /\ at[2] \in 1..Cardinality(Shown(cards[at[1]], playback))
          /\ \A d \in 1..at[1] : cards[d].hinted}

UInt16Values == 65536

\* PlayoutDeviceName, RecordingDeviceName: nDevices is a uint16_t, so that a
\* count of -1 is 65535 devices and the index is looked for all the same.
NamedDevice(cards, playback, index) ==
  IF index > (DeviceCount(cards, playback) % UInt16Values) - 1 THEN {}
  ELSE DeviceAt(cards, playback, index)

\* SetPlayoutDevice, SetRecordingDevice: "device index is out of range".
InRange(cards, playback, index) == index <= DeviceCount(cards, playback) - 1
=============================================================================
