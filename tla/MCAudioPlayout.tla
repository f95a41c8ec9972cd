--------------------------- MODULE MCAudioPlayout ---------------------------
(***************************************************************************)
(* AudioPlayout on three machines: one that plays in mono and in stereo,   *)
(* where the PCM calls may fail and there is no mixer; one with two cards  *)
(* that plays nothing, whose mixers may fail at every call; and one whose  *)
(* mixers are sound and whose second card cannot be asked.                 *)
(***************************************************************************)
EXTENDS AudioPlayout

Hint(io, name) == [io |-> io, name |-> name]
Card(hints) == [hinted |-> TRUE, hints |-> hints]

Bare == [limit |-> 0, elements |-> {}, volumes |-> {}, switches |-> {}, failures |-> {}]

Analog == Card(<<Hint("both", "default"), Hint("Output", "plain"), Hint("both", "plain"),
                 Hint("both", "dmix:"), Hint("Input", "plain"), Hint("both", "dsnoop:")>>)
Digital == Card(<<Hint("Output", "plain"), Hint("both", "none")>>)
Broken == [hinted |-> FALSE, hints |-> <<>>]

MCMachines ==
  {[modes |-> {1, 2}, failures |-> {"open", "params", "write"}, cards |-> <<Digital>>,
    speaker |-> Bare, microphone |-> Bare],
   [modes |-> {}, failures |-> {}, cards |-> <<Analog, Digital>>,
    speaker |-> [limit |-> 2, elements |-> {"Master"}, volumes |-> {"Master"},
                 switches |-> {"Master"}, failures |-> {"open", "attach", "set", "get"}],
    microphone |-> [limit |-> 2, elements |-> {"Mic"}, volumes |-> {}, switches |-> {"Mic"},
                    failures |-> {"open", "load", "set", "get"}]],
   [modes |-> {}, failures |-> {}, cards |-> <<Analog, Broken>>,
    speaker |-> [limit |-> 2, elements |-> {"PCM", "Master"}, volumes |-> {"PCM"},
                 switches |-> {}, failures |-> {}],
    microphone |-> [limit |-> 2, elements |-> {"Capture", "Mic"}, volumes |-> {"Capture"},
                    switches |-> {"Mic"}, failures |-> {}]]}
=============================================================================
