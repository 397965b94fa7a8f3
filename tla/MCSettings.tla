----------------------------- MODULE MCSettings -----------------------------
(***************************************************************************)
(* Commands for the run of the settings.                                   *)
(***************************************************************************)
EXTENDS SettingsProperties, TLC

\* Small ranges; a camera without a range of its own gives Offset equal limits, and so
\* none.
MCLimits ==
    [CCD_FRAME |-> [X |-> <<0, 2>>, WIDTH |-> <<1, 2>>], CCD_BINNING |-> [HOR_BIN |-> <<1, 4>>],
     CCD_CONTROLS |-> [Gain |-> <<0, 1>>, Offset |-> <<0, 0>>]]

\* int(NaN) is the least integer on amd64 and 0 on arm64.
MCNaNInts == {-9, 0}

Number(to, vals) == [to |-> to, elem |-> "Number", vals |-> vals]
Flip(vals) == [to |-> "CONNECTION", elem |-> "Switch", vals |-> vals]

MCCommands ==
    {Number("CCD_FRAME", vals) : vals \in {[X |-> 2], [WIDTH |-> 2], [X |-> 1, WIDTH |-> 3],
                                           [X |-> 3], [WIDTH |-> Junk], [X |-> NaN], [Z |-> 7]}}
      \cup {Number("CCD_CONTROLS", vals) : vals \in {[Gain |-> 1, Offset |-> 5], [Gain |-> NaN]}}
      \cup {Number("CCD_BINNING", vals) : vals \in {[HOR_BIN |-> 4], [HOR_BIN |-> NaN]}}
      \cup {Number("CCD_INFO", [X |-> 1]), Number("nowhere", [X |-> 1]), Number("CONNECTION", [X |-> 1]),
            Flip([CONNECT |-> TRUE]), Flip([DISCONNECT |-> TRUE]), Flip([CONNECT |-> FALSE]),
            Flip([CONNECT |-> TRUE, DISCONNECT |-> TRUE])}

\* The clients are alike, and every property is a state's.
MCSymmetry == Permutations(Client)

=============================================================================
