------------------------------- MODULE MCFits -------------------------------
(***************************************************************************)
(* Constants for the run of the FITS decoders.                             *)
(***************************************************************************)
EXTENDS FitsProperties

\* A payload that no camera of this repository wrote, with len bytes.
Foreign(simple, end, naxis, w, h, per, order, bayer, off, bzero, raw, len) ==
    [simple |-> simple, end |-> end, naxis |-> naxis, w |-> w, h |-> h, per |-> per,
     roworder |-> order, bayer |-> bayer, xoff |-> off, yoff |-> off,
     bzero |-> bzero, len |-> len, raw |-> raw, camera |-> -1]

\* Images of every geometry, one with two planes, with padding behind them.
Images ==
    {Foreign(TRUE, end, naxis, w, h, per, order, bayer, off, 4, 6,
            end * 3 + w * h * per * (naxis - 1) + 1) :
        end \in {1, 2}, naxis \in {2, 3}, w \in {1, 2}, h \in {2, 3}, per \in {1, 2},
        order \in {"BOTTOM-UP", "none"}, bayer \in {"GRBG", "none"}, off \in {0, -1}}

\* Headers that no decoder accepts: no SIMPLE, no END, a bad size or sample.
Unusable ==
    {Foreign(FALSE, 1, 2, 1, 1, 1, "none", "none", 0, 0, 0, 5),
     Foreign(TRUE, 0, 2, 1, 1, 1, "none", "none", 0, 0, 0, 8)} \cup
    {Foreign(TRUE, 1, naxis, w, h, per, "none", "none", 0, 0, 0, 5) :
        naxis \in {1, 2}, w \in {0, 1}, h \in {0, 1}, per \in {0, 1}}

\* What the camera adapter sends, of all 16-bit values (at a width of 3 bits).
Camera == {encodeFITS(w, h, bits, v) : w \in {1, 2}, h \in {1}, bits \in {8, 16}, v \in 0..7}

\* Headers of a few bytes' data whose sizes, multiplied, are more than an int holds: they
\* wrap to nothing, to a few pixels, to too many or to less than none, or leave a row empty.
Huge ==
    {Foreign(TRUE, 1, 2, s[1], s[2], s[3], order, "none", 0, 0, 0, 14) :
        s \in {<<16, 16, 1>>, <<3, 87, 1>>, <<3, 127, 1>>, <<12, 11, 1>>, <<32, 1, 8>>,
               <<127, 127, 8>>},
        order \in {"BOTTOM-UP", "none"}}

MCPayloads == Images \cup Unusable \cup Camera \cup Huge
=============================================================================
