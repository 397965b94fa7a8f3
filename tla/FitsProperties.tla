--------------------------- MODULE FitsProperties ---------------------------
(***************************************************************************)
(* The properties of the FITS decoders (module Fits).                      *)
(***************************************************************************)
EXTENDS Fits

\* The frame of a header, and a row of its file, can be allocated.
Allocatable ==
    2 * (payload.w * payload.h) <= MaxAlloc /\ payload.w * payload.per <= MaxAlloc

\* However a payload is cut into pieces, and wherever it breaks off, FITSWriter
\* accepts exactly what DecodeFITS accepts of the same bytes, and decodes the same
\* frame (the comments on FITSWriter and size); it panics only at a header whose frame
\* or row could not be allocated, be it that their sizes wrap to smaller ones.
DecodesAlike ==
    /\ done => Decoded = DecodeFITS(payload, sent)
    /\ panicked => ~Allocatable

\* size applies "the same rules DecodeFITS does so the two agree on what they will
\* accept": what DecodeFITS rejects with an error, FITSWriter does too.
\* The code does not keep this (README, Disagreements).
RejectsAlike == panicked => DecodeFITS(payload, payload.len) # NoFrame

\* The file's row that is shown as row y of the frame.
Line(r) == IF payload.roworder = "BOTTOM-UP" THEN payload.h - 1 - r ELSE r
\* Each sample of the frame is read from its pixel's bytes in the file.
RowsInPlace ==
    \A r \in 0..(payload.h - 1), x \in 1..payload.w :
        Decoded.pix[r][x] =
            Bytes(payload.end * Block + (Line(r) * payload.w + x - 1) * payload.per, payload.per)
\* The phase points at the pixels that are red in the file.
RedIsRed ==
    Decoded.bayer # Mono =>
        \A r \in 0..(payload.h - 1), x \in 0..(payload.w - 1) :
            (x % 2 = Decoded.bayer[1] /\ r % 2 = Decoded.bayer[2]) <=>
                /\ (x - bayerPhase[payload.bayer][1] - payload.xoff) % 2 = 0
                /\ (Line(r) - bayerPhase[payload.bayer][2] - payload.yoff) % 2 = 0
\* A value that encodeFITS wrote is read back as it was, and the fast conversion
\* gives what the general one gives.
ValueKept ==
    LET value == convertSample(payload.per, payload.bzero, payload.raw) IN
    /\ value = General(payload.per, payload.bzero, payload.raw)
    /\ payload.camera \in ADU => value = payload.camera

\* A decoded frame is the image that the payload holds, behind the row flip, the
\* subframe's offset and the sample conversion (the comments on Frame, fitsMosaic,
\* convertFITSRow and encodeFITS).
FrameIsImage == done /\ Decoded.ok => RowsInPlace /\ RedIsRed /\ ValueKept
=============================================================================
