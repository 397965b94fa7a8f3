-------------------------------- MODULE Fits --------------------------------
(***************************************************************************)
(* The FITS decoders of the client, client/fits.go and fitsstream.go, and  *)
(* the encoder of the camera adapter (encodeFITS in ccd/ccd.go).           *)
(*                                                                         *)
(* A payload is a header, of which only what the decoders read is kept,    *)
(* and bytes, which stand for themselves by their position: a sample is    *)
(* the sequence of the positions it was read from.  DecodeFITS decodes a   *)
(* payload at once, as an operator; FITSWriter is the state machine that   *)
(* is written the payload in pieces cut anywhere and must end up with the  *)
(* same frame.  Samples' values are those of the 16-bit conversion at a    *)
(* width of 2*Half.  A header's sizes are any that an int holds, and the    *)
(* products that FITSWriter makes of them wrap as an int does.             *)
(***************************************************************************)
EXTENDS Integers, Sequences

CONSTANTS
    Block,     \* fitsBlock, the unit headers and data are padded to
    Half,      \* fitsUnsignedBZERO, half the number of 16-bit values
    Payloads,  \* the payloads that may be decoded
    IntMax,    \* the largest int
    MaxAlloc,  \* bytes that make can allocate; with more, or less than 0, it panics
    MaxLength  \* bound: bytes of a payload

\* What an int keeps of a number.
Wrap(x) == ((x + IntMax + 1) % (2 * (IntMax + 1))) - (IntMax + 1)
Machine == -(IntMax + 1)..IntMax

(***************************************************************************)
(* Samples                                                                 *)
(***************************************************************************)
ADU == 0..(2 * Half - 1)

\* A raw 16-bit sample as int16, and an int16 as the raw sample that is stored.
Signed(u)   == IF u < Half THEN u ELSE u - 2 * Half
Unsigned(v) == v % (2 * Half)

clampADU(v) == IF v <= 0 THEN 0 ELSE IF v >= 2 * Half - 1 THEN 2 * Half - 1 ELSE v

\* u ^ 0x8000.
FlipTopBit(u) == IF u < Half THEN u + Half ELSE u - Half

\* The conversion of a sample: of one byte as it is, of two as a signed number, in the
\* general way and, for the offset cfitsio writes, by flipping its top bit.
General(per, bzero, u) == clampADU((IF per = 1 THEN u ELSE Signed(u)) + bzero)
convertSample(per, bzero, u) ==
    IF per = 2 /\ bzero = Half THEN FlipTopBit(u) ELSE General(per, bzero, u)

\* convertFITSRow: the samples of a row, as the bytes each was read from.
convertFITSRow(src, per) ==
    [x \in 1..(Len(src) \div per) |-> SubSeq(src, (x - 1) * per + 1, x * per)]

(***************************************************************************)
(* The header                                                              *)
(***************************************************************************)
bayerPhase == [RGGB |-> <<0, 0>>, BGGR |-> <<1, 1>>, GRBG |-> <<1, 0>>, GBRG |-> <<0, 1>>]

\* scanFITSHeader of the first n bytes: the length of the header, or 0 if they do not
\* start with SIMPLE or hold no END card.
scanFITSHeader(p, n) ==
    IF p.simple /\ p.end > 0 /\ n >= p.end * Block THEN p.end * Block ELSE 0

\* The checks that both decoders make of a header.
Usable(p) == p.naxis \in {2, 3} /\ p.w > 0 /\ p.h > 0 /\ p.per > 0

bottomUp(p) == p.roworder = "BOTTOM-UP"

\* Variant: every flip changes the parity of the rows.
fitsMosaic_Always(p) ==
    LET red == bayerPhase[p.bayer] IN
    <<(red[1] + p.xoff) % 2, (red[2] + p.yoff + IF bottomUp(p) THEN 1 ELSE 0) % 2>>
\* fitsMosaic: the phase of the red pixel, behind the subframe's offset and the flip.
fitsMosaic(p) ==
    LET red == bayerPhase[p.bayer] IN
    <<(red[1] + p.xoff) % 2,
      (red[2] + p.yoff + IF bottomUp(p) /\ p.h % 2 = 0 THEN 1 ELSE 0) % 2>>

\* A Frame; a colour image and one without a known pattern have no phase.
Mono == <<>>
Frame(p, pix) ==
    [ok |-> TRUE, w |-> p.w, h |-> p.h, pix |-> pix,
     bayer |-> IF p.naxis = 2 /\ p.bayer \in DOMAIN bayerPhase THEN fitsMosaic(p) ELSE Mono]
NoFrame == [ok |-> FALSE]

(***************************************************************************)
(* DecodeFITS                                                              *)
(***************************************************************************)
Bytes(from, n) == [i \in 1..n |-> from + i]

\* The data is too short for the dimensions, by division.
Short(p, n) == p.w > (n \div p.per) \div p.h

\* Each output row reads from its source row.  The data is all there, so that no product
\* exceeds its length.
DecodeFITS(p, n) ==
    LET off    == scanFITSHeader(p, n)
        stride == p.w * p.per
        src(y) == IF bottomUp(p) THEN p.h - 1 - y ELSE y
    IN  IF off = 0 \/ ~Usable(p) \/ Short(p, n - off) THEN NoFrame
        ELSE Frame(p, [y \in 0..(p.h - 1) |->
                          convertFITSRow(Bytes(off + src(y) * stride, stride), p.per)])

(***************************************************************************)
(* encodeFITS                                                              *)
(***************************************************************************)
RoundUp(n) == ((n + Block - 1) \div Block) * Block

\* The sample the camera read, and the one that is written for it.
Stored(bits, v) == IF bits <= 8 THEN v ELSE Unsigned(v - Half)

\* A raw frame of w x h pixels of bits bits, all of value v, as a payload.
encodeFITS(w, h, bits, v) ==
    LET per == IF bits <= 8 THEN 1 ELSE 2 IN
    [simple |-> TRUE, end |-> 1, naxis |-> 2, w |-> w, h |-> h, per |-> per,
     roworder |-> "none", bayer |-> "none", xoff |-> 0, yoff |-> 0,
     bzero |-> IF bits <= 8 THEN 0 ELSE Half,
     len |-> Block + RoundUp(w * h * per), raw |-> Stored(bits, v), camera |-> v]

\* What the decoders read of a payload, the raw value of its samples and, if a camera of
\* this repository wrote it, the value that the camera read.
Header ==
    [simple: BOOLEAN, end: Nat, naxis: Machine, w: Machine, h: Machine, per: Nat,
     roworder: STRING, bayer: STRING, xoff: Machine, yoff: Machine, bzero: Int,
     len: 0..IntMax, raw: ADU, camera: ADU \cup {-1}]

ASSUME FitsAssumption ==
    /\ Block \in Nat \ {0} /\ Half \in Nat \ {0} /\ MaxLength \in Nat
    /\ IntMax \in Nat /\ MaxAlloc \in 0..IntMax
    /\ Payloads \subseteq Header
    /\ \A p \in Payloads : p.camera \in ADU =>
         \E bits \in {8, 16} : p = encodeFITS(p.w, p.h, bits, p.camera)

-----------------------------------------------------------------------------
VARIABLES
    payload,  \* what is being decoded
    sent,     \* bytes of it that Write has been given
    buf,      \* p in Write: what it has still to consume
    hdrBuf,   \* header bytes, until END is found
    pix,      \* f.pix, the rows so far: None before the header is complete
    row,      \* f.row[:f.held], a partial row
    y,        \* the next source row
    err,      \* f.err is set
    done,     \* Close has been called
    panicked  \* the decoder has panicked, and the program with it

fits == <<hdrBuf, pix, row, y, err>>
fitsVars == <<payload, sent, buf, fits, done, panicked>>

None == <<>>
Sized == pix # None
Running == ~done /\ ~panicked

FitsInit ==
    /\ payload \in Payloads
    /\ sent = 0 /\ buf = <<>>
    /\ hdrBuf = <<>> /\ pix = None /\ row = <<>> /\ y = 0
    /\ err = FALSE /\ done = FALSE /\ panicked = FALSE

\* Write is given the next k bytes; with an error latched it takes none.
Write(k) ==
    /\ Running /\ ~err /\ buf = <<>>
    /\ sent + k <= payload.len
    /\ buf' = Bytes(sent, k)
    /\ sent' = sent + k
    /\ UNCHANGED <<payload, fits, done, panicked>>

\* f.w * f.h and f.stride, as the machine multiplies.
Pixels == Wrap(payload.w * payload.h)
Stride == Wrap(payload.w * payload.per)

\* size: the output, of Pixels 16-bit samples that start out as zeroes, and f.row are
\* allocated without a check of what the products are.
Allocates == 2 * Pixels \in 0..MaxAlloc /\ Stride \in 0..MaxAlloc
size ==
    /\ IF Allocates
       THEN /\ pix' = [r \in 0..(payload.h - 1) |-> [x \in 1..payload.w |-> <<>>]]
            /\ UNCHANGED panicked
       ELSE panicked' = TRUE /\ UNCHANGED pix
    /\ UNCHANGED err

\* Variant: what follows the header in the same piece is dropped.
Rest_None(all, off) == <<>>
Rest(all, off) == SubSeq(all, off + 1, Len(all))

\* consumeHeader: collect bytes until a scan from the first one succeeds.
consumeHeader ==
    LET all == hdrBuf \o buf
        off == scanFITSHeader(payload, Len(all))
    IN  /\ Running /\ buf # <<>> /\ ~Sized /\ ~err
        /\ \/ /\ off = 0 /\ (Len(all) < Block \/ payload.simple)
              /\ hdrBuf' = all /\ buf' = <<>>
              /\ UNCHANGED <<pix, err, panicked>>
           \/ /\ \/ Len(all) >= Block /\ ~payload.simple
                 \/ off > 0 /\ ~Usable(payload)
              /\ hdrBuf' = all /\ buf' = <<>>
              /\ err' = TRUE /\ UNCHANGED <<pix, panicked>>
           \/ /\ off > 0 /\ Usable(payload)
              /\ hdrBuf' = <<>> /\ buf' = Rest(all, off)
              /\ size
        /\ UNCHANGED <<payload, sent, row, y, done>>

\* Padding and further planes behind the last row.
Padding ==
    /\ Running /\ buf # <<>> /\ Sized /\ y >= payload.h
    /\ buf' = <<>>
    /\ UNCHANGED <<payload, sent, fits, done, panicked>>

\* The place of a source row is in the output, and the row has a sample for each pixel.
InBounds(dst, src) ==
    LET lo == Wrap(dst * payload.w)
        hi == Wrap((dst + 1) * payload.w)
    IN  0 <= lo /\ lo <= hi /\ hi <= Pixels /\ payload.w * payload.per <= Len(src)

\* convert: a source row goes to its place in the output.
convert(src) ==
    LET dst == IF bottomUp(payload) THEN payload.h - 1 - y ELSE y IN
    IF InBounds(dst, src)
    THEN /\ pix' = [pix EXCEPT ![dst] = convertFITSRow(src, payload.per)]
         /\ y' = y + 1 /\ UNCHANGED panicked
    ELSE panicked' = TRUE /\ UNCHANGED <<pix, y>>

\* A whole row in hand, and nothing carried over.
WholeRow ==
    /\ Running /\ buf # <<>> /\ Sized /\ y < payload.h
    /\ row = <<>> /\ Len(buf) >= Stride
    /\ convert(SubSeq(buf, 1, Stride))
    /\ buf' = SubSeq(buf, Stride + 1, Len(buf))
    /\ UNCHANGED <<payload, sent, hdrBuf, row, err, done>>

Carried(all) == IF Len(all) = Stride THEN <<>> ELSE all

CarryRow ==
    /\ Running /\ buf # <<>> /\ Sized /\ y < payload.h
    /\ row # <<>> \/ Len(buf) < Stride
    /\ LET take == IF Stride - Len(row) > Len(buf) THEN Len(buf) ELSE Stride - Len(row)
           all  == row \o SubSeq(buf, 1, take)
       IN  /\ buf' = SubSeq(buf, take + 1, Len(buf))
           /\ row' = Carried(all)
           /\ IF Len(all) = Stride THEN convert(all) ELSE UNCHANGED <<pix, y, panicked>>
    /\ UNCHANGED <<payload, sent, hdrBuf, err, done>>

Complete == Sized /\ y >= payload.h

\* Close, at the end of the payload or where it breaks off.
Close ==
    /\ Running /\ buf = <<>>
    /\ done' = TRUE
    /\ err' = (err \/ ~Complete)
    /\ UNCHANGED <<payload, sent, buf, hdrBuf, pix, row, y, panicked>>

\* What FITSWriter.Frame returns once Close has been called.
Decoded == IF err THEN NoFrame ELSE Frame(payload, pix)

FitsNext ==
    \/ \E k \in 1..MaxLength : Write(k)
    \/ consumeHeader \/ Padding \/ WholeRow \/ CarryRow
    \/ Close

FitsSpec == FitsInit /\ [][FitsNext]_fitsVars
=============================================================================
