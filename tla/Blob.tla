------------------------------- MODULE Blob --------------------------------
(***************************************************************************)
(* How the client reads setBLOBVector elements (client/blob.go): the read  *)
(* loop takes a payload token by token, decodes its base64, hands the      *)
(* bytes to the sink registered for the device, and tees the bytes of a    *)
(* compressed payload into a goroutine that inflates and counts them.      *)
(*                                                                         *)
(* Bytes are counted, not spelled: a token of character data is a number   *)
(* of base64 characters, and whether they are well formed and padded.      *)
(***************************************************************************)
EXTENDS Integers, Sequences

CONSTANTS
    Device,      \* device names of BLOB vectors
    Sink,        \* the functions given to BlobSink and BlobSinkFor
    Nil,         \* no function
    Kind,        \* what a sink's writers can do: "none" (the writer is nil), "plain",
                 \* "closer", or "aborter" (CloseWithError too)
    Fails,       \* which calls on a writer may fail: "write", "close"
    Sizes,       \* declared sizes; 0 also stands for no size attribute
    Chars,       \* how many base64 characters a token may bring
    MaxPayload,  \* bound: payloads on the connection
    MaxToken     \* bound: tokens of a payload

ASSUME BlobAssumption ==
    /\ Nil \notin Sink
    /\ Kind \in [Sink -> {"none", "plain", "closer", "aborter"}]
    /\ Fails \subseteq {"write", "close"}
    /\ Sizes \subseteq Nat /\ Chars \subseteq Nat
    /\ MaxPayload \in Nat /\ MaxToken \in Nat

Payload == 1..MaxPayload

VARIABLES
    wide,        \* c.blobSink
    own,         \* c.blobSinks: Nil where there is no entry
    at,          \* where the read loop is: "top" (between elements), "vector", "blob"
                 \* (before a token), "tee", "write", "result", "finish", "reap" or "lost"
    device,      \* the device of the vector
    cur,         \* the payload being read, or the last one
    info,        \* its BlobInfo: size (0 if none) and compressed
    fn,          \* the sink function not yet engaged
    w,           \* whether b64.w is a writer
    werr,        \* whether a write to it failed
    n, done,     \* b64: characters of an unfinished quad; a padded quad has ended the payload
    total, out,  \* b64: bytes decoded; bytes of the token not yet handed on
    err,         \* what readOneBlob will return
    ic,          \* the inflater's goroutine: "none", "reading" or "done"
    fed,         \* whether the inflater has been given bytes
    shut, eof,   \* whether the pipe's read side, its write side has been closed
    broken,      \* ic.broken
    soft,        \* the payloads for which a soft error was counted
    rev,         \* how often the metadata of a vector was applied
    used,        \* history: the sink whose writer each payload went to
    got,         \* history: bytes that each payload's writer accepted
    ends,        \* history: "close" and "abort" calls on each payload's writer
    chars, pad,  \* history: what the tokens of each payload brought
    tokens,      \* tokens of the payload, for the bound
    spoilt       \* history: the stream broke, or brought malformed base64

sinks == <<wide, own>>
b64   == <<w, werr, n, done, total, out>>
infl  == <<ic, fed, shut, eof, broken>>
meta  == <<device, cur, info, rev>>
hist  == <<used, got, ends>>
sent  == <<chars, pad, tokens>>
vars  == <<sinks, at, b64, infl, meta, hist, sent, fn, err, soft, spoilt>>

Init ==
    /\ wide = Nil /\ own = [d \in Device |-> Nil]
    /\ at = "top" /\ device \in Device /\ cur = 0
    /\ info = [size |-> 0, compressed |-> FALSE]
    /\ fn = Nil /\ w = FALSE /\ werr = FALSE /\ err = FALSE
    /\ n = 0 /\ done = FALSE /\ total = 0 /\ out = 0
    /\ ic = "none" /\ fed = FALSE /\ shut = FALSE /\ eof = FALSE /\ broken = FALSE
    /\ soft = {} /\ rev = 0
    /\ used = [p \in Payload |-> Nil]
    /\ got = [p \in Payload |-> 0] /\ ends = [p \in Payload |-> <<>>]
    /\ chars = [p \in Payload |-> 0] /\ pad = [p \in Payload |-> 0]
    /\ tokens = 0 /\ spoilt = FALSE

(***************************************************************************)
(* Registering sinks: any goroutine, at any time                           *)
(***************************************************************************)
BlobSink(f) ==
    /\ wide' = f
    /\ UNCHANGED <<own, at, b64, infl, meta, hist, sent, fn, err, soft, spoilt>>

BlobSinkFor(d, f) ==
    /\ own' = [own EXCEPT ![d] = f]
    /\ UNCHANGED <<wide, at, b64, infl, meta, hist, sent, fn, err, soft, spoilt>>

sinkFor(d) == IF own[d] # Nil THEN own[d] ELSE wide

(***************************************************************************)
(* readBlobVector                                                          *)
(***************************************************************************)
StartVector(d) ==
    /\ at = "top"
    /\ at' = "vector" /\ device' = d
    /\ UNCHANGED <<sinks, b64, infl, cur, info, rev, hist, sent, fn, err, soft, spoilt>>

\* applyBlobMeta counts a revision if it knows the property.
EndVector ==
    /\ at = "vector"
    /\ at' = "top"
    /\ rev' \in {rev, rev + 1} /\ rev' <= MaxPayload
    /\ UNCHANGED <<sinks, b64, infl, device, cur, info, hist, sent, fn, err, soft, spoilt>>

\* The decoder fails: the connection is gone, or what arrives is not XML.
StreamBreaks ==
    /\ at \in {"top", "vector", "blob"}
    /\ spoilt' = TRUE
    /\ IF at = "blob" THEN at' = "reap" /\ err' = TRUE
                      ELSE at' = "lost" /\ UNCHANGED err
    /\ UNCHANGED <<sinks, b64, infl, meta, hist, sent, fn, soft>>

(***************************************************************************)
(* readOneBlob                                                             *)
(***************************************************************************)
\* The writer of the payload p from the sink function f, and no more than once.
engage(p, f) ==
    /\ used' = [used EXCEPT ![p] = f]
    /\ w' = (f # Nil /\ Kind[f] # "none")
    /\ fn' = Nil

StartBlob(size, z) ==
    /\ at = "vector" /\ cur < MaxPayload
    /\ at' = "blob" /\ cur' = cur + 1 /\ tokens' = 0
    /\ info' = [size |-> size, compressed |-> z]
    /\ IF size > 0 THEN engage(cur + 1, sinkFor(device))
                   ELSE fn' = sinkFor(device) /\ w' = FALSE /\ UNCHANGED used
    /\ werr' = FALSE /\ n' = 0 /\ done' = FALSE /\ total' = 0 /\ out' = 0 /\ err' = FALSE
    /\ ic' = IF z /\ size > 0 THEN "reading" ELSE "none"
    /\ fed' = FALSE /\ shut' = FALSE /\ eof' = FALSE /\ broken' = FALSE
    /\ UNCHANGED <<sinks, device, rev, got, ends, chars, pad, soft, spoilt>>

\* A token of white space.
Blank ==
    /\ at = "blob" /\ tokens < MaxToken
    /\ tokens' = tokens + 1
    /\ UNCHANGED <<sinks, at, b64, infl, meta, hist, chars, pad, fn, err, soft, spoilt>>

Pending(k) == n + k

\* What quads decode to, the last of them with z padding characters.
Bytes(quads, z) == 3 * quads - z

Engages == fn # Nil

EngageAtData ==
    IF Engages THEN engage(cur, fn) ELSE UNCHANGED <<used, w, fn>>

\* A token of k well-formed characters, the last quad padded by z; b64Writer.Write up
\* to its calls.
Data(k, z) ==
    /\ at = "blob" /\ tokens < MaxToken /\ k > 0 /\ ~done
    /\ z > 0 => Pending(k) % 4 = 0
    /\ EngageAtData
    /\ LET quads == Pending(k) \div 4
           decoded == IF quads = 0 THEN 0 ELSE Bytes(quads, z)
       IN /\ out' = decoded /\ total' = total + decoded
          /\ at' = CASE decoded = 0 -> "blob"
                     [] decoded > 0 /\ ic # "none" /\ ~broken -> "tee"
                     [] OTHER -> "write"
    /\ n' = Pending(k) % 4 /\ done' = (z > 0)
    /\ chars' = [chars EXCEPT ![cur] = @ + k] /\ pad' = [pad EXCEPT ![cur] = z]
    /\ tokens' = tokens + 1
    /\ UNCHANGED <<sinks, werr, infl, meta, got, ends, err, soft, spoilt>>

\* Bad characters, bad padding, or data after the padding: the stream is given up.
Malformed ==
    /\ at = "blob" /\ tokens < MaxToken
    /\ EngageAtData
    /\ spoilt' = TRUE /\ err' = TRUE
    /\ at' = "reap"
    /\ UNCHANGED <<sinks, werr, n, done, total, out, infl, meta, got, ends, sent, soft>>

\* The writer takes the bytes, ...
Write ==
    /\ at = "write"
    /\ got' = IF w THEN [got EXCEPT ![cur] = @ + out] ELSE got
    /\ out' = 0
    /\ at' = "blob"
    /\ UNCHANGED <<sinks, w, werr, n, done, total, infl, meta, used, ends, sent, fn, err, soft, spoilt>>

\* Variant: the failure ends the payload.
Demote_Fatal == "reap"
Demote == "blob"

\* ... or fails: it is not written to again, and the payload is read on.
WriteFails ==
    /\ at = "write" /\ w /\ "write" \in Fails
    /\ w' = FALSE /\ werr' = TRUE /\ out' = 0
    /\ at' = Demote
    /\ err' = (Demote = "reap")
    /\ UNCHANGED <<sinks, n, done, total, infl, meta, hist, sent, fn, soft, spoilt>>

\* The end tag. The count of a complete compressed payload is waited for.
EndBlob ==
    /\ at = "blob"
    /\ err' = (n # 0)
    /\ spoilt' = (spoilt \/ n # 0)
    /\ IF n = 0 /\ ic # "none" THEN at' = "result" /\ eof' = TRUE
                               ELSE at' = "finish" /\ UNCHANGED eof
    /\ UNCHANGED <<sinks, b64, ic, fed, shut, broken, meta, hist, sent, fn, soft>>

\* ic.result: the goroutine has ended. What it counted may be wrong.
Result ==
    /\ at = "result" /\ ic = "done"
    /\ at' = "finish"
    /\ \/ soft' = soft \cup {cur}
       \/ ~broken /\ UNCHANGED soft
    /\ UNCHANGED <<sinks, b64, infl, meta, hist, sent, fn, err, spoilt>>

abortSink(k) == IF k = "aborter" THEN <<"abort">> ELSE <<"close">>

\* Variant: a failed write is no reason to abort.
Failed_NotWrites == err
Failed == err \/ werr

\* What the end of the payload calls on a writer of kind k.
Ending(k) ==
    IF k \notin {"closer", "aborter"} THEN <<>> ELSE IF Failed THEN abortSink(k) ELSE <<"close">>

WrongSize == ~err /\ info.size > 0 /\ ~info.compressed /\ total # info.size

Finish ==
    /\ at = "finish"
    /\ LET called == IF used[cur] = Nil THEN <<>> ELSE Ending(Kind[used[cur]])
       IN /\ ends' = [ends EXCEPT ![cur] = @ \o called]
          /\ \/ UNCHANGED err
             \/ called # <<>> /\ ~Failed /\ "close" \in Fails /\ err' = TRUE
    /\ soft' = IF WrongSize \/ werr THEN soft \cup {cur} ELSE soft
    /\ at' = "reap"
    /\ UNCHANGED <<sinks, b64, infl, meta, used, got, sent, fn, spoilt>>

\* The deferred ic.stop closes the pipe ...
Stop ==
    /\ at = "reap" /\ ic # "none" /\ ~eof
    /\ eof' = TRUE
    /\ UNCHANGED <<sinks, at, b64, ic, fed, shut, broken, meta, hist, sent, fn, err, soft, spoilt>>

\* Variant: it does not wait for the goroutine.
Reaped_Not == TRUE
Reaped == ic \in {"none", "done"}

\* ... and waits; an error of readOneBlob ends the connection.
Return ==
    /\ at = "reap" /\ Reaped
    /\ at' = IF err THEN "lost" ELSE "vector"
    /\ UNCHANGED <<sinks, b64, infl, meta, hist, sent, fn, err, soft, spoilt>>

(***************************************************************************)
(* inflateCounter                                                          *)
(***************************************************************************)
\* The goroutine reads what the read loop is writing to the pipe.
Inflate ==
    /\ at = "tee" /\ ic = "reading"
    /\ at' = "write" /\ fed' = TRUE
    /\ UNCHANGED <<sinks, b64, ic, shut, eof, broken, meta, hist, sent, fn, err, soft, spoilt>>

\* Variant: the read side is left open.
Shut_Not == shut
Shut == TRUE

\* The zlib stream is corrupt, complete, or cut off by the end of the pipe.
InflateEnds ==
    /\ ic = "reading" /\ (at = "tee" \/ fed \/ eof)
    /\ ic' = "done" /\ shut' = Shut
    /\ UNCHANGED <<sinks, at, b64, fed, eof, broken, meta, hist, sent, fn, err, soft, spoilt>>

\* Writing to a pipe nobody reads fails: the inflater is given no more.
TeeFails ==
    /\ at = "tee" /\ shut
    /\ broken' = TRUE /\ at' = "write"
    /\ UNCHANGED <<sinks, b64, ic, fed, shut, eof, meta, hist, sent, fn, err, soft, spoilt>>

-----------------------------------------------------------------------------
readOneBlob == Write \/ WriteFails \/ Result \/ Finish \/ Stop \/ Return \/ TeeFails

inflater == Inflate \/ InflateEnds

Token ==
    \/ \E d \in Device : StartVector(d)
    \/ EndVector \/ StreamBreaks
    \/ \E size \in Sizes, z \in BOOLEAN : StartBlob(size, z)
    \/ Blank \/ Malformed \/ EndBlob
    \/ \E k \in Chars, z \in 0..2 : Data(k, z)

Register ==
    \E f \in Sink \cup {Nil} : BlobSink(f) \/ \E d \in Device : BlobSinkFor(d, f)

Next == Register \/ Token \/ readOneBlob \/ inflater

Spec == Init /\ [][Next]_vars

\* The read loop and the inflater run; tokens need not come.
LiveSpec == Spec /\ WF_vars(readOneBlob) /\ WF_vars(inflater)
=============================================================================
