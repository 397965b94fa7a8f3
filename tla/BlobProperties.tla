--------------------------- MODULE BlobProperties ---------------------------
(***************************************************************************)
(* The properties of the client's BLOB reading (module Blob).              *)
(***************************************************************************)
EXTENDS Blob

Ends(p) == used[p] # Nil /\ Kind[used[p]] \in {"closer", "aborter"}

\* A payload's writer is ended once (abortSink: CloseWithError stands in for Close), and
\* while the connection lives before anything else is read: the next payload, the
\* metadata of the vector.
EndedOnce ==
    \A p \in 1..cur :
        /\ Len(ends[p]) <= 1
        /\ at \in {"top", "vector"} /\ Ends(p) => Len(ends[p]) = 1

\* BlobSink's comment: a writer that can be closed learns of a transfer error, also
\* when the transfer ends the connection.
\* The code does not keep this (README, Disagreements).
EndedAnyway == at = "lost" => \A p \in 1..cur : Ends(p) => Len(ends[p]) = 1

\* A writer with CloseWithError that is closed without one has taken the whole
\* payload, however it was cut into tokens (BufferBlobs: an incomplete payload is never
\* delivered).
DeliveredWhole ==
    \A p \in Payload : Ends(p) /\ Kind[used[p]] = "aborter" /\ ends[p] = <<"close">> =>
        chars[p] % 4 = 0 /\ got[p] = 3 * (chars[p] \div 4) - pad[p]

\* A writer that is closed after another number of bytes than the size that was
\* declared has its payload among the soft errors; cur's finish is over when it is not
\* being read.
WrongSizeIsCounted ==
    at \in {"top", "vector"} /\ cur > 0 /\ info.size > 0 /\ ~info.compressed
      => (3 * (chars[cur] \div 4) - pad[cur] # info.size => cur \in soft)

\* State-only updates (size 0 and no data) do not reach a sink as empty payloads, and
\* data reaches the sink it is for even if no size was declared.
EngagedForData ==
    cur > 0 => /\ used[cur] # Nil /\ info.size = 0 => chars[cur] > 0 \/ spoilt
               /\ chars[cur] > 0 => fn = Nil

\* Each payload is ended once, delivered whole or not at all, counted if its size is
\* wrong, and given to a sink only if it has data.
ClosedIsWhole == EndedOnce /\ DeliveredWhole /\ WrongSizeIsCounted /\ EngagedForData

\* A sink whose Write fails costs its payload and not the connection, as the stream is in
\* sync.  (One whose Close fails does end the connection: README, Disagreements.)
SinkSparesStream == at = "lost" => spoilt

\* No goroutine outlives its payload.
InflaterReaped == at \in {"top", "vector", "lost"} => ic # "reading"

\* The read loop is never stuck in a payload: whatever the inflater does, it comes back
\* to read the next token, or gives the connection up.
ReadLoopReturns ==
    at \in {"tee", "write", "result", "finish", "reap"} ~> at \in {"blob", "vector", "lost"}
=============================================================================
