------------------------------- MODULE MCBlob -------------------------------
(***************************************************************************)
(* The client's BLOB reading for TLC: sinks of the kinds that matter.      *)
(***************************************************************************)
EXTENDS BlobProperties, TLC

CONSTANTS buffer, file, plain  \* BufferBlobs' sink, an io.Closer, an io.Writer

AllSinks == {buffer, file, plain}

KindOf == (buffer :> "aborter") @@ (file :> "closer") @@ (plain :> "plain")

SinkKind == [f \in Sink |-> KindOf[f]]
=============================================================================
