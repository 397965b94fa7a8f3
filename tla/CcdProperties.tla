--------------------------- MODULE CcdProperties ---------------------------
(***************************************************************************)
(* The properties of the camera adapter (module Ccd).                      *)
(***************************************************************************)
EXTENDS Ccd

Handlers == {c \in Client : pc[c] # "idle"}

\* No exposure is started while another one integrates (startExposure's comment:
\* overlapping exposures wedge the camera until restart), and a disconnect leaves the
\* camera idle until someone starts one again (handleConnection).
\* The code does not keep this (README, Disagreements).
NoOverlap == cam # "wedged" /\ (released => cam # "exposing")

\* Handled one at a time, commands break that only where the camera refused to abort
\* that very exposure: stopExposure ignores AbortExposure's error, and nothing else lets
\* an exposure start over another or outlive a disconnect.
OverlapOnlyRefused ==
    [][/\ cam' = "wedged" /\ cam # "wedged" => shot \in refused
       /\ released' /\ cam' = "exposing" => shot' \in refused']_vars

\* CCD_EXPOSURE stays Busy until the frame lands (properties.go): when no command is
\* being handled, a camera that integrates shows as Busy.
\* The code does not keep this (README, Disagreements).
BusyUntilFrame == Handlers = {} /\ cam = "exposing" /\ ~shutdown => state = "Busy"

\* An exposure sends one BLOB at most, it is the frame of that exposure, and once abort,
\* disconnect or a new exposure has stopped it, none of it reaches anyone.
StopIsFinal ==
    [][blobs' # blobs =>
         LET new == blobs'[Len(blobs')] IN
           /\ blobs' = Append(blobs, new) /\ new[1] = new[2]
           /\ new[1] \notin stopped /\ \A i \in DOMAIN blobs : blobs[i][1] # new[1]]_vars

\* Every exposure that the camera has ends, with its frame, an error, a stop or the end
\* of the server, unless the camera is unplugged or, by an abort that it refused, wedged
\* (awaitFrame polls for ever then).
BusyEnds ==
    state = "Busy" /\ cam \in {"exposing", "ready"}
      ~> state # "Busy" \/ shutdown \/ cam \in {"gone", "wedged"}

\* In-flight exposure goroutines stop on shutdown, even if the camera never finishes
\* (Start's comment); one begun before Start ran is not bound to the server.
ShutdownStops ==
    \A e \in Exposure : shutdown /\ gpc[e] # "none" /\ e \notin detached ~> gpc[e] = "done"
=============================================================================
