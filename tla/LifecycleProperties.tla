------------------------ MODULE LifecycleProperties ------------------------
(***************************************************************************)
(* The properties of a server's life (module Lifecycle).                   *)
(***************************************************************************)
EXTENDS Lifecycle

\* However AddDevice falls between the steps of Serve, a device's background loop is
\* never started twice, and once Serve accepts clients that of every device that was
\* added has been started (Serve: "here or by AddDevice but not both").
StartedOnce ==
    /\ \A d \in Device : starts[d] <= 1
    /\ serve \in {"accept", "pause", "nil"} =>
         \A d \in ToSet(order) \cap Starters : starts[d] = 1

\* Serve ends when its ctx is done, wherever it is, and unless it could not listen it
\* does so without an error; and a client that dials is accepted, however long Accept
\* has been failing, if it stops to.
ServeEnds ==
    /\ cancelled ~> serve = "nil" \/ (serve = "error" /\ ln = "none")
    /\ <>[]~failing => \A c \in Dialer : c \in dialing ~> c \in conns \/ cancelled
=============================================================================
