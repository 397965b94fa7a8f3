-------------------------- MODULE MountProperties --------------------------
(***************************************************************************)
(* The properties of the mount adapter (module Mount).                     *)
(***************************************************************************)
EXTENDS Mount

\* withOp keeps set-target-then-act atomic: with a mount that has an OpLock, the mount
\* only ever goes to a position that some client asked for, never to one goto's right
\* ascension and another's declination.
GotoPaired == OpLocker => went \subseteq {request[g] : g \in Goto}

\* handleAbort: a goto that was under way when the mount was halted does not slew it
\* afterwards (AbortProperty's comment: stops all motion).
\* The code does not keep this (README, Disagreements).
AbortIsFinal ==
    [][\A g \in halted \ sync : ~(gpc[g] = "act" /\ gpc'[g] = "acted")]_vars

\* The poll loop flips EQUATORIAL_EOD_COORD from Busy to Ok on completion of the slew:
\* it is not Ok while a goto has still to slew, or the mount does.
\* The code does not keep this (README, Disagreements).
OkMeansArrived ==
    eq = "Ok" => /\ \A g \in Goto \ sync : gpc[g] \notin {"begin", "ra", "dec", "act"}
                 /\ motion = "still"

\* handleGuide holds a pulse's property Busy for the duration: a client that waits
\* does not measure while the mount moves.
\* The code does not keep this (README, Disagreements).
BusyWhilePulsing == \A p \in pulsing : guide[axisOf[p]] = "Busy"

\* Until the program is stopped, whatever overlaps and whether or not the mount is
\* halted, a guide property that is Busy has a timer that will end it, and a Busy goto is
\* settled by its goroutine or by the poll loop, as long as the device stays connected.
BusySettles ==
    /\ \A a \in Axis : guide[a] = "Busy" ~> guide[a] # "Busy" \/ shutdown
    /\ eq = "Busy" ~> eq # "Busy" \/ ~connected \/ shutdown

\* ... but nothing in the comment of handleEq says that it must stay connected.
\* The code does not keep this (README, Disagreements).
EqSettlesAlways == eq = "Busy" ~> eq # "Busy" \/ shutdown

Quiet == \A c \in Client : pc[c] = "idle"

\* "Keep Properties synchronized with dynamic additions and removals" (DRIVERS.md): when no
\* CONNECTION command is being handled, clients have been sent the definition of
\* DUAL_AXIS_TRACKING exactly if Properties() lists it.
\* The code does not keep this (README, Disagreements).
CapsAgree == Quiet => (defined <=> cap)

\* It is so, however many clients there are, unless a DISCONNECT was handled during a
\* CONNECT (refreshDualAxis, clearDualAxis); and the next CONNECT that meets no
\* DISCONNECT mends what those did.
CapsAgreeUncrossed == ~crossed => CapsAgree
=============================================================================
