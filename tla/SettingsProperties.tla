------------------------- MODULE SettingsProperties -------------------------
(***************************************************************************)
(* The properties of the commands that set things (module Settings).       *)
(***************************************************************************)
EXTENDS Settings

Alone(p) == Handlers(p) = {} /\ ~mixed[p]

\* A member whose limits are a range has a value that is outside them.
OutOfRange(v, m, val) ==
    Limits[v][m][1] < Limits[v][m][2] /\ val \notin Limits[v][m][1]..Limits[v][m][2]

\* A setting outside the limits that the property was defined with is in the camera or
\* shown to clients only in a member that a command gave as NaN, though the values
\* travel through a subframe read earlier, a camera that keeps its own, and read-backs
\* that other clients' handlers make (dispatchNew; equal limits are no limits).
OutsideOnlyByNaN ==
    /\ \A h \in Hardware : \A m \in Members(h) :
         OutOfRange(h, m, camera[h][m]) => <<h, m>> \in sentNaN
    /\ \A v \in Vectors : \A m \in Members(v) :
         OutOfRange(v, m, num[v][m]) => <<v, m>> \in sentNaN

\* What DRIVERS.md says of dispatchNew: a number outside its declared bounds is
\* rejected, so that none is in the camera or shown.  The code does not keep this
\* (README, Disagreements): NaN passes both comparisons.
InRange ==
    /\ \A h \in Hardware : \A m \in Members(h) : ~OutOfRange(h, m, camera[h][m])
    /\ \A v \in Vectors : \A m \in Members(v) : ~OutOfRange(v, m, num[v][m])

\* Every command has an answer, a message to its sender or an update that its sender
\* gets as well, unless it was for no device or for a camera that is not there
\* (dispatchNew's drops and rejections, and HandleNew).
Answered ==
    \A c \in Client : pc[c] = "idle" /\ answered[c] # "yes" =>
        \/ answered[c] = "no device" /\ cmd[c].to = "nowhere"
        \/ answered[c] = "gone" /\ cmd[c].to \in Hardware

\* Unless handlers of two clients overlapped, a property shows what the device is: the
\* camera's own settings, whatever it took of those it was asked for, and in
\* CONNECTION, where exactly one member is On, whether the adapter is connected.
ShowsDevice ==
    /\ \A h \in defined : Alone(h) => num[h] = camera[h]
    /\ Alone("CONNECTION") => sw = {IF connected THEN "CONNECT" ELSE "DISCONNECT"}

\* ... and whenever no handler is at it, it does so again, as the read-back intends.
\* The code does not keep this (README, Disagreements).
ShowsCamera == \A h \in defined : Handlers(h) = {} => num[h] = camera[h]

\* However handlers and rejections overlap, once none is at a property the last that
\* was published of it is what it holds, and an optional property was defined exactly
\* once (defineCaps' sections of d.mu).
PublishedIsCurrent ==
    /\ \A p \in DOMAIN shown :
         (\A c \in Client : pc[c] = "idle" \/ p \notin Touches(cmd[c])) /\ shown[p].state # "none" =>
             shown[p] = Image(p)
    /\ \A h \in Hardware :
         Handlers(h) = {} => defs[h] = IF h \in defined THEN 1 ELSE 0
=============================================================================
