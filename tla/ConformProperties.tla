------------------------- MODULE ConformProperties -------------------------
(***************************************************************************)
(* The properties of the conformance checker (module Conform).             *)
(***************************************************************************)
EXTENDS Conform

Mentions(c) == <<"command", c>> \in fails \cup warns

\* Whether the device shows itself connected as it is found.
Appears == "CONNECT" \in dev.on[dev.connected]

\* Whether a device is as the protocol and the contracts ask, given how much of it the
\* checker may see: what it defines at once, and the rest and its switches if the checker
\* connects it.
Obeys(c) == dev.reply[c] \in IF c \in {"CONNECT", "EXPOSE"} THEN {"Ok"} ELSE {"Ok", "Idle", "Silent"}
Conforms ==
    LET early == Names(dev.early)
        live  == Appears \/ mutate
        joins == mutate /\ ~Appears
        all   == early \cup (IF joins THEN Names(dev.late) ELSE {})
        sound == all \ dev.wrong
        bits  == IF "DRIVER_INFO" \in early THEN dev.iface ELSE {}
    IN
      /\ early \cap dev.odd = {}
      /\ "DRIVER_INFO" \in early => dev.driver = "numeric"
      /\ "CONNECTION" \in early \ dev.wrong
      /\ joins =>
           /\ Obeys("CONNECT") /\ dev.on[TRUE] = {"CONNECT"}
           /\ Obeys("DISCONNECT")
           /\ dev.reply["DISCONNECT"] # "Silent" => dev.on[FALSE] = {"DISCONNECT"}
      /\ live =>
           /\ "TELESCOPE" \in bits => {"EQUATORIAL_EOD_COORD", "ON_COORD_SET", "TELESCOPE_ABORT_MOTION"} \subseteq sound
           /\ "GUIDER" \in bits => {"TELESCOPE_TIMED_GUIDE_NS", "TELESCOPE_TIMED_GUIDE_WE"} \subseteq sound
           /\ "CCD" \in bits => {"CCD_EXPOSURE", "CCD_INFO"} \subseteq sound /\ {"CCD1", "CCD2"} \cap sound # {}
           /\ "FOCUSER" \in bits => "ABS_FOCUS_POSITION" \in all \/ {"FOCUS_MOTION", "FOCUS_TIMER"} \subseteq all
           /\ "FILTER" \in bits => "FILTER_SLOT" \in sound
           /\ "DOME" \in bits => {"DOME_MOTION", "ABS_DOME_POSITION"} \cap all # {}
           /\ "GPS" \in bits => {"GEOGRAPHIC_COORD", "TIME_UTC"} \subseteq all
           /\ "WEATHER" \in bits => "WEATHER_STATUS" \in sound
           /\ "ROTATOR" \in bits => "ABS_ROTATOR_ANGLE" \in sound
      /\ mutate /\ "GUIDER" \in bits =>
           \A c \in {"PULSE_NS", "PULSE_WE"} :
             Obeys(c) /\ ~(dev.reply[c] = "Silent" /\ Target[c] \in dev.alerted)
      /\ mutate /\ "CCD" \in bits => Obeys("EXPOSE") /\ dev.frame = "fits"

\* The exit code is about the device: unless the connection was lost, ctx done, a wait
\* ended before the device was through or an unrelated update taken for an answer, it
\* is 0 exactly for a device that conforms, in whatever order what the device sends
\* arrives.
VerdictIsDevice ==
    exit \in {0, 1} /\ link /\ ~cancelled /\ ~excused => ((exit = 0) <=> Conforms)

\* checkDevice's "Leave the device as found": when a run is over a device is connected
\* as it was found, or the run has reported that its CONNECT or its DISCONNECT did not
\* settle or that it has both switches On; whatever was lost, late, cancelled or updated
\* in between.
LeftAsFound ==
    pc = "done" /\ online # dev.connected =>
      Mentions("CONNECT") \/ Mentions("DISCONNECT") \/ <<"OneOfMany", "CONNECTION">> \in fails

\* Every device that a run connects it disconnects (indiconform's -mutate).
\* The code does not keep this (README, Disagreements).
Restored == pc = "done" => (online => dev.connected)

\* A pulse or an exposure is commanded only with opts.Mutate, and to a device that has
\* CONNECT On at that time or no CONNECTION in what has arrived of it.
OnlyLive ==
    [][\A c \in {"PULSE_NS", "PULSE_WE", "EXPOSE"} :
         pc' = "waiting" /\ pc # "waiting" /\ Head(plan') = c =>
           mutate /\ ("CONNECT" \in dev.on[online] \/ "CONNECTION" \notin props)]_vars

\* A run ends, whatever the device answers or does not, with the connection lost or kept.
RunEnds == <>(pc = "done")
=============================================================================
