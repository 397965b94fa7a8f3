------------------------------ MODULE Conform ------------------------------
(***************************************************************************)
(* The conformance checker: conform/conform.go's Run on one device, and    *)
(* the exit code cmd/indiconform makes of its results.                     *)
(*                                                                         *)
(* A device is a record that says what it defines, in which order, and how *)
(* it answers each command; everything the checker cannot command (when a  *)
(* definition, an answer or a frame arrives, unrelated updates, the loss   *)
(* of the connection, the end of ctx) is left to the environment.  Of the  *)
(* client's store only what the checks read is kept, and of a property's   *)
(* Rev only whether it has passed the one recorded before the command.     *)
(***************************************************************************)
EXTENDS Sequences, FiniteSets

CONSTANTS
    Devices,  \* the devices a run may meet: records, see Device
    Modes     \* the values opts.Mutate may have

Command == {"CONNECT", "DISCONNECT", "PULSE_NS", "PULSE_WE", "EXPOSE"}

\* The property that carries a command.
Target == [CONNECT    |-> "CONNECTION",
           DISCONNECT |-> "CONNECTION",
           PULSE_NS   |-> "TELESCOPE_TIMED_GUIDE_NS",
           PULSE_WE   |-> "TELESCOPE_TIMED_GUIDE_WE",
           EXPOSE     |-> "CCD_EXPOSURE"]

\* checkContracts: the properties an interface requires, and the sets of properties of
\* which it requires one.
Required == [TELESCOPE |-> {"EQUATORIAL_EOD_COORD", "ON_COORD_SET", "TELESCOPE_ABORT_MOTION"},
             GUIDER    |-> {"TELESCOPE_TIMED_GUIDE_NS", "TELESCOPE_TIMED_GUIDE_WE"},
             CCD       |-> {"CCD_EXPOSURE", "CCD_INFO"},
             FOCUSER   |-> {},
             FILTER    |-> {"FILTER_SLOT"},
             DOME      |-> {},
             GPS       |-> {"GEOGRAPHIC_COORD", "TIME_UTC"},
             WEATHER   |-> {"WEATHER_STATUS"},
             ROTATOR   |-> {"ABS_ROTATOR_ANGLE"}]
Alternatives == [FOCUSER |-> {{"ABS_FOCUS_POSITION"}, {"FOCUS_MOTION", "FOCUS_TIMER"}},
                 DOME    |-> {{"DOME_MOTION"}, {"ABS_DOME_POSITION"}},
                 CCD     |-> {{"CCD1"}, {"CCD2"}}]
contractBits == DOMAIN Required

\* Whose type, permission and members are checked, and not just their presence.
PresenceOnly == Required["GPS"]

\* The switches of CONNECTION.
Switches == {"CONNECT", "DISCONNECT"}

\* A device: what it defines at once and after CONNECT, which of these break the
\* protocol's rules or have another shape than a contract asks for or are defined in
\* state Alert, what its DRIVER_INTERFACE holds, whether it is connected, which switches
\* it has On while it is and while it is not, the answer it gives to each command
\* ("Hollow" is an Ok that changes nothing), and its frames.
Device ==
    [early: Seq(STRING), late: Seq(STRING), odd: SUBSET STRING, wrong: SUBSET STRING,
     alerted: SUBSET STRING, driver: {"numeric", "junk", "lacking"},
     iface: SUBSET contractBits, connected: BOOLEAN, on: [BOOLEAN -> SUBSET Switches],
     reply: [Command -> {"Ok", "Idle", "Alert", "Hollow", "Silent"}],
     frame: {"fits", "empty", "other", "missized", "none"}]

ASSUME ConformAssumption == Devices \subseteq Device /\ Modes \subseteq BOOLEAN

VARIABLES
    dev,        \* the device
    mutate,     \* opts.Mutate
    online,     \* whether it is connected
    coming,     \* its definitions that have not arrived
    todo,       \* commands it has not answered
    busy,       \* whether it has shown Busy for the first of them
    frame,      \* its frame: "none", "owed" or "here" (in ch)
    link,       \* whether the client's connection lives
    cancelled,  \* ctx.Err() # nil
    seen,       \* the properties in the client's store
    state,      \* the states the store has for the commanded ones
    shown,      \* the switches of CONNECTION that the store has On
    fresh,      \* whether the awaited property has been updated since the command
    pc,         \* where Run is
    props,      \* checkDevice's props: the last snapshot
    iface,      \* checkDevice's iface: empty too if none is advertised
    connected,  \* checkDevice's connected
    connectedByUs,
    plan,       \* the state-changing checks to come, the first one under way
    fails,      \* checks reported as failed
    warns,      \* checks reported as warnings
    exit,       \* indiconform's exit code
    excused     \* history: the checker was too early, or met an unrelated update

given  == <<dev, mutate>>
device == <<given, online, coming, todo, busy, frame>>
net    == <<link, cancelled>>
store  == <<seen, state, shown, fresh>>
run    == <<pc, props, iface, connected, connectedByUs, plan, fails, warns, exit>>
vars   == <<device, net, store, run, excused>>

Running == 3  \* no exit code yet
Names(s) == {s[i] : i \in DOMAIN s}

Init ==
    /\ dev \in Devices /\ mutate \in Modes
    /\ online = dev.connected /\ coming = dev.early
    /\ todo = <<>> /\ busy = FALSE /\ frame = "none"
    /\ link = TRUE /\ cancelled = FALSE
    /\ seen = {} /\ state = [p \in Names(Target) |-> "Ok"] /\ shown = {} /\ fresh = FALSE
    /\ pc = "dial" /\ props = {} /\ iface = {}
    /\ connected = FALSE /\ connectedByUs = FALSE /\ plan = <<>>
    /\ fails = {} /\ warns = {} /\ exit = Running
    /\ excused = FALSE

(***************************************************************************)
(* The device and the network                                              *)
(***************************************************************************)
Awaits(p) == pc = "waiting" /\ Target[Head(plan)] = p

\* An update of p as the store shows it: one of a property not in it is dropped.
Show(p, s) ==
    /\ state' = IF p \in seen THEN [state EXCEPT ![p] = s] ELSE state
    /\ fresh' = (fresh \/ (Awaits(p) /\ p \in seen))

\* A definition arrives, with the state and switches the property has.
Define ==
    /\ link /\ coming # <<>>
    /\ LET p == Head(coming) IN
         /\ coming' = Tail(coming) /\ seen' = seen \cup {p}
         /\ fresh' = (fresh \/ Awaits(p))
         /\ state' = IF p \in DOMAIN state /\ p \in dev.alerted
                     THEN [state EXCEPT ![p] = "Alert"] ELSE state
         /\ shown' = IF p = "CONNECTION" THEN dev.on[online] ELSE shown
    /\ UNCHANGED <<given, online, todo, busy, frame, net, run, excused>>

Frames(c) == IF c = "EXPOSE" /\ frame = "none" /\ dev.frame # "none" THEN "owed" ELSE frame

\* The device acknowledges a command before it is done.
Begin ==
    /\ link /\ todo # <<>> /\ ~busy /\ dev.reply[Head(todo)] # "Silent"
    /\ busy' = TRUE
    /\ Show(Target[Head(todo)], "Busy")
    /\ frame' = Frames(Head(todo))
    /\ UNCHANGED <<given, online, coming, todo, net, seen, shown, run, excused>>

\* It answers the command, and defines its other properties when it has connected.
Answer ==
    /\ link /\ todo # <<>>
    /\ LET c == Head(todo)
           r == dev.reply[c]
           done == r \in {"Ok", "Idle"}
       IN
         /\ r # "Silent"
         /\ Show(Target[c], IF r = "Hollow" THEN "Ok" ELSE r)
         /\ online' = CASE c = "CONNECT" /\ done -> TRUE
                        [] c = "DISCONNECT" /\ done -> FALSE
                        [] OTHER -> online
         /\ shown' = IF "CONNECTION" \in seen THEN dev.on[online'] ELSE shown
         /\ coming' = IF c = "CONNECT" /\ done THEN coming \o dev.late ELSE coming
         /\ frame' = IF done THEN Frames(c) ELSE frame
    /\ todo' = Tail(todo) /\ busy' = FALSE
    /\ UNCHANGED <<given, net, seen, run, excused>>

Ignore ==
    /\ todo # <<>> /\ dev.reply[Head(todo)] = "Silent"
    /\ todo' = Tail(todo)
    /\ UNCHANGED <<given, online, coming, busy, frame, net, store, run, excused>>

\* The frame arrives at BufferBlobs' callback, before the exposure settles or after.
FrameArrives ==
    /\ link /\ frame = "owed"
    /\ frame' = "here"
    /\ UNCHANGED <<given, online, coming, todo, busy, net, store, run, excused>>

\* An update nobody asked for, with nothing changed: a poll, or another client's doing.
Chatter ==
    /\ link /\ pc = "waiting" /\ ~fresh /\ Target[Head(plan)] \in seen
    /\ fresh' = TRUE /\ excused' = TRUE
    /\ UNCHANGED <<device, net, seen, state, shown, run>>

LoseLink ==
    /\ link /\ pc # "done"
    /\ link' = FALSE
    /\ UNCHANGED <<device, cancelled, store, run, excused>>

Cancel ==
    /\ ~cancelled /\ pc # "done"
    /\ cancelled' = TRUE
    /\ UNCHANGED <<device, link, store, run, excused>>

Environment ==
    \/ Define \/ Begin \/ Answer \/ Ignore \/ FrameArrives \/ Chatter \/ LoseLink \/ Cancel

(***************************************************************************)
(* Run                                                                     *)
(***************************************************************************)
Check(kind, subjects) == {<<kind, s>> : s \in subjects}
Aborted == Check("run", {"aborted"})
Goto(label) == pc' = label /\ UNCHANGED <<device, net, store>>
Early(missed) == excused' = (excused \/ missed)

Dial ==
    /\ pc = "dial"
    /\ \/ link /\ Goto("discover") /\ UNCHANGED exit
       \/ Goto("done") /\ exit' = 2
    /\ UNCHANGED <<props, iface, connected, connectedByUs, plan, fails, warns, excused>>

\* Variant: the wait for devices has no limit.
Discover_Forever ==
    /\ pc = "discover" /\ seen # {} /\ Goto("settle")
    /\ UNCHANGED <<props, iface, connected, connectedByUs, plan, fails, warns, exit, excused>>

\* WaitDevices or waitForDevice, until its time, the connection or ctx ends.
Discover ==
    /\ pc = "discover"
    /\ IF seen # {} THEN Goto("settle") /\ UNCHANGED <<fails, excused>>
       ELSE /\ Goto("report") /\ Early(coming # <<>>)
            /\ fails' = IF cancelled THEN Aborted ELSE Check("discovery", {"none"})
    /\ UNCHANGED <<props, iface, connected, connectedByUs, plan, warns, exit>>

\* settle: it is quiet, or was for long enough.
Settle ==
    /\ \/ pc = "settle" /\ Goto("next")
       \/ pc = "resettle" /\ Goto("contracts")
    /\ Early(coming # <<>>)
    /\ props' = IF pc = "resettle" THEN seen ELSE props
    /\ UNCHANGED <<iface, connected, connectedByUs, plan, fails, warns, exit>>

\* The loop over the devices: a run whose ctx is done checks no further one.
NextDevice ==
    /\ pc = "next"
    /\ IF cancelled THEN Goto("report") /\ fails' = fails \cup Aborted
       ELSE Goto("anchor") /\ UNCHANGED fails
    /\ UNCHANGED <<props, iface, connected, connectedByUs, plan, warns, exit, excused>>

\* Wait for CONNECTION, whose result is not looked at.
Anchor ==
    /\ pc = "anchor"
    /\ Goto("inspect")
    /\ Early("CONNECTION" \in Names(coming))
    /\ UNCHANGED <<props, iface, connected, connectedByUs, plan, fails, warns, exit>>

checkProtocol(ps) == Check("protocol", ps \cap dev.odd)
checkDriverInfo(ps) ==
    IF "DRIVER_INFO" \in ps /\ dev.driver # "numeric"
    THEN Check("DRIVER_INTERFACE", {dev.driver}) ELSE {}
checkConnection(ps) ==
    IF "CONNECTION" \notin ps THEN Check("present", {"CONNECTION"})
    ELSE Check("shape", {"CONNECTION"} \cap dev.wrong)

\* The snapshot and the checks on it, up to the decision to connect.
Inspect ==
    /\ pc = "inspect"
    /\ props' = seen
    /\ fails' = fails \cup checkProtocol(seen) \cup checkDriverInfo(seen) \cup checkConnection(seen)
    /\ warns' = warns \cup Check("present", {"DRIVER_INFO"} \ seen)
    /\ iface' = IF "DRIVER_INFO" \in seen /\ dev.driver = "numeric" THEN dev.iface ELSE {}
    /\ connected' = ("CONNECTION" \in seen /\ "CONNECT" \in shown)
    /\ IF connected' THEN Goto("resettle") /\ UNCHANGED plan
       ELSE IF mutate /\ "CONNECTION" \in seen THEN Goto("command") /\ plan' = <<"CONNECT">>
       ELSE Goto("contracts") /\ UNCHANGED plan
    /\ UNCHANGED <<connectedByUs, exit, excused>>

\* What interface i is missed in the properties ps, CCD's BLOB vector by its type.
contractFails(i, ps) ==
    LET sound == ps \ dev.wrong
        lacks(p) == IF p \in PresenceOnly THEN p \notin ps ELSE p \notin sound
        ways == IF i \in DOMAIN Alternatives THEN Alternatives[i] ELSE {{}}
    IN  Check("contract", {p \in Required[i] : lacks(p)})
          \cup (IF \E s \in ways : s \subseteq (IF i = "CCD" THEN sound ELSE ps)
                THEN {} ELSE Check("contract", {i}))

\* The state-changing checks that the interfaces call for, for a live device only.
\* Variant: for any device.
changes ==
    (IF "GUIDER" \in iface THEN <<"PULSE_NS", "PULSE_WE">> ELSE <<>>)
      \o (IF "CCD" \in iface /\ "CCD_EXPOSURE" \in props THEN <<"EXPOSE">> ELSE <<>>)
mutations_Always(live) == IF mutate THEN changes ELSE <<>>
mutations(live) == IF mutate /\ live THEN changes ELSE <<>>

\* What a run that connected the device owes it.  Variant: not once ctx is done.
restore_Unless == IF connectedByUs /\ ~cancelled THEN <<"DISCONNECT">> ELSE <<>>
restore == IF connectedByUs THEN <<"DISCONNECT">> ELSE <<>>

checkContracts ==
    /\ pc = "contracts"
    /\ LET hasConn == "CONNECTION" \in props
           skipped == hasConn /\ ~connected /\ ~mutate
       IN
         /\ fails' = IF skipped THEN fails
                     ELSE fails \cup UNION {contractFails(i, props) : i \in iface}
         /\ plan' = mutations(connected \/ ~hasConn) \o restore
    /\ Goto("command")
    /\ UNCHANGED <<props, iface, connected, connectedByUs, warns, exit, excused>>

(***************************************************************************)
(* Commands: Rev is recorded, the command sent, and a later update awaited *)
(***************************************************************************)
\* The states that end the wait, and those of them that pass.
Settles(c) == state[Target[c]] \in IF c \in {"CONNECT", "EXPOSE"} THEN {"Ok", "Alert"}
                                   ELSE {"Ok", "Idle", "Alert"}
Passes(c) == state[Target[c]] # "Alert" /\ (c \in Switches => c \in shown)

\* The checks that fail when the wait for c ends so: its own, or the one that a CONNECT
\* which passed makes of the switches, without taking the device for unconnected.
\* Variant: none is made of them.
complaints_Own(c) == IF Passes(c) THEN {} ELSE Check("command", {c})
complaints(c) ==
    IF ~Passes(c) THEN Check("command", {c})
    ELSE IF c = "CONNECT" /\ ("CONNECT" \in shown <=> "DISCONNECT" \in shown)
    THEN Check("OneOfMany", {"CONNECTION"}) ELSE {}

\* Only an update since the command counts.  Variant: what was there before it does too.
Acknowledged_Cached(c) == Settles(c)
Acknowledged(c) == fresh /\ Settles(c)

\* What follows command c, if it passed or not.
After(c, ok) ==
    /\ Goto(CASE c = "CONNECT" -> IF ok THEN "resettle" ELSE "contracts"
              [] c = "EXPOSE" /\ ok -> "frame"
              [] OTHER -> "command")
    /\ plan' = Tail(plan)
    /\ connected' = IF c = "CONNECT" THEN ok ELSE connected
    /\ connectedByUs' = IF c = "CONNECT" THEN ok ELSE connectedByUs

Send ==
    /\ pc = "command" /\ plan # <<>> /\ link
    /\ todo' = Append(todo, Head(plan))
    /\ fresh' = FALSE
    /\ pc' = "waiting"
    /\ UNCHANGED <<given, online, coming, busy, frame, net, seen, state, shown, props, iface,
                   connected, connectedByUs, plan, fails, warns, exit, excused>>

\* A pulse that cannot be sent is only a warning.
SendFails ==
    /\ pc = "command" /\ plan # <<>> /\ ~link
    /\ LET c == Head(plan)
           failed == Check("command", {c})
       IN
         /\ After(c, FALSE)
         /\ IF c \in {"PULSE_NS", "PULSE_WE"} THEN warns' = warns \cup failed /\ UNCHANGED fails
            ELSE fails' = fails \cup failed /\ UNCHANGED warns
    /\ UNCHANGED <<props, iface, exit, excused>>

Settled ==
    /\ pc = "waiting" /\ Acknowledged(Head(plan))
    /\ LET c == Head(plan) IN
         /\ After(c, Passes(c))
         /\ fails' = fails \cup complaints(c)
    /\ UNCHANGED <<props, iface, warns, exit, excused>>

\* The wait ends with its time, with the connection, or at once when ctx is done.  Of
\* the checks that only warn, a pulse fails if its property was in Alert all along.
TimedOut ==
    /\ pc = "waiting" /\ ~Acknowledged(Head(plan))
    /\ LET c == Head(plan)
           failed == Check("command", {c})
           warned == \/ c = "DISCONNECT"
                     \/ c \in {"PULSE_NS", "PULSE_WE"} /\ state[Target[c]] # "Alert"
       IN
         /\ After(c, FALSE)
         /\ Early(\E i \in DOMAIN todo : dev.reply[todo[i]] # "Silent")
         /\ IF warned THEN warns' = warns \cup failed /\ UNCHANGED fails
            ELSE fails' = fails \cup failed /\ UNCHANGED warns
    /\ UNCHANGED <<props, iface, exit>>

\* exposeCheck's select, and the checks on the frame.
Frame ==
    /\ pc = "frame"
    /\ Goto("command")
    /\ LET failed == Check("command", {"EXPOSE"}) IN
         \/ /\ frame = "here" /\ UNCHANGED excused
            /\ fails' = IF dev.frame = "fits" THEN fails ELSE fails \cup failed
         \/ /\ frame # "here" \/ cancelled
            /\ fails' = fails \cup failed /\ Early(frame = "owed")
    /\ UNCHANGED <<props, iface, connected, connectedByUs, plan, warns, exit>>

Finish ==
    /\ pc = "command" /\ plan = <<>>
    /\ fails' = IF cancelled THEN fails \cup Aborted ELSE fails
    /\ Goto("report")
    /\ UNCHANGED <<props, iface, connected, connectedByUs, plan, warns, exit, excused>>

\* indiconform's exit code.
Report ==
    /\ pc = "report"
    /\ Goto("done")
    /\ exit' = IF fails = {} THEN 0 ELSE 1
    /\ UNCHANGED <<props, iface, connected, connectedByUs, plan, fails, warns, excused>>

Run ==
    \/ Dial \/ Discover \/ Settle \/ NextDevice \/ Anchor \/ Inspect \/ checkContracts
    \/ Send \/ SendFails \/ Settled \/ TimedOut \/ Frame \/ Finish \/ Report

Next == Environment \/ Run

Spec == Init /\ [][Next]_vars

\* Every wait of Run has a time limit, so its next step comes whatever the device does.
LiveSpec == Spec /\ WF_vars(Run)
=============================================================================
