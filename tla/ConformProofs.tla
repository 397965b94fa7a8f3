--------------------------- MODULE ConformProofs ---------------------------
(***************************************************************************)
(* Proofs about the conformance checker, for any set of devices.           *)
(***************************************************************************)
EXTENDS ConformProperties, Naturals, TLAPS

-----------------------------------------------------------------------------
(* The inductive invariant *)

Changing == {"PULSE_NS", "PULSE_WE", "EXPOSE"}
Targets  == Names(Target)
Before   == {"dial", "discover", "settle", "next", "anchor", "inspect"}
Sending  == {"command", "waiting"}

Shape ==
    /\ dev \in Devices /\ mutate \in BOOLEAN /\ online \in BOOLEAN
    /\ coming \in Seq(STRING) /\ todo \in Seq(Command) /\ plan \in Seq(Command)
    /\ busy \in BOOLEAN /\ frame \in {"none", "owed", "here"}
    /\ link \in BOOLEAN /\ cancelled \in BOOLEAN /\ excused \in BOOLEAN
    /\ DOMAIN state = Targets
    /\ shown \subseteq Switches /\ fresh \in BOOLEAN
    /\ connected \in BOOLEAN /\ connectedByUs \in BOOLEAN
    /\ pc \in Before \cup Sending \cup {"resettle", "contracts", "frame", "report", "done"}
    /\ exit \in 0..3

\* What is planned: CONNECT for itself, or what checkContracts found, and then DISCONNECT.
Later == \A i \in DOMAIN plan : /\ plan[i] # "CONNECT"
                                /\ plan[i] = "DISCONNECT" => i = Len(plan)
Connects == plan = <<"CONNECT">>
Planned ==
    /\ pc \in Before => todo = <<>> /\ ~connected /\ ~connectedByUs
    /\ pc \in Before \cup {"resettle", "contracts", "report", "done"} => plan = <<>>
    /\ pc \in Sending => Connects \/ Later
    /\ pc = "command" /\ Connects => todo = <<>>
    /\ pc = "waiting" /\ Connects => todo = <<>> \/ (todo = <<"CONNECT">> /\ online = dev.connected)
    /\ Connects => ~connectedByUs /\ ~connected
    /\ pc = "frame" => Later
    /\ pc = "waiting" => plan # <<>>
    /\ pc \in {"dial", "discover", "settle", "next", "anchor"} => fails = {}

\* The store shows the switches that the device has On, if it has its CONNECTION.  The
\* run connects only what does not appear connected, and takes it for connected only if
\* it was not.
Synced ==
    /\ shown = IF "CONNECTION" \in seen THEN dev.on[online] ELSE {}
    /\ pc \in Before => online = dev.connected
    /\ connectedByUs \/ Connects => "CONNECTION" \in seen /\ ~Appears
    /\ Connects /\ dev.connected => online
    /\ connectedByUs => ~dev.connected

\* A device that the run takes for connected shows it, until it is sent DISCONNECT.
Live ==
    /\ connected => "CONNECT" \notin Names(todo)
    /\ pc \in {"resettle", "contracts"} \/ Connects => "DISCONNECT" \notin Names(todo)
    /\ connected /\ (pc \in {"resettle", "contracts"} \/ Names(plan) \cap Changing # {})
         => "CONNECT" \in dev.on[online] /\ "DISCONNECT" \notin Names(todo)
    /\ pc = "resettle" => connected
    /\ Names(plan) \cap Changing # {} => mutate /\ (connected \/ "CONNECTION" \notin props)

\* What is not mentioned has settled: a device that the run did not connect, or has
\* disconnected, is as it was.
Mentioned ==
    Mentions("CONNECT") \/ Mentions("DISCONNECT") \/ <<"OneOfMany", "CONNECTION">> \in fails
Kept ==
    IF connectedByUs
    THEN /\ "CONNECT" \notin Names(todo) /\ "DISCONNECT" \notin dev.on[TRUE]
         /\ pc \notin {"resettle", "contracts"} /\ "DISCONNECT" \notin Names(plan) => ~online
    ELSE (pc = "waiting" /\ Connects)
           \/ (online = dev.connected /\ Names(todo) \subseteq Changing)
Restoring ==
    /\ Mentioned \/ Kept
    /\ connectedByUs \/ "DISCONNECT" \notin Names(plan)
    /\ Connects /\ pc = "command" => online = dev.connected

Base == Shape /\ Planned /\ Synced /\ Live /\ Restoring

-----------------------------------------------------------------------------
(* The invariant behind VerdictIsDevice *)

\* A device that is found connected has defined everything, only CONNECT can be answered
\* by a hollow Ok, and a CONNECTION that is defined again is not in Alert.
Ordinary ==
    /\ dev.connected => dev.late = <<>>
    /\ \A c \in Command : dev.reply[c] = "Hollow" => c = "CONNECT"
    /\ "CONNECTION" \in Names(dev.late) => "CONNECTION" \notin dev.alerted

Clear  == link /\ ~cancelled /\ ~excused
Doomed == fails # {} /\ ~Conforms

Initially == Names(dev.early)
Reach  == Appears \/ mutate
All    == Initially \cup (IF mutate /\ ~Appears THEN Names(dev.late) ELSE {})
Bits   == IF "DRIVER_INFO" \in Initially THEN dev.iface ELSE {}

Meets(i, ps) ==
    LET sound == ps \ dev.wrong IN
    /\ i = "TELESCOPE" => {"EQUATORIAL_EOD_COORD", "ON_COORD_SET", "TELESCOPE_ABORT_MOTION"} \subseteq sound
    /\ i = "GUIDER" => {"TELESCOPE_TIMED_GUIDE_NS", "TELESCOPE_TIMED_GUIDE_WE"} \subseteq sound
    /\ i = "CCD" => {"CCD_EXPOSURE", "CCD_INFO"} \subseteq sound /\ {"CCD1", "CCD2"} \cap sound # {}
    /\ i = "FOCUSER" => "ABS_FOCUS_POSITION" \in ps \/ {"FOCUS_MOTION", "FOCUS_TIMER"} \subseteq ps
    /\ i = "FILTER" => "FILTER_SLOT" \in sound
    /\ i = "DOME" => {"DOME_MOTION", "ABS_DOME_POSITION"} \cap ps # {}
    /\ i = "GPS" => {"GEOGRAPHIC_COORD", "TIME_UTC"} \subseteq ps
    /\ i = "WEATHER" => "WEATHER_STATUS" \in sound
    /\ i = "ROTATOR" => "ABS_ROTATOR_ANGLE" \in sound

Inspected ==
    /\ Initially \cap dev.odd = {}
    /\ "DRIVER_INFO" \in Initially => dev.driver = "numeric"
    /\ "CONNECTION" \in Initially \ dev.wrong
Contracted == Reach => \A i \in Bits : Meets(i, All)

\* The commands that Conforms asks something of, and what it asks.
Due(c) ==
    /\ mutate
    /\ c \in {"CONNECT", "DISCONNECT"} => ~Appears
    /\ c \in {"PULSE_NS", "PULSE_WE"} => "GUIDER" \in Bits
    /\ c = "EXPOSE" => "CCD" \in Bits
Satisfies(c) ==
    /\ Obeys(c)
    /\ c = "CONNECT" => dev.on[TRUE] = {"CONNECT"}
    /\ c = "DISCONNECT" /\ dev.reply[c] # "Silent" => dev.on[FALSE] = {"DISCONNECT"}
    /\ c \in {"PULSE_NS", "PULSE_WE"} => ~(dev.reply[c] = "Silent" /\ Target[c] \in dev.alerted)
    /\ c = "EXPOSE" => dev.frame = "fits"

Silent(c) == dev.reply[c] = "Silent"
Quiet == \A i \in DOMAIN todo : Silent(todo[i])

\* How far the command that is waited for has come: it has been answered, or not yet.
Answered(c) ==
    /\ ~Silent(c) /\ fresh /\ c \notin Names(todo)
    /\ state[Target[c]] = IF dev.reply[c] = "Hollow" THEN "Ok" ELSE dev.reply[c]
    /\ dev.reply[c] \in {"Ok", "Idle"} =>
         /\ c = "CONNECT" => online
         /\ c = "DISCONNECT" => ~online
         /\ c = "EXPOSE" => (dev.frame # "none" => frame # "none")
Unanswered(c) ==
    /\ fresh => state[Target[c]] = "Busy"
    /\ Silent(c) \/ c \in Names(todo)
    /\ Silent(c) => ~fresh
Outstanding(c) ==
    /\ \A i \in DOMAIN todo : Silent(todo[i]) \/ (todo[i] = c /\ i = Len(todo))
    /\ Answered(c) \/ Unanswered(c)
    /\ c = "CONNECT" /\ dev.reply[c] \notin {"Ok", "Idle"} => online = dev.connected

\* What has arrived.
Arrived == coming = <<>> /\ seen = All
Arrivals ==
    CASE pc \in {"dial", "discover", "settle"} -> seen \cup Names(coming) = Initially
      [] pc \in {"next", "anchor", "inspect"} \/ (pc = "command" /\ Connects) ->
           coming = <<>> /\ seen = Initially
      [] pc = "waiting" /\ Connects ->
           /\ Names(coming) \subseteq Names(dev.late) /\ Initially \subseteq seen
           /\ IF online THEN seen \cup Names(coming) = All ELSE coming = <<>> /\ seen = Initially
      [] pc = "resettle" -> seen \cup Names(coming) = All
      [] OTHER -> Arrived

\* The device is what it should be, as far as the run has looked: its first snapshot,
Sound == pc \notin Before => Inspected /\ iface = Bits
\* its answer to CONNECT,
Joined ==
    /\ pc \notin Before /\ ~Connects => /\ Due("CONNECT") => Satisfies("CONNECT")
                                        /\ (connected <=> Reach)
                                        /\ (connectedByUs <=> Due("DISCONNECT"))
    /\ Connects => Due("CONNECT")
    /\ pc = "contracts" => props = All
\* and its contracts and the commands that are no longer planned.
Checked ==
    pc \in {"command", "waiting", "frame", "report"} /\ ~Connects =>
      /\ Contracted
      /\ \A c \in Command : c \in Names(plan) => Due(c)
      /\ \A c \in Command \ {"CONNECT"} :
           Due(c) => c \in Names(plan) \/ Satisfies(c) \/ (c = "EXPOSE" /\ pc = "frame")
Framing ==
    pc = "frame" => /\ Due("EXPOSE") /\ dev.reply["EXPOSE"] = "Ok"
                    /\ dev.frame # "none" => frame # "none"
Progress == IF pc = "waiting" THEN Outstanding(Head(plan)) ELSE Quiet

Hopeful == fails = {} /\ Arrivals /\ Sound /\ Joined /\ Checked /\ Framing /\ Progress

\* A pulse that is not answered leaves its property's state alone.
Alerted ==
    /\ frame # "none" => dev.frame # "none"
    /\ \A c \in {"PULSE_NS", "PULSE_WE"} : Silent(c) =>
         (state[Target[c]] = "Alert" <=> Target[c] \in dev.alerted /\ Target[c] \in seen)

Verdict ==
    IF pc = "done" THEN VerdictIsDevice
    ELSE exit = Running /\ (Clear => Doomed \/ Hopeful)

IInv == Base /\ Alerted /\ (Ordinary => Verdict)

-----------------------------------------------------------------------------
(* Sequences, commands and devices *)

\* What a sequence names: one without elements, or with one, ...
LEMMA NamesOf ==
    /\ Names(<<>>) = {}
    /\ \A e : Names(<<e>>) = {e}
BY DEF Names

\* ... grown at its end, ...
LEMMA NamesAppend ==
    ASSUME NEW S, NEW s \in Seq(S), NEW e \in S
    PROVE  Append(s, e) \in Seq(S) /\ Names(Append(s, e)) = Names(s) \cup {e}
<1>1. /\ DOMAIN Append(s, e) = 1..(Len(s) + 1) /\ DOMAIN s = 1..Len(s)
      /\ \A i \in 1..Len(s) : Append(s, e)[i] = s[i]
      /\ Append(s, e)[Len(s) + 1] = e
  OBVIOUS
<1>2. QED
  BY <1>1 DEF Names

\* ... joined to another, ...
LEMMA NamesConcat ==
    ASSUME NEW S, NEW s \in Seq(S), NEW r \in Seq(S)
    PROVE  s \o r \in Seq(S) /\ Names(s \o r) = Names(s) \cup Names(r)
<1>1. /\ DOMAIN (s \o r) = 1..(Len(s) + Len(r)) /\ DOMAIN s = 1..Len(s) /\ DOMAIN r = 1..Len(r)
      /\ \A i \in 1..Len(s) : (s \o r)[i] = s[i]
      /\ \A i \in 1..Len(r) : (s \o r)[Len(s) + i] = r[i]
      /\ Len(s) \in Nat /\ Len(r) \in Nat
  OBVIOUS
<1>2. ASSUME NEW x \in Names(s \o r) PROVE x \in Names(s) \cup Names(r)
  <2>1. PICK i \in 1..(Len(s) + Len(r)) : x = (s \o r)[i]
    BY <1>1 DEF Names
  <2>2. CASE i <= Len(s)
    BY <1>1, <2>1, <2>2 DEF Names
  <2>3. CASE i > Len(s)
    <3>1. i - Len(s) \in 1..Len(r) /\ i = Len(s) + (i - Len(s))
      BY <1>1, <2>1, <2>3
    <3>2. QED
      BY <1>1, <2>1, <3>1 DEF Names
  <2>4. QED
    BY <1>1, <2>1, <2>2, <2>3
<1>3. Names(s) \subseteq Names(s \o r)
  BY <1>1 DEF Names
<1>4. ASSUME NEW x \in Names(r) PROVE x \in Names(s \o r)
  <2>1. PICK i \in 1..Len(r) : x = r[i]
    BY <1>1 DEF Names
  <2>2. Len(s) + i \in 1..(Len(s) + Len(r))
    BY <1>1
  <2>3. QED
    BY <1>1, <2>1, <2>2 DEF Names
<1>5. QED
  BY <1>2, <1>3, <1>4

\* ... and cut at its head.
LEMMA NamesTail ==
    ASSUME NEW S, NEW s \in Seq(S), s # <<>>
    PROVE  /\ Tail(s) \in Seq(S) /\ Head(s) \in S
           /\ Names(s) = {Head(s)} \cup Names(Tail(s))
           /\ Len(s) \in Nat \ {0} /\ Len(Tail(s)) = Len(s) - 1
           /\ Head(s) = s[1] /\ \A i \in DOMAIN Tail(s) : i + 1 \in DOMAIN s /\ Tail(s)[i] = s[i + 1]
<1>1. /\ Len(s) \in Nat \ {0} /\ Head(s) = s[1] /\ Head(s) \in S
      /\ Tail(s) \in Seq(S) /\ Len(Tail(s)) = Len(s) - 1
      /\ DOMAIN s = 1..Len(s) /\ DOMAIN Tail(s) = 1..(Len(s) - 1)
      /\ \A i \in 1..(Len(s) - 1) : Tail(s)[i] = s[i + 1]
  OBVIOUS
<1>2. ASSUME NEW i \in 1..Len(s), i # 1 PROVE s[i] \in Names(Tail(s))
  <2>1. i - 1 \in 1..(Len(s) - 1) /\ s[i] = Tail(s)[i - 1]
    BY <1>1, <1>2
  <2>2. QED
    BY <1>1, <2>1 DEF Names
<1>3. ASSUME NEW i \in 1..(Len(s) - 1) PROVE i + 1 \in 1..Len(s) /\ Tail(s)[i] = s[i + 1]
  BY <1>1
<1>4. Names(s) \subseteq {Head(s)} \cup Names(Tail(s))
  BY <1>1, <1>2 DEF Names
<1>5. Names(Tail(s)) \subseteq Names(s) /\ Head(s) \in Names(s)
  <2>1. 1 \in DOMAIN s
    BY <1>1
  <2>2. QED
    BY <1>1, <1>3, <2>1 DEF Names
<1>6. QED
  BY <1>1, <1>3, <1>4, <1>5

\* The commands and their properties.
LEMMA TargetsAre ==
    /\ \A c \in Command : Target[c] \in Targets
    /\ Target["CONNECT"] = "CONNECTION" /\ Target["DISCONNECT"] = "CONNECTION"
    /\ Target["PULSE_NS"] = "TELESCOPE_TIMED_GUIDE_NS"
    /\ Target["PULSE_WE"] = "TELESCOPE_TIMED_GUIDE_WE"
    /\ Target["EXPOSE"] = "CCD_EXPOSURE"
BY DEF Command, Targets, Target, Names

\* What is known of a device.
LEMMA DevicesAre ==
    ASSUME NEW d \in Devices
    PROVE  /\ d.early \in Seq(STRING) /\ d.late \in Seq(STRING) /\ d.connected \in BOOLEAN
           /\ d.iface \subseteq contractBits /\ d.driver \in {"numeric", "junk", "lacking"}
           /\ \A c \in Command : d.reply[c] \in {"Ok", "Idle", "Alert", "Hollow", "Silent"}
           /\ d.frame \in {"fits", "empty", "other", "missized", "none"}
           /\ \A b \in BOOLEAN : d.on[b] \subseteq Switches
BY ConformAssumption DEF ConformAssumption, Device

\* What follows the first command of a plan.
LEMMA PlanTail ==
    ASSUME plan \in Seq(Command), plan # <<>>, Connects \/ Later
    PROVE  /\ Head(plan) \in Command /\ Tail(plan) \in Seq(Command)
           /\ Names(plan) = {Head(plan)} \cup Names(Tail(plan))
           /\ \A i \in DOMAIN Tail(plan) : /\ Tail(plan)[i] # "CONNECT"
                                           /\ Tail(plan)[i] = "DISCONNECT" => i = Len(Tail(plan))
           /\ Head(plan) \in {"CONNECT", "DISCONNECT"} => Tail(plan) = <<>>
           /\ Connects <=> Head(plan) = "CONNECT"
           /\ "CONNECT" \notin Names(Tail(plan))
<1>1. /\ Head(plan) \in Command /\ Tail(plan) \in Seq(Command)
      /\ Names(plan) = {Head(plan)} \cup Names(Tail(plan))
      /\ Len(plan) \in Nat \ {0} /\ Len(Tail(plan)) = Len(plan) - 1
      /\ Head(plan) = plan[1]
      /\ \A i \in DOMAIN Tail(plan) : i + 1 \in DOMAIN plan /\ Tail(plan)[i] = plan[i + 1]
  BY NamesTail
<1>2. DOMAIN plan = 1..Len(plan) /\ DOMAIN Tail(plan) = 1..Len(Tail(plan))
  BY <1>1
<1>3. CASE Connects
  <2>1. Head(plan) = "CONNECT" /\ Tail(plan) = <<>>
    BY <1>3 DEF Connects
  <2>2. PICK t : t = Tail(plan)
    OBVIOUS
  <2>3. t = <<>>
    BY <2>1, <2>2
  <2>4. \A i \in DOMAIN <<>> : FALSE
    OBVIOUS
  <2>5. DOMAIN t = {} /\ Names(t) = {}
    BY <2>3, <2>4, NamesOf
  <2>6. QED
    BY <1>1, <1>3, <2>1, <2>2, <2>5
<1>4. CASE Later
  <2>1. 1 \in DOMAIN plan
    BY <1>1, <1>2
  <2>2. Head(plan) # "CONNECT"
    BY <1>1, <1>4, <2>1 DEF Later
  <2>3. \A i \in DOMAIN Tail(plan) : /\ Tail(plan)[i] # "CONNECT"
                                     /\ Tail(plan)[i] = "DISCONNECT" => i = Len(Tail(plan))
    BY <1>1, <1>2, <1>4 DEF Later
  <2>4. Head(plan) = "DISCONNECT" => Tail(plan) = <<>>
    <3>1. SUFFICES ASSUME Head(plan) = "DISCONNECT" PROVE Tail(plan) = <<>>
      OBVIOUS
    <3>2. 1 = Len(plan)
      BY <1>1, <1>4, <2>1, <3>1 DEF Later
    <3>3. PICK t \in Seq(Command) : t = Tail(plan)
      BY <1>1
    <3>4. Len(t) = 0
      BY <1>1, <3>2, <3>3
    <3>5. t = <<>>
      BY <3>4
    <3>6. QED
      BY <3>3, <3>5
  <2>5. ~Connects
    BY <2>2 DEF Connects
  <2>6. QED
    BY <1>1, <2>2, <2>3, <2>4, <2>5 DEF Names
<1>5. QED
  BY <1>3, <1>4

-----------------------------------------------------------------------------
(* The first part of the invariant: the environment *)

\* A run starts in it.
LEMMA InitBase == Init => Base
<1> SUFFICES ASSUME Init PROVE Base
  OBVIOUS
<1>1. dev \in Devices /\ mutate \in BOOLEAN
  BY ConformAssumption DEF Init, ConformAssumption
<1>2. Shape
  <2>1. coming \in Seq(STRING) /\ online \in BOOLEAN
    BY <1>1, DevicesAre DEF Init
  <2>2. todo = <<>> /\ plan = <<>>
    BY DEF Init
  <2>3. todo \in Seq(Command) /\ plan \in Seq(Command)
    BY <2>2
  <2>4. DOMAIN state = Targets
    BY DEF Init, Targets
  <2>5. /\ busy \in BOOLEAN /\ link \in BOOLEAN /\ cancelled \in BOOLEAN /\ excused \in BOOLEAN
        /\ shown \subseteq Switches /\ fresh \in BOOLEAN
        /\ connected \in BOOLEAN /\ connectedByUs \in BOOLEAN
    BY DEF Init
  <2>6. frame = "none" /\ pc = "dial" /\ exit \in 0..3
    BY DEF Init, Running
  <2>7. QED
    BY <1>1, <2>1, <2>3, <2>4, <2>5, <2>6 DEF Shape, Before
<1>3. plan = <<>> /\ todo = <<>> /\ fails = {} /\ pc = "dial"
  BY DEF Init
<1>4. ~Connects /\ Names(plan) = {} /\ Names(todo) = {}
  BY <1>3, NamesOf DEF Connects
<1>5. Planned /\ Synced
  BY <1>1, <1>3, <1>4, DevicesAre DEF Init, Planned, Synced, Before, Sending
<1>6. Live /\ Restoring
  BY <1>3, <1>4 DEF Init, Live, Restoring, Kept, Changing
<1>7. QED
  BY <1>2, <1>5, <1>6 DEF Base

\* What the run and its commands are left out of, the invariant is too.
LEMMA BaseStays ==
    ASSUME Base, Shape', UNCHANGED <<given, online, todo, seen, shown, run>> PROVE Base'
<1> USE DEF given, run, Base
<1>1. Connects' = Connects /\ Later' = Later
  BY DEF Connects, Later
<1>2. Planned' /\ Synced'
  BY <1>1 DEF Planned, Synced, Appears
<1>3. Live'
  BY <1>1 DEF Live
<1>4. Restoring'
  BY <1>1 DEF Restoring, Mentioned, Mentions, Kept
<1>5. QED
  BY <1>2, <1>3, <1>4

\* A device's Busy, its frame, an update of no consequence, and the end of the
\* connection or of ctx.
LEMMA OthersKeepBase ==
    ASSUME Base, Begin \/ FrameArrives \/ Chatter \/ LoseLink \/ Cancel PROVE Base'
<1> USE DEF given, net, store, run, device, Base, Shape
<1>1. CASE Begin
  BY <1>1, BaseStays DEF Begin, Show, Frames
<1>2. CASE FrameArrives
  BY <1>2, BaseStays DEF FrameArrives
<1>3. CASE Chatter
  BY <1>3, BaseStays DEF Chatter
<1>4. CASE LoseLink
  <2>1. link' \in BOOLEAN
    BY <1>4 DEF LoseLink
  <2>2. UNCHANGED <<device, cancelled, store, run, excused>>
    BY <1>4 DEF LoseLink
  <2>3. Shape'
    BY <2>1, <2>2
  <2>4. QED
    BY <2>2, <2>3, BaseStays
<1>5. CASE Cancel
  BY <1>5, BaseStays DEF Cancel
<1>6. QED
  BY <1>1, <1>2, <1>3, <1>4, <1>5

\* A definition shows whether the device is connected.
LEMMA DefineKeepsBase == ASSUME Base, Define PROVE Base'
<1> USE DEF given, net, run, Base
<1>1. /\ UNCHANGED <<given, online, todo, busy, frame, net, run, excused>>
      /\ coming' = Tail(coming) /\ seen' = seen \cup {Head(coming)} /\ coming # <<>>
      /\ shown' = IF Head(coming) = "CONNECTION" THEN dev.on[online] ELSE shown
      /\ fresh' = (fresh \/ Awaits(Head(coming)))
      /\ DOMAIN state' = DOMAIN state
  BY DEF Define
<1>2. coming' \in Seq(STRING) /\ shown' \subseteq Switches /\ fresh' \in BOOLEAN
  <2>1. coming' \in Seq(STRING) /\ shown' \subseteq Switches
    BY <1>1, NamesTail, DevicesAre DEF Shape
  <2>2. fresh' \in BOOLEAN
    BY <1>1 DEF Shape, Awaits
  <2>3. QED
    BY <2>1, <2>2
<1>3. Shape'
  BY <1>1, <1>2 DEF Shape
<1>4. Connects' = Connects /\ Later' = Later
  BY <1>1 DEF Connects, Later
<1>5. Planned' /\ Live'
  BY <1>1, <1>4 DEF Planned, Live
<1>6. Synced'
  BY <1>1, <1>4 DEF Synced, Appears
<1>7. Restoring'
  BY <1>1, <1>4 DEF Restoring, Mentioned, Mentions, Kept
<1>8. QED
  BY <1>3, <1>5, <1>6, <1>7

\* What is no longer to be done is not done.
LEMMA IgnoreKeepsBase == ASSUME Base, Ignore PROVE Base'
<1> USE DEF given, net, store, run, Base
<1>1. /\ UNCHANGED <<given, online, coming, busy, frame, net, store, run, excused>>
      /\ todo' = Tail(todo) /\ todo # <<>>
  BY DEF Ignore
<1>2. todo' \in Seq(Command) /\ Names(todo') \subseteq Names(todo)
  BY <1>1, NamesTail DEF Shape
<1>3. Shape'
  BY <1>1, <1>2 DEF Shape
<1>4. Connects' = Connects /\ Later' = Later
  BY <1>1 DEF Connects, Later
<1>5. Planned' /\ Synced'
  <2>1. todo = <<"CONNECT">> => todo' = <<>>
    BY <1>1
  <2>2. todo # <<>>
    BY <1>1
  <2>3. QED
    BY <1>1, <1>4, <2>1, <2>2 DEF Planned, Synced, Appears
<1>6. Names(todo)' \subseteq Names(todo)
  BY <1>2
<1>7. Live'
  BY <1>1, <1>4, <1>6 DEF Live
<1>8. Restoring'
  BY <1>1, <1>4, <1>6 DEF Restoring, Mentioned, Mentions, Kept
<1>9. QED
  BY <1>3, <1>5, <1>7, <1>8

\* An answer changes what is connected only as it was asked to.
LEMMA AnswerKeepsBase == ASSUME Base, Answer PROVE Base'
<1> USE DEF given, net, run, Base
<1>1. PICK c : c = Head(todo)
  OBVIOUS
<1>2. /\ UNCHANGED <<given, net, seen, run, excused>>
      /\ todo # <<>> /\ todo' = Tail(todo) /\ busy' = FALSE
      /\ online' = CASE c = "CONNECT" /\ dev.reply[c] \in {"Ok", "Idle"} -> TRUE
                     [] c = "DISCONNECT" /\ dev.reply[c] \in {"Ok", "Idle"} -> FALSE
                     [] OTHER -> online
      /\ shown' = IF "CONNECTION" \in seen THEN dev.on[online'] ELSE shown
      /\ coming' = IF c = "CONNECT" /\ dev.reply[c] \in {"Ok", "Idle"} THEN coming \o dev.late ELSE coming
      /\ frame' = IF dev.reply[c] \in {"Ok", "Idle"} THEN Frames(c) ELSE frame
  BY <1>1 DEF Answer
<1>3. Show(Target[c], IF dev.reply[c] = "Hollow" THEN "Ok" ELSE dev.reply[c])
  BY <1>1 DEF Answer
<1>4. /\ c \in Command /\ todo' \in Seq(Command) /\ Names(todo) = {c} \cup Names(todo')
  BY <1>1, <1>2, NamesTail DEF Shape
<1>5. Shape'
  <2>1. coming' \in Seq(STRING)
    BY <1>2, NamesConcat, DevicesAre DEF Shape
  <2>2. DOMAIN state' = Targets /\ fresh' \in BOOLEAN
    BY <1>3 DEF Show, Shape, Awaits
  <2>3. online' \in BOOLEAN /\ shown' \subseteq Switches
    BY <1>2, DevicesAre DEF Shape
  <2>4. frame' \in {"none", "owed", "here"}
    BY <1>2 DEF Shape, Frames
  <2>5. QED
    BY <1>2, <1>4, <2>1, <2>2, <2>3, <2>4 DEF Shape
<1>6. Connects' = Connects /\ Later' = Later
  BY <1>2 DEF Connects, Later
<1>7. pc \notin Before
  BY <1>2 DEF Planned
<1>8. Planned'
  <2>1. todo = <<"CONNECT">> => todo' = <<>>
    BY <1>2
  <2>2. todo # <<>>
    BY <1>2
  <2>3. QED
    BY <1>2, <1>6, <1>7, <2>1, <2>2 DEF Planned
<1>10. Names(todo)' \subseteq Names(todo) /\ c \in Names(todo)
  BY <1>4
<1>9. Synced'
  BY <1>2, <1>6, <1>7, <1>10 DEF Synced, Shape, Live, Appears
<1>11. Live'
  BY <1>2, <1>6, <1>10 DEF Live
<1>12. Restoring'
  <2>1. Mentioned => Mentioned'
    BY <1>2 DEF Mentioned, Mentions
  <2>2. Kept => Kept'
    BY <1>2, <1>6, <1>10 DEF Kept, Changing
  <2>3. ~(Connects /\ pc = "command")
    BY <1>2 DEF Planned
  <2>4. QED
    BY <1>2, <1>6, <2>1, <2>2, <2>3 DEF Restoring
<1>13. QED
  BY <1>5, <1>8, <1>9, <1>11, <1>12

-----------------------------------------------------------------------------
(* The first part of the invariant: the run *)

\* A step without a command, that only takes the run on.
LEMMA MoveKeepsBase ==
    ASSUME Base, UNCHANGED <<device, net, store, connected, connectedByUs, plan>>,
           fails \subseteq fails', warns \subseteq warns', exit' \in 0..3, excused' \in BOOLEAN,
           \/ pc \in {"dial", "discover", "settle", "next"} /\ pc' \in Before \cup {"report", "done"}
                /\ (pc' \in {"discover", "settle", "next", "anchor"} => fails' = fails)
                /\ pc' # "dial"
           \/ pc = "anchor" /\ pc' = "inspect"
           \/ pc = "resettle" /\ pc' = "contracts" /\ props' = seen
           \/ pc \in {"command", "report"} /\ pc' \in {"report", "done"} /\ plan = <<>>
    PROVE  Base'
<1> USE DEF given, device, net, store, Base
<1>1. Connects' = Connects /\ Later' = Later
  BY DEF Connects, Later
<1>2. (plan = <<>> => ~Connects /\ Names(plan) = {}) /\ pc' \notin {"resettle"} \cup Sending
  BY NamesOf DEF Connects, Before, Sending
<1>3. Shape'
  BY DEF Shape, Before
<1>4. Planned'
  BY <1>1, <1>2 DEF Planned, Before, Sending
<1>5. Synced'
  BY <1>1, <1>2 DEF Synced, Before, Appears
<1>6. pc' # "frame" /\ plan = <<>>
  BY DEF Planned, Before
<1>7. Live'
  BY <1>1, <1>2, <1>6 DEF Live, Before
<1>8. Mentioned => Mentioned'
  BY DEF Mentioned, Mentions
<1>9. Restoring'
  <2>1. Kept => Kept'
    <3>1. CASE pc \in Before
      <4>1. todo = <<>> /\ ~connectedByUs /\ Names(todo) = {} /\ online = dev.connected
        BY <3>1, NamesOf DEF Planned, Synced
      <4>2. QED
        BY <4>1 DEF Kept
    <3>2. CASE pc \notin Before
      BY <1>1, <1>2, <1>6, <3>2 DEF Kept, Before, Live, Restoring
    <3>3. QED
      BY <3>1, <3>2
  <2>2. QED
    BY <1>1, <1>2, <1>6, <1>8, <2>1 DEF Restoring
<1>10. QED
  BY <1>3, <1>4, <1>5, <1>7, <1>9

\* The steps of that kind.
LEMMA MovesKeepBase ==
    ASSUME Base, Dial \/ Discover \/ Settle \/ NextDevice \/ Anchor \/ Finish \/ Report
    PROVE  Base'
<1> USE DEF Goto, Early, device, net, store, Before
<1>0. excused \in BOOLEAN /\ exit \in 0..3
  BY DEF Base, Shape
<1>1. CASE Dial
  <2>1. /\ pc = "dial" /\ pc' \in {"discover", "done"} /\ exit' \in {exit, 2}
        /\ UNCHANGED <<device, net, store, connected, connectedByUs, plan, fails, warns, excused>>
    BY <1>1 DEF Dial
  <2>2. QED
    BY <1>0, <2>1, MoveKeepsBase
<1>2. CASE Discover
  <2>1. fails = {}
    BY <1>2 DEF Base, Planned, Discover
  <2>2. /\ pc = "discover" /\ pc' \in {"settle", "report"} /\ excused' \in BOOLEAN
        /\ pc' = "settle" => fails' = fails
        /\ UNCHANGED <<device, net, store, connected, connectedByUs, plan, warns, exit>>
    BY <1>0, <1>2 DEF Discover
  <2>3. QED
    BY <1>0, <2>1, <2>2, MoveKeepsBase
<1>3. CASE Settle
  <2>1. /\ \/ pc = "settle" /\ pc' = "next"
           \/ pc = "resettle" /\ pc' = "contracts" /\ props' = seen
        /\ excused' \in BOOLEAN
        /\ UNCHANGED <<device, net, store, connected, connectedByUs, plan, fails, warns, exit>>
    BY <1>0, <1>3 DEF Settle
  <2>2. QED
    BY <1>0, <2>1, MoveKeepsBase
<1>4. CASE NextDevice
  <2>1. /\ pc = "next" /\ pc' \in {"anchor", "report"}
        /\ fails \subseteq fails' /\ (pc' = "anchor" => fails' = fails)
        /\ UNCHANGED <<device, net, store, connected, connectedByUs, plan, warns, exit, excused>>
    BY <1>4 DEF NextDevice
  <2>2. QED
    BY <1>0, <2>1, MoveKeepsBase
<1>5. CASE Anchor
  <2>1. /\ pc = "anchor" /\ pc' = "inspect" /\ excused' \in BOOLEAN
        /\ UNCHANGED <<device, net, store, connected, connectedByUs, plan, fails, warns, exit>>
    BY <1>0, <1>5 DEF Anchor
  <2>2. QED
    BY <1>0, <2>1, MoveKeepsBase
<1>6. CASE Finish
  <2>1. /\ pc = "command" /\ pc' = "report" /\ plan = <<>> /\ fails \subseteq fails'
        /\ UNCHANGED <<device, net, store, connected, connectedByUs, plan, warns, exit, excused>>
    BY <1>6 DEF Finish
  <2>2. QED
    BY <1>0, <2>1, MoveKeepsBase
<1>7. CASE Report
  <2>1. /\ pc = "report" /\ pc' = "done" /\ exit' \in {0, 1} /\ plan = <<>>
        /\ UNCHANGED <<device, net, store, connected, connectedByUs, plan, fails, warns, excused>>
    BY <1>7 DEF Report, Base, Planned
  <2>2. QED
    BY <1>0, <2>1, MoveKeepsBase
<1>8. QED
  BY <1>1, <1>2, <1>3, <1>4, <1>5, <1>6, <1>7

\* The checks on the first snapshot, and the decision to connect.
LEMMA InspectKeepsBase == ASSUME Base, Inspect PROVE Base'
<1> USE DEF given, device, net, store, Base, Goto, Before, Sending
<1>1. /\ pc = "inspect" /\ UNCHANGED <<device, net, store, connectedByUs, exit, excused>>
      /\ connected' = ("CONNECTION" \in seen /\ "CONNECT" \in shown)
      /\ \/ connected' /\ pc' = "resettle" /\ plan' = plan
         \/ ~connected' /\ mutate /\ "CONNECTION" \in seen /\ pc' = "command" /\ plan' = <<"CONNECT">>
         \/ ~connected' /\ pc' = "contracts" /\ plan' = plan
  BY DEF Inspect
<1>2. /\ todo = <<>> /\ plan = <<>> /\ ~connectedByUs /\ online = dev.connected
  BY <1>1 DEF Planned, Synced
<1>3. /\ Names(todo) = {} /\ Names(plan) = {} /\ Names(<<"CONNECT">>) = {"CONNECT"}
  BY <1>2, NamesOf
<1>4. connected' \in BOOLEAN /\ plan' \in Seq(Command)
  <2>1. <<"CONNECT">> \in Seq(Command) /\ <<>> \in Seq(Command)
    BY DEF Command
  <2>2. QED
    BY <1>1, <1>2, <2>1 DEF Shape
<1>5. Shape'
  BY <1>1, <1>4 DEF Shape
<1>6. ~(plan = <<"CONNECT">>)
  BY <1>2
<1>7. Connects' <=> pc' = "command"
  BY <1>1, <1>6 DEF Connects
<1>8. Planned'
  BY <1>1, <1>2, <1>7 DEF Planned
<1>9. Synced'
  BY <1>1, <1>2, <1>7 DEF Synced, Shape, Appears
<1>10. Names(plan)' \cap Changing = {} /\ "DISCONNECT" \notin Names(plan)'
  BY <1>1, <1>3 DEF Changing
<1>11. Live'
  BY <1>1, <1>3, <1>10 DEF Live, Synced
<1>12. Restoring'
  BY <1>1, <1>2, <1>3, <1>10 DEF Restoring, Kept
<1>13. QED
  BY <1>5, <1>8, <1>9, <1>11, <1>12

\* A DISCONNECT after pulses and an exposure comes last.
LEMMA LastOf ==
    ASSUME NEW s \in Seq(Command), NEW r \in Seq(Command), Len(r) \in 0..1,
           \A i \in 1..Len(s) : s[i] \in Changing,
           \A i \in 1..Len(r) : r[i] = "DISCONNECT"
    PROVE  \A i \in DOMAIN (s \o r) :
             /\ (s \o r)[i] # "CONNECT"
             /\ (s \o r)[i] = "DISCONNECT" => i = Len(s \o r)
<1>1. /\ DOMAIN (s \o r) = 1..(Len(s) + Len(r)) /\ Len(s \o r) = Len(s) + Len(r)
      /\ Len(s) \in Nat /\ Len(r) \in Nat
      /\ \A i \in 1..Len(s) : (s \o r)[i] = s[i]
      /\ \A i \in 1..Len(r) : (s \o r)[Len(s) + i] = r[i]
  OBVIOUS
<1>2. TAKE i \in DOMAIN (s \o r)
<1>3. CASE i <= Len(s)
  <2>1. (s \o r)[i] \in Changing
    BY <1>1, <1>3
  <2>2. QED
    BY <2>1 DEF Changing
<1>4. CASE i > Len(s)
  <2>1. i - Len(s) \in 1..Len(r) /\ i = Len(s) + (i - Len(s))
    BY <1>1, <1>4
  <2>2. (s \o r)[i] = "DISCONNECT"
    BY <1>1, <2>1
  <2>3. i = Len(s) + Len(r)
    BY <1>1, <2>1
  <2>4. QED
    BY <1>1, <2>2, <2>3
<1>5. QED
  BY <1>1, <1>3, <1>4

\* What checkContracts plans: pulses and an exposure if the device is live, and then,
\* for a device the run has connected, DISCONNECT.
LEMMA PlanOf ==
    ASSUME mutate \in BOOLEAN, connected \in BOOLEAN, connectedByUs \in BOOLEAN,
           NEW p, p = mutations(connected \/ "CONNECTION" \notin props) \o restore
    PROVE  /\ p \in Seq(Command)
           /\ \A i \in DOMAIN p : /\ p[i] # "CONNECT"
                                  /\ p[i] = "DISCONNECT" => i = Len(p)
           /\ ("DISCONNECT" \in Names(p)) <=> connectedByUs
           /\ "CONNECT" \notin Names(p)
           /\ \A c \in Changing :
                (c \in Names(p)) <=> /\ mutate /\ (connected \/ "CONNECTION" \notin props)
                                     /\ IF c = "EXPOSE" THEN "CCD" \in iface /\ "CCD_EXPOSURE" \in props
                                        ELSE "GUIDER" \in iface
<1>1. PICK g \in Seq(Changing) :
        /\ g = IF "GUIDER" \in iface THEN <<"PULSE_NS", "PULSE_WE">> ELSE <<>>
        /\ Names(g) = IF "GUIDER" \in iface THEN {"PULSE_NS", "PULSE_WE"} ELSE {}
  <2>1. <<"PULSE_NS", "PULSE_WE">> \in Seq(Changing) /\ <<>> \in Seq(Changing)
    BY DEF Changing
  <2>2. Names(<<"PULSE_NS", "PULSE_WE">>) = {"PULSE_NS", "PULSE_WE"}
    BY DEF Names
  <2>3. QED
    BY <2>1, <2>2, NamesOf
<1>2. PICK e \in Seq(Changing) :
        /\ e = IF "CCD" \in iface /\ "CCD_EXPOSURE" \in props THEN <<"EXPOSE">> ELSE <<>>
        /\ Names(e) = IF "CCD" \in iface /\ "CCD_EXPOSURE" \in props THEN {"EXPOSE"} ELSE {}
  <2>1. <<"EXPOSE">> \in Seq(Changing) /\ <<>> \in Seq(Changing)
    BY DEF Changing
  <2>2. QED
    BY <2>1, NamesOf
<1>3. changes \in Seq(Changing) /\ Names(changes) = Names(g) \cup Names(e)
  <2>1. changes = g \o e
    BY <1>1, <1>2 DEF changes
  <2>2. QED
    BY <2>1, NamesConcat
<1>4. PICK s \in Seq(Changing) :
        /\ s = mutations(connected \/ "CONNECTION" \notin props)
        /\ Names(s) = IF mutate /\ (connected \/ "CONNECTION" \notin props) THEN Names(changes) ELSE {}
  <2>1. <<>> \in Seq(Changing)
    OBVIOUS
  <2>2. QED
    BY <1>3, <2>1, NamesOf DEF mutations
<1>5. /\ restore \in Seq({"DISCONNECT"}) /\ Len(restore) \in 0..1
      /\ Names(restore) = IF connectedByUs THEN {"DISCONNECT"} ELSE {}
  <2>1. <<"DISCONNECT">> \in Seq({"DISCONNECT"}) /\ Len(<<"DISCONNECT">>) = 1
    OBVIOUS
  <2>2. <<>> \in Seq({"DISCONNECT"}) /\ Len(<<>>) = 0
    OBVIOUS
  <2>3. CASE connectedByUs
    <3>1. restore = <<"DISCONNECT">>
      BY <2>3 DEF restore
    <3>2. Names(<<"DISCONNECT">>) = {"DISCONNECT"} /\ 1 \in 0..1
      BY NamesOf
    <3>3. QED
      BY <2>1, <2>3, <3>1, <3>2
  <2>4. CASE ~connectedByUs
    <3>1. restore = <<>>
      BY <2>4 DEF restore
    <3>2. Names(<<>>) = {} /\ 0 \in 0..1
      BY NamesOf
    <3>3. QED
      BY <2>2, <2>4, <3>1, <3>2
  <2>5. QED
    BY <2>3, <2>4
<1>11. PICK r \in Seq({"DISCONNECT"}) :
        /\ r = restore /\ Len(r) \in 0..1
        /\ Names(r) = IF connectedByUs THEN {"DISCONNECT"} ELSE {}
  BY <1>5
<1>6. s \in Seq(Command) /\ r \in Seq(Command)
  BY DEF Changing, Command
<1>7. p \in Seq(Command) /\ Names(p) = Names(s) \cup Names(r) /\ p = s \o r
  BY <1>4, <1>11, <1>6, NamesConcat
<1>8. \A i \in DOMAIN p : /\ p[i] # "CONNECT"
                          /\ p[i] = "DISCONNECT" => i = Len(p)
  <2>1. /\ \A i \in 1..Len(s) : s[i] \in Changing
        /\ \A i \in 1..Len(r) : r[i] = "DISCONNECT"
    OBVIOUS
  <2>2. s \in Seq(Command) /\ r \in Seq(Command) /\ Len(r) \in 0..1 /\ p = s \o r
    BY <1>6, <1>7, <1>11
  <2>3. \A i \in DOMAIN (s \o r) : /\ (s \o r)[i] # "CONNECT"
                                   /\ (s \o r)[i] = "DISCONNECT" => i = Len(s \o r)
    BY <2>1, <2>2, LastOf
  <2>4. QED
    BY <2>2, <2>3
<1>9. Names(p) = (IF mutate /\ (connected \/ "CONNECTION" \notin props) THEN Names(g) \cup Names(e) ELSE {})
                   \cup (IF connectedByUs THEN {"DISCONNECT"} ELSE {})
  BY <1>3, <1>4, <1>11, <1>7
<1>10. QED
  BY <1>1, <1>2, <1>7, <1>8, <1>9 DEF Changing

\* The plan it makes is for a live device, and ends in what is owed to the device.
LEMMA ContractsKeepBase == ASSUME Base, checkContracts PROVE Base'
<1> USE DEF given, device, net, store, Base, Goto, Before, Sending
<1>1. /\ pc = "contracts" /\ pc' = "command" /\ fails \subseteq fails'
      /\ UNCHANGED <<device, net, store, props, iface, connected, connectedByUs, warns, exit, excused>>
      /\ plan' = mutations(connected \/ "CONNECTION" \notin props) \o restore
  BY DEF checkContracts
<1>2. PICK p : p = plan'
  OBVIOUS
<1>3. /\ p \in Seq(Command)
      /\ \A i \in DOMAIN p : /\ p[i] # "CONNECT"
                             /\ p[i] = "DISCONNECT" => i = Len(p)
      /\ ("DISCONNECT" \in Names(p)) <=> connectedByUs
      /\ "CONNECT" \notin Names(p)
      /\ \A c \in Changing : c \in Names(p) => mutate /\ (connected \/ "CONNECTION" \notin props)
  BY <1>1, <1>2, PlanOf DEF Shape
<1>4. Later' /\ ~Connects'
  BY <1>2, <1>3, NamesOf DEF Later, Connects
<1>5. Shape'
  BY <1>1, <1>2, <1>3 DEF Shape
<1>6. Planned'
  BY <1>1, <1>4 DEF Planned
<1>7. Synced'
  <2>1. plan = <<>>
    BY <1>1 DEF Planned
  <2>2. QED
    BY <1>1, <1>4 DEF Synced, Appears
<1>8. Live'
  BY <1>1, <1>2, <1>3, <1>4 DEF Live
<1>9. Restoring'
  <2>1. plan = <<>>
    BY <1>1 DEF Planned
  <2>2. ~Connects
    BY <2>1 DEF Connects
  <2>3. QED
    BY <1>1, <1>2, <1>3, <1>4, <2>2 DEF Restoring, Mentioned, Mentions, Kept
<1>10. QED
  BY <1>5, <1>6, <1>7, <1>8, <1>9

\* A command that is sent is the only CONNECT, or one that does not undo what others need.
LEMMA SendKeepsBase == ASSUME Base, Send PROVE Base'
<1> USE DEF given, device, net, store, Base, Before, Sending
<1>1. PICK c : c = Head(plan)
  OBVIOUS
<1>2. /\ pc = "command" /\ plan # <<>> /\ pc' = "waiting"
      /\ todo' = Append(todo, c) /\ fresh' = FALSE
      /\ UNCHANGED <<given, online, coming, busy, frame, net, seen, state, shown, props, iface,
                     connected, connectedByUs, plan, fails, warns, exit, excused>>
  BY <1>1 DEF Send
<1>3. /\ c \in Command /\ (Connects <=> c = "CONNECT") /\ Names(plan) = {c} \cup Names(Tail(plan))
      /\ c = "DISCONNECT" => Tail(plan) = <<>>
  BY <1>1, <1>2, PlanTail DEF Shape, Planned
<1>4. c = "DISCONNECT" => Names(plan) = {"DISCONNECT"}
  <2>1. PICK t : t = Tail(plan)
    OBVIOUS
  <2>2. t = <<>> => Names(t) = {}
    BY NamesOf
  <2>3. QED
    BY <1>3, <2>1, <2>2
<1>5. todo' \in Seq(Command) /\ Names(todo') = Names(todo) \cup {c}
  BY <1>2, <1>3, NamesAppend DEF Shape
<1>6. Names(todo)' = Names(todo) \cup {c}
  BY <1>5
<1>7. Connects' = Connects /\ Later' = Later
  BY <1>2 DEF Connects, Later
<1>8. Shape'
  BY <1>2, <1>5 DEF Shape
<1>9. Planned'
  <2>1. Connects => todo' = <<"CONNECT">> /\ online = dev.connected
    <3>1. Connects => todo = <<>> /\ c = "CONNECT" /\ online = dev.connected
      BY <1>2, <1>3 DEF Planned, Restoring
    <3>2. QED
      BY <1>2, <3>1
  <2>2. QED
    BY <1>2, <1>7, <2>1 DEF Planned
<1>10. Synced'
  BY <1>2, <1>7 DEF Synced, Appears
<1>11. Live'
  <2>1. connected => c # "CONNECT"
    BY <1>3 DEF Planned
  <2>2. QED
    BY <1>2, <1>3, <1>4, <1>6, <1>7, <2>1 DEF Live, Changing
<1>12. Restoring'
  BY <1>2, <1>3, <1>6, <1>7 DEF Restoring, Mentioned, Mentions, Kept, Planned, Changing, Command
<1>13. QED
  BY <1>8, <1>9, <1>10, <1>11, <1>12

\* A command is over: what did not settle is mentioned.
LEMMA AfterKeepsBase ==
    ASSUME Base, pc \in Sending, plan # <<>>, NEW c, c = Head(plan), NEW ok \in BOOLEAN,
           After(c, ok), UNCHANGED <<props, iface, exit>>,
           fails \subseteq fails', warns \subseteq warns', excused' \in BOOLEAN,
           ok /\ c = "CONNECT" =>
             /\ pc = "waiting" /\ online /\ ~dev.connected /\ "CONNECT" \in dev.on[online]
             /\ Mentioned' \/ "DISCONNECT" \notin dev.on[TRUE],
           ok /\ c = "DISCONNECT" => Mentioned' \/ ~online,
           ~ok /\ c \in {"CONNECT", "DISCONNECT"} => Mentioned'
    PROVE  Base'
<1> USE DEF given, device, net, store, Base, Before, Sending
<1>1. /\ UNCHANGED <<device, net, store>> /\ plan' = Tail(plan)
      /\ pc' = CASE c = "CONNECT" -> IF ok THEN "resettle" ELSE "contracts"
                 [] c = "EXPOSE" /\ ok -> "frame"
                 [] OTHER -> "command"
      /\ connected' = IF c = "CONNECT" THEN ok ELSE connected
      /\ connectedByUs' = IF c = "CONNECT" THEN ok ELSE connectedByUs
  BY DEF After, Goto
<1>2. PICK t : t = Tail(plan)
  OBVIOUS
<1>3. /\ c \in Command /\ t \in Seq(Command) /\ Names(plan) = {c} \cup Names(t)
      /\ \A i \in DOMAIN t : /\ t[i] # "CONNECT"
                             /\ t[i] = "DISCONNECT" => i = Len(t)
      /\ c \in {"CONNECT", "DISCONNECT"} => t = <<>>
      /\ (Connects <=> c = "CONNECT")
      /\ "CONNECT" \notin Names(t)
  BY <1>2, PlanTail DEF Shape, Planned
<1>4. plan' = t /\ Names(plan)' = Names(t)
  BY <1>1, <1>2
<1>5. t = <<>> => Names(t) = {}
  BY NamesOf
<1>6. Later' /\ ~Connects'
  BY <1>3, <1>4, NamesOf DEF Later, Connects
<1>7. Shape'
  <2>1. connected' \in BOOLEAN /\ connectedByUs' \in BOOLEAN
    BY <1>1 DEF Shape
  <2>2. QED
    BY <1>1, <1>3, <1>4, <2>1 DEF Shape
<1>8. Planned'
  BY <1>1, <1>3, <1>4, <1>6 DEF Planned
<1>9. Synced'
  BY <1>1, <1>3, <1>6 DEF Synced, Appears
<1>13. c = "CONNECT" /\ ok => todo = <<>> /\ Names(todo) = {}
  <2>1. c = "CONNECT" /\ ok => todo = <<>>
    BY <1>3 DEF Planned, Shape
  <2>2. QED
    BY <2>1, NamesOf
<1>10. Live'
  BY <1>1, <1>3, <1>4, <1>5, <1>6, <1>13 DEF Live
<1>11. Restoring'
  <2>1. CASE c = "CONNECT"
    <3>1. t = <<>> /\ Names(t) = {} /\ Connects
      BY <1>3, <1>5, <2>1
    <3>3. ok => Names(todo) = {}
      BY <1>13, <2>1
    <3>4. QED
      BY <1>1, <1>4, <1>6, <2>1, <3>1, <3>3 DEF Restoring, Kept
  <2>2. CASE c # "CONNECT"
    <3>1. Mentioned => Mentioned'
      BY DEF Mentioned, Mentions
    <3>2. ~Connects /\ connectedByUs' = connectedByUs /\ pc' \in {"command", "frame"}
      BY <1>1, <1>3, <2>2
    <3>3. Kept /\ ~Mentioned' => Kept'
      <4>1. CASE connectedByUs
        BY <1>1, <1>3, <1>4, <1>5, <3>2, <4>1 DEF Kept
      <4>2. CASE ~connectedByUs
        <5>1. Kept => online = dev.connected /\ Names(todo) \subseteq Changing
          BY <3>2, <4>2 DEF Kept
        <5>2. Names(todo)' = Names(todo) /\ dev' = dev /\ online' = online
          BY <1>1
        <5>3. ~connectedByUs'
          BY <3>2, <4>2
        <5>4. online = dev.connected /\ Names(todo) \subseteq Changing => Kept'
          BY <5>2, <5>3 DEF Kept
        <5>5. QED
          BY <5>1, <5>4
      <4>3. QED
        BY <4>1, <4>2
    <3>4. QED
      BY <1>3, <1>4, <1>6, <3>1, <3>2, <3>3 DEF Restoring
  <2>3. QED
    BY <2>1, <2>2
<1>12. QED
  BY <1>7, <1>8, <1>9, <1>10, <1>11

\* The ways a command can be over.
LEMMA CommandsKeepBase == ASSUME Base, SendFails \/ Settled \/ TimedOut PROVE Base'
<1> USE DEF Sending
<1>1. PICK c : c = Head(plan)
  OBVIOUS
<1>2. excused \in BOOLEAN
  BY DEF Base, Shape
<1>3. CASE SendFails
  <2>1. /\ pc = "command" /\ plan # <<>> /\ After(c, FALSE) /\ UNCHANGED <<props, iface, exit, excused>>
        /\ fails \subseteq fails' /\ warns \subseteq warns'
        /\ c \notin {"PULSE_NS", "PULSE_WE"} => <<"command", c>> \in fails'
    BY <1>1, <1>3 DEF SendFails, Check
  <2>2. c \in {"CONNECT", "DISCONNECT"} => Mentioned'
    BY <2>1 DEF Mentioned, Mentions
  <2>3. QED
    BY <1>1, <1>2, <2>1, <2>2, AfterKeepsBase
<1>4. CASE Settled
  <2>1. PICK ok \in BOOLEAN : ok = Passes(c)
    BY DEF Passes
  <2>2. /\ pc = "waiting" /\ After(c, ok) /\ UNCHANGED <<props, iface, warns, exit, excused>>
        /\ fails \subseteq fails' /\ (~ok => <<"command", c>> \in fails')
    <3>1. After(c, Passes(c))
      BY <1>1, <1>4 DEF Settled
    <3>2. After(c, ok)
      BY <2>1, <3>1
    <3>3. fails' = fails \cup complaints(c)
      BY <1>1, <1>4 DEF Settled
    <3>4. ~ok => complaints(c) = {<<"command", c>>}
      BY <2>1 DEF complaints, Check
    <3>5. QED
      BY <1>1, <1>4, <2>1, <3>2, <3>3, <3>4 DEF Settled
  <2>3. /\ ~ok /\ c \in {"CONNECT", "DISCONNECT"} => Mentioned'
    BY <2>2 DEF Mentioned, Mentions
  <2>4. plan # <<>>
    BY <2>2 DEF Base, Planned
  <2>8. c \in Names(plan) /\ (Connects <=> c = "CONNECT")
    BY <1>1, <2>2, <2>4, PlanTail DEF Base, Shape, Planned
  <2>9. /\ online \in BOOLEAN /\ dev.connected \in BOOLEAN
        /\ c \in Switches => c \in dev.on[online] \/ ~ok
    <3>1. c \in Switches => c \in shown \/ ~ok
      BY <2>1 DEF Passes
    <3>2. shown \subseteq dev.on[online]
      BY DEF Base, Synced
    <3>3. QED
      BY <3>1, <3>2, DevicesAre DEF Base, Shape
  <2>5. ok /\ c = "CONNECT" =>
          /\ online /\ ~dev.connected /\ "CONNECT" \in dev.on[online]
          /\ Mentioned' \/ "DISCONNECT" \notin dev.on[TRUE]
    <3>1. SUFFICES ASSUME ok, c = "CONNECT"
                   PROVE  /\ online /\ ~dev.connected /\ "CONNECT" \in dev.on[online]
                          /\ Mentioned' \/ "DISCONNECT" \notin dev.on[TRUE]
      OBVIOUS
    <3>2. "CONNECT" \in dev.on[online] /\ "CONNECT" \in shown
      BY <2>1, <2>9, <3>1 DEF Switches, Passes
    <3>3. "CONNECT" \notin dev.on[dev.connected] /\ (dev.connected => online) /\ "CONNECTION" \in seen
      BY <2>8, <3>1 DEF Base, Synced, Appears
    <3>4. online /\ ~dev.connected
      BY <2>9, <3>2, <3>3
    <3>5. shown = dev.on[TRUE]
      BY <3>3, <3>4 DEF Base, Synced, Shape
    <3>6. fails' = fails \cup complaints(c)
      BY <1>1, <1>4 DEF Settled
    <3>7. "DISCONNECT" \in shown => complaints(c) = {<<"OneOfMany", "CONNECTION">>}
      BY <2>1, <3>1, <3>2 DEF complaints, Check
    <3>8. "DISCONNECT" \in shown => Mentioned'
      BY <3>6, <3>7 DEF Mentioned
    <3>9. QED
      BY <3>2, <3>4, <3>5, <3>8
  <2>6. ok /\ c = "DISCONNECT" => Mentioned' \/ ~online
    <3>1. SUFFICES ASSUME ok, c = "DISCONNECT", ~Mentioned' PROVE ~online
      OBVIOUS
    <3>2. ~Mentioned
      BY <2>2, <3>1 DEF Mentioned, Mentions
    <3>3. connectedByUs /\ Kept
      BY <2>8, <3>1, <3>2 DEF Base, Restoring
    <3>4. "DISCONNECT" \notin dev.on[TRUE]
      BY <3>3 DEF Kept
    <3>5. QED
      BY <2>9, <3>1, <3>4 DEF Switches
  <2>7. QED
    BY <1>1, <1>2, <2>2, <2>3, <2>4, <2>5, <2>6, AfterKeepsBase
<1>5. CASE TimedOut
  <2>1. /\ pc = "waiting" /\ After(c, FALSE) /\ UNCHANGED <<props, iface, exit>>
        /\ fails \subseteq fails' /\ warns \subseteq warns'
        /\ <<"command", c>> \in fails' \cup warns'
        /\ excused' \in BOOLEAN
    BY <1>1, <1>2, <1>5 DEF TimedOut, Check, Early
  <2>2. c \in {"CONNECT", "DISCONNECT"} => Mentioned'
    BY <2>1 DEF Mentioned, Mentions
  <2>3. plan # <<>>
    BY <2>1 DEF Base, Planned
  <2>4. QED
    BY <1>1, <1>2, <2>1, <2>2, <2>3, AfterKeepsBase
<1>6. QED
  BY <1>3, <1>4, <1>5

\* The wait for the frame.
LEMMA FrameKeepsBase == ASSUME Base, Frame PROVE Base'
<1> USE DEF given, device, net, store, Base, Before, Sending
<1>1. /\ pc = "frame" /\ pc' = "command" /\ fails \subseteq fails'
      /\ UNCHANGED <<device, net, store, props, iface, connected, connectedByUs, plan, warns, exit>>
      /\ excused' \in BOOLEAN
  BY DEF Frame, Goto, Early, Shape
<1>2. Connects' = Connects /\ Later' = Later
  BY <1>1 DEF Connects, Later
<1>3. Later /\ ~Connects
  <2>1. Later
    BY <1>1 DEF Planned
  <2>2. plan = <<"CONNECT">> => 1 \in DOMAIN plan /\ plan[1] = "CONNECT"
    OBVIOUS
  <2>3. QED
    BY <2>1, <2>2 DEF Later, Connects
<1>4. Shape' /\ Planned'
  BY <1>1, <1>2, <1>3 DEF Shape, Planned
<1>5. Synced' /\ Live'
  BY <1>1, <1>2, <1>3 DEF Synced, Live, Appears
<1>6. Restoring'
  BY <1>1, <1>2, <1>3 DEF Restoring, Mentioned, Mentions, Kept
<1>7. QED
  BY <1>4, <1>5, <1>6

\* The first part of the invariant is kept by every step.
LEMMA BaseKept == ASSUME Base, [Next]_vars PROVE Base'
<1>1. CASE UNCHANGED vars
  <2>1. Shape' /\ UNCHANGED <<given, online, todo, seen, shown, run>>
    BY <1>1 DEF Base, Shape, vars, device, given, net, store, run
  <2>2. QED
    BY <2>1, BaseStays
<1>2. QED
  BY <1>1, OthersKeepBase, DefineKeepsBase, IgnoreKeepsBase, AnswerKeepsBase, MovesKeepBase,
     InspectKeepsBase, ContractsKeepBase, SendKeepsBase, CommandsKeepBase, FrameKeepsBase
     DEF Next, Environment, Run

\* It holds in every state of a run.
LEMMA AlwaysBase == Spec => []Base
<1>1. QED
  BY InitBase, BaseKept, PTL DEF Spec

\* checkDevice's "Leave the device as found".
THEOREM LeavesAsFound == Spec => []LeftAsFound
<1>1. Base => LeftAsFound
  <2>1. SUFFICES ASSUME Base, pc = "done", ~Mentioned PROVE online = dev.connected
    BY DEF LeftAsFound, Mentioned
  <2>2. plan = <<>> /\ Names(plan) = {}
    BY <2>1, NamesOf DEF Base, Planned
  <2>3. Kept
    BY <2>1 DEF Base, Restoring
  <2>4. CASE connectedByUs
    BY <2>1, <2>2, <2>3, <2>4, DevicesAre DEF Kept, Base, Synced, Shape
  <2>5. CASE ~connectedByUs
    BY <2>1, <2>3, <2>5 DEF Kept
  <2>6. QED
    BY <2>4, <2>5
<1>2. QED
  BY <1>1, AlwaysBase, PTL

\* checkDevice's state-changing checks, on a device that is live.
THEOREM ChangesOnlyLive == Spec => OnlyLive
<1> DEFINE A == \A c \in {"PULSE_NS", "PULSE_WE", "EXPOSE"} :
                  pc' = "waiting" /\ pc # "waiting" /\ Head(plan') = c =>
                    mutate /\ ("CONNECT" \in dev.on[online] \/ "CONNECTION" \notin props)
<1>1. ASSUME Base, [Next]_vars PROVE A
  <2>1. SUFFICES ASSUME NEW c \in Changing, pc' = "waiting", pc # "waiting", Head(plan') = c
                 PROVE  mutate /\ ("CONNECT" \in dev.on[online] \/ "CONNECTION" \notin props)
    BY DEF Changing
  <2>2. Send
    BY <1>1, <2>1 DEF Next, Environment, Run, vars, device, given, net, store, run, Define, Begin, Answer,
       Ignore, FrameArrives, Chatter, LoseLink, Cancel, Dial, Discover, Settle, NextDevice, Anchor,
       Inspect, checkContracts, SendFails, Settled, TimedOut, Frame, Finish, Report, Goto, After
  <2>3. plan # <<>> /\ Head(plan) = c /\ pc = "command"
    BY <2>1, <2>2 DEF Send
  <2>4. c \in Names(plan)
    BY <1>1, <2>3, PlanTail DEF Base, Shape, Planned, Sending
  <2>5. QED
    BY <1>1, <2>4 DEF Base, Live
<1>2. QED
  <2>1. A <=> A
    OBVIOUS
  <2>2. QED
    BY <1>1, AlwaysBase, PTL DEF Spec, OnlyLive

-----------------------------------------------------------------------------
(* The second part: pulses and frames *)

\* An update of what a command is about is none of a pulse that is not answered.
LEMMA ShowKeepsAlerted ==
    ASSUME Base, Alerted, UNCHANGED <<dev, seen>>, NEW c \in Command, ~Silent(c), NEW s,
           Show(Target[c], s), frame' \in {frame, Frames(c)}
    PROVE  Alerted'
<1>1. \A x \in {"PULSE_NS", "PULSE_WE"} : x # c => Target[x] # Target[c]
  BY TargetsAre DEF Command
<1>2. \A x \in {"PULSE_NS", "PULSE_WE"} : Target[x] \in DOMAIN state
  BY TargetsAre DEF Base, Shape, Command
<1>3. \A x \in {"PULSE_NS", "PULSE_WE"} : x # c => state'[Target[x]] = state[Target[x]]
  BY <1>1, <1>2 DEF Show
<1>4. frame' # "none" => dev.frame # "none"
  BY DEF Frames, Alerted
<1>5. \A x \in {"PULSE_NS", "PULSE_WE"} : Silent(x) => x # c
  OBVIOUS
<1>6. QED
  BY <1>3, <1>4, <1>5 DEF Alerted, Silent

\* It is kept by every step.
LEMMA AlertedKept == ASSUME Base, Alerted, [Next]_vars PROVE Alerted'
<1> USE DEF given, device, net, store, Goto
<1>1. CASE Define
  <2>1. PICK p : p = Head(coming)
    OBVIOUS
  <2>2. /\ UNCHANGED <<dev, frame>> /\ seen' = seen \cup {p}
        /\ state' = IF p \in DOMAIN state /\ p \in dev.alerted
                    THEN [state EXCEPT ![p] = "Alert"] ELSE state
    BY <1>1, <2>1 DEF Define
  <2>3. \A x \in {"PULSE_NS", "PULSE_WE"} : Target[x] \in DOMAIN state
    BY TargetsAre DEF Base, Shape, Command
  <2>4. QED
    BY <2>2, <2>3 DEF Alerted, Silent
<1>2. CASE Begin
  <2>1. PICK c : c = Head(todo)
    OBVIOUS
  <2>2. c \in Command
    BY <1>2, <2>1, NamesTail DEF Base, Shape, Begin
  <2>3. UNCHANGED <<dev, seen>> /\ ~Silent(c) /\ Show(Target[c], "Busy") /\ frame' = Frames(c)
    BY <1>2, <2>1 DEF Begin, Silent
  <2>4. QED
    BY <2>2, <2>3, ShowKeepsAlerted
<1>3. CASE Answer
  <2>1. PICK c : c = Head(todo)
    OBVIOUS
  <2>2. c \in Command
    BY <1>3, <2>1, NamesTail DEF Base, Shape, Answer
  <2>3. UNCHANGED <<dev, seen>> /\ ~Silent(c) /\ frame' \in {frame, Frames(c)}
    BY <1>3, <2>1 DEF Answer, Silent
  <2>4. Show(Target[c], IF dev.reply[c] = "Hollow" THEN "Ok" ELSE dev.reply[c])
    BY <1>3, <2>1 DEF Answer
  <2>5. QED
    BY <2>2, <2>3, <2>4, ShowKeepsAlerted
<1>4. ASSUME UNCHANGED <<dev, seen, state>>, frame' = frame \/ (frame = "owed" /\ frame' = "here")
      PROVE  Alerted'
  BY <1>4 DEF Alerted, Silent
<1>5. ASSUME UNCHANGED vars PROVE Alerted'
  BY <1>4, <1>5 DEF vars
<1>6. ASSUME Ignore \/ FrameArrives \/ Chatter \/ LoseLink \/ Cancel PROVE Alerted'
  BY <1>4, <1>6 DEF Ignore, FrameArrives, Chatter, LoseLink, Cancel
<1>7. ASSUME Run PROVE Alerted'
  BY <1>4, <1>7 DEF Run, Dial, Discover, Settle, NextDevice, Anchor, Inspect, checkContracts, Send,
     SendFails, Settled, TimedOut, Frame, Finish, Report, After
<1>8. QED
  BY <1>1, <1>2, <1>3, <1>5, <1>6, <1>7 DEF Next, Environment

-----------------------------------------------------------------------------
(* What Conforms says, as the checks see it *)

\* An interface's contract is kept when checkContracts finds nothing missing.
LEMMA ContractIs ==
    ASSUME NEW i \in contractBits, NEW ps PROVE (contractFails(i, ps) = {}) <=> Meets(i, ps)
<1> DEFINE sound == ps \ dev.wrong
           lacks(p) == IF p \in PresenceOnly THEN p \notin ps ELSE p \notin sound
           ways == IF i \in DOMAIN Alternatives THEN Alternatives[i] ELSE {{}}
           met == \E s \in ways : s \subseteq (IF i = "CCD" THEN sound ELSE ps)
<1>1. contractFails(i, ps) =
        Check("contract", {p \in Required[i] : lacks(p)}) \cup (IF met THEN {} ELSE Check("contract", {i}))
  BY DEF contractFails
<1>2. contractFails(i, ps) = {} <=> (\A p \in Required[i] : ~lacks(p)) /\ met
  <2>1. PICK M : M = {p \in Required[i] : lacks(p)}
    OBVIOUS
  <2>2. (M = {}) <=> (\A p \in Required[i] : ~lacks(p))
    <3> HIDE DEF lacks
    <3>1. QED
      BY <2>1
  <2>3. contractFails(i, ps) = Check("contract", M) \cup (IF met THEN {} ELSE Check("contract", {i}))
    BY <1>1, <2>1
  <2> HIDE DEF lacks, met
  <2>4. /\ (Check("contract", M) = {}) <=> (M = {})
        /\ Check("contract", {i}) # {}
    BY DEF Check
  <2>5. QED
    BY <2>2, <2>3, <2>4
<1>3. PresenceOnly = {"GEOGRAPHIC_COORD", "TIME_UTC"}
  BY DEF PresenceOnly, Required
<1>4. /\ i \in {"TELESCOPE", "GUIDER", "CCD", "FOCUSER", "FILTER", "DOME", "GPS", "WEATHER", "ROTATOR"}
      /\ i \in DOMAIN Alternatives <=> i \in {"FOCUSER", "DOME", "CCD"}
  BY DEF contractBits, Required, Alternatives
<1>5. CASE i \in {"FOCUSER", "DOME", "CCD"}
  <2>1. CASE i = "FOCUSER"
    BY <1>2, <1>4, <2>1 DEF Required, Alternatives, Meets
  <2>2. CASE i = "DOME"
    BY <1>2, <1>4, <2>2 DEF Required, Alternatives, Meets
  <2>3. CASE i = "CCD"
    BY <1>2, <1>3, <1>4, <2>3 DEF Required, Alternatives, Meets
  <2>4. QED
    BY <1>5, <2>1, <2>2, <2>3
<1>6. CASE i \notin {"FOCUSER", "DOME", "CCD"}
  <2>1. met
    BY <1>4, <1>6
  <2>2. \A p : ~lacks(p) <=> (IF p \in {"GEOGRAPHIC_COORD", "TIME_UTC"} THEN p \in ps ELSE p \in ps \ dev.wrong)
    BY <1>3
  <2> HIDE DEF lacks, met
  <2>3. QED
    BY <1>2, <1>4, <1>6, <2>1, <2>2 DEF Required, Meets
<1>7. QED
  BY <1>5, <1>6

\* A device conforms if its first snapshot and its contracts do, and all that is due to it.
LEMMA ConformsIs ==
    ASSUME dev \in Devices, mutate \in BOOLEAN
    PROVE  Conforms <=> Inspected /\ Contracted /\ \A c \in Command : Due(c) => Satisfies(c)
<1>1. Bits \subseteq contractBits
  BY DevicesAre DEF Bits
<1>2. Conforms <=>
        /\ Inspected
        /\ mutate /\ ~Appears =>
             /\ Obeys("CONNECT") /\ dev.on[TRUE] = {"CONNECT"}
             /\ Obeys("DISCONNECT")
             /\ dev.reply["DISCONNECT"] # "Silent" => dev.on[FALSE] = {"DISCONNECT"}
        /\ Reach => \A i \in contractBits : i \in Bits => Meets(i, All)
        /\ mutate /\ "GUIDER" \in Bits =>
             \A c \in {"PULSE_NS", "PULSE_WE"} :
               Obeys(c) /\ ~(dev.reply[c] = "Silent" /\ Target[c] \in dev.alerted)
        /\ mutate /\ "CCD" \in Bits => Obeys("EXPOSE") /\ dev.frame = "fits"
  <2>1. contractBits = {"TELESCOPE", "GUIDER", "CCD", "FOCUSER", "FILTER", "DOME", "GPS", "WEATHER", "ROTATOR"}
    BY DEF contractBits, Required
  <2>2. (\A i \in contractBits : i \in Bits => Meets(i, All)) <=>
           /\ "TELESCOPE" \in Bits => {"EQUATORIAL_EOD_COORD", "ON_COORD_SET", "TELESCOPE_ABORT_MOTION"} \subseteq All \ dev.wrong
           /\ "GUIDER" \in Bits => {"TELESCOPE_TIMED_GUIDE_NS", "TELESCOPE_TIMED_GUIDE_WE"} \subseteq All \ dev.wrong
           /\ "CCD" \in Bits => {"CCD_EXPOSURE", "CCD_INFO"} \subseteq All \ dev.wrong /\ {"CCD1", "CCD2"} \cap (All \ dev.wrong) # {}
           /\ "FOCUSER" \in Bits => "ABS_FOCUS_POSITION" \in All \/ {"FOCUS_MOTION", "FOCUS_TIMER"} \subseteq All
           /\ "FILTER" \in Bits => "FILTER_SLOT" \in All \ dev.wrong
           /\ "DOME" \in Bits => {"DOME_MOTION", "ABS_DOME_POSITION"} \cap All # {}
           /\ "GPS" \in Bits => {"GEOGRAPHIC_COORD", "TIME_UTC"} \subseteq All
           /\ "WEATHER" \in Bits => "WEATHER_STATUS" \in All \ dev.wrong
           /\ "ROTATOR" \in Bits => "ABS_ROTATOR_ANGLE" \in All \ dev.wrong
    BY <2>1 DEF Meets
  <2>3. QED
    BY <2>2 DEF Conforms, Inspected, Reach, All, Bits, Initially
<1>3. Contracted <=> (Reach => \A i \in contractBits : i \in Bits => Meets(i, All))
  BY <1>1 DEF Contracted
<1>4. (\A c \in Command : Due(c) => Satisfies(c)) <=>
        /\ mutate /\ ~Appears =>
             /\ Obeys("CONNECT") /\ dev.on[TRUE] = {"CONNECT"}
             /\ Obeys("DISCONNECT")
             /\ dev.reply["DISCONNECT"] # "Silent" => dev.on[FALSE] = {"DISCONNECT"}
        /\ mutate /\ "GUIDER" \in Bits =>
             \A c \in {"PULSE_NS", "PULSE_WE"} :
               Obeys(c) /\ ~(dev.reply[c] = "Silent" /\ Target[c] \in dev.alerted)
        /\ mutate /\ "CCD" \in Bits => Obeys("EXPOSE") /\ dev.frame = "fits"
  BY DEF Due, Satisfies, Command
<1>5. QED
  BY <1>2, <1>3, <1>4

\* It depends on the device and on opts.Mutate alone.
LEMMA GivenStays ==
    ASSUME UNCHANGED given
    PROVE  /\ (Conforms' <=> Conforms) /\ (Inspected' <=> Inspected) /\ (Contracted' <=> Contracted)
           /\ All' = All /\ Bits' = Bits /\ Initially' = Initially /\ (Reach' <=> Reach)
           /\ \A c \in Command : /\ (Due(c)' <=> Due(c)) /\ (Satisfies(c)' <=> Satisfies(c))
                                 /\ (Silent(c)' <=> Silent(c))
<1> USE DEF given
<1>1. All' = All /\ Bits' = Bits /\ Initially' = Initially /\ (Reach' <=> Reach)
  BY DEF All, Bits, Initially, Reach, Appears
<1>2. (Conforms' <=> Conforms) /\ (Inspected' <=> Inspected)
  BY DEF Conforms, Inspected, Initially, Obeys, Appears
<1>3. Contracted' <=> Contracted
  BY <1>1 DEF Contracted, Meets
<1>4. \A c \in Command : (Due(c)' <=> Due(c)) /\ (Satisfies(c)' <=> Satisfies(c)) /\ (Silent(c)' <=> Silent(c))
  BY <1>1 DEF Due, Satisfies, Silent, Obeys, Appears
<1>5. QED
  BY <1>1, <1>2, <1>3, <1>4

-----------------------------------------------------------------------------
(* The second part: what arrives and what is answered *)

\* What the environment leaves out of account.
LEMMA HopefulStays ==
    ASSUME Hopeful, UNCHANGED <<given, run>>, frame # "none" => frame' # "none",
           Arrivals', Progress'
    PROVE  Hopeful'
<1>1. /\ (Conforms' <=> Conforms) /\ (Inspected' <=> Inspected) /\ (Contracted' <=> Contracted)
      /\ All' = All /\ Bits' = Bits /\ Initially' = Initially /\ (Reach' <=> Reach)
  BY GivenStays
<1>2. \A c \in Command : (Due(c)' <=> Due(c)) /\ (Satisfies(c)' <=> Satisfies(c))
  BY GivenStays
<1>3. Connects' <=> Connects
  BY DEF Connects, run
<1>4. fails' = {} /\ Sound'
  BY <1>1 DEF Hopeful, Sound, run
<1>5. Joined'
  BY <1>1, <1>2, <1>3 DEF Hopeful, Joined, run, Command
<1>6. Checked'
  BY <1>1, <1>2, <1>3 DEF Hopeful, Checked, run
<1>7. Framing'
  BY <1>2 DEF Hopeful, Framing, run, given, Command
<1>8. QED
  BY <1>4, <1>5, <1>6, <1>7 DEF Hopeful

\* The command that is waited for, and that its property is in the store.
LEMMA Waiting ==
    ASSUME Base, Ordinary, Hopeful, pc = "waiting", NEW c, c = Head(plan)
    PROVE  /\ c \in Command /\ c \in Names(plan) /\ (Connects <=> c = "CONNECT")
           /\ Outstanding(c) /\ Due(c) /\ Target[c] \in seen
<1>1. /\ plan \in Seq(Command) /\ plan # <<>> /\ (Connects \/ Later) /\ mutate \in BOOLEAN
      /\ dev \in Devices
  BY DEF Base, Shape, Planned, Sending
<1>2. /\ c \in Command /\ c \in Names(plan) /\ (Connects <=> c = "CONNECT")
  BY <1>1, PlanTail
<1>3. Outstanding(c)
  BY DEF Hopeful, Progress
<1>4. Due(c)
  BY <1>2 DEF Hopeful, Joined, Checked
<1>5. Target[c] \in seen
  <2>1. CASE c \in {"CONNECT", "DISCONNECT"}
    <3>1. connectedByUs \/ Connects
      BY <1>2, <2>1 DEF Base, Restoring
    <3>2. QED
      BY <2>1, <3>1, TargetsAre DEF Base, Synced
  <2>2. CASE c \in Changing
    <3>1. ~Connects /\ pc \notin Before
      BY <1>2, <2>2 DEF Changing, Before
    <3>2. Contracted /\ Arrived
      BY <3>1 DEF Hopeful, Checked, Arrivals
    <3>3. Reach /\ (c = "EXPOSE" => "CCD" \in Bits) /\ (c # "EXPOSE" => "GUIDER" \in Bits)
      BY <1>4, <2>2 DEF Due, Reach, Changing
    <3>4. Target[c] \in All
      BY <2>2, <3>2, <3>3, TargetsAre DEF Contracted, Meets, Changing
    <3>5. QED
      BY <3>2, <3>4 DEF Arrived
  <2>3. QED
    BY <1>2, <2>1, <2>2 DEF Command, Changing
<1>6. QED
  BY <1>2, <1>3, <1>4, <1>5

\* A device that answers answers the command that is waited for, and no other.
LEMMA Answering ==
    ASSUME Base, Ordinary, Hopeful, todo # <<>>, ~Silent(Head(todo)), NEW c, c = Head(todo)
    PROVE  pc = "waiting" /\ c = Head(plan) /\ Len(todo) = 1
<1>1. 1 \in DOMAIN todo /\ todo[1] = c
  BY NamesTail DEF Base, Shape
<1>2. ~Quiet
  BY <1>1 DEF Quiet
<1>3. pc = "waiting" /\ Outstanding(Head(plan))
  BY <1>2 DEF Hopeful, Progress
<1>4. QED
  BY <1>1, <1>3 DEF Outstanding

\* A definition arrives while others may, and is not taken for an answer.
LEMMA DefineKeepsHopeful == ASSUME Base, Ordinary, Hopeful, Define PROVE Hopeful'
<1>1. PICK p : p = Head(coming)
  OBVIOUS
<1>2. /\ UNCHANGED <<given, online, todo, frame, run>>
      /\ coming # <<>> /\ coming' = Tail(coming) /\ seen' = seen \cup {p}
      /\ fresh' = (fresh \/ Awaits(p))
      /\ state' = IF p \in DOMAIN state /\ p \in dev.alerted
                  THEN [state EXCEPT ![p] = "Alert"] ELSE state
  BY <1>1 DEF Define
<1>3. Names(coming) = {p} \cup Names(coming')
  BY <1>1, <1>2, NamesTail DEF Base, Shape
<1>4. Names(coming)' = Names(coming')
  OBVIOUS
<1>5. /\ All' = All /\ Initially' = Initially /\ (Connects' <=> Connects)
      /\ \A c \in Command : (Silent(c)' <=> Silent(c))
  BY <1>2, GivenStays DEF Connects, run
<1>10. p \in Names(dev.late) => ~dev.connected
  BY NamesOf DEF Ordinary
<1>6. \/ pc \in {"dial", "discover", "settle", "resettle"}
      \/ pc = "waiting" /\ Connects /\ online /\ ~dev.connected
  BY <1>2, <1>3, <1>10 DEF Hopeful, Arrivals, Arrived
<1>7. Arrivals'
  BY <1>2, <1>3, <1>4, <1>5, <1>6 DEF Hopeful, Arrivals, run, given
<1>8. Progress'
  <2>1. CASE pc # "waiting"
    <3>1. Quiet
      BY <2>1 DEF Hopeful, Progress
    <3>2. Quiet'
      BY <1>2, <3>1 DEF Quiet, Silent, given
    <3>3. QED
      BY <1>2, <2>1, <3>2 DEF Progress, run
  <2>2. CASE pc = "waiting"
    <3>1. /\ Connects /\ online /\ ~dev.connected
          /\ Head(plan) = "CONNECT" /\ Outstanding("CONNECT")
      BY <1>6, <2>2 DEF Connects, Hopeful, Progress
    <3>2. todo = <<>> /\ Names(todo) = {}
      BY <2>2, <3>1, NamesOf DEF Base, Planned
    <3>3. dev.reply["CONNECT"] \in {"Ok", "Idle"}
      BY <3>1 DEF Outstanding
    <3>4. Answered("CONNECT")
      BY <3>1, <3>2, <3>3 DEF Outstanding, Unanswered, Silent
    <3>5. p = "CONNECTION" => p \notin dev.alerted
      <4>1. p \in Names(dev.late)
        BY <1>3, <2>2, <3>1 DEF Hopeful, Arrivals
      <4>2. QED
        BY <4>1, DevicesAre DEF Ordinary, Base, Shape
    <3>6. state'["CONNECTION"] = state["CONNECTION"]
      <4>1. "CONNECTION" \in DOMAIN state
        BY TargetsAre DEF Base, Shape, Command
      <4>2. QED
        BY <1>2, <3>5, <4>1
    <3>7. Answered("CONNECT")'
      BY <1>2, <3>4, <3>6, TargetsAre DEF Answered, Silent, given
    <3>8. Outstanding("CONNECT")'
      BY <1>2, <3>1, <3>7 DEF Outstanding, Silent, given
    <3>9. QED
      BY <1>2, <2>2, <3>1, <3>8 DEF Progress, run
  <2>3. QED
    BY <2>1, <2>2
<1>9. QED
  BY <1>2, <1>7, <1>8, HopefulStays

\* Busy is no answer.
LEMMA BeginKeepsHopeful == ASSUME Base, Ordinary, Hopeful, Begin PROVE Hopeful'
<1>1. PICK c : c = Head(todo)
  OBVIOUS
<1>2. /\ UNCHANGED <<given, online, coming, todo, seen, run>>
      /\ todo # <<>> /\ ~Silent(c) /\ frame' = Frames(c)
      /\ Show(Target[c], "Busy")
  BY <1>1 DEF Begin, Silent
<1>3. pc = "waiting" /\ c = Head(plan) /\ c \in Names(todo)
  <2>1. c \in Names(todo)
    BY <1>1, <1>2, NamesTail DEF Base, Shape
  <2>2. QED
    BY <1>1, <1>2, <2>1, Answering
<1>4. c \in Command /\ Outstanding(c) /\ Target[c] \in seen
  BY <1>3, Waiting
<1>5. Target[c] \in DOMAIN state
  BY <1>4, TargetsAre DEF Base, Shape
<1>6. Unanswered(c)'
  BY <1>2, <1>3, <1>4, <1>5 DEF Show, Unanswered, Silent, given
<1>7. Outstanding(c)'
  BY <1>2, <1>4, <1>6 DEF Outstanding, Silent, given
<1>8. Progress'
  BY <1>2, <1>3, <1>7 DEF Progress, run
<1>9. Arrivals'
  <2>1. All' = All /\ Initially' = Initially /\ (Connects' <=> Connects)
    BY <1>2, GivenStays DEF Connects, run
  <2>2. QED
    BY <1>2, <2>1 DEF Hopeful, Arrivals, Arrived, run, given
<1>10. frame # "none" => frame' # "none"
  BY <1>2 DEF Frames
<1>11. QED
  BY <1>2, <1>8, <1>9, <1>10, HopefulStays

\* An answer is the one that is waited for, and takes effect.
LEMMA AnswerKeepsHopeful == ASSUME Base, Ordinary, Hopeful, Answer PROVE Hopeful'
<1>1. PICK c : c = Head(todo)
  OBVIOUS
<1>2. /\ UNCHANGED <<given, seen, run>>
      /\ todo # <<>> /\ ~Silent(c) /\ todo' = Tail(todo)
      /\ online' = CASE c = "CONNECT" /\ dev.reply[c] \in {"Ok", "Idle"} -> TRUE
                     [] c = "DISCONNECT" /\ dev.reply[c] \in {"Ok", "Idle"} -> FALSE
                     [] OTHER -> online
      /\ coming' = IF c = "CONNECT" /\ dev.reply[c] \in {"Ok", "Idle"} THEN coming \o dev.late ELSE coming
      /\ frame' = IF dev.reply[c] \in {"Ok", "Idle"} THEN Frames(c) ELSE frame
  BY <1>1 DEF Answer, Silent
<1>3. Show(Target[c], IF dev.reply[c] = "Hollow" THEN "Ok" ELSE dev.reply[c])
  BY <1>1 DEF Answer
<1>4. pc = "waiting" /\ c = Head(plan) /\ Len(todo) = 1
  BY <1>1, <1>2, Answering
<1>5. /\ c \in Command /\ Outstanding(c) /\ Target[c] \in seen /\ Due(c)
      /\ (Connects <=> c = "CONNECT")
  BY <1>4, Waiting
<1>6. todo' = <<>> /\ Names(todo) = {c}
  <2>1. PICK t : t = Tail(todo)
    OBVIOUS
  <2>2. t \in Seq(Command) /\ Len(t) = Len(todo) - 1 /\ Names(todo) = {c} \cup Names(t)
    BY <1>1, <1>2, <2>1, NamesTail DEF Base, Shape
  <2>3. Len(t) = 0
    BY <1>4, <2>2
  <2>4. t = <<>>
    BY <2>2, <2>3
  <2>5. QED
    BY <1>2, <2>1, <2>2, <2>4, NamesOf
<1>7. Target[c] \in DOMAIN state
  BY <1>5, TargetsAre DEF Base, Shape
<1>8. /\ fresh' /\ state'[Target[c]] = IF dev.reply[c] = "Hollow" THEN "Ok" ELSE dev.reply[c]
  BY <1>3, <1>4, <1>5, <1>7 DEF Show, Awaits
<1>9. Names(todo)' = {}
  BY <1>6, NamesOf
<1>10. Answered(c)'
  BY <1>2, <1>8, <1>9 DEF Answered, Silent, given, Frames
<1>11. Outstanding(c)'
  <2>1. \A i \in DOMAIN <<>> : FALSE
    OBVIOUS
  <2>2. \A i \in DOMAIN todo' : FALSE
    BY <1>6, <2>1
  <2>3. c = "CONNECT" /\ dev.reply[c] \notin {"Ok", "Idle"} => online' = dev.connected
    BY <1>2, <1>5 DEF Outstanding
  <2>4. QED
    BY <1>2, <1>10, <2>2, <2>3 DEF Outstanding, given
<1>12. Progress'
  BY <1>2, <1>4, <1>11 DEF Progress, run
<1>13. Arrivals'
  <2>1. All' = All /\ Initially' = Initially /\ (Connects' <=> Connects)
    BY <1>2, GivenStays DEF Connects, run
  <2>2. CASE Connects /\ dev.reply[c] \in {"Ok", "Idle"}
    <3>1. coming' = coming \o dev.late /\ online'
      BY <1>2, <1>5, <2>2
    <3>2. dev.late \in Seq(STRING) /\ coming \in Seq(STRING)
      BY DevicesAre DEF Base, Shape
    <3>3. Names(coming)' = Names(coming) \cup Names(dev.late)
      BY <3>1, <3>2, NamesConcat
    <3>4. All = Initially \cup Names(dev.late)
      BY <1>5, <2>2 DEF Due, All
    <3>5. /\ Names(coming) \subseteq Names(dev.late) /\ Initially \subseteq seen
          /\ seen \subseteq All
      BY <1>4, <2>2, <3>4 DEF Hopeful, Arrivals, Before
    <3>6. (Names(dev.late))' = Names(dev.late)
      BY <1>2 DEF given
    <3>7. QED
      BY <1>2, <1>4, <2>1, <2>2, <3>1, <3>3, <3>4, <3>5, <3>6 DEF Arrivals, run, Before
  <2>3. CASE ~Connects
    <3>1. Arrived
      BY <1>4, <2>3 DEF Hopeful, Arrivals
    <3>2. Arrived'
      BY <1>2, <1>5, <2>1, <2>3, <3>1 DEF Arrived
    <3>3. QED
      BY <1>2, <1>4, <2>1, <2>3, <3>2 DEF Arrivals, run
  <2>4. CASE Connects /\ dev.reply[c] \notin {"Ok", "Idle"}
    <3>1. UNCHANGED <<coming, seen, online>>
      BY <1>2, <1>5, <2>4
    <3>2. QED
      BY <1>2, <1>4, <2>1, <2>4, <3>1 DEF Hopeful, Arrivals, run, given
  <2>5. QED
    BY <2>2, <2>3, <2>4
<1>14. frame # "none" => frame' # "none"
  BY <1>2 DEF Frames
<1>15. QED
  BY <1>2, <1>12, <1>13, <1>14, HopefulStays

\* A command that is never answered leaves nothing behind.
LEMMA IgnoreKeepsHopeful == ASSUME Base, Ordinary, Hopeful, Ignore PROVE Hopeful'
<1>1. /\ UNCHANGED <<given, online, coming, frame, store, run>>
      /\ todo # <<>> /\ Silent(Head(todo)) /\ todo' = Tail(todo)
  BY DEF Ignore, Silent
<1>2. PICK t : t = Tail(todo)
  OBVIOUS
<1>3. /\ Names(todo) = {Head(todo)} \cup Names(t) /\ Len(todo) \in Nat /\ Len(t) = Len(todo) - 1
      /\ \A i \in DOMAIN t : i + 1 \in DOMAIN todo /\ t[i] = todo[i + 1]
      /\ DOMAIN t = 1..Len(t)
  BY <1>1, <1>2, NamesTail DEF Base, Shape
<1>4. todo' = t /\ Names(todo)' = Names(t)
  BY <1>1, <1>2
<1>5. Progress'
  <2>1. CASE pc # "waiting"
    <3>1. Quiet
      BY <2>1 DEF Hopeful, Progress
    <3>2. \A i \in DOMAIN t : Silent(t[i])
      BY <1>3, <3>1 DEF Quiet
    <3>3. Quiet'
      BY <1>1, <1>4, <3>2 DEF Quiet, Silent, given
    <3>4. QED
      BY <1>1, <2>1, <3>3 DEF Progress, run
  <2>2. CASE pc = "waiting"
    <3>1. PICK c : c = Head(plan)
      OBVIOUS
    <3>2. Outstanding(c)
      BY <2>2, <3>1 DEF Hopeful, Progress
    <3>3. \A i \in DOMAIN t : Silent(t[i]) \/ (t[i] = c /\ i = Len(t))
      BY <1>3, <3>2 DEF Outstanding
    <3>4. Answered(c) => Answered(c)'
      BY <1>1, <1>3, <1>4 DEF Answered, Silent, given, store
    <3>5. Unanswered(c) => Unanswered(c)'
      BY <1>1, <1>3, <1>4 DEF Unanswered, Silent, given, store
    <3>6. Outstanding(c)'
      BY <1>1, <1>4, <3>2, <3>3, <3>4, <3>5 DEF Outstanding, Silent, given
    <3>7. QED
      BY <1>1, <2>2, <3>1, <3>6 DEF Progress, run
  <2>3. QED
    BY <2>1, <2>2
<1>6. Arrivals'
  <2>1. All' = All /\ Initially' = Initially /\ (Connects' <=> Connects)
    BY <1>1, GivenStays DEF Connects, run
  <2>2. QED
    BY <1>1, <2>1 DEF Hopeful, Arrivals, Arrived, run, given, store
<1>7. QED
  BY <1>1, <1>5, <1>6, HopefulStays

\* The environment, while nothing is lost and nothing unrelated is met.
LEMMA EnvironmentKeepsHopeful == ASSUME Base, Ordinary, Hopeful, Environment, Clear' PROVE Hopeful'
<1>1. CASE FrameArrives
  <2>1. UNCHANGED <<given, online, coming, todo, store, run>> /\ frame' = "here"
    BY <1>1 DEF FrameArrives
  <2>2. /\ All' = All /\ Initially' = Initially /\ (Connects' <=> Connects)
    BY <2>1, GivenStays DEF Connects, run
  <2>3. Arrivals'
    BY <2>1, <2>2 DEF Hopeful, Arrivals, Arrived, run, given, store
  <2>4. Progress'
    <3>1. PICK c : c = Head(plan)
      OBVIOUS
    <3>2. Outstanding(c) => Outstanding(c)'
      BY <2>1 DEF Outstanding, Answered, Unanswered, Silent, given, store
    <3>3. Quiet => Quiet'
      BY <2>1 DEF Quiet, Silent, given
    <3>4. QED
      BY <2>1, <3>1, <3>2, <3>3 DEF Hopeful, Progress, run
  <2>5. QED
    BY <2>1, <2>3, <2>4, HopefulStays
<1>2. ~(Chatter \/ LoseLink \/ Cancel)
  BY DEF Clear, Chatter, LoseLink, Cancel
<1>3. QED
  BY <1>1, <1>2, DefineKeepsHopeful, BeginKeepsHopeful, AnswerKeepsHopeful, IgnoreKeepsHopeful
     DEF Environment

-----------------------------------------------------------------------------
(* The second part: the run's steps *)

\* What is due to a device and not done by it fails it.
LEMMA Failing ==
    ASSUME Base, NEW c \in Command, Due(c), ~Satisfies(c), UNCHANGED given, fails' # {}
    PROVE  Doomed'
<1>1. ~Conforms
  BY ConformsIs DEF Base, Shape
<1>2. QED
  BY <1>1, GivenStays DEF Doomed

\* The steps up to the first snapshot.
LEMMA EarlyStepsKeepHope ==
    ASSUME Base, Ordinary, Hopeful, Clear', pc' # "done", Dial \/ Discover \/ Settle \/ NextDevice \/ Anchor
    PROVE  Hopeful' \/ Doomed'
<1> USE DEF Goto, Early
<1>1. /\ UNCHANGED <<device, net, store, iface, connected, connectedByUs, plan>>
  BY DEF Dial, Discover, Settle, NextDevice, Anchor
<1>2. /\ All' = All /\ Initially' = Initially /\ Bits' = Bits /\ (Connects' <=> Connects)
      /\ (Inspected' <=> Inspected) /\ (Reach' <=> Reach) /\ (Conforms' <=> Conforms)
      /\ \A c \in Command : (Due(c)' <=> Due(c)) /\ (Satisfies(c)' <=> Satisfies(c))
  BY <1>1, GivenStays DEF Connects, device
<1>3. pc # "waiting" /\ pc' # "waiting" /\ plan = <<>> /\ ~Connects
  BY DEF Dial, Discover, Settle, NextDevice, Anchor, Base, Planned, Connects, Before
<1>4. Progress'
  <2>1. Quiet
    BY <1>3 DEF Hopeful, Progress
  <2>2. Quiet'
    BY <1>1, <2>1 DEF Quiet, Silent, device, given
  <2>3. QED
    BY <1>3, <2>2 DEF Progress
<1>5. ASSUME pc' \in Before, pc \in Before, fails' = fails, Arrivals' PROVE Hopeful'
  BY <1>2, <1>3, <1>4, <1>5 DEF Hopeful, Sound, Joined, Checked, Framing, Before
<1>6. CASE Dial
  <2>1. pc = "dial" /\ pc' = "discover" /\ fails' = fails
    BY <1>6 DEF Dial
  <2>2. Arrivals'
    BY <1>1, <1>2, <2>1 DEF Hopeful, Arrivals, device, store
  <2>3. QED
    BY <1>5, <2>1, <2>2 DEF Before
<1>7. CASE Discover
  <2>1. CASE seen # {}
    <3>1. pc = "discover" /\ pc' = "settle" /\ fails' = fails
      BY <1>7, <2>1 DEF Discover
    <3>2. Arrivals'
      BY <1>1, <1>2, <3>1 DEF Hopeful, Arrivals, device, store
    <3>3. QED
      BY <1>5, <3>1, <3>2 DEF Before
  <2>2. CASE seen = {}
    <3>1. pc = "discover" /\ ~cancelled /\ ~excused' /\ excused' = (excused \/ coming # <<>>)
      BY <1>1, <1>7, <2>2 DEF Discover, Clear, net
    <3>2. coming = <<>> /\ fails' = Check("discovery", {"none"})
      BY <1>7, <2>2, <3>1 DEF Discover
    <3>3. Initially = {}
      BY <2>2, <3>1, <3>2, NamesOf DEF Hopeful, Arrivals
    <3>4. ~Conforms
      BY <3>3 DEF Conforms, Initially
    <3>5. fails' # {}
      BY <3>2 DEF Check
    <3>6. QED
      BY <1>2, <3>4, <3>5 DEF Doomed
  <2>3. QED
    BY <2>1, <2>2
<1>8. CASE Settle
  <2>1. coming = <<>> /\ fails' = fails
    BY <1>8 DEF Settle, Clear, Base, Shape
  <2>2. CASE pc = "settle"
    <3>1. pc' = "next"
      BY <1>8, <2>2 DEF Settle
    <3>2. Arrivals'
      BY <1>1, <1>2, <2>1, <2>2, <3>1, NamesOf DEF Hopeful, Arrivals, device, store
    <3>3. QED
      BY <1>5, <2>1, <2>2, <3>1, <3>2 DEF Before
  <2>3. CASE pc = "resettle"
    <3>1. pc' = "contracts" /\ props' = seen
      BY <1>8, <2>3 DEF Settle
    <3>2. seen = All
      BY <2>1, <2>3, NamesOf DEF Hopeful, Arrivals, Before
    <3>3. Arrivals'
      BY <1>1, <1>2, <2>1, <3>1, <3>2 DEF Arrivals, Arrived, device, store
    <3>4. Sound' /\ Joined'
      BY <1>1, <1>2, <1>3, <2>3, <3>1, <3>2 DEF Hopeful, Sound, Joined, Before, Command
    <3>5. Checked' /\ Framing'
      BY <3>1 DEF Checked, Framing
    <3>6. QED
      BY <1>4, <2>1, <3>3, <3>4, <3>5 DEF Hopeful
  <2>4. QED
    BY <1>8, <2>2, <2>3 DEF Settle
<1>9. CASE NextDevice
  <2>1. pc = "next" /\ pc' = "anchor" /\ fails' = fails
    BY <1>1, <1>9 DEF NextDevice, Clear, net
  <2>2. Arrivals'
    BY <1>1, <1>2, <2>1 DEF Hopeful, Arrivals, device, store
  <2>3. QED
    BY <1>5, <2>1, <2>2 DEF Before
<1>10. CASE Anchor
  <2>1. pc = "anchor" /\ pc' = "inspect" /\ fails' = fails
    BY <1>10 DEF Anchor
  <2>2. Arrivals'
    BY <1>1, <1>2, <2>1 DEF Hopeful, Arrivals, device, store
  <2>3. QED
    BY <1>5, <2>1, <2>2 DEF Before
<1>11. QED
  BY <1>6, <1>7, <1>8, <1>9, <1>10

\* The first snapshot holds what the device defines at once.
LEMMA InspectKeepsHope == ASSUME Base, Ordinary, Hopeful, Inspect PROVE Hopeful' \/ Doomed'
<1> USE DEF Goto
<1>1. /\ pc = "inspect" /\ UNCHANGED <<device, net, store, connectedByUs>>
      /\ props' = seen
      /\ fails' = fails \cup checkProtocol(seen) \cup checkDriverInfo(seen) \cup checkConnection(seen)
      /\ iface' = IF "DRIVER_INFO" \in seen /\ dev.driver = "numeric" THEN dev.iface ELSE {}
      /\ connected' = ("CONNECTION" \in seen /\ "CONNECT" \in shown)
  BY DEF Inspect
<1>2. \/ connected' /\ pc' = "resettle" /\ plan' = plan
      \/ ~connected' /\ mutate /\ "CONNECTION" \in seen /\ pc' = "command" /\ plan' = <<"CONNECT">>
      \/ ~connected' /\ ~(mutate /\ "CONNECTION" \in seen) /\ pc' = "contracts" /\ plan' = plan
  BY DEF Inspect
<1>3. /\ coming = <<>> /\ seen = Initially /\ fails = {}
  BY <1>1 DEF Hopeful, Arrivals
<1>4. /\ todo = <<>> /\ plan = <<>> /\ ~connectedByUs /\ online = dev.connected
      /\ shown = IF "CONNECTION" \in seen THEN dev.on[online] ELSE {}
  BY <1>1 DEF Base, Planned, Synced, Before
<1>5. (fails' = {}) <=> Inspected
  <2>1. \A k, S : (Check(k, S) = {}) <=> (S = {})
    BY DEF Check
  <2>2. (checkProtocol(seen) = {}) <=> (Initially \cap dev.odd = {})
    BY <1>3, <2>1 DEF checkProtocol
  <2>3. (checkDriverInfo(seen) = {}) <=> ("DRIVER_INFO" \in Initially => dev.driver = "numeric")
    BY <1>3, <2>1 DEF checkDriverInfo
  <2>4. (checkConnection(seen) = {}) <=> ("CONNECTION" \in Initially \ dev.wrong)
    <3>1. {"CONNECTION"} # {} /\ (({"CONNECTION"} \cap dev.wrong = {}) <=> "CONNECTION" \notin dev.wrong)
      OBVIOUS
    <3>2. QED
      BY <1>3, <2>1, <3>1 DEF checkConnection
  <2>5. QED
    BY <1>1, <1>3, <2>2, <2>3, <2>4 DEF Inspected
<1>6. UNCHANGED given /\ dev \in Devices /\ mutate \in BOOLEAN
  BY <1>1 DEF device, Base, Shape
<1>7. CASE ~Inspected
  <2>1. ~Conforms
    BY <1>6, <1>7, ConformsIs
  <2>2. QED
    BY <1>5, <1>6, <1>7, <2>1, GivenStays DEF Doomed
<1>8. CASE Inspected
  <2>1. "CONNECTION" \in seen /\ (connected' <=> Appears)
    BY <1>1, <1>3, <1>4, <1>8 DEF Inspected, Appears
  <2>2. iface' = Bits
    BY <1>1, <1>3, <1>8 DEF Inspected, Bits
  <2>3. /\ All' = All /\ Initially' = Initially /\ Bits' = Bits
        /\ (Inspected' <=> Inspected) /\ (Reach' <=> Reach)
        /\ \A c \in Command : (Due(c)' <=> Due(c)) /\ (Satisfies(c)' <=> Satisfies(c))
    BY <1>6, GivenStays
  <2>4. Sound' /\ fails' = {}
    BY <1>5, <1>8, <2>2, <2>3 DEF Sound
  <2>5. Progress'
    <3>1. \A i \in DOMAIN <<>> : FALSE
      OBVIOUS
    <3>2. Quiet'
      BY <1>1, <1>4, <3>1 DEF Quiet, device
    <3>3. pc' # "waiting"
      BY <1>2
    <3>4. QED
      BY <3>2, <3>3 DEF Progress
  <2>6. CASE connected'
    <3>1. pc' = "resettle" /\ plan' = <<>>
      BY <1>2, <1>4, <2>6
    <3>2. ~Connects'
      BY <3>1 DEF Connects
    <3>3. All = Initially /\ Reach
      BY <2>1, <2>6 DEF All, Reach
    <3>4. Arrivals'
      <4>1. seen' = All' /\ coming' = <<>>
        BY <1>1, <1>3, <2>3, <3>3 DEF device, store
      <4>2. Names(coming)' = {}
        BY <4>1, NamesOf
      <4>3. QED
        BY <3>1, <3>2, <4>1, <4>2 DEF Arrivals, Before
    <3>5. ~Due("CONNECT") /\ ~Due("DISCONNECT")
      BY <2>1, <2>6 DEF Due
    <3>6. Joined'
      BY <1>1, <1>4, <2>3, <2>6, <3>1, <3>2, <3>3, <3>5 DEF Joined, Command
    <3>7. Checked' /\ Framing'
      BY <3>1 DEF Checked, Framing
    <3>8. QED
      BY <2>4, <2>5, <3>4, <3>6, <3>7 DEF Hopeful
  <2>7. CASE ~connected' /\ mutate
    <3>1. pc' = "command" /\ plan' = <<"CONNECT">>
      BY <1>2, <2>1, <2>7
    <3>2. Connects' /\ Due("CONNECT")
      BY <2>1, <2>7, <3>1 DEF Connects, Due
    <3>3. Arrivals'
      BY <1>1, <1>3, <2>3, <3>1, <3>2 DEF Arrivals, device, store
    <3>4. Joined' /\ Checked' /\ Framing'
      BY <2>3, <3>1, <3>2 DEF Joined, Checked, Framing, Command
    <3>5. QED
      BY <2>4, <2>5, <3>3, <3>4 DEF Hopeful
  <2>8. CASE ~connected' /\ ~mutate
    <3>1. pc' = "contracts" /\ plan' = <<>>
      BY <1>2, <1>4, <2>8
    <3>2. ~Connects' /\ ~Due("CONNECT") /\ ~Due("DISCONNECT") /\ ~Reach
      BY <2>1, <2>8, <3>1 DEF Connects, Due, Reach
    <3>3. seen = All
      BY <1>3, <2>8 DEF All
    <3>4. Arrivals'
      BY <1>1, <1>3, <2>3, <3>1, <3>2, <3>3 DEF Arrivals, Arrived, device, store
    <3>5. Joined'
      BY <1>1, <1>4, <2>3, <2>8, <3>1, <3>2, <3>3 DEF Joined, Command
    <3>6. Checked' /\ Framing'
      BY <3>1 DEF Checked, Framing
    <3>7. QED
      BY <2>4, <2>5, <3>4, <3>5, <3>6 DEF Hopeful
  <2>9. QED
    BY <2>6, <2>7, <2>8
<1>9. QED
  BY <1>7, <1>8

\* checkContracts finds what is missing, and plans what is due.
LEMMA ContractsKeepHope == ASSUME Base, Ordinary, Hopeful, checkContracts PROVE Hopeful' \/ Doomed'
<1> USE DEF Goto
<1>1. /\ pc = "contracts" /\ pc' = "command"
      /\ UNCHANGED <<device, net, store, props, iface, connected, connectedByUs>>
      /\ plan' = mutations(connected \/ "CONNECTION" \notin props) \o restore
      /\ fails' = IF "CONNECTION" \in props /\ ~connected /\ ~mutate THEN fails
                  ELSE fails \cup UNION {contractFails(i, props) : i \in iface}
  BY DEF checkContracts
<1>2. /\ UNCHANGED given /\ dev \in Devices /\ mutate \in BOOLEAN
      /\ connected \in BOOLEAN /\ connectedByUs \in BOOLEAN
  BY <1>1 DEF device, Base, Shape
<1>3. /\ All' = All /\ Bits' = Bits /\ (Inspected' <=> Inspected) /\ (Reach' <=> Reach)
      /\ (Contracted' <=> Contracted)
      /\ \A c \in Command : (Due(c)' <=> Due(c)) /\ (Satisfies(c)' <=> Satisfies(c))
  BY <1>2, GivenStays
<1>4. plan = <<>> /\ ~Connects
  BY <1>1 DEF Base, Planned, Connects
<1>5. /\ fails = {} /\ Inspected /\ iface = Bits /\ props = All
      /\ (Due("CONNECT") => Satisfies("CONNECT"))
      /\ (connected <=> Reach) /\ (connectedByUs <=> Due("DISCONNECT"))
  BY <1>1, <1>4 DEF Hopeful, Sound, Joined, Before
<1>6. "CONNECTION" \in props
  BY <1>5 DEF Inspected, All
<1>7. (fails' = {}) <=> Contracted
  <2>1. Bits \subseteq contractBits
    BY <1>2, DevicesAre DEF Bits
  <2>2. \A i \in contractBits : (contractFails(i, All) = {}) <=> Meets(i, All)
    BY ContractIs
  <2>3. (UNION {contractFails(i, All) : i \in Bits} = {}) <=> (\A i \in Bits : contractFails(i, All) = {})
    OBVIOUS
  <2>4. connected \/ mutate <=> Reach
    BY <1>5 DEF Reach
  <2>5. QED
    BY <1>1, <1>5, <1>6, <2>1, <2>2, <2>3, <2>4 DEF Contracted
<1>8. CASE ~Contracted
  <2>1. ~Conforms
    BY <1>2, <1>8, ConformsIs
  <2>2. QED
    BY <1>2, <1>7, <1>8, <2>1, GivenStays DEF Doomed
<1>9. CASE Contracted
  <2>1. PICK p : p = plan'
    OBVIOUS
  <2>2. /\ p \in Seq(Command)
        /\ \A i \in DOMAIN p : p[i] # "CONNECT"
        /\ ("DISCONNECT" \in Names(p)) <=> connectedByUs
        /\ "CONNECT" \notin Names(p)
        /\ \A c \in Changing :
             (c \in Names(p)) <=> /\ mutate /\ (connected \/ "CONNECTION" \notin props)
                                  /\ IF c = "EXPOSE" THEN "CCD" \in iface /\ "CCD_EXPOSURE" \in props
                                     ELSE "GUIDER" \in iface
    BY <1>1, <1>2, <2>1, PlanOf
  <2>3. mutate => connected
    BY <1>5 DEF Reach
  <2>4. mutate /\ "CCD" \in Bits => "CCD_EXPOSURE" \in props
    <3>1. mutate => Reach
      BY DEF Reach
    <3>2. QED
      BY <1>5, <1>9, <3>1 DEF Contracted, Meets
  <2>5. \A c \in Changing : (c \in Names(p)) <=> Due(c)
    BY <1>5, <1>6, <2>2, <2>3, <2>4 DEF Due, Changing
  <2>6. \A c \in Command : (c \in Names(p)) <=> (c # "CONNECT" /\ Due(c))
    <3>1. \A c \in Command : c \in Changing \cup {"CONNECT", "DISCONNECT"}
      BY DEF Command, Changing
    <3>2. "CONNECT" \notin Changing
      BY DEF Changing
    <3>3. QED
      BY <1>5, <2>2, <2>5, <3>1, <3>2
  <2>7. ~Connects' /\ Names(plan)' = Names(p)
    BY <2>1, <2>2, NamesOf DEF Connects
  <2>8. Arrivals'
    <3>1. Arrived
      BY <1>1, <1>4 DEF Hopeful, Arrivals
    <3>2. Arrived'
      BY <1>1, <1>3, <3>1 DEF Arrived, device, store
    <3>3. QED
      BY <1>1, <2>7, <3>2 DEF Arrivals
  <2>9. Progress'
    <3>1. Quiet
      BY <1>1 DEF Hopeful, Progress
    <3>2. Quiet'
      BY <1>1, <3>1 DEF Quiet, Silent, device, given
    <3>3. QED
      BY <1>1, <3>2 DEF Progress
  <2>10. Sound' /\ Joined' /\ Framing'
    BY <1>1, <1>3, <1>5, <2>7 DEF Sound, Joined, Framing, Command
  <2>11. Checked'
    BY <1>3, <1>9, <2>6, <2>7 DEF Checked
  <2>12. QED
    BY <1>7, <1>9, <2>8, <2>9, <2>10, <2>11 DEF Hopeful
<1>10. QED
  BY <1>8, <1>9

\* A command that is sent has not been answered.
LEMMA SendKeepsHope == ASSUME Base, Ordinary, Hopeful, Send PROVE Hopeful'
<1>1. PICK c : c = Head(plan)
  OBVIOUS
<1>2. /\ pc = "command" /\ plan # <<>> /\ pc' = "waiting"
      /\ todo' = Append(todo, c) /\ fresh' = FALSE
      /\ UNCHANGED <<given, online, coming, frame, seen, state, shown, props, iface,
                     connected, connectedByUs, plan, fails>>
  BY <1>1 DEF Send
<1>3. /\ All' = All /\ Bits' = Bits /\ Initially' = Initially
      /\ (Inspected' <=> Inspected) /\ (Reach' <=> Reach) /\ (Contracted' <=> Contracted)
      /\ \A x \in Command : (Due(x)' <=> Due(x)) /\ (Satisfies(x)' <=> Satisfies(x))
  BY <1>2, GivenStays
<1>4. Connects' <=> Connects
  BY <1>2 DEF Connects
<1>5. c \in Command /\ (Connects <=> c = "CONNECT") /\ todo \in Seq(Command)
  BY <1>1, <1>2, PlanTail DEF Base, Shape, Planned, Sending
<1>6. c = "CONNECT" => online = dev.connected
  BY <1>2, <1>5 DEF Base, Restoring
<1>7. Outstanding(c)'
  <2>1. PICK t : t = Append(todo, c)
    OBVIOUS
  <2>2. /\ c \in Names(t)
        /\ \A i \in DOMAIN t : (i \in DOMAIN todo /\ t[i] = todo[i]) \/ (t[i] = c /\ i = Len(t))
    <3>1. /\ DOMAIN t = 1..(Len(todo) + 1) /\ DOMAIN todo = 1..Len(todo) /\ Len(t) = Len(todo) + 1
          /\ \A i \in 1..Len(todo) : t[i] = todo[i]
          /\ t[Len(todo) + 1] = c /\ Len(todo) \in Nat
      BY <1>5, <2>1
    <3>2. QED
      BY <1>5, <2>1, <3>1, NamesAppend
  <2>3. Quiet
    BY <1>2 DEF Hopeful, Progress
  <2>4. \A i \in DOMAIN t : Silent(t[i]) \/ (t[i] = c /\ i = Len(t))
    BY <2>2, <2>3 DEF Quiet
  <2>5. todo' = t /\ Names(todo)' = Names(t)
    BY <1>2, <2>1
  <2>6. Unanswered(c)'
    BY <1>2, <2>2, <2>5 DEF Unanswered
  <2>7. QED
    BY <1>2, <1>6, <2>4, <2>5, <2>6 DEF Outstanding, Silent, given
<1>8. Progress'
  BY <1>1, <1>2, <1>7 DEF Progress
<1>9. Arrivals'
  <2>1. CASE Connects
    <3>1. coming = <<>> /\ seen = Initially /\ Names(coming) = {}
      BY <1>2, <2>1, NamesOf DEF Hopeful, Arrivals, Before
    <3>2. online' => All = Initially
      <4>1. online' => Names(dev.late) = {}
        BY <1>2, <1>5, <1>6, <2>1, NamesOf DEF Ordinary
      <4>2. QED
        BY <4>1 DEF All
    <3>3. QED
      BY <1>2, <1>3, <1>4, <2>1, <3>1, <3>2 DEF Arrivals, given
  <2>2. CASE ~Connects
    <3>1. Arrived
      BY <1>2, <2>2 DEF Hopeful, Arrivals
    <3>2. Arrived'
      BY <1>2, <1>3, <3>1 DEF Arrived
    <3>3. QED
      BY <1>2, <1>4, <2>2, <3>2 DEF Arrivals
  <2>3. QED
    BY <2>1, <2>2
<1>10. Sound' /\ Joined' /\ Framing'
  BY <1>2, <1>3, <1>4 DEF Hopeful, Sound, Joined, Framing, Before, Command
<1>11. Checked'
  BY <1>2, <1>3, <1>4 DEF Hopeful, Checked
<1>12. QED
  BY <1>2, <1>8, <1>9, <1>10, <1>11 DEF Hopeful

\* A command that passed, or failed in a way that is allowed.
LEMMA PassingKeepsHope ==
    ASSUME Base, Ordinary, Hopeful, pc = "waiting", NEW c, c = Head(plan), NEW ok \in BOOLEAN, After(c, ok),
           UNCHANGED <<props, iface, fails>>, Quiet,
           c = "CONNECT" => ok /\ online,
           IF c = "EXPOSE" THEN ok /\ dev.reply[c] = "Ok" /\ (dev.frame # "none" => frame # "none")
           ELSE Satisfies(c)
    PROVE  Hopeful'
<1> USE DEF Goto
<1>1. /\ UNCHANGED <<device, net, store>> /\ plan' = Tail(plan)
      /\ pc' = CASE c = "CONNECT" -> IF ok THEN "resettle" ELSE "contracts"
                 [] c = "EXPOSE" /\ ok -> "frame"
                 [] OTHER -> "command"
      /\ connected' = IF c = "CONNECT" THEN ok ELSE connected
      /\ connectedByUs' = IF c = "CONNECT" THEN ok ELSE connectedByUs
  BY DEF After
<1>2. /\ c \in Command /\ c \in Names(plan) /\ (Connects <=> c = "CONNECT") /\ Due(c)
  BY Waiting
<1>3. PICK t : t = Tail(plan)
  OBVIOUS
<1>4. /\ Names(plan) = {c} \cup Names(t) /\ "CONNECT" \notin Names(t)
      /\ (c = "CONNECT" => t = <<>>)
  BY <1>3, PlanTail DEF Base, Shape, Planned, Sending
<1>5. Names(plan)' = Names(t) /\ plan' = t
  BY <1>1, <1>3
<1>6. ~Connects'
  BY <1>4, <1>5, NamesOf DEF Connects
<1>7. UNCHANGED given
  BY <1>1 DEF device
<1>8. /\ All' = All /\ Bits' = Bits /\ (Inspected' <=> Inspected) /\ (Reach' <=> Reach)
      /\ (Contracted' <=> Contracted)
      /\ \A x \in Command : (Due(x)' <=> Due(x)) /\ (Satisfies(x)' <=> Satisfies(x))
  BY <1>7, GivenStays
<1>9. pc' # "waiting" /\ pc' \in {"resettle", "frame", "command"}
  BY <1>1
<1>10. Progress'
  <2>1. Quiet'
    BY <1>1 DEF Quiet, Silent, device, given
  <2>2. QED
    BY <1>9, <2>1 DEF Progress
<1>11. Sound' /\ fails' = {}
  BY <1>8 DEF Hopeful, Sound, Before
<1>12. CASE c = "CONNECT"
  <2>1. pc' = "resettle" /\ connected' /\ connectedByUs'
    BY <1>1, <1>12
  <2>2. Reach /\ Due("DISCONNECT")
    BY <1>2, <1>12 DEF Due, Reach
  <2>3. Joined'
    BY <1>6, <1>8, <1>12, <2>1, <2>2 DEF Joined, Command
  <2>4. seen \cup Names(coming) = All
    BY <1>2, <1>12 DEF Hopeful, Arrivals, Before
  <2>5. Arrivals'
    BY <1>1, <1>6, <1>8, <2>1, <2>4 DEF Arrivals, device, store, Before
  <2>6. Checked' /\ Framing'
    BY <2>1 DEF Checked, Framing
  <2>7. QED
    BY <1>10, <1>11, <2>3, <2>5, <2>6 DEF Hopeful
<1>13. CASE c # "CONNECT"
  <2>1. ~Connects /\ pc' \in {"frame", "command"} /\ connected' = connected /\ connectedByUs' = connectedByUs
        /\ (pc' = "frame" <=> c = "EXPOSE" /\ ok)
    BY <1>1, <1>2, <1>13
  <2>2. Joined'
    BY <1>6, <1>8, <2>1 DEF Hopeful, Joined, Before, Command
  <2>3. Arrivals'
    <3>1. Arrived
      BY <1>2, <1>13 DEF Hopeful, Arrivals
    <3>2. Arrived'
      BY <1>1, <1>8, <3>1 DEF Arrived, device, store
    <3>3. QED
      BY <1>6, <2>1, <3>2 DEF Arrivals
  <2>4. /\ Contracted
        /\ \A x \in Command : x \in Names(plan) => Due(x)
        /\ \A x \in Command \ {"CONNECT"} : Due(x) => x \in Names(plan) \/ Satisfies(x)
    BY <2>1 DEF Hopeful, Checked
  <2>5. \A x \in Command \ {"CONNECT"} :
          Due(x) => x \in Names(t) \/ Satisfies(x) \/ (x = "EXPOSE" /\ pc' = "frame")
    BY <1>4, <2>1, <2>4
  <2>6. Checked'
    BY <1>4, <1>5, <1>8, <2>4, <2>5 DEF Checked
  <2>7. Framing'
    <3>1. UNCHANGED <<dev, frame>>
      BY <1>1 DEF device, given
    <3>2. QED
      BY <1>2, <1>8, <2>1, <3>1 DEF Framing, Command
  <2>8. QED
    BY <1>10, <1>11, <2>2, <2>3, <2>6, <2>7 DEF Hopeful
<1>14. QED
  BY <1>12, <1>13

\* A command that has settled has been answered, and passes if the answer is as it should be.
LEMMA SettledKeepsHope == ASSUME Base, Ordinary, Hopeful, Settled PROVE Hopeful' \/ Doomed'
<1>1. PICK c : c = Head(plan)
  OBVIOUS
<1>2. /\ pc = "waiting" /\ fresh /\ Settles(c) /\ UNCHANGED <<props, iface>>
      /\ After(c, Passes(c))
      /\ fails' = fails \cup complaints(c)
  BY <1>1 DEF Settled, Acknowledged
<1>3. /\ c \in Command /\ c \in Names(plan) /\ (Connects <=> c = "CONNECT") /\ Due(c)
      /\ Outstanding(c) /\ Target[c] \in seen
  BY <1>1, <1>2, Waiting
<1>4. Answered(c)
  BY <1>2, <1>3 DEF Outstanding, Unanswered, Settles
<1>5. Quiet
  <2>1. \A i \in DOMAIN todo : todo[i] \in Names(todo)
    BY DEF Names
  <2>2. QED
    BY <1>3, <1>4, <2>1 DEF Outstanding, Answered, Quiet
<1>6. dev.reply[c] \in {"Ok", "Idle", "Alert", "Hollow"} /\ (dev.reply[c] = "Hollow" => c = "CONNECT")
  BY <1>3, <1>4, DevicesAre DEF Ordinary, Base, Shape, Answered, Silent
<1>7. /\ state[Target[c]] = IF dev.reply[c] = "Hollow" THEN "Ok" ELSE dev.reply[c]
      /\ dev.reply[c] \in {"Ok", "Idle"} =>
           /\ c = "CONNECT" => online
           /\ c = "DISCONNECT" => ~online
           /\ c = "EXPOSE" => (dev.frame # "none" => frame # "none")
      /\ ~Silent(c)
  BY <1>4 DEF Answered
<1>8. /\ c \in Switches => shown = dev.on[online]
      /\ c = "CONNECT" /\ dev.reply[c] \notin {"Ok", "Idle"} => online = dev.connected
      /\ c \in Switches => ~Appears
      /\ c = "DISCONNECT" => dev.connected = FALSE
      /\ online \in BOOLEAN /\ \A b \in BOOLEAN : dev.on[b] \subseteq Switches
  <2>1. c = "DISCONNECT" => connectedByUs
    BY <1>3 DEF Base, Restoring
  <2>2. c \in Switches => c \in {"CONNECT", "DISCONNECT"} /\ "CONNECTION" \in seen
    BY <1>3, TargetsAre DEF Switches
  <2>3. c = "DISCONNECT" => dev.connected = FALSE
    BY <2>1, DevicesAre DEF Base, Synced, Shape
  <2>4. QED
    BY <1>3, <2>1, <2>2, <2>3, DevicesAre DEF Base, Shape, Synced, Outstanding
<1>9. c \in {"CONNECT", "EXPOSE"} => dev.reply[c] \in {"Ok", "Hollow", "Alert"}
  BY <1>2, <1>6, <1>7 DEF Settles
<1>14. ASSUME c = "CONNECT"
      PROVE  /\ complaints(c) = {} => Passes(c) /\ Obeys(c) /\ (Satisfies(c) \/ c = "EXPOSE")
             /\ complaints(c) = {} /\ c = "CONNECT" => online
             /\ complaints(c) # {} => ~Satisfies(c)
  <2>1. (complaints(c) = {}) <=> shown = {"CONNECT"} /\ state[Target[c]] # "Alert"
    <3>1. Check("command", {c}) # {} /\ Check("OneOfMany", {"CONNECTION"}) # {}
      BY DEF Check
    <3>2. shown \subseteq {"CONNECT", "DISCONNECT"}
      BY <1>8, <1>14 DEF Switches
    <3>3. QED
      BY <1>14, <3>1, <3>2 DEF complaints, Passes, Switches
  <2>2. (complaints(c) = {}) <=> Satisfies(c)
    <3>1. ASSUME dev.reply[c] = "Ok" PROVE (complaints(c) = {}) <=> Satisfies(c)
      <4>1. shown = dev.on[TRUE] /\ state[Target[c]] # "Alert"
        BY <1>7, <1>8, <1>14, <3>1 DEF Switches
      <4>2. QED
        BY <1>14, <2>1, <3>1, <4>1 DEF Satisfies, Obeys
    <3>2. CASE dev.reply[c] = "Alert"
      BY <1>7, <1>14, <2>1, <3>2 DEF Satisfies, Obeys
    <3>3. CASE dev.reply[c] = "Hollow"
      <4>1. "CONNECT" \notin shown
        BY <1>8, <1>14, <3>3 DEF Appears, Switches
      <4>2. QED
        BY <1>14, <2>1, <3>3, <4>1 DEF Satisfies, Obeys
    <3>4. QED
      BY <1>9, <1>14, <3>1, <3>2, <3>3
  <2>3. complaints(c) = {} => Passes(c) /\ online
    <3>1. complaints(c) = {} => dev.reply[c] = "Ok"
      BY <1>14, <2>2 DEF Satisfies, Obeys
    <3>2. QED
      BY <1>7, <1>14, <2>1, <3>1 DEF Passes
  <2>4. QED
    BY <1>14, <2>2, <2>3 DEF Satisfies, Obeys
<1>15. ASSUME c # "CONNECT"
      PROVE  /\ complaints(c) = {} => Passes(c) /\ Obeys(c) /\ (Satisfies(c) \/ c = "EXPOSE")
             /\ complaints(c) = {} /\ c = "CONNECT" => online
             /\ complaints(c) # {} => ~Satisfies(c)
  <2>1. (complaints(c) = {}) <=> Passes(c)
    <3>1. Check("command", {c}) # {}
      BY DEF Check
    <3>2. QED
      BY <1>15, <3>1 DEF complaints
  <2>2. dev.reply[c] \in {"Ok", "Idle", "Alert"} /\ state[Target[c]] = dev.reply[c]
    BY <1>6, <1>7, <1>15
  <2>3. CASE c = "DISCONNECT"
    <3>1. CASE dev.reply[c] = "Alert"
      BY <2>1, <2>2, <2>3, <3>1 DEF Passes, Satisfies, Obeys
    <3>2. CASE dev.reply[c] \in {"Ok", "Idle"}
      <4>1. shown = dev.on[FALSE] /\ "CONNECT" \notin dev.on[FALSE] /\ dev.on[FALSE] \subseteq {"CONNECT", "DISCONNECT"}
        BY <1>7, <1>8, <2>3, <3>2 DEF Appears, Switches
      <4>2. Passes(c) <=> dev.on[FALSE] = {"DISCONNECT"}
        BY <2>2, <2>3, <3>2, <4>1 DEF Passes, Switches
      <4>3. QED
        BY <2>1, <2>3, <3>2, <4>2 DEF Satisfies, Obeys
    <3>3. QED
      BY <2>2, <3>1, <3>2
  <2>4. CASE c \notin Switches
    <3>1. Passes(c) <=> dev.reply[c] # "Alert"
      BY <2>2, <2>4 DEF Passes
    <3>2. Passes(c) <=> Obeys(c)
      BY <1>3, <1>9, <2>2, <2>4, <3>1 DEF Obeys, Switches, Command
    <3>3. Obeys(c) /\ c # "EXPOSE" => Satisfies(c)
      BY <1>7, <1>15, <2>4 DEF Satisfies, Silent, Switches
    <3>4. ~Obeys(c) => ~Satisfies(c)
      BY DEF Satisfies
    <3>5. QED
      BY <1>15, <2>1, <3>2, <3>3, <3>4
  <2>5. QED
    BY <1>15, <2>1, <2>3, <2>4 DEF Switches, Satisfies
<1>10. /\ complaints(c) = {} => Passes(c) /\ Obeys(c) /\ (Satisfies(c) \/ c = "EXPOSE")
       /\ complaints(c) = {} /\ c = "CONNECT" => online
       /\ complaints(c) # {} => ~Satisfies(c)
  BY <1>14, <1>15
<1>11. CASE complaints(c) = {}
  <2>1. Satisfies(c) \/ c = "EXPOSE"
    BY <1>10, <1>11
  <2>2. c \in {"CONNECT", "EXPOSE"} => dev.reply[c] = "Ok"
    BY <1>10, <1>11 DEF Obeys
  <2>3. PICK ok \in BOOLEAN : ok = Passes(c)
    BY DEF Passes
  <2>4. After(c, ok) /\ ok
    <3>1. Passes(c) /\ After(c, Passes(c))
      BY <1>2, <1>10, <1>11
    <3>2. QED
      BY <2>3, <3>1
  <2>5. fails' = fails
    BY <1>2, <1>11
  <2>6. c = "CONNECT" => online
    BY <1>10, <1>11
  <2>7. QED
    BY <1>1, <1>2, <1>5, <1>7, <2>1, <2>2, <2>4, <2>5, <2>6, PassingKeepsHope
<1>12. CASE complaints(c) # {}
  <2>1. ~Satisfies(c)
    BY <1>10, <1>12
  <2>2. fails' # {}
    BY <1>2, <1>12
  <2>3. UNCHANGED given
    BY <1>2 DEF After, Goto, device
  <2>4. QED
    BY <1>3, <2>1, <2>2, <2>3, Failing
<1>13. QED
  BY <1>11, <1>12

\* A command that has not settled will not, unless the wait was over too soon.
LEMMA TimedOutKeepsHope == ASSUME Base, Alerted, Ordinary, Hopeful, TimedOut, Clear' PROVE Hopeful' \/ Doomed'
<1>1. PICK c : c = Head(plan)
  OBVIOUS
<1>2. /\ pc = "waiting" /\ ~(fresh /\ Settles(c)) /\ UNCHANGED <<props, iface>>
      /\ After(c, FALSE)
      /\ \A i \in DOMAIN todo : Silent(todo[i])
      /\ IF c = "DISCONNECT" \/ (c \in {"PULSE_NS", "PULSE_WE"} /\ state[Target[c]] # "Alert")
         THEN UNCHANGED fails ELSE fails' = fails \cup Check("command", {c})
  BY <1>1 DEF TimedOut, Acknowledged, Early, Clear, Silent
<1>3. /\ c \in Command /\ c \in Names(plan) /\ (Connects <=> c = "CONNECT") /\ Due(c)
      /\ Outstanding(c) /\ Target[c] \in seen
  BY <1>1, <1>2, Waiting
<1>4. Quiet
  BY <1>2 DEF Quiet
<1>5. UNCHANGED given
  BY <1>2 DEF After, Goto, device
<1>6. ASSUME fails' = fails \cup Check("command", {c}), ~Satisfies(c) PROVE Doomed'
  <2>1. fails' # {}
    BY <1>6 DEF Check
  <2>2. QED
    BY <1>3, <1>5, <1>6, <2>1, Failing
<1>7. CASE Silent(c)
  <2>1. CASE c \in {"CONNECT", "EXPOSE"}
    <3>1. ~Satisfies(c)
      BY <1>7, <2>1 DEF Silent, Satisfies, Obeys
    <3>2. QED
      BY <1>2, <1>6, <2>1, <3>1
  <2>2. CASE c = "DISCONNECT"
    <3>1. Satisfies(c) /\ fails' = fails
      BY <1>2, <1>7, <2>2 DEF Silent, Satisfies, Obeys
    <3>2. QED
      BY <1>1, <1>2, <1>4, <2>2, <3>1, PassingKeepsHope
  <2>3. CASE c \in {"PULSE_NS", "PULSE_WE"}
    <3>1. state[Target[c]] = "Alert" <=> Target[c] \in dev.alerted
      BY <1>3, <1>7, <2>3 DEF Alerted
    <3>2. CASE state[Target[c]] = "Alert"
      <4>1. ~Satisfies(c)
        BY <1>7, <2>3, <3>1, <3>2 DEF Silent, Satisfies
      <4>2. QED
        BY <1>2, <1>6, <2>3, <3>2, <4>1
    <3>3. CASE state[Target[c]] # "Alert"
      <4>1. Satisfies(c) /\ fails' = fails
        BY <1>2, <1>7, <2>3, <3>1, <3>3 DEF Silent, Satisfies, Obeys
      <4>2. QED
        BY <1>1, <1>2, <1>4, <2>3, <4>1, PassingKeepsHope
    <3>4. QED
      BY <3>2, <3>3
  <2>4. QED
    BY <1>3, <2>1, <2>2, <2>3 DEF Command
<1>8. CASE ~Silent(c)
  <2>1. c \notin Names(todo)
    BY <1>2, <1>8 DEF Names
  <2>2. Answered(c)
    BY <1>3, <1>8, <2>1 DEF Outstanding, Unanswered
  <2>3. dev.reply[c] \in {"Ok", "Idle", "Alert", "Hollow"} /\ (dev.reply[c] = "Hollow" => c = "CONNECT")
    BY <1>3, <1>8, DevicesAre DEF Ordinary, Base, Shape, Silent
  <2>4. c \in {"CONNECT", "EXPOSE"} /\ dev.reply[c] = "Idle"
    BY <1>2, <2>2, <2>3 DEF Answered, Settles
  <2>5. ~Satisfies(c)
    BY <2>4 DEF Satisfies, Obeys
  <2>6. QED
    BY <1>2, <1>6, <2>4, <2>5
<1>9. QED
  BY <1>7, <1>8

\* The wait for the frame and the end of the run.
LEMMA LateStepsKeepHope == ASSUME Base, Alerted, Ordinary, Hopeful, Frame \/ Finish, Clear' PROVE Hopeful' \/ Doomed'
<1> USE DEF Goto
<1>1. /\ UNCHANGED <<device, net, store, props, iface, connected, connectedByUs, plan>>
      /\ pc \in {"frame", "command"} /\ pc' \in {"command", "report"} /\ ~Connects
  <2>1. CASE Frame
    <3>1. pc = "frame"
      BY <2>1 DEF Frame
    <3>2. Later
      BY <3>1 DEF Base, Planned
    <3>3. plan = <<"CONNECT">> => 1 \in DOMAIN plan /\ plan[1] = "CONNECT"
      OBVIOUS
    <3>4. QED
      BY <2>1, <3>2, <3>3 DEF Frame, Later, Connects
  <2>2. CASE Finish
    BY <2>2 DEF Finish, Connects
  <2>3. QED
    BY <2>1, <2>2
<1>2. UNCHANGED given /\ (Connects' <=> Connects)
  BY <1>1 DEF device, Connects
<1>3. /\ All' = All /\ Bits' = Bits /\ (Inspected' <=> Inspected) /\ (Reach' <=> Reach)
      /\ (Contracted' <=> Contracted)
      /\ \A x \in Command : (Due(x)' <=> Due(x)) /\ (Satisfies(x)' <=> Satisfies(x))
  BY <1>2, GivenStays
<1>4. Arrivals'
  <2>1. Arrived
    BY <1>1 DEF Hopeful, Arrivals
  <2>2. Arrived'
    BY <1>1, <1>3, <2>1 DEF Arrived, device, store
  <2>3. QED
    BY <1>1, <1>2, <2>2 DEF Arrivals
<1>5. Progress'
  <2>1. Quiet
    BY <1>1 DEF Hopeful, Progress
  <2>2. Quiet'
    BY <1>1, <2>1 DEF Quiet, Silent, device, given
  <2>3. QED
    BY <1>1, <2>2 DEF Progress
<1>6. Sound' /\ Joined' /\ Framing'
  BY <1>1, <1>2, <1>3 DEF Hopeful, Sound, Joined, Framing, Before, Command
<1>7. CASE Finish
  <2>1. fails' = fails /\ pc = "command"
    BY <1>1, <1>7 DEF Finish, Clear, net
  <2>2. Checked'
    BY <1>1, <1>2, <1>3, <2>1 DEF Hopeful, Checked
  <2>3. QED
    BY <1>4, <1>5, <1>6, <2>1, <2>2 DEF Hopeful
<1>8. CASE Frame
  <2>1. Due("EXPOSE") /\ dev.reply["EXPOSE"] = "Ok" /\ (dev.frame # "none" => frame # "none")
    BY <1>8 DEF Frame, Hopeful, Framing
  <2>2. CASE frame = "here" /\ dev.frame = "fits" /\ fails' = fails
    <3>1. Satisfies("EXPOSE")
      BY <2>1, <2>2 DEF Satisfies, Obeys
    <3>2. Checked'
      BY <1>1, <1>2, <1>3, <3>1 DEF Hopeful, Checked
    <3>3. QED
      BY <1>4, <1>5, <1>6, <2>2, <3>2 DEF Hopeful
  <2>3. CASE fails' = fails \cup Check("command", {"EXPOSE"}) /\ dev.frame # "fits"
    <3>1. ~Satisfies("EXPOSE") /\ fails' # {} /\ "EXPOSE" \in Command
      BY <2>3 DEF Satisfies, Check, Command
    <3>2. QED
      BY <1>2, <2>1, <3>1, Failing
  <2>4. CASE frame # "here"
    <3>1. Early(frame = "owed") /\ fails' = fails \cup Check("command", {"EXPOSE"})
      BY <1>8, <2>4 DEF Frame
    <3>2. frame = "none"
      BY <2>4, <3>1 DEF Base, Shape, Early, Clear
    <3>3. QED
      BY <2>1, <2>3, <3>1, <3>2
  <2>5. CASE frame = "here"
    <3>1. ~cancelled
      BY <1>1 DEF Clear, net
    <3>2. fails' = IF dev.frame = "fits" THEN fails ELSE fails \cup Check("command", {"EXPOSE"})
      BY <1>8, <2>5, <3>1 DEF Frame
    <3>3. QED
      BY <2>2, <2>3, <2>5, <3>2
  <2>6. QED
    BY <2>4, <2>5
<1>9. QED
  BY <1>7, <1>8

-----------------------------------------------------------------------------
(* The second part: all steps *)

\* The device and the mode of the run stay what they are.
LEMMA GivenKept == ASSUME [Next]_vars PROVE UNCHANGED given
BY DEF device, Goto, After, Next, Environment, Run, vars, Define, Begin, Answer, Ignore, FrameArrives,
   Chatter, LoseLink, Cancel, Dial, Discover, Settle, NextDevice, Anchor, Inspect, checkContracts, Send,
   SendFails, Settled, TimedOut, Frame, Finish, Report

\* What is failed stays failed.
LEMMA DoomStays == ASSUME Base, Doomed, [Next]_vars PROVE Doomed'
<1> USE DEF device, Goto, After
<1>1. UNCHANGED given
  BY GivenKept
<1>2. pc # "discover"
  BY DEF Doomed, Base, Planned
<1>3. fails \subseteq fails'
  BY <1>2 DEF Next, Environment, Run, vars, run, Define, Begin, Answer, Ignore, FrameArrives, Chatter,
     LoseLink, Cancel, Dial, Discover, Settle, NextDevice, Anchor, Inspect, checkContracts, Send,
     SendFails, Settled, TimedOut, Frame, Finish, Report
<1>4. fails' # {}
  BY <1>3 DEF Doomed
<1>5. QED
  BY <1>1, <1>4, GivenStays DEF Doomed

\* What excuses the exit code stays.
LEMMA ClearWas == ASSUME Base, [Next]_vars, Clear' PROVE Clear
<1> USE DEF net, Goto, After, Early, Clear, Base, Shape
<1>1. link' => link
  BY DEF Next, Environment, Run, vars, Define, Begin, Answer, Ignore, FrameArrives, Chatter,
     LoseLink, Cancel, Dial, Discover, Settle, NextDevice, Anchor, Inspect, checkContracts, Send,
     SendFails, Settled, TimedOut, Frame, Finish, Report
<1>2. cancelled => cancelled'
  BY DEF Next, Environment, Run, vars, Define, Begin, Answer, Ignore, FrameArrives, Chatter,
     LoseLink, Cancel, Dial, Discover, Settle, NextDevice, Anchor, Inspect, checkContracts, Send,
     SendFails, Settled, TimedOut, Frame, Finish, Report
<1>3. excused => excused'
  BY DEF Next, Environment, Run, vars, Define, Begin, Answer, Ignore, FrameArrives, Chatter,
     LoseLink, Cancel, Dial, Discover, Settle, NextDevice, Anchor, Inspect, checkContracts, Send,
     SendFails, Settled, TimedOut, Frame, Finish, Report
<1>4. QED
  BY <1>1, <1>2, <1>3

\* A run starts without a verdict.
LEMMA InitVerdict == Init => Alerted /\ Verdict
<1> SUFFICES ASSUME Init PROVE Alerted /\ Verdict
  OBVIOUS
<1>1. /\ pc = "dial" /\ fails = {} /\ plan = <<>> /\ todo = <<>> /\ seen = {} /\ coming = dev.early
      /\ frame = "none" /\ state = [p \in Targets |-> "Ok"]
  BY DEF Init, Targets
<1>2. Alerted
  BY <1>1, TargetsAre DEF Alerted, Command
<1>3. ~Connects
  BY <1>1 DEF Connects
<1>4. Arrivals
  BY <1>1 DEF Arrivals, Initially
<1>5. Progress
  <2>1. \A i \in DOMAIN <<>> : FALSE
    OBVIOUS
  <2>2. QED
    BY <1>1, <2>1 DEF Progress, Quiet
<1>6. Sound /\ Joined /\ Checked /\ Framing
  BY <1>1, <1>3 DEF Sound, Joined, Checked, Framing, Before
<1>7. exit = Running
  BY DEF Init
<1>8. QED
  BY <1>1, <1>2, <1>4, <1>5, <1>6, <1>7 DEF Verdict, Hopeful

\* The exit code of a run that met nothing it could not help.
LEMMA ReportIsRight ==
    ASSUME Base, Clear, Doomed \/ Hopeful, Report PROVE VerdictIsDevice'
<1>1. /\ pc = "report" /\ exit' = IF fails = {} THEN 0 ELSE 1
      /\ UNCHANGED given
  BY DEF Report, Goto, device
<1>2. plan = <<>> /\ Names(plan) = {} /\ ~Connects
  BY <1>1, NamesOf DEF Base, Planned, Connects
<1>3. fails = {} => Conforms
  <2>1. SUFFICES ASSUME fails = {} PROVE Conforms
    OBVIOUS
  <2>2. Hopeful
    BY <2>1 DEF Doomed
  <2>3. Inspected /\ Contracted /\ (Due("CONNECT") => Satisfies("CONNECT"))
    BY <1>1, <1>2, <2>2 DEF Hopeful, Sound, Joined, Checked, Before
  <2>4. \A c \in Command \ {"CONNECT"} : Due(c) => Satisfies(c)
    BY <1>1, <1>2, <2>2 DEF Hopeful, Checked
  <2>5. QED
    BY <2>3, <2>4, ConformsIs DEF Base, Shape
<1>4. fails # {} => ~Conforms
  BY DEF Doomed, Hopeful
<1>5. (exit' = 0) <=> Conforms
  BY <1>1, <1>3, <1>4
<1>6. QED
  BY <1>1, <1>5, GivenStays DEF VerdictIsDevice

\* The second part of the invariant is kept by every step.
LEMMA VerdictKept == ASSUME Base, Alerted, Ordinary, Verdict, [Next]_vars PROVE Verdict'
<1>1. CASE pc = "done"
  <2>1. UNCHANGED <<given, link, cancelled, excused, exit>> /\ pc' = "done"
    BY <1>1 DEF Base, Planned, Next, Environment, Run, vars, device, net, run, Goto, Define, Begin, Answer,
       Ignore, FrameArrives, Chatter, LoseLink, Cancel, Dial, Discover, Settle, NextDevice, Anchor,
       Inspect, checkContracts, Send, SendFails, Settled, TimedOut, Frame, Finish, Report
  <2>2. Conforms' <=> Conforms
    BY <2>1, GivenStays
  <2>3. VerdictIsDevice
    BY <1>1 DEF Verdict
  <2>4. VerdictIsDevice'
    BY <2>1, <2>2, <2>3 DEF VerdictIsDevice
  <2>5. QED
    BY <2>1, <2>4 DEF Verdict
<1>2. CASE pc # "done" /\ pc' = "done"
  <2>1. Dial \/ Report
    BY <1>2 DEF Next, Environment, Run, vars, run, Goto, After, Define, Begin, Answer,
       Ignore, FrameArrives, Chatter, LoseLink, Cancel, Dial, Discover, Settle, NextDevice, Anchor,
       Inspect, checkContracts, Send, SendFails, Settled, TimedOut, Frame, Finish, Report
  <2>2. CASE Dial
    <3>1. exit' = 2
      BY <1>2, <2>2 DEF Dial, Goto
    <3>2. QED
      BY <1>2, <3>1 DEF Verdict, VerdictIsDevice
  <2>3. CASE Report
    <3>1. CASE Clear'
      <4>1. Clear /\ (Doomed \/ Hopeful)
        BY <1>2, <3>1, ClearWas DEF Verdict
      <4>2. QED
        BY <1>2, <2>3, <4>1, ReportIsRight DEF Verdict
    <3>2. CASE ~Clear'
      BY <1>2, <3>2 DEF Verdict, VerdictIsDevice, Clear
    <3>3. QED
      BY <3>1, <3>2
  <2>4. QED
    BY <2>1, <2>2, <2>3
<1>3. CASE pc # "done" /\ pc' # "done"
  <2>6. exit' = Running
    BY <1>3 DEF Verdict, Next, Environment, Run, vars, run, Define, Begin, Answer,
       Ignore, FrameArrives, Chatter, LoseLink, Cancel, Dial, Discover, Settle, NextDevice, Anchor,
       Inspect, checkContracts, Send, SendFails, Settled, TimedOut, Frame, Finish, Report, Goto
  <2>1. SUFFICES ASSUME Clear' PROVE Doomed' \/ Hopeful'
    BY <1>3, <2>6 DEF Verdict, Running
  <2>2. Clear /\ (Doomed \/ Hopeful)
    BY <1>3, <2>1, ClearWas DEF Verdict
  <2>3. CASE Doomed
    BY <2>3, DoomStays
  <2>4. CASE Hopeful
    <3>1. CASE Environment
      BY <2>1, <2>4, <3>1, EnvironmentKeepsHopeful
    <3>2. CASE Run
      <4>1. ~SendFails
        BY <2>2 DEF Clear, SendFails
      <4>2. ~Report
        BY <1>3 DEF Report, Goto
      <4>3. QED
        BY <1>3, <2>1, <2>4, <3>2, <4>1, <4>2, EarlyStepsKeepHope, InspectKeepsHope, ContractsKeepHope,
           SendKeepsHope, SettledKeepsHope, TimedOutKeepsHope, LateStepsKeepHope DEF Run
    <3>3. CASE UNCHANGED vars
      <4>1. UNCHANGED <<given, run, coming, seen, online, todo, frame, state, fresh>>
        BY <3>3 DEF vars, device, store
      <4>2. /\ All' = All /\ Initially' = Initially /\ (Connects' <=> Connects)
        BY <4>1, GivenStays DEF Connects, run
      <4>3. Arrivals'
        BY <2>4, <4>1, <4>2 DEF Hopeful, Arrivals, Arrived, run, given
      <4>4. Progress'
        <5>1. PICK c : c = Head(plan)
          OBVIOUS
        <5>2. Outstanding(c) => Outstanding(c)'
          BY <4>1 DEF Outstanding, Answered, Unanswered, Silent, given
        <5>3. Quiet => Quiet'
          BY <4>1 DEF Quiet, Silent, given
        <5>4. QED
          BY <2>4, <4>1, <5>1, <5>2, <5>3 DEF Hopeful, Progress, run
      <4>5. QED
        BY <2>4, <4>1, <4>3, <4>4, HopefulStays
    <3>4. QED
      BY <3>1, <3>2, <3>3 DEF Next
  <2>5. QED
    BY <2>2, <2>3, <2>4
<1>4. QED
  BY <1>1, <1>2, <1>3

\* The exit code is about the device, unless something the checker cannot help is the
\* reason (Run, checkDevice, checkContracts and mutations, conform/conform.go): of every
\* device that is ordinary.
THEOREM VerdictsAreDevices == Spec => [](Ordinary => VerdictIsDevice)
<1>1. Init => IInv
  BY InitBase, InitVerdict DEF IInv
<1>2. ASSUME IInv, [Next]_vars PROVE IInv'
  <2>1. Base' /\ Alerted'
    BY <1>2, BaseKept, AlertedKept DEF IInv
  <2>2. Ordinary' <=> Ordinary
    BY <1>2, GivenKept DEF Ordinary, given
  <2>3. Ordinary => Verdict'
    BY <1>2, VerdictKept DEF IInv
  <2>4. QED
    BY <2>1, <2>2, <2>3 DEF IInv
<1>3. IInv => (Ordinary => VerdictIsDevice)
  <2>1. ASSUME IInv, Ordinary, pc # "done" PROVE exit \notin {0, 1}
    BY <2>1 DEF IInv, Verdict, Running
  <2>2. QED
    BY <2>1 DEF IInv, Verdict, VerdictIsDevice
<1>4. QED
  BY <1>1, <1>2, <1>3, PTL DEF Spec
=============================================================================
