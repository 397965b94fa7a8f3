---------------------------- MODULE ServerProofs ----------------------------
(***************************************************************************)
(* Proofs about server/server.go beside the hub: about the commands that   *)
(* set things, for any clients, vectors, limits and commands (module       *)
(* Settings), and, at the end, about a server's life, for any set of       *)
(* devices, however they are named and whenever they are added (module     *)
(* Lifecycle).                                                             *)
(***************************************************************************)
EXTENDS SettingsProperties, LifecycleProperties, TLAPS

-----------------------------------------------------------------------------
(* The invariant *)

All == Vectors \cup {"CONNECTION"}

\* What ParseNumber gives.
Number == Int \cup {NaN}

Shape ==
    /\ DOMAIN camera = Hardware /\ DOMAIN num = Vectors /\ DOMAIN defs = Hardware
    /\ DOMAIN state = All /\ DOMAIN shown = All /\ DOMAIN mixed = All
    /\ DOMAIN pc = Client /\ DOMAIN cmd = Client /\ DOMAIN local = Client /\ DOMAIN left = Client
    /\ DOMAIN caps = Client /\ DOMAIN pubs = Client /\ DOMAIN answered = Client
    /\ \A h \in Hardware : camera[h] \in [Members(h) -> Number]
    /\ \A v \in Vectors : num[v] \in [Members(v) -> Number]
    /\ defined \subseteq Hardware

\* What a read loop does, and to which property.
Connecting == {"connection", "switch", "caps", "lock", "pubs", "failed"}
Stage(c) ==
    /\ pc[c] \in {"idle", "reject", "alert", "cam", "write", "read", "set", "ok", "publish"} \cup Connecting
    /\ pc[c] \in {"reject", "alert"} => cmd[c].to \in Vectors
    /\ pc[c] \in {"cam", "write", "read"} => cmd[c].to \in defined
    /\ pc[c] = "set" => cmd[c].to \in Vectors /\ (cmd[c].to \in Hardware => cmd[c].to \in defined)
    /\ pc[c] \in {"ok", "publish"} => cmd[c].to \in All
    /\ pc[c] \in Connecting => cmd[c].to = "CONNECTION"
    /\ caps[c] \subseteq Hardware /\ (pc[c] = "lock" => caps[c] # {})
    /\ pubs[c] \subseteq {"define", "update"} \X Hardware
    /\ pubs[c] # {} => pc[c] \in {"caps", "lock", "pubs"}
Stages == \A c \in Client : Stage(c)

\* The values on their way are within the limits of where they go, or that member was
\* once given as NaN.
Allowed(v, m, x, nans) == x \in Number /\ (OutOfRange(v, m, x) => <<v, m>> \in nans)
Within(v, m, x) == Allowed(v, m, x, sentNaN)
Good(v, vals) == vals \in [Members(v) -> Number] /\ \A m \in Members(v) : Within(v, m, vals[m])
Carried(c) ==
    /\ pc[c] = "cam" =>
         /\ left[c] = DOMAIN cmd[c].vals \cap Members(cmd[c].to) /\ local[c] = cmd[c].vals
         /\ \A m \in left[c] : Within(cmd[c].to, m, local[c][m])
    /\ pc[c] = "write" /\ cmd[c].to = "CCD_FRAME" => Good("CCD_FRAME", local[c])
    /\ pc[c] = "set" \/ (pc[c] = "write" /\ cmd[c].to = "CCD_CONTROLS") =>
         left[c] \subseteq Members(cmd[c].to) /\ \A m \in left[c] : Within(cmd[c].to, m, local[c][m])
    /\ pc[c] = "lock" => Good(Cap(c), local[c])
Ranges == OutsideOnlyByNaN /\ \A c \in Client : Carried(c)

\* Where handlers have not overlapped there is at most one, ...
Sole == \A p \in All : ~mixed[p] => \A c, d \in Handlers(p) : c = d

\* ... and what it has not yet written, it has from the camera as it is.
Writing(c, h) == cmd[c].to = h /\ pc[c] \in {"write", "read", "set"}
Synced ==
    \A h \in Hardware : ~mixed[h] =>
        /\ h \in defined /\ (\A c \in Client : ~Writing(c, h)) => num[h] = camera[h]
        /\ \A c \in Client :
             /\ cmd[c].to = h /\ pc[c] = "set" =>
                  local[c] = camera[h] /\ \A m \in Members(h) \ left[c] : num[h][m] = camera[h][m]
             /\ pc[c] = "lock" /\ Cap(c) = h => local[c] = camera[h]
Switched ==
    ~mixed["CONNECTION"] =>
        /\ (\A c \in Client : pc[c] # "switch") => sw = {IF connected THEN "CONNECT" ELSE "DISCONNECT"}
        /\ \A c \in Client : pc[c] = "switch" => (connected <=> Asks(cmd[c].vals))

\* A change that is not published yet, somebody is going to publish.
Owes(c, p) ==
    \/ pc[c] \notin {"idle", "cam"} /\ cmd[c].to = p
    \/ \E kind \in {"define", "update"} : <<kind, p>> \in pubs[c]
Current == \A p \in All : shown[p] \in {Unset, Image(p)} \/ \E c \in Client : Owes(c, p)

\* An optional property is defined once, or one client is about to define it.
Defining(c, h) == <<"define", h>> \in pubs[c]
DefinedOnce ==
    \A h \in Hardware :
        /\ \A c \in Client : Defining(c, h) =>
             h \in defined /\ defs[h] = 0 /\ \A d \in Client : Defining(d, h) => d = c
        /\ (\A c \in Client : ~Defining(c, h)) => defs[h] = IF h \in defined THEN 1 ELSE 0

Base == Shape /\ Stages

-----------------------------------------------------------------------------
(* What the steps do *)

\* A step is of one client, or the camera comes and goes, or nothing happens.
LEMMA Cases ==
    ASSUME [Next]_vars, NEW P,
           ASSUME NEW c \in Client, NEW k \in Commands, Receive(c, k) PROVE P,
           ASSUME NEW c \in Client, HandleNew(c) PROVE P,
           ASSUME UNCHANGED <<device, pc, thread, history>> PROVE P
    PROVE  P
BY DEF Next, Hotplug, vars

\* A client's step leaves the others where they are.
LEMMA Others ==
    ASSUME Shape, NEW c \in Client, NEW d \in Client, d # c,
           HandleNew(c) \/ \E k \in Commands : Receive(c, k)
    PROVE  /\ pc'[d] = pc[d] /\ cmd'[d] = cmd[d] /\ local'[d] = local[d] /\ left'[d] = left[d]
           /\ caps'[d] = caps[d] /\ pubs'[d] = pubs[d] /\ answered'[d] = answered[d]
<1> USE DEF thread, history, Shape
<1>1. ASSUME NEW k \in Commands, Receive(c, k)
      PROVE  /\ pc'[d] = pc[d] /\ cmd'[d] = cmd[d] /\ local'[d] = local[d] /\ left'[d] = left[d]
             /\ caps'[d] = caps[d] /\ pubs'[d] = pubs[d] /\ answered'[d] = answered[d]
  BY <1>1 DEF Receive, messageTo
<1>2. CASE Cam(c) \/ SetSubframe(c) \/ SetControl(c) \/ Read(c) \/ SetNumber(c)
  BY <1>2 DEF Cam, SetSubframe, SetControl, Read, SetNumber
<1>3. CASE handleConnection(c) \/ Switch(c) \/ ReadCap(c) \/ LockCap(c)
  BY <1>3 DEF handleConnection, Switch, ReadCap, LockCap
<1>4. CASE PublishCap(c) \/ Conclude(c) \/ Update(c)
  BY <1>4 DEF PublishCap, Conclude, SetState, Update, Publish
<1>5. QED
  BY <1>1, <1>2, <1>3, <1>4 DEF HandleNew

\* Vectors are not the connection.
LEMMA Names ==
    /\ "CONNECTION" \notin Vectors /\ "nowhere" \notin Vectors
    /\ Hardware \subseteq Vectors /\ Hardware \subseteq {"CCD_FRAME", "CCD_CONTROLS"}
    /\ Vectors \subseteq All /\ "CONNECTION" \in All
BY SettingsAssumption DEF SettingsAssumption, All

-----------------------------------------------------------------------------
(* Types and stages *)

\* What a handled command is for.
LEMMA Handled ==
    ASSUME Base, NEW k \in Commands, k.to # "nowhere", ~Dropped(k)
    PROVE  /\ k.to \in All /\ (k.to \in Hardware => k.to \in defined)
           /\ k.elem = (IF k.to = "CONNECTION" THEN "Switch" ELSE "Number")
<1>1. k.to \in Properties /\ k.to # "CCD_INFO" /\ TypeOf(k.to) = k.elem
  BY DEF Dropped
<1>2. defined \subseteq Hardware
  BY DEF Base, Shape
<1>3. QED
  BY <1>1, <1>2, Names DEF Properties, TypeOf, All

\* The server starts in its shape.
LEMMA InitBase == Init => Base
<1> SUFFICES ASSUME Init PROVE Base
  OBVIOUS
<1>1. \A v \in Vectors : Start(v) \in [Members(v) -> Number]
  BY SettingsAssumption DEF SettingsAssumption, Start, Number
<1>2. Shape
  BY <1>1, Names DEF Init, Shape, All
<1>3. Stages
  BY DEF Init, Stages, Stage, Connecting
<1>4. QED
  BY <1>2, <1>3 DEF Base

\* The one of them that is next is one of them.
LEMMA CapIsOne ==
    ASSUME Base, NEW c \in Client, caps[c] # {}
    PROVE  Cap(c) \in caps[c] /\ Cap(c) \in Hardware
<1>1. caps[c] \subseteq Hardware
  BY DEF Base, Stages, Stage
<1>2. QED
  BY <1>1, Names DEF Cap

\* Each step keeps the shapes, if the values that it writes are numbers.
LEMMA ShapeKept ==
    ASSUME Base, Ranges, [Next]_vars PROVE Shape'
<1> USE DEF Base, Shape, thread, history, device
<1>1. ASSUME NEW c \in Client, NEW k \in Commands, Receive(c, k) PROVE Shape'
  <2>1. DOMAIN mixed' = DOMAIN mixed
    BY <1>1 DEF Receive
  <2>2. QED
    BY <1>1, <2>1 DEF Receive, messageTo
<1>2. ASSUME NEW c \in Client, HandleNew(c) PROVE Shape'
  <2> USE DEF Stages, Stage, Ranges, Carried, Good
  <2>0. \A x \in Number : \A i \in NaNInts : ToInt(x, i) \in Number
    BY SettingsAssumption DEF SettingsAssumption, Number, ToInt
  <2>1. CASE Cam(c) \/ Read(c)
    BY <2>1 DEF Cam, Read, Anew
  <2>2. CASE SetSubframe(c)
    BY <2>2 DEF SetSubframe, Takes
  <2>3. CASE SetControl(c)
    <3>1. CASE left[c] = {}
      BY <2>3, <3>1 DEF SetControl
    <3>2. CASE left[c] # {}
      <4>1. PICK m \in left[c], i \in NaNInts : \E got \in {ToInt(local[c][m], i), camera["CCD_CONTROLS"][m]} :
               camera' = [camera EXCEPT !["CCD_CONTROLS"][m] = got]
        BY <2>3, <3>2 DEF SetControl
      <4>2. m \in Members("CCD_CONTROLS") /\ ToInt(local[c][m], i) \in Number /\ "CCD_CONTROLS" \in Hardware
        BY <2>0, <2>3 DEF SetControl, Within, Allowed
      <4>3. \A h \in Hardware : camera'[h] \in [Members(h) -> Number]
        BY <4>1, <4>2
      <4>4. QED
        BY <2>3, <4>1, <4>3 DEF SetControl
    <3>3. QED
      BY <3>1, <3>2
  <2>4. CASE SetNumber(c)
    <3>1. CASE left[c] = {}
      BY <2>4, <3>1 DEF SetNumber
    <3>2. CASE left[c] # {}
      <4>1. PICK m \in left[c] : num' = [num EXCEPT ![cmd[c].to][m] = local[c][m]]
        BY <2>4, <3>2 DEF SetNumber
      <4>2. m \in Members(cmd[c].to) /\ local[c][m] \in Number /\ cmd[c].to \in Vectors
        BY <2>4 DEF SetNumber, Within, Allowed
      <4>3. \A v \in Vectors : num'[v] \in [Members(v) -> Number]
        BY <4>1, <4>2
      <4>4. QED
        BY <2>4, <4>1, <4>3 DEF SetNumber
    <3>3. QED
      BY <3>1, <3>2
  <2>5. CASE handleConnection(c) \/ Switch(c) \/ ReadCap(c)
    BY <2>5 DEF handleConnection, Switch, ReadCap, Anew
  <2>6. CASE LockCap(c)
    <3>1. Cap(c) \in Hardware /\ local[c] \in [Members(Cap(c)) -> Number] /\ pc[c] = "lock"
      BY <2>6, CapIsOne DEF LockCap
    <3>2. num' = [num EXCEPT ![Cap(c)] = local[c]]
      BY <2>6 DEF LockCap
    <3>3. \A v \in Vectors : num'[v] \in [Members(v) -> Number]
      BY <3>1, <3>2
    <3>4. DOMAIN state' = DOMAIN state /\ defined' \subseteq Hardware /\ DOMAIN num' = DOMAIN num
      BY <2>6, <3>1 DEF LockCap
    <3>5. QED
      BY <2>6, <3>3, <3>4 DEF LockCap
  <2>7. CASE PublishCap(c) \/ Conclude(c) \/ Update(c)
    BY <2>7 DEF PublishCap, Conclude, SetState, Update, Publish
  <2>8. QED
    BY <1>2, <2>1, <2>2, <2>3, <2>4, <2>5, <2>6, <2>7 DEF HandleNew
<1>3. ASSUME UNCHANGED <<device, pc, thread, history>> PROVE Shape'
  BY <1>3
<1>4. QED
  BY <1>1, <1>2, <1>3, Cases

\* What is defined stays so.
LEMMA StaysDefined == ASSUME Base, [Next]_vars PROVE defined \subseteq defined'
<1> USE DEF device
<1>1. ASSUME NEW c \in Client, NEW k \in Commands, Receive(c, k) PROVE defined \subseteq defined'
  BY <1>1 DEF Receive
<1>2. ASSUME NEW c \in Client, HandleNew(c) PROVE defined \subseteq defined'
  BY <1>2 DEF HandleNew, Cam, SetSubframe, SetControl, Read, SetNumber, handleConnection, Switch,
              ReadCap, LockCap, PublishCap, Conclude, SetState, Update
<1>3. ASSUME UNCHANGED <<device, pc, thread, history>> PROVE defined \subseteq defined'
  BY <1>3
<1>4. QED
  BY <1>1, <1>2, <1>3, Cases

\* Each step takes its client to the next stage.
LEMMA StagesKept == ASSUME Base, [Next]_vars PROVE Stages'
<1>1. ASSUME NEW c \in Client, NEW k \in Commands, Receive(c, k) PROVE Stage(c)'
  <2> USE DEF Receive, messageTo, thread, device, Base, Shape, Stages, Stage, Connecting
  <2>1. CASE k.to = "nowhere" \/ Dropped(k)
    <3>1. pc[c] = "idle" /\ pc'[c] = "idle" /\ caps' = caps /\ pubs' = pubs
      BY <1>1, <2>1
    <3>2. QED
      BY <3>1
  <2>2. CASE k.to # "nowhere" /\ ~Dropped(k)
    <3>1. cmd'[c] = k /\ caps' = caps /\ pubs' = pubs /\ defined' = defined /\ pc[c] = "idle"
      BY <1>1
    <3>2. pc'[c] = IF Rejected(k) THEN "reject" ELSE First(k)
      BY <1>1, <2>2
    <3>3. k.to \in All /\ (k.to \in Hardware => k.to \in defined) /\ (Rejected(k) => k.to \in Vectors)
      BY <2>2, Handled DEF All, Rejected
    <3>4. First(k) = IF k.to = "CONNECTION" THEN "connection" ELSE IF k.to \in Hardware THEN "cam" ELSE "set"
      BY Names DEF First
    <3>5. QED
      BY <3>1, <3>2, <3>3, <3>4 DEF All
  <2>3. QED
    BY <2>1, <2>2
<1>2. ASSUME NEW c \in Client, HandleNew(c) PROVE Stage(c)'
  <2> USE DEF thread, device, history, Base, Shape, Stages, Stage, Connecting
  <2>1. CASE Cam(c) \/ SetSubframe(c) \/ SetControl(c) \/ SetNumber(c)
    BY <2>1, Names DEF Cam, SetSubframe, SetControl, SetNumber
  <2>2. CASE Read(c)
    BY <2>2, Names DEF Read
  <2>3. CASE handleConnection(c) \/ Switch(c)
    <3>1. pc[c] \in {"connection", "switch"} /\ pubs' = pubs /\ cmd' = cmd
      BY <2>3 DEF handleConnection, Switch
    <3>2. pc'[c] \in {"failed", "switch", "ok", "caps"}
      BY <2>3 DEF handleConnection, Switch
    <3>3. caps'[c] \in {caps[c], Hardware, {}}
      BY <2>3 DEF handleConnection, Switch
    <3>4. cmd[c].to = "CONNECTION" /\ pubs[c] = {} /\ caps'[c] \subseteq Hardware
      BY <3>1, <3>3
    <3>5. QED
      BY <3>1, <3>2, <3>4, Names
  <2>4. CASE ReadCap(c)
    <3>1. pc[c] = "caps" /\ cmd' = cmd /\ caps' = caps /\ pubs' = pubs /\ defined' = defined
      BY <2>4 DEF ReadCap
    <3>2. pc'[c] = IF caps[c] = {} THEN "pubs" ELSE "lock"
      BY <2>4 DEF ReadCap
    <3>3. QED
      BY <3>1, <3>2
  <2>5. CASE LockCap(c)
    <3>1. Cap(c) \in Hardware /\ pc[c] = "lock"
      BY <2>5, CapIsOne DEF LockCap
    <3>2. pubs'[c] \subseteq {"define", "update"} \X Hardware
      BY <2>5, <3>1 DEF LockCap
    <3>3. pc'[c] = "caps" /\ cmd' = cmd /\ caps'[c] \subseteq caps[c]
      BY <2>5 DEF LockCap
    <3>4. QED
      BY <3>1, <3>2, <3>3
  <2>6. CASE PublishCap(c)
    <3>1. pc[c] = "pubs" /\ cmd' = cmd /\ caps' = caps
      BY <2>6 DEF PublishCap
    <3>2. CASE pubs[c] = {}
      BY <2>6, <3>1, <3>2 DEF PublishCap, All
    <3>3. CASE pubs[c] # {}
      BY <2>6, <3>1, <3>3 DEF PublishCap
    <3>4. QED
      BY <3>2, <3>3
  <2>7. CASE Conclude(c)
    BY <2>7, Names DEF Conclude, SetState, Rejecting, All
  <2>8. CASE Update(c)
    BY <2>8 DEF Update
  <2>9. QED
    BY <1>2, <2>1, <2>2, <2>3, <2>4, <2>5, <2>6, <2>7, <2>8 DEF HandleNew
<1>3. ASSUME NEW c \in Client, NEW d \in Client, d # c,
             HandleNew(c) \/ \E k \in Commands : Receive(c, k)
      PROVE  Stage(d)'
  <2>1. Stage(d) /\ defined \subseteq defined' /\ Shape
    BY StaysDefined DEF Base, Stages
  <2>2. /\ pc'[d] = pc[d] /\ cmd'[d] = cmd[d] /\ caps'[d] = caps[d] /\ pubs'[d] = pubs[d]
    BY <1>3, <2>1, Others
  <2>3. QED
    BY <2>1, <2>2 DEF Stage
<1>4. ASSUME UNCHANGED <<device, pc, thread, history>> PROVE Stages'
  BY <1>4 DEF device, thread, Base, Stages, Stage
<1>5. QED
  <2>1. ASSUME NEW c \in Client, NEW k \in Commands, Receive(c, k) PROVE Stages'
    BY <1>1, <1>3, <2>1 DEF Stages
  <2>2. ASSUME NEW c \in Client, HandleNew(c) PROVE Stages'
    BY <1>2, <1>3, <2>2 DEF Stages
  <2>3. QED
    BY <1>4, <2>1, <2>2, Cases

\* Every step keeps shape and stages.
LEMMA BaseKept == ASSUME Base, Ranges, [Next]_vars PROVE Base'
BY ShapeKept, StagesKept DEF Base

-----------------------------------------------------------------------------
(* Limits *)

\* Limits are integers.
LEMMA LimitsAre ==
    ASSUME NEW v \in Vectors, NEW m \in Members(v)
    PROVE  Limits[v][m][1] \in Int /\ Limits[v][m][2] \in Int
BY SettingsAssumption DEF SettingsAssumption

\* What int() makes of a value that is allowed is allowed.
LEMMA ToIntIsAllowed ==
    ASSUME NEW v \in Vectors, NEW m \in Members(v), NEW x, NEW nans, NEW i \in NaNInts, Allowed(v, m, x, nans)
    PROVE  Allowed(v, m, ToInt(x, i), nans)
<1>1. CASE x = NaN
  <2>1. x \notin Limits[v][m][1]..Limits[v][m][2] /\ ToInt(x, i) \in Number
    BY <1>1, LimitsAre, SettingsAssumption DEF SettingsAssumption, ToInt, Number
  <2>2. QED
    BY <2>1 DEF Allowed, OutOfRange
<1>2. CASE x # NaN
  BY <1>2 DEF ToInt
<1>3. QED
  BY <1>1, <1>2

\* No step forgets a NaN, ...
LEMMA NaNsStay == ASSUME [Next]_vars PROVE sentNaN \subseteq sentNaN'
<1> USE DEF thread, history, device
<1>1. ASSUME NEW c \in Client, NEW k \in Commands, Receive(c, k) PROVE sentNaN \subseteq sentNaN'
  BY <1>1 DEF Receive
<1>2. ASSUME NEW c \in Client, HandleNew(c) PROVE sentNaN \subseteq sentNaN'
  BY <1>2 DEF HandleNew, Cam, SetSubframe, SetControl, Read, SetNumber, handleConnection, Switch,
              ReadCap, LockCap, PublishCap, Conclude, SetState, Update
<1>3. ASSUME UNCHANGED <<device, pc, thread, history>> PROVE sentNaN \subseteq sentNaN'
  BY <1>3
<1>4. QED
  BY <1>1, <1>2, <1>3, Cases

\* ... so that what was allowed remains so, ...
LEMMA StaysAllowed ==
    ASSUME sentNaN \subseteq sentNaN', NEW v, NEW m, NEW x, Within(v, m, x)
    PROVE  Allowed(v, m, x, sentNaN')
BY DEF Within, Allowed

\* ... and dispatchNew lets nothing else through.
LEMMA Passes ==
    ASSUME NEW k \in Commands, k.to \in Vectors, k.elem = "Number", ~Rejected(k),
           NEW nans, NaNs(k) \subseteq nans
    PROVE  \A m \in DOMAIN k.vals \cap Members(k.to) : Allowed(k.to, m, k.vals[m], nans)
<1> SUFFICES ASSUME NEW m \in DOMAIN k.vals \cap Members(k.to) PROVE Allowed(k.to, m, k.vals[m], nans)
  OBVIOUS
<1>1. k.vals[m] # Junk /\ ~Outside(k.to, m, k.vals[m])
  BY DEF Rejected
<1>2. k.vals[m] \in Number
  BY <1>1, SettingsAssumption DEF SettingsAssumption, Number
<1>3. CASE k.vals[m] = NaN
  BY <1>2, <1>3 DEF NaNs, Allowed
<1>4. CASE k.vals[m] # NaN
  <2>1. k.vals[m] \in Int
    BY <1>2, <1>4 DEF Number
  <2>2. ~OutOfRange(k.to, m, k.vals[m])
    BY <1>1, <1>4, <2>1, LimitsAre DEF Outside, OutOfRange
  <2>3. QED
    BY <1>2, <2>2 DEF Allowed
<1>5. QED
  BY <1>3, <1>4

\* The property, by the names of this proof.
LEMMA RangesAre ==
    ASSUME Shape
    PROVE  OutsideOnlyByNaN <=> /\ \A h \in Hardware : \A m \in Members(h) : Within(h, m, camera[h][m])
                                /\ \A v \in Vectors : \A m \in Members(v) : Within(v, m, num[v][m])
BY DEF Shape, OutsideOnlyByNaN, Within, Allowed

\* The initial values are in range.
LEMMA InitRanges == Init => Ranges
<1> SUFFICES ASSUME Init PROVE Ranges
  OBVIOUS
<1>1. ASSUME NEW v \in Vectors PROVE Good(v, Start(v))
  <2>1. Start(v) \in [Members(v) -> Number]
    BY LimitsAre DEF Start, Number
  <2>2. \A m \in Members(v) : Within(v, m, Start(v)[m])
    BY LimitsAre DEF Start, Within, Allowed, OutOfRange, Number
  <2>3. QED
    BY <2>1, <2>2 DEF Good
<1>2. OutsideOnlyByNaN
  <2>1. Shape
    BY InitBase DEF Base
  <2>2. QED
    BY <1>1, <2>1, RangesAre, Names DEF Init, Good
<1>3. \A c \in Client : Carried(c)
  BY DEF Init, Carried
<1>4. QED
  BY <1>2, <1>3 DEF Ranges

\* What is in the camera, and in the members, stays within the limits, but for NaN.
LEMMA OutsideKept == ASSUME Base, Ranges, [Next]_vars PROVE OutsideOnlyByNaN'
<1> USE DEF thread, history, device
<1>1. Shape /\ Shape' /\ Stages /\ sentNaN \subseteq sentNaN'
  BY ShapeKept, NaNsStay DEF Base
<1>2. /\ \A h \in Hardware : \A m \in Members(h) : Within(h, m, camera[h][m])
      /\ \A v \in Vectors : \A m \in Members(v) : Within(v, m, num[v][m])
  BY <1>1, RangesAre DEF Ranges
<1> SUFFICES /\ \A h \in Hardware : \A m \in Members(h) : Allowed(h, m, camera'[h][m], sentNaN')
             /\ \A v \in Vectors : \A m \in Members(v) : Allowed(v, m, num'[v][m], sentNaN')
  BY <1>1 DEF Shape, OutsideOnlyByNaN, Allowed
<1> DEFINE CameraAllowed == \A h \in Hardware : \A m \in Members(h) : Allowed(h, m, camera'[h][m], sentNaN')
           NumAllowed == \A v \in Vectors : \A m \in Members(v) : Allowed(v, m, num'[v][m], sentNaN')
<1>3. camera' = camera => CameraAllowed
  BY <1>1, <1>2, StaysAllowed
<1>4. num' = num => NumAllowed
  BY <1>1, <1>2, StaysAllowed
<1>5. ASSUME NEW c \in Client, SetSubframe(c) PROVE CameraAllowed /\ NumAllowed
  <2>1. camera'["CCD_FRAME"] \in {local[c], camera["CCD_FRAME"]} /\ num' = num
    BY <1>1, <1>5 DEF SetSubframe, Takes, Shape, Stages, Stage
  <2>2. \A h \in Hardware : h # "CCD_FRAME" => camera'[h] = camera[h]
    BY <1>1, <1>5 DEF SetSubframe, Shape
  <2>3. \A m \in Members("CCD_FRAME") : Within("CCD_FRAME", m, local[c][m])
    BY <1>5 DEF SetSubframe, Ranges, Carried, Good
  <2>4. ASSUME NEW h \in Hardware, NEW m \in Members(h) PROVE Within(h, m, camera'[h][m])
    <3>1. CASE h = "CCD_FRAME"
      BY <1>2, <2>1, <2>3, <3>1
    <3>2. CASE h # "CCD_FRAME"
      BY <1>2, <2>2, <3>2
    <3>3. QED
      BY <3>1, <3>2
  <2>5. CameraAllowed
    BY <1>1, <2>4, StaysAllowed
  <2>6. QED
    BY <1>4, <2>1, <2>5
<1>6. ASSUME NEW c \in Client, SetControl(c), left[c] # {} PROVE CameraAllowed /\ NumAllowed
  <2>1. PICK m \in left[c], i \in NaNInts : \E got \in {ToInt(local[c][m], i), camera["CCD_CONTROLS"][m]} :
           camera' = [camera EXCEPT !["CCD_CONTROLS"][m] = got]
    BY <1>6 DEF SetControl
  <2>2. Within("CCD_CONTROLS", m, local[c][m]) /\ m \in Members("CCD_CONTROLS") /\ "CCD_CONTROLS" \in Hardware
        /\ num' = num
    BY <1>1, <1>6 DEF SetControl, Ranges, Carried, Shape, Stages, Stage
  <2>3. Within("CCD_CONTROLS", m, ToInt(local[c][m], i))
    BY <2>2, ToIntIsAllowed, Names DEF Within
  <2>4. \A h \in Hardware : \A n \in Members(h) :
          camera'[h][n] = camera[h][n] \/ (h = "CCD_CONTROLS" /\ n = m /\ camera'[h][n] = ToInt(local[c][m], i))
    BY <1>1, <2>1, <2>2 DEF Shape
  <2>5. ASSUME NEW h \in Hardware, NEW n \in Members(h) PROVE Within(h, n, camera'[h][n])
    BY <1>2, <2>3, <2>4
  <2>6. CameraAllowed
    BY <1>1, <2>5, StaysAllowed
  <2>7. QED
    BY <1>4, <2>2, <2>6
<1>7. ASSUME NEW c \in Client, SetNumber(c), left[c] # {} PROVE CameraAllowed /\ NumAllowed
  <2>1. PICK m \in left[c] : num' = [num EXCEPT ![cmd[c].to][m] = local[c][m]]
    BY <1>7 DEF SetNumber
  <2>2. Within(cmd[c].to, m, local[c][m]) /\ m \in Members(cmd[c].to) /\ cmd[c].to \in Vectors
        /\ camera' = camera
    BY <1>1, <1>7 DEF SetNumber, Ranges, Carried, Shape, Stages, Stage
  <2>3. \A v \in Vectors : \A n \in Members(v) :
          num'[v][n] = num[v][n] \/ (v = cmd[c].to /\ n = m /\ num'[v][n] = local[c][m])
    BY <1>1, <2>1, <2>2 DEF Shape
  <2>4. ASSUME NEW v \in Vectors, NEW n \in Members(v) PROVE Within(v, n, num'[v][n])
    BY <1>2, <2>2, <2>3
  <2>5. NumAllowed
    BY <1>1, <2>4, StaysAllowed
  <2>6. QED
    BY <1>3, <2>2, <2>5
<1>8. ASSUME NEW c \in Client, LockCap(c) PROVE CameraAllowed /\ NumAllowed
  <2>1. Cap(c) \in Hardware /\ Good(Cap(c), local[c]) /\ camera' = camera
    BY <1>1, <1>8, CapIsOne DEF LockCap, Ranges, Carried, Stages, Stage
  <2>2. num' = [num EXCEPT ![Cap(c)] = local[c]]
    BY <1>8 DEF LockCap
  <2>3. ASSUME NEW v \in Vectors, NEW n \in Members(v) PROVE Within(v, n, num'[v][n])
    BY <1>1, <1>2, <2>1, <2>2 DEF Good, Shape
  <2>4. NumAllowed
    BY <1>1, <2>3, StaysAllowed
  <2>5. QED
    BY <1>3, <2>1, <2>4
<1> HIDE DEF CameraAllowed, NumAllowed
<1>9. ASSUME NEW c \in Client, HandleNew(c) PROVE CameraAllowed /\ NumAllowed
  <2>1. \/ camera' = camera /\ num' = num
        \/ SetSubframe(c)
        \/ LockCap(c)
        \/ SetControl(c) /\ left[c] # {}
        \/ SetNumber(c) /\ left[c] # {}
    BY <1>9 DEF HandleNew, Cam, SetControl, Read, SetNumber, handleConnection, Switch,
                ReadCap, PublishCap, Conclude, SetState, Update
  <2>2. QED
    BY <1>3, <1>4, <1>5, <1>6, <1>7, <1>8, <2>1
<1>10. ASSUME NEW c \in Client, NEW k \in Commands, Receive(c, k) PROVE CameraAllowed /\ NumAllowed
  BY <1>3, <1>4, <1>10 DEF Receive
<1>11. ASSUME UNCHANGED <<device, pc, thread, history>> PROVE CameraAllowed /\ NumAllowed
  BY <1>3, <1>4, <1>11
<1>12. CameraAllowed /\ NumAllowed
  BY <1>9, <1>10, <1>11, Cases
<1>13. QED
  BY <1>12 DEF CameraAllowed, NumAllowed

\* ... and so does what is on its way there.
LEMMA CarriedKept == ASSUME Base, Ranges, [Next]_vars PROVE \A c \in Client : Carried(c)'
<1> USE DEF thread, history, device
<1>1. Shape /\ Stages /\ sentNaN \subseteq sentNaN'
  BY NaNsStay DEF Base
<1>2. ASSUME NEW h \in Hardware PROVE Good(h, camera[h])
  BY <1>1, <1>2, RangesAre DEF Good, Ranges, Shape
<1>3. ASSUME NEW c \in Client, NEW k \in Commands, Receive(c, k) PROVE Carried(c)'
  <2>1. pc[c] = "idle"
    BY <1>3 DEF Receive
  <2>2. CASE k.to = "nowhere" \/ Dropped(k) \/ Rejected(k)
    <3>1. pc'[c] \in {"idle", "reject"}
      BY <1>1, <1>3, <2>1, <2>2 DEF Receive, Shape
    <3>2. QED
      BY <3>1 DEF Carried
  <2>3. CASE k.to # "nowhere" /\ ~Dropped(k) /\ ~Rejected(k)
    <3>1. /\ pc'[c] = First(k) /\ cmd'[c] = k /\ local'[c] = k.vals
          /\ left'[c] = IF k.to \in Vectors THEN DOMAIN k.vals \cap Members(k.to) ELSE {}
      BY <1>1, <1>3, <2>3 DEF Receive, Shape
    <3>2. k.to \in All /\ (k.to \in Vectors => k.elem = "Number")
      BY <2>3, Handled, Names
    <3>3. First(k) = IF k.to = "CONNECTION" THEN "connection" ELSE IF k.to \in Hardware THEN "cam" ELSE "set"
      BY Names DEF First
    <3>4. CASE k.to = "CONNECTION"
      BY <3>1, <3>3, <3>4 DEF Carried
    <3>5. CASE k.to \in Vectors
      <4>0. NaNs(k) \subseteq sentNaN'
        BY <1>3, <2>3, <3>2, <3>5 DEF Receive
      <4>1. \A m \in left'[c] : Allowed(k.to, m, local'[c][m], sentNaN')
        BY <2>3, <3>1, <3>2, <3>5, <4>0, Passes
      <4>2. pc'[c] \in {"cam", "set"} /\ left'[c] = DOMAIN k.vals \cap Members(k.to)
        BY <3>1, <3>3, <3>5, Names
      <4>3. QED
        BY <3>1, <4>1, <4>2 DEF Carried, Within
    <3>6. QED
      BY <3>2, <3>4, <3>5 DEF All
  <2>4. QED
    BY <2>2, <2>3
<1>4. ASSUME NEW c \in Client, HandleNew(c) PROVE Carried(c)'
  <2>0. sentNaN' = sentNaN
    BY <1>4 DEF HandleNew, Cam, SetSubframe, SetControl, Read, SetNumber, handleConnection, Switch,
                ReadCap, LockCap, PublishCap, Conclude, SetState, Update
  <2>1. CASE Cam(c)
    <3>1. cmd' = cmd /\ left' = left /\ pc[c] = "cam" /\ cmd[c].to \in Hardware /\ cmd[c].to \in Vectors
      BY <1>1, <2>1, Names DEF Cam, Shape, Stages, Stage
    <3>2. CASE gone
      BY <1>1, <2>1, <3>2 DEF Cam, Carried, Shape
    <3>3. CASE ~gone /\ cmd[c].to = "CCD_CONTROLS"
      <4>1. pc'[c] = "write" /\ local' = local
        BY <1>1, <2>1, <3>3 DEF Cam, Shape
      <4>2. Carried(c)
        BY DEF Ranges
      <4>3. QED
        BY <2>0, <3>1, <3>3, <4>1, <4>2 DEF Carried, Within
    <3>4. CASE ~gone /\ cmd[c].to # "CCD_CONTROLS"
      <4>0. PICK i \in NaNInts :
              local' = [local EXCEPT ![c] = [m \in Members(cmd[c].to) |->
                  IF m \in DOMAIN cmd[c].vals THEN ToInt(cmd[c].vals[m], i) ELSE camera[cmd[c].to][m]]]
        BY <2>1, <3>4 DEF Cam
      <4> DEFINE new == [m \in Members(cmd[c].to) |->
                           IF m \in DOMAIN cmd[c].vals THEN ToInt(cmd[c].vals[m], i) ELSE camera[cmd[c].to][m]]
      <4>1. pc'[c] = "write" /\ local'[c] = new /\ cmd[c].to = "CCD_FRAME"
        BY <1>1, <2>1, <3>1, <3>4, <4>0, Names DEF Cam, Shape
      <4>2. Good(cmd[c].to, camera[cmd[c].to])
        BY <1>2, <3>1
      <4>3. \A m \in Members(cmd[c].to) : Within(cmd[c].to, m, camera[cmd[c].to][m])
        BY <3>1, <4>2 DEF Good
      <4>4. \A m \in Members(cmd[c].to) \cap DOMAIN cmd[c].vals : Within(cmd[c].to, m, ToInt(cmd[c].vals[m], i))
        BY <3>1, ToIntIsAllowed DEF Ranges, Carried, Within
      <4>5. \A m \in Members(cmd[c].to) : Within(cmd[c].to, m, new[m])
        BY <4>3, <4>4
      <4>6. new \in [Members(cmd[c].to) -> Number]
        BY <4>5 DEF Within, Allowed
      <4> HIDE DEF new
      <4>7. Good(cmd[c].to, new)
        BY <4>5, <4>6 DEF Good
      <4>8. QED
        BY <2>0, <3>1, <4>1, <4>7 DEF Carried, Good, Within
    <3>5. QED
      BY <3>2, <3>3, <3>4
  <2>2. CASE SetSubframe(c) \/ Update(c) \/ Conclude(c) \/ PublishCap(c) \/ handleConnection(c) \/ Switch(c)
    <3>1. pc'[c] \notin {"cam", "write", "set", "lock"}
      <4>1. CASE SetSubframe(c) \/ Update(c) \/ Conclude(c)
        BY <1>1, <4>1 DEF Shape, SetSubframe, Update, Conclude, SetState, Rejecting
      <4>2. CASE PublishCap(c) \/ handleConnection(c) \/ Switch(c)
        BY <1>1, <4>2 DEF Shape, PublishCap, handleConnection, Switch
      <4>3. QED
        BY <2>2, <4>1, <4>2
    <3>2. QED
      BY <3>1 DEF Carried
  <2>3. CASE SetControl(c)
    <3>1. cmd' = cmd /\ local' = local /\ pc'[c] \in {"read", pc[c]} /\ left'[c] \subseteq left[c] /\ pc[c] = "write"
          /\ cmd[c].to = "CCD_CONTROLS"
      BY <1>1, <2>3 DEF SetControl, Shape
    <3>2. QED
      BY <2>0, <3>1 DEF Ranges, Carried, Within
  <2>4. CASE Read(c)
    <3>1. pc'[c] = "set" /\ cmd' = cmd /\ local'[c] = camera[cmd[c].to] /\ left'[c] = Members(cmd[c].to)
      BY <1>1, <2>4 DEF Read, ReadBack, Shape
    <3>2. cmd[c].to \in Hardware /\ cmd[c].to \in Vectors
      BY <1>1, <2>4, Names DEF Read, Shape, Stages, Stage
    <3>3. Good(cmd[c].to, camera[cmd[c].to])
      BY <1>2, <3>2
    <3>4. \A m \in Members(cmd[c].to) : Within(cmd[c].to, m, camera[cmd[c].to][m])
      BY <3>2, <3>3 DEF Good
    <3>5. QED
      BY <2>0, <3>1, <3>4 DEF Carried, Within
  <2>5. CASE SetNumber(c)
    <3>1. cmd' = cmd /\ local' = local /\ pc'[c] \in {"ok", pc[c]} /\ left'[c] \subseteq left[c] /\ pc[c] = "set"
      BY <1>1, <2>5 DEF SetNumber, Shape
    <3>2. QED
      BY <2>0, <3>1 DEF Ranges, Carried, Within
  <2>6. CASE ReadCap(c)
    <3>1. CASE caps[c] = {}
      BY <1>1, <2>6, <3>1 DEF ReadCap, Carried, Shape
    <3>2. CASE caps[c] # {}
      <4>1. pc'[c] = "lock" /\ caps' = caps /\ local'[c] = camera[Cap(c)]
        BY <1>1, <2>6, <3>2 DEF ReadCap, Shape
      <4>2. Good(Cap(c), camera[Cap(c)])
        BY <1>2, <3>2, CapIsOne
      <4>3. QED
        BY <2>0, <4>1, <4>2 DEF Carried, Cap, Good, Within
    <3>3. QED
      BY <3>1, <3>2
  <2>7. CASE LockCap(c)
    BY <1>1, <2>7 DEF LockCap, Carried, Shape
  <2>8. QED
    BY <1>4, <2>1, <2>2, <2>3, <2>4, <2>5, <2>6, <2>7 DEF HandleNew
<1>5. ASSUME NEW c \in Client, NEW d \in Client, d # c,
             HandleNew(c) \/ \E k \in Commands : Receive(c, k)
      PROVE  Carried(d)'
  <2>1. Carried(d)
    BY DEF Ranges
  <2>2. pc'[d] = pc[d] /\ cmd'[d] = cmd[d] /\ caps'[d] = caps[d] /\ local'[d] = local[d] /\ left'[d] = left[d]
    BY <1>1, <1>5, Others
  <2>3. QED
    BY <1>1, <2>1, <2>2, StaysAllowed DEF Carried, Cap, Good, Within
<1>6. ASSUME UNCHANGED <<device, pc, thread, history>> PROVE \A c \in Client : Carried(c)'
  BY <1>6 DEF Ranges, Carried, Cap, Good, Within
<1>7. QED
  <2>1. ASSUME NEW c \in Client, NEW k \in Commands, Receive(c, k) PROVE \A d \in Client : Carried(d)'
    BY <1>3, <1>5, <2>1
  <2>2. ASSUME NEW c \in Client, HandleNew(c) PROVE \A d \in Client : Carried(d)'
    BY <1>4, <1>5, <2>2
  <2>3. QED
    BY <1>6, <2>1, <2>2, Cases

\* So these two hold for ever, and other invariants may rest on them.
LEMMA RangesAlways == Spec => [](Base /\ Ranges)
<1>1. Base /\ Ranges /\ [Next]_vars => (Base /\ Ranges)'
  BY BaseKept, OutsideKept, CarriedKept DEF Ranges
<1>2. QED
  BY <1>1, InitBase, InitRanges, PTL DEF Spec

\* A setting outside the limits its property was defined with is in the camera or shown
\* only in a member that a command gave as NaN, whatever integer the processor makes of
\* that, though settings travel through a subframe read earlier and are read back member
\* by member (dispatchNew; CCD_FRAME's and CCD_CONTROLS' handlers).
THEOREM NothingElseOutside == Spec => []OutsideOnlyByNaN
<1>1. Base /\ Ranges => OutsideOnlyByNaN
  BY DEF Ranges
<1>2. QED
  BY <1>1, RangesAlways, PTL

-----------------------------------------------------------------------------
(* Answers *)

\* Each command has an answer, but for no device and for a camera that is not there: a
\* handler that returns early has answered, and so has every drop (dispatchNew, HandleNew).
THEOREM EachIsAnswered == Spec => []Answered
<1> USE DEF thread, history, device
<1>1. Init => Answered
  BY DEF Init, Answered
<1>2. Answered /\ Base /\ [Next]_vars => Answered'
  <2> SUFFICES ASSUME Answered, Base, [Next]_vars PROVE Answered'
    OBVIOUS
  <2> DEFINE Fine(c) == pc[c] = "idle" /\ answered[c] # "yes" =>
                          \/ answered[c] = "no device" /\ cmd[c].to = "nowhere"
                          \/ answered[c] = "gone" /\ cmd[c].to \in Hardware
  <2>1. Shape /\ Stages /\ \A c \in Client : Fine(c)
    BY DEF Base, Answered
  <2>2. ASSUME NEW c \in Client, NEW k \in Commands, Receive(c, k) PROVE Fine(c)'
    <3>1. CASE k.to = "nowhere" \/ Dropped(k)
      BY <2>1, <2>2, <3>1 DEF Receive, messageTo, Shape
    <3>2. CASE k.to # "nowhere" /\ ~Dropped(k)
      <4>1. pc'[c] = IF Rejected(k) THEN "reject" ELSE First(k)
        BY <2>1, <2>2, <3>2 DEF Receive, Shape
      <4>2. First(k) # "idle"
        BY Names DEF First
      <4>3. QED
        BY <4>1, <4>2
    <3>3. QED
      BY <3>1, <3>2
  <2>3. ASSUME NEW c \in Client, HandleNew(c) PROVE Fine(c)'
    <3>1. CASE Cam(c)
      BY <2>1, <3>1 DEF Cam, Shape, Stages, Stage
    <3>2. CASE SetSubframe(c) \/ SetControl(c) \/ Read(c) \/ SetNumber(c)
      <4>1. pc'[c] # "idle"
        BY <2>1, <3>2 DEF SetSubframe, SetControl, Read, SetNumber, Shape
      <4>2. QED
        BY <4>1
    <3>3. CASE handleConnection(c) \/ Switch(c) \/ ReadCap(c) \/ LockCap(c)
      <4>1. pc'[c] # "idle"
        BY <2>1, <3>3 DEF handleConnection, Switch, ReadCap, LockCap, Shape
      <4>2. QED
        BY <4>1
    <3>4. CASE PublishCap(c) \/ Conclude(c)
      <4>1. pc'[c] # "idle"
        BY <2>1, <3>4 DEF PublishCap, Conclude, SetState, Rejecting, Shape
      <4>2. QED
        BY <4>1
    <3>5. CASE Update(c)
      BY <2>1, <3>5 DEF Update, Publish, Shape
    <3>6. QED
      BY <2>3, <3>1, <3>2, <3>3, <3>4, <3>5 DEF HandleNew
  <2>4. ASSUME NEW c \in Client, NEW d \in Client, d # c,
               HandleNew(c) \/ \E k \in Commands : Receive(c, k)
        PROVE  Fine(d)'
    BY <2>1, <2>4, Others
  <2>5. ASSUME UNCHANGED <<device, pc, thread, history>> PROVE \A c \in Client : Fine(c)'
    BY <2>1, <2>5
  <2>6. \A c \in Client : Fine(c)'
    <3> HIDE DEF Fine
    <3>1. ASSUME NEW c \in Client, NEW k \in Commands, Receive(c, k) PROVE \A d \in Client : Fine(d)'
      BY <2>2, <2>4, <3>1
    <3>2. ASSUME NEW c \in Client, HandleNew(c) PROVE \A d \in Client : Fine(d)'
      BY <2>3, <2>4, <3>2
    <3>3. QED
      BY <2>5, <3>1, <3>2, Cases
  <2>7. QED
    BY <2>6 DEF Answered
<1>3. QED
  BY <1>1, <1>2, RangesAlways, PTL DEF Spec

-----------------------------------------------------------------------------
(* Publications *)

\* Nothing is published at first.
LEMMA InitCurrent == Init => Current
BY DEF Init, Current, All

\* A change is made by a client that owes its publication, and every publication is of
\* what there is.
LEMMA CurrentKept == ASSUME Base, Current, [Next]_vars PROVE Current'
<1> USE DEF thread, history, device
<1>1. Shape /\ Stages
  BY DEF Base
<1>2. ASSUME NEW c \in Client, HandleNew(c) \/ \E k \in Commands : Receive(c, k),
             NEW p \in All, shown'[p] = shown[p], Image(p)' = Image(p), Owes(c, p) => Owes(c, p)'
      PROVE  shown'[p] \in {Unset, Image(p)'} \/ \E d \in Client : Owes(d, p)'
  <2>1. CASE shown[p] \in {Unset, Image(p)}
    BY <1>2, <2>1
  <2>2. ASSUME NEW d \in Client, Owes(d, p) PROVE Owes(d, p)'
    <3>1. CASE d = c
      BY <1>2, <2>2, <3>1
    <3>2. CASE d # c
      <4>1. pc'[d] = pc[d] /\ cmd'[d] = cmd[d] /\ pubs'[d] = pubs[d]
        BY <1>1, <1>2, <3>2, Others
      <4>2. QED
        BY <2>2, <4>1 DEF Owes
    <3>3. QED
      BY <3>1, <3>2
  <2>3. QED
    BY <2>1, <2>2 DEF Current
<1>3. ASSUME NEW c \in Client, NEW k \in Commands, Receive(c, k) PROVE Current'
  <2> SUFFICES ASSUME NEW p \in All
               PROVE  shown'[p] \in {Unset, Image(p)'} \/ \E d \in Client : Owes(d, p)'
    BY DEF Current
  <2>1. shown' = shown /\ Image(p)' = Image(p) /\ pubs' = pubs /\ pc[c] = "idle"
    BY <1>3 DEF Receive, Image
  <2>2. Owes(c, p) => Owes(c, p)'
    BY <2>1 DEF Owes
  <2>3. QED
    BY <1>2, <1>3, <2>1, <2>2
<1>4. ASSUME NEW c \in Client, HandleNew(c) PROVE Current'
  <2> SUFFICES ASSUME NEW p \in All
               PROVE  shown'[p] \in {Unset, Image(p)'} \/ \E d \in Client : Owes(d, p)'
    BY DEF Current
  <2>1. CASE Cam(c) \/ SetSubframe(c) \/ SetControl(c) \/ Read(c) \/ handleConnection(c) \/ ReadCap(c)
    <3>1. shown' = shown /\ Image(p)' = Image(p) /\ pubs' = pubs /\ cmd' = cmd
      BY <2>1 DEF Cam, SetSubframe, SetControl, Read, handleConnection, ReadCap, Image
    <3>2. pc[c] = "cam" \/ pc'[c] \notin {"idle", "cam"}
      BY <1>1, <2>1 DEF Cam, SetSubframe, SetControl, Read, handleConnection, ReadCap, Shape
    <3>3. Owes(c, p) => Owes(c, p)'
      BY <3>1, <3>2 DEF Owes
    <3>4. QED
      BY <1>2, <1>4, <3>1, <3>3
  <2>2. CASE SetNumber(c)
    <3>1. shown' = shown /\ pubs' = pubs /\ cmd' = cmd /\ sw' = sw /\ state' = state /\ pc'[c] \notin {"idle", "cam"}
          /\ pc[c] = "set" /\ \A v \in Vectors : v # cmd[c].to => num'[v] = num[v]
      BY <1>1, <2>2 DEF SetNumber, Shape
    <3>2. CASE p = cmd[c].to
      BY <3>1, <3>2 DEF Owes
    <3>3. CASE p # cmd[c].to
      <4>1. Image(p)' = Image(p)
        BY <3>1, <3>3, Names DEF Image, All
      <4>2. QED
        BY <1>2, <1>4, <3>1, <4>1 DEF Owes
    <3>4. QED
      BY <3>2, <3>3
  <2>3. CASE Switch(c)
    <3>1. shown' = shown /\ pubs' = pubs /\ cmd' = cmd /\ num' = num /\ state' = state /\ pc'[c] \notin {"idle", "cam"}
      BY <1>1, <2>3 DEF Switch, Shape
    <3>2. cmd[c].to = "CONNECTION"
      BY <1>1, <2>3 DEF Switch, Stages, Stage, Connecting
    <3>3. CASE p = "CONNECTION"
      BY <3>1, <3>2, <3>3 DEF Owes
    <3>4. CASE p # "CONNECTION"
      <4>1. Image(p)' = Image(p)
        BY <3>1, <3>4 DEF Image
      <4>2. QED
        BY <1>2, <1>4, <3>1, <4>1 DEF Owes
    <3>5. QED
      BY <3>3, <3>4
  <2>4. CASE LockCap(c)
    <3>1. Cap(c) \in Hardware /\ Cap(c) \in Vectors /\ Cap(c) # "CONNECTION"
      BY <1>1, <2>4, CapIsOne, Names DEF LockCap, Stages, Stage
    <3>2. shown' = shown /\ cmd' = cmd /\ sw' = sw /\ pc'[c] = "caps"
      BY <1>1, <2>4 DEF LockCap, Shape
    <3>3. pubs'[c] = pubs[c] \cup {<<IF Cap(c) \in defined THEN "update" ELSE "define", Cap(c)>>}
      BY <1>1, <2>4 DEF LockCap, Shape
    <3>4. CASE p = Cap(c)
      BY <3>3, <3>4 DEF Owes
    <3>5. CASE p # Cap(c)
      <4>1. state'[p] = state[p] /\ (p \in Vectors => num'[p] = num[p])
        BY <1>1, <2>4, <3>5 DEF LockCap, Shape
      <4>2. Image(p)' = Image(p)
        BY <3>2, <4>1 DEF Image, All
      <4>3. Owes(c, p) => Owes(c, p)'
        BY <3>2, <3>3 DEF Owes
      <4>4. QED
        BY <1>2, <1>4, <3>2, <4>2, <4>3
    <3>6. QED
      BY <3>4, <3>5
  <2>5. CASE PublishCap(c)
    <3>1. cmd' = cmd /\ pc'[c] \notin {"idle", "cam"} /\ Image(p)' = Image(p)
      BY <1>1, <2>5 DEF PublishCap, Shape, Image
    <3>2. CASE pubs[c] = {}
      <4>1. pubs' = pubs /\ shown' = shown
        BY <2>5, <3>2 DEF PublishCap
      <4>2. QED
        BY <1>2, <1>4, <3>1, <4>1 DEF Owes
    <3>3. CASE pubs[c] # {}
      <4>1. PICK q \in pubs[c] : pubs' = [pubs EXCEPT ![c] = @ \ {q}] /\ shown' = [shown EXCEPT ![q[2]] = Image(q[2])]
        BY <2>5, <3>3 DEF PublishCap, Publish
      <4>2. q \in {"define", "update"} \X Hardware /\ q[2] \in All
        BY <1>1, Names DEF Stages, Stage
      <4>3. CASE p = q[2]
        BY <1>1, <3>1, <4>1, <4>2, <4>3 DEF Shape
      <4>4. CASE p # q[2]
        <5>1. shown'[p] = shown[p] /\ \A kind \in {"define", "update"} : <<kind, p>> # q
          BY <1>1, <4>1, <4>2, <4>4 DEF Shape
        <5>2. \A kind \in {"define", "update"} : <<kind, p>> \in pubs[c] => <<kind, p>> \in pubs'[c]
          BY <1>1, <4>1, <5>1 DEF Shape
        <5>3. QED
          BY <1>2, <1>4, <3>1, <5>1, <5>2 DEF Owes
      <4>5. QED
        BY <4>3, <4>4
    <3>4. QED
      BY <3>2, <3>3
  <2>6. CASE Conclude(c)
    <3>1. shown' = shown /\ pubs' = pubs /\ cmd' = cmd /\ num' = num /\ sw' = sw /\ pc'[c] \notin {"idle", "cam"}
          /\ \A q \in All : q # cmd[c].to => state'[q] = state[q]
      BY <1>1, <2>6 DEF Conclude, SetState, Rejecting, Shape
    <3>2. CASE p = cmd[c].to
      BY <3>1, <3>2 DEF Owes
    <3>3. CASE p # cmd[c].to
      <4>1. Image(p)' = Image(p)
        BY <3>1, <3>3 DEF Image
      <4>2. QED
        BY <1>2, <1>4, <3>1, <4>1 DEF Owes
    <3>4. QED
      BY <3>2, <3>3
  <2>7. CASE Update(c)
    <3>1. pubs' = pubs /\ Image(p)' = Image(p) /\ shown' = [shown EXCEPT ![cmd[c].to] = Image(cmd[c].to)]
      BY <2>7 DEF Update, Publish, Image
    <3>2. CASE p = cmd[c].to
      BY <1>1, <3>1, <3>2 DEF Shape
    <3>3. CASE p # cmd[c].to
      <4>1. shown'[p] = shown[p] /\ cmd' = cmd
        BY <1>1, <2>7, <3>1, <3>3 DEF Shape, Update
      <4>2. QED
        BY <1>2, <1>4, <3>1, <3>3, <4>1 DEF Owes
    <3>4. QED
      BY <3>2, <3>3
  <2>8. QED
    BY <1>4, <2>1, <2>2, <2>3, <2>4, <2>5, <2>6, <2>7 DEF HandleNew
<1>5. ASSUME UNCHANGED <<device, pc, thread, history>> PROVE Current'
  BY <1>5 DEF Current, Image, Owes
<1>6. QED
  BY <1>3, <1>4, <1>5, Cases

\* Of an optional property there is one definition: the section of d.mu in which the
\* property is made is that of the client which is going to define it.
LEMMA DefinedOnceKept == ASSUME Base, DefinedOnce, [Next]_vars PROVE DefinedOnce'
<1> USE DEF thread, history, device
<1>1. Shape /\ Stages
  BY DEF Base
<1>2. CASE pubs' = pubs /\ defs' = defs /\ defined' = defined
  BY <1>2 DEF DefinedOnce, Defining
<1>3. ASSUME NEW c \in Client, LockCap(c) PROVE DefinedOnce'
  <2>1. Cap(c) \in Hardware /\ defs' = defs /\ defined' = defined \cup {Cap(c)}
    BY <1>1, <1>3, CapIsOne DEF LockCap, Stages, Stage
  <2>2. \A d \in Client : d # c => pubs'[d] = pubs[d]
    BY <1>1, <1>3 DEF LockCap, Shape
  <2>3. pubs'[c] = pubs[c] \cup {<<IF Cap(c) \in defined THEN "update" ELSE "define", Cap(c)>>}
    BY <1>1, <1>3 DEF LockCap, Shape
  <2> SUFFICES ASSUME NEW h \in Hardware
               PROVE  /\ \A d \in Client : Defining(d, h)' =>
                           h \in defined' /\ defs'[h] = 0 /\ \A e \in Client : Defining(e, h)' => e = d
                      /\ (\A d \in Client : ~Defining(d, h)') => defs'[h] = IF h \in defined' THEN 1 ELSE 0
    BY DEF DefinedOnce
  <2>4. CASE Cap(c) \in defined \/ h # Cap(c)
    <3>1. \A d \in Client : Defining(d, h)' <=> Defining(d, h)
      BY <2>2, <2>3, <2>4 DEF Defining
    <3>2. QED
      BY <2>1, <2>4, <3>1 DEF DefinedOnce
  <2>5. CASE Cap(c) \notin defined /\ h = Cap(c)
    <3>1. Defining(c, h)'
      BY <2>3, <2>5 DEF Defining
    <3>2. \A d \in Client : ~Defining(d, h)
      BY <2>5 DEF DefinedOnce
    <3>3. \A d \in Client : d # c => ~Defining(d, h)'
      BY <2>2, <3>2 DEF Defining
    <3>4. defs'[h] = 0 /\ h \in defined'
      BY <2>1, <2>5, <3>2 DEF DefinedOnce
    <3>5. QED
      BY <3>1, <3>3, <3>4
  <2>6. QED
    BY <2>4, <2>5
<1>4. ASSUME NEW c \in Client, PublishCap(c), pubs[c] # {} PROVE DefinedOnce'
  <2>1. PICK q \in pubs[c] : /\ pubs' = [pubs EXCEPT ![c] = @ \ {q}]
                             /\ defs' = [defs EXCEPT ![q[2]] = IF q[1] = "define" THEN @ + 1 ELSE @]
    BY <1>4 DEF PublishCap
  <2>2. q \in {"define", "update"} \X Hardware /\ defined' = defined
    BY <1>1, <1>4 DEF Stages, Stage, PublishCap
  <2>3. \A d \in Client : d # c => pubs'[d] = pubs[d]
    BY <1>1, <2>1 DEF Shape
  <2>4. pubs'[c] = pubs[c] \ {q}
    BY <1>1, <2>1 DEF Shape
  <2> SUFFICES ASSUME NEW h \in Hardware
               PROVE  /\ \A d \in Client : Defining(d, h)' =>
                           h \in defined' /\ defs'[h] = 0 /\ \A e \in Client : Defining(e, h)' => e = d
                      /\ (\A d \in Client : ~Defining(d, h)') => defs'[h] = IF h \in defined' THEN 1 ELSE 0
    BY DEF DefinedOnce
  <2>5. CASE q = <<"define", h>>
    <3>1. Defining(c, h) /\ ~Defining(c, h)'
      BY <2>1, <2>4, <2>5 DEF Defining
    <3>2. h \in defined /\ defs[h] = 0 /\ \A d \in Client : d # c => ~Defining(d, h)
      BY <3>1 DEF DefinedOnce
    <3>3. \A d \in Client : ~Defining(d, h)'
      BY <2>3, <3>1, <3>2 DEF Defining
    <3>4. defs'[h] = 1
      BY <1>1, <2>1, <2>5, <3>2 DEF Shape
    <3>5. QED
      BY <2>2, <3>2, <3>3, <3>4
  <2>6. CASE q # <<"define", h>>
    <3>1. defs'[h] = defs[h]
      BY <1>1, <2>1, <2>2, <2>6 DEF Shape
    <3>2. \A d \in Client : Defining(d, h)' <=> Defining(d, h)
      BY <2>3, <2>4, <2>6 DEF Defining
    <3>3. QED
      BY <2>2, <3>1, <3>2 DEF DefinedOnce
  <2>7. QED
    BY <2>5, <2>6
<1>5. ASSUME NEW c \in Client, HandleNew(c) PROVE DefinedOnce'
  <2>1. \/ pubs' = pubs /\ defs' = defs /\ defined' = defined
        \/ LockCap(c)
        \/ (PublishCap(c) /\ pubs[c] # {})
    BY <1>5 DEF HandleNew, Cam, SetSubframe, SetControl, Read, SetNumber, handleConnection, Switch,
                ReadCap, PublishCap, Conclude, SetState, Update
  <2>2. QED
    BY <1>2, <1>3, <1>4, <2>1
<1>6. ASSUME NEW c \in Client, NEW k \in Commands, Receive(c, k) PROVE DefinedOnce'
  BY <1>2, <1>6 DEF Receive
<1>7. ASSUME UNCHANGED <<device, pc, thread, history>> PROVE DefinedOnce'
  BY <1>2, <1>7
<1>8. QED
  BY <1>5, <1>6, <1>7, Cases

\* Once no client is at a property, the last publication of it is what it holds, and an
\* optional property was defined exactly once, however handlers and rejections overlap
\* (Define and Update, server.go; defineCaps, ccd.go).
THEOREM PublicationsCatchUp == Spec => []PublishedIsCurrent
<1>1. Init => Current /\ DefinedOnce
  BY InitCurrent DEF Init, DefinedOnce, Defining
<1>2. Base /\ Current /\ DefinedOnce /\ [Next]_vars => (Current /\ DefinedOnce)'
  BY CurrentKept, DefinedOnceKept
<1>3. Base /\ Current /\ DefinedOnce => PublishedIsCurrent
  <2> SUFFICES ASSUME Base, Current, DefinedOnce PROVE PublishedIsCurrent
    OBVIOUS
  <2>1. Shape /\ Stages
    BY DEF Base
  <2>2. ASSUME NEW c \in Client, NEW h \in Hardware, NEW kind, <<kind, h>> \in pubs[c]
        PROVE  c \in Handlers(h) /\ pc[c] # "idle" /\ h \in Touches(cmd[c])
    <3>1. pc[c] \in {"caps", "lock", "pubs"} /\ cmd[c].to = "CONNECTION"
      BY <2>1, <2>2 DEF Stages, Stage, Connecting
    <3>2. QED
      BY <3>1 DEF Handlers, Touches
  <2>3. ASSUME NEW p \in DOMAIN shown, \A c \in Client : pc[c] = "idle" \/ p \notin Touches(cmd[c]), shown[p].state # "none"
        PROVE  shown[p] = Image(p)
    <3>1. p \in All
      BY <2>1, <2>3 DEF Shape
    <3>2. ASSUME NEW c \in Client, Owes(c, p) PROVE FALSE
      <4>1. CASE pc[c] \notin {"idle", "cam"} /\ cmd[c].to = p
        BY <2>3, <4>1 DEF Touches
      <4>2. ASSUME NEW kind \in {"define", "update"}, <<kind, p>> \in pubs[c] PROVE FALSE
        <5>1. p \in Hardware
          BY <2>1, <4>2 DEF Stages, Stage
        <5>2. QED
          BY <2>2, <2>3, <4>2, <5>1
      <4>3. QED
        BY <3>2, <4>1, <4>2 DEF Owes
    <3>3. QED
      BY <2>3, <3>1, <3>2 DEF Current, Unset
  <2>4. ASSUME NEW h \in Hardware, Handlers(h) = {} PROVE defs[h] = IF h \in defined THEN 1 ELSE 0
    <3>1. \A c \in Client : ~Defining(c, h)
      BY <2>2, <2>4 DEF Defining
    <3>2. QED
      BY <3>1 DEF DefinedOnce
  <2>5. QED
    BY <2>3, <2>4 DEF PublishedIsCurrent
<1>4. QED
  BY <1>1, <1>2, <1>3, RangesAlways, PTL DEF Spec

-----------------------------------------------------------------------------
(* Overlaps *)

\* A step changes no other client's handling, and a handler's own does not begin with it.
LEMMA SameHandlers ==
    ASSUME Base, NEW c \in Client, HandleNew(c), NEW p
    PROVE  /\ \A d \in Client : d # c => (d \in Handlers(p)' <=> d \in Handlers(p))
           /\ c \in Handlers(p)' => c \in Handlers(p)
<1> USE DEF thread, history
<1>1. Shape /\ Stages
  BY DEF Base
<1>2. ASSUME NEW d \in Client, d # c PROVE d \in Handlers(p)' <=> d \in Handlers(p)
  <2>1. pc'[d] = pc[d] /\ cmd'[d] = cmd[d]
    BY <1>1, <1>2, Others
  <2>2. QED
    BY <2>1 DEF Handlers, Touches
<1>3. cmd' = cmd
  BY DEF HandleNew, Cam, SetSubframe, SetControl, Read, SetNumber, handleConnection, Switch,
         ReadCap, LockCap, PublishCap, Conclude, SetState, Update
<1>4. pc[c] \in {"idle", "reject", "alert"} => pc'[c] \in {"alert", "idle"}
  BY <1>1 DEF HandleNew, Cam, SetSubframe, SetControl, Read, SetNumber, handleConnection, Switch,
         ReadCap, LockCap, PublishCap, Conclude, SetState, Rejecting, Update, Shape
<1>5. c \in Handlers(p)' => c \in Handlers(p)
  BY <1>3, <1>4 DEF Handlers, Touches
<1>6. QED
  BY <1>2, <1>5

\* An overlap is forgotten only by a handler that is alone and sets everything anew.
LEMMA MixedStays ==
    ASSUME Base, NEW c \in Client, HandleNew(c), NEW p \in All, ~mixed'[p]
    PROVE  \/ ~mixed[p]
           \/ Handlers(p) = {c} /\ pc[c] = "read" /\ cmd[c].to = p
           \/ Handlers(p) = {c} /\ pc[c] = "connection" /\ p = "CONNECTION"
<1> USE DEF thread, history
<1>1. Shape /\ Stages
  BY DEF Base
<1>2. CASE mixed' = mixed
  BY <1>2
<1>3. ASSUME NEW q, Anew(c, q) PROVE ~mixed[p] \/ (p = q /\ Handlers(p) = {c})
  BY <1>1, <1>3 DEF Anew, Shape
<1>4. CASE Read(c)
  BY <1>3, <1>4 DEF Read
<1>5. CASE handleConnection(c)
  <2>1. pc[c] = "connection" /\ (mixed' = mixed \/ Anew(c, "CONNECTION"))
    BY <1>5 DEF handleConnection
  <2>2. QED
    BY <1>2, <1>3, <2>1
<1>6. QED
  BY <1>2, <1>4, <1>5 DEF HandleNew, Cam, SetSubframe, SetControl, SetNumber, Switch,
         ReadCap, LockCap, PublishCap, Conclude, SetState, Update

\* A command that is handled overlaps with the handlers that are there already.
LEMMA ReceiveMixes ==
    ASSUME Base, NEW c \in Client, NEW k \in Commands, Receive(c, k), NEW p \in All, ~mixed'[p]
    PROVE  /\ ~mixed[p] /\ pc[c] = "idle"
           /\ \A d \in Client : d # c => (d \in Handlers(p)' <=> d \in Handlers(p))
           /\ c \in Handlers(p)' => Handlers(p) = {}
<1> USE DEF thread, history
<1>1. Shape /\ Stages
  BY DEF Base
<1>2. ASSUME NEW d \in Client, d # c PROVE d \in Handlers(p)' <=> d \in Handlers(p)
  <2>1. pc'[d] = pc[d] /\ cmd'[d] = cmd[d]
    BY <1>1, <1>2, Others
  <2>2. QED
    BY <2>1 DEF Handlers, Touches
<1>3. pc[c] = "idle" /\ cmd'[c] = k
  BY <1>1 DEF Receive, Shape
<1>4. CASE mixed' = mixed /\ pc'[c] \in {"idle", "reject"}
  BY <1>2, <1>3, <1>4 DEF Handlers
<1>5. CASE mixed' = [q \in DOMAIN mixed |-> mixed[q] \/ (q \in Touches(k) /\ Handlers(q) # {})]
  <2>1. mixed'[p] = (mixed[p] \/ (p \in Touches(k) /\ Handlers(p) # {}))
    BY <1>1, <1>5 DEF Shape
  <2>2. ~mixed[p] /\ ~(p \in Touches(k) /\ Handlers(p) # {})
    BY <2>1, Zenon
  <2>3. c \in Handlers(p)' => p \in Touches(k)
    BY <1>3 DEF Handlers, Touches
  <2>4. QED
    BY <1>2, <1>3, <2>2, <2>3
<1>6. QED
  BY <1>1, <1>4, <1>5 DEF Receive, messageTo, Shape

\* A command that finds another in the handler of its property marks it as mixed.
LEMMA SoleKept == ASSUME Base, Sole, [Next]_vars PROVE Sole'
<1> USE DEF thread, history
<1>1. ASSUME NEW c \in Client, NEW k \in Commands, Receive(c, k), NEW p \in All, ~mixed'[p],
             NEW d \in Handlers(p)', NEW e \in Handlers(p)'
      PROVE  d = e
  <2>1. d \in Client /\ e \in Client
    BY DEF Handlers
  <2>2. QED
    BY <1>1, <2>1, ReceiveMixes DEF Sole
<1>2. ASSUME NEW c \in Client, HandleNew(c), NEW p \in All, ~mixed'[p],
             NEW d \in Handlers(p)', NEW e \in Handlers(p)'
      PROVE  d = e
  <2>1. d \in Client /\ e \in Client
    BY DEF Handlers
  <2>2. d \in Handlers(p) /\ e \in Handlers(p)
    BY <1>2, <2>1, SameHandlers
  <2>3. ~mixed[p] \/ Handlers(p) = {c}
    BY <1>2, MixedStays
  <2>4. QED
    BY <2>2, <2>3 DEF Sole
<1>3. ASSUME UNCHANGED <<device, pc, thread, history>> PROVE Sole'
  BY <1>3 DEF Sole, Handlers, Touches
<1>4. QED
  <2>1. ASSUME NEW c \in Client, NEW k \in Commands, Receive(c, k) PROVE Sole'
    BY <1>1, <2>1 DEF Sole
  <2>2. ASSUME NEW c \in Client, HandleNew(c) PROVE Sole'
    BY <1>2, <2>2 DEF Sole
  <2>3. QED
    BY <1>3, <2>1, <2>2, Cases

\* A handler at a property whose handlers have not overlapped is the only one.
LEMMA IsAlone ==
    ASSUME Base, Sole, NEW c \in Client, HandleNew(c), NEW p \in All, c \in Handlers(p), ~mixed'[p]
    PROVE  \A d \in Client : d # c => d \notin Handlers(p) /\ d \notin Handlers(p)'
<1>1. ~mixed[p] \/ Handlers(p) = {c}
  BY MixedStays
<1>2. QED
  BY <1>1, SameHandlers DEF Sole

\* What Synced says of one client, and of one property of the camera.
Ahead(c, h) ==
    /\ cmd[c].to = h /\ pc[c] = "set" =>
         local[c] = camera[h] /\ \A m \in Members(h) \ left[c] : num[h][m] = camera[h][m]
    /\ pc[c] = "lock" /\ Cap(c) = h => local[c] = camera[h]
SyncedAt(h) ==
    ~mixed[h] => /\ h \in defined /\ (\A c \in Client : ~Writing(c, h)) => num[h] = camera[h]
                 /\ \A c \in Client : Ahead(c, h)

\* Clients that are not at a property have nothing for it.
LEMMA Elsewhere ==
    ASSUME Base, NEW d \in Client, NEW h \in Hardware, d \notin Handlers(h)
    PROVE  ~Writing(d, h) /\ Ahead(d, h)
<1>1. Stage(d)
  BY DEF Base, Stages
<1>2. pc[d] \in {"write", "read", "set"} /\ cmd[d].to = h => d \in Handlers(h)
  BY Names DEF Handlers, Touches
<1>3. pc[d] = "lock" => d \in Handlers(h)
  BY <1>1 DEF Stage, Connecting, Handlers, Touches
<1>4. QED
  BY <1>2, <1>3 DEF Writing, Ahead

\* A client that is not at a property does nothing to it.
LEMMA Apart ==
    ASSUME Base, NEW c \in Client, HandleNew(c), NEW h \in Hardware, c \notin Handlers(h)
    PROVE  camera'[h] = camera[h] /\ num'[h] = num[h] /\ (h \in defined' <=> h \in defined)
<1> USE DEF thread, history, device
<1>1. Shape /\ Stage(c) /\ h \in Vectors
  BY Names DEF Base, Stages
<1>2. cmd[c].to = h => pc[c] \notin {"write", "read", "set"}
  BY Names DEF Handlers, Touches
<1>3. pc[c] # "lock"
  BY <1>1 DEF Stage, Connecting, Handlers, Touches
<1>4. CASE SetSubframe(c) \/ SetControl(c)
  BY <1>1, <1>2, <1>4 DEF SetSubframe, SetControl, Shape
<1>5. CASE SetNumber(c)
  BY <1>1, <1>2, <1>5 DEF SetNumber, Shape
<1>6. CASE ~(SetSubframe(c) \/ SetControl(c) \/ SetNumber(c))
  <2>1. camera' = camera /\ num' = num /\ defined' = defined
    BY <1>3, <1>6 DEF HandleNew, Cam, Read, handleConnection, Switch, ReadCap, LockCap,
           PublishCap, Conclude, SetState, Update
  <2>2. QED
    BY <2>1
<1>7. QED
  BY <1>4, <1>5, <1>6

\* The handler that is alone at a property: what it has for it, and what it leaves there.
LEMMA AloneSynced ==
    ASSUME Base, Base', NEW c \in Client, HandleNew(c), NEW h \in Hardware, c \in Handlers(h),
           \A d \in Client : d # c => d \notin Handlers(h), SyncedAt(h), ~mixed'[h]
    PROVE  /\ h \in defined' /\ ~Writing(c, h)' => num'[h] = camera'[h]
           /\ Ahead(c, h)'
<1> USE DEF thread, history, device
<1>1. Shape /\ Stage(c) /\ h \in Vectors /\ h \in All
  BY Names DEF Base, Stages
<1>2. ~mixed[h] => /\ h \in defined /\ ~Writing(c, h) => num[h] = camera[h]
                   /\ Ahead(c, h)
  <2>1. \A d \in Client : d # c => ~Writing(d, h)
    BY Elsewhere
  <2>2. QED
    BY <2>1 DEF SyncedAt
<1>3. CASE Read(c)
  <2>1. pc'[c] = "set" /\ cmd' = cmd /\ camera' = camera /\ local'[c] = camera[cmd[c].to]
        /\ left'[c] = Members(cmd[c].to)
    BY <1>1, <1>3 DEF Read, ReadBack, Shape
  <2>2. cmd[c].to = h
    <3>1. cmd[c].to \in defined /\ defined \subseteq Hardware
      BY <1>1, <1>3 DEF Read, Shape, Stage
    <3>2. QED
      BY <3>1, Names DEF Handlers, Touches
  <2>3. QED
    BY <2>1, <2>2 DEF Ahead, Writing
<1>4. CASE ~Read(c)
  <2>1. ~mixed[h]
    <3>1. pc[c] = "read" => FALSE
      BY <1>4 DEF HandleNew, Cam, SetSubframe, SetControl, SetNumber, handleConnection, Switch, ReadCap, LockCap,
           PublishCap, Conclude, SetState, Update
    <3>2. QED
      BY <1>1, <3>1, MixedStays, Names
  <2>2. /\ h \in defined /\ ~Writing(c, h) => num[h] = camera[h]
        /\ Ahead(c, h)
    BY <1>2, <2>1
  <2>3. CASE Cam(c) \/ Conclude(c) \/ Update(c) \/ PublishCap(c) \/ handleConnection(c) \/ Switch(c)
    <3>1. camera' = camera /\ num' = num /\ defined' = defined /\ cmd' = cmd
      BY <2>3 DEF Cam, Conclude, SetState, Update, PublishCap, handleConnection, Switch
    <3>2. pc[c] \notin {"write", "read", "set"} /\ pc'[c] \notin {"set", "lock"}
      <4>1. CASE Cam(c) \/ Conclude(c) \/ Update(c)
        BY <1>1, <4>1 DEF Cam, Conclude, SetState, Rejecting, Update, Shape
      <4>2. CASE PublishCap(c) \/ handleConnection(c) \/ Switch(c)
        BY <1>1, <4>2 DEF PublishCap, handleConnection, Switch, Shape
      <4>3. QED
        BY <2>3, <4>1, <4>2
    <3>3. QED
      BY <2>2, <3>1, <3>2 DEF Writing, Ahead
  <2>4. CASE SetSubframe(c) \/ SetControl(c)
    <3>1. cmd' = cmd /\ pc'[c] \in {"write", "read"} /\ cmd[c].to \in Hardware /\ pc[c] = "write"
      BY <1>1, <2>4 DEF SetSubframe, SetControl, Shape, Stage
    <3>2. cmd[c].to = h
      BY <3>1, Names DEF Handlers, Touches
    <3>3. QED
      BY <3>1, <3>2 DEF Writing, Ahead
  <2>5. CASE SetNumber(c)
    <3>1. cmd' = cmd /\ pc[c] = "set" /\ camera' = camera /\ local' = local /\ defined' = defined /\ cmd[c].to \in Vectors
      BY <1>1, <2>5 DEF SetNumber, Stage
    <3>2. cmd[c].to = h
      BY <3>1, Names DEF Handlers, Touches
    <3>3. local[c] = camera[h] /\ \A m \in Members(h) \ left[c] : num[h][m] = camera[h][m]
      BY <2>2, <3>1, <3>2 DEF Ahead
    <3>4. num[h] \in [Members(h) -> Number] /\ camera[h] \in [Members(h) -> Number]
      BY <1>1 DEF Shape
    <3>5. CASE left[c] = {}
      <4>1. num' = num /\ pc'[c] = "ok"
        BY <1>1, <2>5, <3>5 DEF SetNumber, Shape
      <4>2. num[h] = camera[h]
        BY <3>3, <3>4, <3>5
      <4>3. QED
        BY <3>1, <4>1, <4>2 DEF Writing, Ahead
    <3>6. CASE left[c] # {}
      <4>1. PICK m \in left[c] : left' = [left EXCEPT ![c] = @ \ {m}]
                               /\ num' = [num EXCEPT ![cmd[c].to][m] = local[c][m]]
        BY <2>5, <3>6 DEF SetNumber
      <4>2. pc'[c] = "set" /\ left'[c] = left[c] \ {m}
        BY <1>1, <2>5, <3>1, <3>6, <4>1 DEF SetNumber, Shape
      <4>3. num'[h] = [num[h] EXCEPT ![m] = camera[h][m]]
        BY <1>1, <3>2, <3>3, <4>1 DEF Shape
      <4>4. \A i \in Members(h) \ left'[c] : num'[h][i] = camera[h][i]
        BY <3>3, <3>4, <4>2, <4>3
      <4>5. QED
        BY <3>1, <3>2, <3>3, <4>2, <4>4 DEF Writing, Ahead
    <3>7. QED
      BY <3>5, <3>6
  <2>6. CASE ReadCap(c)
    <3>1. camera' = camera /\ num' = num /\ defined' = defined /\ cmd' = cmd /\ caps' = caps /\ pc[c] = "caps"
      BY <2>6 DEF ReadCap
    <3>2. pc'[c] = "pubs" \/ (pc'[c] = "lock" /\ local'[c] = camera[Cap(c)])
      BY <1>1, <2>6 DEF ReadCap, Shape
    <3>3. QED
      BY <2>2, <3>1, <3>2 DEF Writing, Ahead, Cap
  <2>7. CASE LockCap(c)
    <3>1. pc[c] = "lock" /\ pc'[c] = "caps" /\ camera' = camera /\ cmd' = cmd /\ defined' = defined \cup {Cap(c)}
          /\ num' = [num EXCEPT ![Cap(c)] = local[c]]
      BY <1>1, <2>7 DEF LockCap, Shape
    <3>2. CASE Cap(c) = h
      <4>1. num'[h] = camera[h]
        BY <1>1, <2>2, <3>1, <3>2 DEF Ahead, Shape
      <4>2. QED
        BY <3>1, <4>1 DEF Ahead
    <3>3. CASE Cap(c) # h
      <4>1. num'[h] = num[h] /\ (h \in defined' <=> h \in defined)
        BY <1>1, <3>1, <3>3 DEF Shape
      <4>2. QED
        BY <2>2, <3>1, <4>1 DEF Writing, Ahead
    <3>4. QED
      BY <3>2, <3>3
  <2>8. QED
    BY <1>4, <2>3, <2>4, <2>5, <2>6, <2>7 DEF HandleNew
<1>5. QED
  BY <1>3, <1>4

\* ... nor do they have anything after a step.
LEMMA ElsewhereNext ==
    ASSUME Base', NEW d \in Client, NEW h \in Hardware, d \notin Handlers(h)'
    PROVE  ~Writing(d, h)' /\ Ahead(d, h)'
<1>1. Stage(d)'
  BY DEF Base, Stages
<1>2. pc'[d] \in {"write", "read", "set"} /\ cmd'[d].to = h => d \in Handlers(h)'
  BY Names DEF Handlers, Touches
<1>3. pc'[d] = "lock" => d \in Handlers(h)'
  BY <1>1 DEF Stage, Connecting, Handlers, Touches
<1>4. QED
  BY <1>2, <1>3 DEF Writing, Ahead

\* A lone handler leaves the property as the camera is; the camera alone changes only at a write.
LEMMA SyncedKept == ASSUME Base, Base', Sole, Synced, [Next]_vars PROVE Synced'
<1> USE DEF thread, history, device
<1>1. Shape /\ Stages
  BY DEF Base
<1>2. ASSUME NEW c \in Client, NEW d \in Client, d # c, NEW h \in Hardware,
             HandleNew(c) \/ \E k \in Commands : Receive(c, k),
             camera'[h] = camera[h], num'[h] = num[h]
      PROVE  (Writing(d, h)' <=> Writing(d, h)) /\ (Ahead(d, h)' <=> Ahead(d, h))
  <2>1. pc'[d] = pc[d] /\ cmd'[d] = cmd[d] /\ local'[d] = local[d] /\ left'[d] = left[d] /\ caps'[d] = caps[d]
    BY <1>1, <1>2, Others
  <2>2. QED
    BY <1>2, <2>1 DEF Writing, Ahead, Cap
<1>3. ASSUME NEW h \in Hardware PROVE SyncedAt(h) /\ h \in All
  BY Names DEF Synced, SyncedAt, Ahead
<1>4. ASSUME NEW c \in Client, NEW k \in Commands, Receive(c, k), NEW h \in Hardware, ~mixed'[h]
      PROVE  /\ h \in defined' /\ (\A d \in Client : ~Writing(d, h)') => num'[h] = camera'[h]
             /\ \A d \in Client : Ahead(d, h)'
  <2>1. ~mixed[h] /\ pc[c] = "idle" /\ camera' = camera /\ num' = num /\ defined' = defined
    BY <1>3, <1>4, ReceiveMixes DEF Receive
  <2>2. pc'[c] = "idle" \/ pc'[c] = "reject" \/ (pc'[c] = First(k) /\ cmd'[c] = k)
    BY <1>1, <1>4, <2>1 DEF Receive, Shape
  <2>3. First(k) \in {"connection", "cam", "set"} /\ (k.to = h => First(k) = "cam")
    BY Names DEF First
  <2>4. ~Writing(c, h)' /\ Ahead(c, h)' /\ ~Writing(c, h)
    BY <2>1, <2>2, <2>3 DEF Writing, Ahead
  <2>5. \A d \in Client : d # c => (Writing(d, h)' <=> Writing(d, h)) /\ (Ahead(d, h)' <=> Ahead(d, h))
    BY <1>2, <1>4, <2>1
  <2>6. QED
    BY <1>3, <2>1, <2>4, <2>5 DEF SyncedAt
<1>5. ASSUME NEW c \in Client, HandleNew(c), NEW h \in Hardware, ~mixed'[h]
      PROVE  /\ h \in defined' /\ (\A d \in Client : ~Writing(d, h)') => num'[h] = camera'[h]
             /\ \A d \in Client : Ahead(d, h)'
  <2>1. CASE c \notin Handlers(h)
    <3>1. c \notin Handlers(h)' /\ ~mixed[h]
      BY <1>3, <1>5, <2>1, SameHandlers, MixedStays
    <3>2. camera'[h] = camera[h] /\ num'[h] = num[h] /\ (h \in defined' <=> h \in defined)
      BY <1>5, <2>1, Apart
    <3>3. ~Writing(c, h) /\ Ahead(c, h)'
      BY <2>1, <3>1, Elsewhere, ElsewhereNext
    <3>4. \A d \in Client : d # c => (Writing(d, h)' <=> Writing(d, h)) /\ (Ahead(d, h)' <=> Ahead(d, h))
      BY <1>2, <1>5, <3>2
    <3>5. QED
      BY <1>3, <3>1, <3>2, <3>3, <3>4 DEF SyncedAt
  <2>2. CASE c \in Handlers(h)
    <3>1. \A d \in Client : d # c => d \notin Handlers(h) /\ d \notin Handlers(h)'
      BY <1>3, <1>5, <2>2, IsAlone
    <3>2. \A d \in Client : d # c => ~Writing(d, h)' /\ Ahead(d, h)'
      BY <3>1, ElsewhereNext
    <3>3. /\ h \in defined' /\ ~Writing(c, h)' => num'[h] = camera'[h]
          /\ Ahead(c, h)'
      BY <1>3, <1>5, <2>2, <3>1, AloneSynced
    <3>4. QED
      BY <3>2, <3>3
  <2>3. QED
    BY <2>1, <2>2
<1>6. ASSUME UNCHANGED <<device, pc, thread, history>> PROVE Synced'
  BY <1>6 DEF Synced, Writing, Cap
<1>7. QED
  <2>1. ASSUME NEW c \in Client, NEW k \in Commands, Receive(c, k) PROVE Synced'
    BY <1>4, <2>1 DEF Synced, Ahead
  <2>2. ASSUME NEW c \in Client, HandleNew(c) PROVE Synced'
    BY <1>5, <2>2 DEF Synced, Ahead
  <2>3. QED
    BY <1>6, <2>1, <2>2, Cases

\* The switch follows the adapter.
LEMMA SwitchedKept == ASSUME Base, Base', Sole, Switched, [Next]_vars PROVE Switched'
<1> USE DEF thread, history, device
<1>1. Shape /\ Stages /\ "CONNECTION" \in All
  BY Names DEF Base
<1>2. ASSUME NEW d \in Client, pc[d] \in Connecting PROVE d \in Handlers("CONNECTION")
  BY <1>1, <1>2 DEF Stages, Stage, Handlers, Touches, Connecting
<1>3. ASSUME NEW c \in Client, NEW k \in Commands, Receive(c, k) PROVE Switched'
  <2> SUFFICES ASSUME ~mixed'["CONNECTION"] PROVE Switched'
    BY DEF Switched
  <2>1. ~mixed["CONNECTION"] /\ pc[c] = "idle" /\ sw' = sw /\ connected' = connected
    BY <1>1, <1>3, ReceiveMixes DEF Receive
  <2>2. pc'[c] # "switch"
    BY <1>1, <1>3, <2>1 DEF Receive, Shape, First
  <2>3. \A d \in Client : d # c => pc'[d] = pc[d] /\ cmd'[d] = cmd[d]
    BY <1>1, <1>3, Others
  <2>4. QED
    BY <2>1, <2>2, <2>3 DEF Switched
<1>4. ASSUME NEW c \in Client, HandleNew(c) PROVE Switched'
  <2> SUFFICES ASSUME ~mixed'["CONNECTION"] PROVE Switched'
    BY DEF Switched
  <2>1. \A d \in Client : d # c => pc'[d] = pc[d] /\ cmd'[d] = cmd[d]
    BY <1>1, <1>4, Others
  <2>2. CASE handleConnection(c)
    <3>1. c \in Handlers("CONNECTION") /\ pc[c] = "connection" /\ cmd' = cmd /\ sw' = sw
      BY <1>2, <2>2 DEF handleConnection, Connecting
    <3>2. \A d \in Client : pc[d] # "switch"
      <4>1. \A d \in Client : d # c => d \notin Handlers("CONNECTION")
        BY <1>1, <1>4, <3>1, IsAlone
      <4>2. QED
        BY <1>2, <3>1, <4>1 DEF Connecting
    <3>3. CASE Asks(cmd[c].vals) /\ gone
      <4>1. pc'[c] = "failed" /\ connected' = connected /\ mixed' = mixed
        BY <1>1, <2>2, <3>3 DEF handleConnection, Shape
      <4>2. QED
        BY <2>1, <3>1, <3>2, <4>1 DEF Switched
    <3>4. CASE ~(Asks(cmd[c].vals) /\ gone)
      <4>1. pc'[c] = "switch"
        BY <1>1, <2>2, <3>4 DEF handleConnection, Shape
      <4>2. connected' = Asks(cmd[c].vals)
        BY <2>2, <3>4 DEF handleConnection
      <4>3. connected' <=> Asks(cmd[c].vals)
        BY <4>2, Zenon
      <4>4. \A d \in Client : pc'[d] = "switch" => d = c
        BY <2>1, <3>2
      <4>5. QED
        BY <3>1, <4>1, <4>3, <4>4 DEF Switched, Asks
    <3>5. QED
      BY <3>3, <3>4
  <2>3. CASE Switch(c)
    <3>1. pc[c] = "switch" /\ c \in Handlers("CONNECTION") /\ connected' = connected /\ pc'[c] # "switch" /\ mixed' = mixed
      BY <1>1, <1>2, <2>3 DEF Switch, Connecting, Shape
    <3>2. connected <=> Asks(cmd[c].vals)
      BY <3>1 DEF Switched
    <3>3. sw' = {IF Asks(cmd[c].vals) THEN "CONNECT" ELSE "DISCONNECT"}
      BY <2>3 DEF Switch, SetSwitch
    <3>4. sw' = {IF connected THEN "CONNECT" ELSE "DISCONNECT"}
      BY <3>2, <3>3
    <3>5. \A d \in Client : pc'[d] # "switch"
      <4>1. \A d \in Client : d # c => d \notin Handlers("CONNECTION")
        BY <1>1, <1>4, <3>1, IsAlone
      <4>2. QED
        BY <1>2, <2>1, <3>1, <4>1 DEF Connecting
    <3>6. QED
      BY <3>1, <3>4, <3>5 DEF Switched
  <2>4. CASE ~(handleConnection(c) \/ Switch(c))
    <3>1. sw' = sw /\ connected' = connected
      BY <1>4, <2>4 DEF HandleNew, Cam, SetSubframe, SetControl, Read, SetNumber, ReadCap, LockCap,
             PublishCap, Conclude, SetState, Update
    <3>2. pc[c] # "switch" /\ pc'[c] # "switch"
      <4>1. CASE Cam(c) \/ SetSubframe(c) \/ SetControl(c) \/ Read(c) \/ SetNumber(c)
        BY <1>1, <4>1 DEF Cam, SetSubframe, SetControl, Read, SetNumber, Shape
      <4>2. CASE ReadCap(c) \/ LockCap(c) \/ PublishCap(c) \/ Conclude(c) \/ Update(c)
        BY <1>1, <4>2 DEF ReadCap, LockCap, PublishCap, Conclude, SetState, Rejecting, Update, Shape
      <4>3. QED
        BY <1>4, <2>4, <4>1, <4>2 DEF HandleNew
    <3>3. ~mixed["CONNECTION"]
      <4>1. ~(pc[c] = "read" /\ cmd[c].to = "CONNECTION")
        BY <1>1, Names DEF Shape, Stages, Stage
      <4>2. pc[c] # "connection"
        BY <1>4, <2>4 DEF HandleNew, Cam, SetSubframe, SetControl, Read, SetNumber, ReadCap, LockCap,
               PublishCap, Conclude, SetState, Update
      <4>3. QED
        BY <1>1, <1>4, <4>1, <4>2, MixedStays
    <3>4. QED
      BY <2>1, <3>1, <3>2, <3>3 DEF Switched
  <2>5. QED
    BY <2>2, <2>3, <2>4
<1>5. ASSUME UNCHANGED <<device, pc, thread, history>> PROVE Switched'
  BY <1>5 DEF Switched
<1>6. QED
  BY <1>3, <1>4, <1>5, Cases

\* At the start no handler runs, and nothing but CONNECTION is defined.
LEMMA InitShows == Init => Sole /\ Synced /\ Switched
<1> SUFFICES ASSUME Init PROVE Sole /\ Synced /\ Switched
  OBVIOUS
<1>1. (\A c \in Client : pc[c] = "idle") /\ defined = {}
  BY DEF Init
<1>2. Sole
  BY <1>1 DEF Sole, Handlers
<1>3. Synced
  BY <1>1 DEF Synced
<1>4. connected = FALSE /\ sw = {"DISCONNECT"}
  BY DEF Init
<1>5. QED
  BY <1>1, <1>2, <1>3, <1>4 DEF Switched

\* Where the handlers of two clients have not overlapped, a property shows what the device
\* is: what the camera took of what it was given, and whether the adapter is connected
\* (the read-backs of the handlers, defineCaps and handleConnection).
THEOREM ShownAsItIs == Spec => []ShowsDevice
<1>1. Base /\ Base' /\ Sole /\ Synced /\ Switched /\ [Next]_vars => (Sole /\ Synced /\ Switched)'
  BY SoleKept, SyncedKept, SwitchedKept
<1>2. Base /\ Synced /\ Switched => ShowsDevice
  <2> SUFFICES ASSUME Base, Synced, Switched PROVE ShowsDevice
    OBVIOUS
  <2>1. ASSUME NEW h \in defined, Alone(h) PROVE num[h] = camera[h]
    <3>1. h \in Hardware /\ ~mixed[h] /\ \A c \in Client : c \notin Handlers(h)
      BY <2>1 DEF Alone, Base, Shape
    <3>2. QED
      BY <3>1, Elsewhere DEF Synced
  <2>2. ASSUME Alone("CONNECTION") PROVE sw = {IF connected THEN "CONNECT" ELSE "DISCONNECT"}
    <3>1. \A c \in Client : pc[c] # "switch"
      <4>1. \A c \in Client : pc[c] = "switch" => c \in Handlers("CONNECTION")
        BY DEF Base, Stages, Stage, Connecting, Handlers, Touches
      <4>2. QED
        BY <2>2, <4>1 DEF Alone
    <3>2. QED
      BY <2>2, <3>1 DEF Alone, Switched
  <2>3. QED
    BY <2>1, <2>2 DEF ShowsDevice
<1>3. QED
  BY <1>1, <1>2, InitShows, RangesAlways, PTL DEF Spec

-----------------------------------------------------------------------------
(* A server's life: the inductive invariant *)

LifeShape ==
    /\ order \in Seq(Device) /\ devs \in Seq(Device)
    /\ starts \in [Device -> Nat]
    /\ serveCtx \in BOOLEAN /\ cancelled \in BOOLEAN
    /\ serve \in {"listen", "lock", "start", "accept", "pause", "nil", "error"}

Distinct(s) == \A i, j \in DOMAIN s : s[i] = s[j] => i = j

\* Serve's section of s.mu separates what AddDevice leaves to Serve from what it does
\* itself, and devs holds something only between that section and acceptLoop.
Sections ==
    /\ serve \in {"listen", "lock"} => ~serveCtx
    /\ serve \in {"start", "accept", "pause", "nil"} => serveCtx
    /\ serve # "start" => devs = <<>>

\* A device is added once, so the snapshot names it once at most.
Listed == Distinct(order) /\ Distinct(devs) /\ ToSet(devs) \subseteq ToSet(order)

\* A loop has been started exactly if its device has been added and Serve has taken its
\* snapshot and is past the device in it.
Begun(d) == serveCtx /\ d \in Starters \cap ToSet(order) /\ d \notin ToSet(devs)
Counted == \A d \in Device : starts[d] = IF Begun(d) THEN 1 ELSE 0

LifeInv == LifeShape /\ Sections /\ Listed /\ Counted

-----------------------------------------------------------------------------
(* Sequences without repetition *)

\* Appending a new element to a sequence without repetition repeats nothing.
LEMMA AppendDistinct ==
    ASSUME NEW S, NEW s \in Seq(S), NEW e \in S, Distinct(s), e \notin ToSet(s)
    PROVE  Distinct(Append(s, e)) /\ ToSet(Append(s, e)) = ToSet(s) \cup {e}
<1>1. /\ DOMAIN Append(s, e) = 1..(Len(s) + 1)
      /\ \A i \in 1..Len(s) : Append(s, e)[i] = s[i]
      /\ Append(s, e)[Len(s) + 1] = e
  OBVIOUS
<1>2. \A i \in 1..Len(s) : s[i] # e
  BY DEF ToSet
<1>3. Distinct(Append(s, e))
  BY <1>1, <1>2 DEF Distinct
<1>4. ToSet(Append(s, e)) = ToSet(s) \cup {e}
  BY <1>1 DEF ToSet
<1>5. QED
  BY <1>3, <1>4

\* What is left of such a sequence no longer has its head, and all the rest of it.
LEMMA TailDistinct ==
    ASSUME NEW S, NEW s \in Seq(S), s # <<>>, Distinct(s)
    PROVE  /\ Head(s) \in ToSet(s) /\ Distinct(Tail(s))
           /\ ToSet(Tail(s)) = ToSet(s) \ {Head(s)}
<1>1. /\ Len(s) >= 1 /\ Head(s) = s[1]
      /\ DOMAIN Tail(s) = 1..(Len(s) - 1)
      /\ \A i \in 1..(Len(s) - 1) : Tail(s)[i] = s[i + 1]
  OBVIOUS
<1>2. Distinct(Tail(s))
  BY <1>1 DEF Distinct
<1>3. ToSet(Tail(s)) = ToSet(s) \ {Head(s)}
  <2>1. ASSUME NEW i \in DOMAIN Tail(s) PROVE Tail(s)[i] \in ToSet(s) /\ Tail(s)[i] # Head(s)
    BY <1>1 DEF ToSet, Distinct
  <2>2. ASSUME NEW i \in DOMAIN s, s[i] # Head(s) PROVE s[i] \in ToSet(Tail(s))
    <3>1. i - 1 \in 1..(Len(s) - 1) /\ Tail(s)[i - 1] = s[i]
      BY <1>1, <2>2
    <3>2. QED
      BY <1>1, <3>1 DEF ToSet
  <2>3. QED
    BY <2>1, <2>2 DEF ToSet
<1>4. Head(s) \in ToSet(s)
  <2>1. 1 \in DOMAIN s /\ Head(s) = s[1]
    BY <1>1
  <2>2. QED
    BY <2>1 DEF ToSet
<1>5. QED
  BY <1>2, <1>3, <1>4

-----------------------------------------------------------------------------
(* The steps *)

\* The server's life starts in the invariant.
LEMMA InitLife == LifeInit => LifeInv
<1> SUFFICES ASSUME LifeInit PROVE LifeInv
  OBVIOUS
<1>1. LifeShape
  <2>1. order = <<>> /\ devs = <<>> /\ starts = [d \in Device |-> 0]
    BY DEF LifeInit
  <2>2. order \in Seq(Device) /\ devs \in Seq(Device)
    BY <2>1
  <2>3. starts \in [Device -> Nat]
    BY <2>1
  <2>4. serveCtx = FALSE /\ cancelled = FALSE /\ serve = "listen"
    BY DEF LifeInit
  <2>5. QED
    BY <2>2, <2>3, <2>4 DEF LifeShape
<1>2. Sections
  BY DEF LifeInit, Sections
<1>3. Listed /\ Counted
  BY DEF LifeInit, Listed, Distinct, ToSet, Counted, Begun
<1>4. QED
  BY <1>1, <1>2, <1>3 DEF LifeInv

\* A device that is added while Serve runs is started by AddDevice, and one that is
\* added before is left to Serve.
LEMMA AddDeviceStep == ASSUME LifeInv, NEW d \in Device, AddDevice(d) PROVE LifeInv'
<1> USE DEF LifeInv
<1>1. CASE UNCHANGED <<order, starts>>
  <2>1. UNCHANGED <<order, starts, serveCtx, cancelled, serve, devs>>
    BY <1>1 DEF AddDevice
  <2>2. LifeShape' /\ Sections'
    BY <2>1 DEF LifeShape, Sections
  <2>3. Listed' /\ Counted'
    BY <2>1 DEF Listed, Counted, Begun, Distinct, ToSet
  <2>4. QED
    BY <2>2, <2>3
<1>2. CASE order' = Append(order, d) /\ starts' = IF Serving THEN Started(d) ELSE starts
  <2>1. d \notin ToSet(order) /\ UNCHANGED <<serveCtx, cancelled, serve, devs>>
    BY DEF AddDevice
  <2>2. Distinct(order') /\ ToSet(order') = ToSet(order) \cup {d}
    BY <1>2, <2>1, AppendDistinct DEF LifeShape, Listed
  <2>3. starts[d] = 0
    BY <2>1 DEF Counted, Begun
  <2>4. LifeShape'
    BY <1>2, <2>1 DEF LifeShape, Started
  <2>5. Sections' /\ Listed'
    BY <2>1, <2>2 DEF Sections, Listed, Distinct, ToSet
  <2>6. d \notin ToSet(devs) /\ ToSet(devs)' = ToSet(devs)
    BY <2>1 DEF Listed
  <2>7. Counted'
    <3> SUFFICES ASSUME NEW e \in Device PROVE starts'[e] = IF Begun(e)' THEN 1 ELSE 0
      BY DEF Counted
    <3>1. CASE e = d
      BY <1>2, <2>1, <2>2, <2>3, <2>6, <3>1 DEF LifeShape, Begun, Started, Serving
    <3>2. CASE e # d
      <4>1. starts'[e] = starts[e]
        BY <1>2, <3>2 DEF LifeShape, Started
      <4>2. Begun(e)' <=> Begun(e)
        BY <2>1, <2>2, <2>6, <3>2 DEF Begun
      <4>3. QED
        BY <4>1, <4>2 DEF Counted
    <3>3. QED
      BY <3>1, <3>2
  <2>8. QED
    BY <2>4, <2>5, <2>7
<1>3. QED
  BY <1>1, <1>2 DEF AddDevice

\* The snapshot holds every device that AddDevice has left to Serve.
LEMMA LockStep == ASSUME LifeInv, Lock PROVE LifeInv'
<1> USE DEF LifeInv
<1>1. /\ serve = "lock" /\ serve' = "start" /\ serveCtx' = TRUE /\ devs' = order
      /\ UNCHANGED <<order, starts, cancelled>>
  BY DEF Lock, devices
<1>2. LifeShape' /\ Sections' /\ Listed'
  BY <1>1 DEF LifeShape, Sections, Listed, Distinct, ToSet
<1>3. Counted'
  BY <1>1 DEF Sections, Counted, Begun, ToSet
<1>4. QED
  BY <1>2, <1>3

\* Serve starts the next device of its snapshot, once.
LEMMA StartDevicesStep == ASSUME LifeInv, StartDevices PROVE LifeInv'
<1> USE DEF LifeInv
<1>1. serve = "start" /\ serveCtx = TRUE /\ UNCHANGED <<order, serveCtx, cancelled>>
  BY DEF StartDevices, Sections, LifeShape
<1>2. CASE devs = <<>>
  BY <1>1, <1>2 DEF StartDevices, LifeShape, Sections, Listed, Counted, Begun, Distinct, ToSet
<1>3. CASE devs # <<>>
  <2> DEFINE d == Head(devs)
  <2>1. starts' = Started(d) /\ devs' = Tail(devs) /\ serve' = "start"
    BY <1>1, <1>3 DEF StartDevices
  <2>2. /\ d \in ToSet(devs) /\ Distinct(devs')
        /\ ToSet(devs') = ToSet(devs) \ {d}
    BY <1>3, <2>1, TailDistinct DEF LifeShape, Listed
  <2>3. d \in Device /\ d \in ToSet(order)
    BY <1>3, <2>2 DEF LifeShape, Listed
  <2>4. ToSet(order') = ToSet(order)
    BY <1>1
  <2>5. LifeShape' /\ Sections'
    BY <1>1, <1>3, <2>1, <2>3 DEF LifeShape, Sections, Started
  <2>6. Listed'
    BY <1>1, <2>2 DEF Listed, Distinct, ToSet
  <2>7. Counted'
    <3> SUFFICES ASSUME NEW e \in Device PROVE starts'[e] = IF Begun(e)' THEN 1 ELSE 0
      BY DEF Counted
    <3>1. CASE e = d
      <4>1. starts[e] = 0
        BY <2>2, <3>1 DEF Counted, Begun
      <4>2. Begun(e)' <=> e \in Starters
        BY <1>1, <2>2, <2>3, <2>4, <3>1 DEF Begun
      <4>3. starts'[e] = IF e \in Starters THEN 1 ELSE 0
        BY <2>1, <3>1, <4>1 DEF Started, LifeShape
      <4>4. QED
        BY <4>2, <4>3
    <3>2. CASE e # d
      <4>1. starts'[e] = starts[e]
        BY <2>1, <3>2 DEF LifeShape, Started
      <4>2. Begun(e)' <=> Begun(e)
        BY <1>1, <2>2, <2>4, <3>2 DEF Begun
      <4>3. QED
        BY <4>1, <4>2 DEF Counted
    <3>3. QED
      BY <3>1, <3>2
  <2>8. QED
    BY <2>5, <2>6, <2>7
<1>4. QED
  BY <1>2, <1>3

\* The other steps start nothing: serve only moves on within what it has done.
LifeElsewhere ==
    /\ UNCHANGED <<order, starts, serveCtx, devs>>
    /\ cancelled' \in BOOLEAN
    /\ \/ serve' = serve
       \/ serve = "listen" /\ serve' \in {"lock", "error"}
       \/ serve = "accept" /\ serve' \in {"nil", "error", "pause"}
       \/ serve = "pause" /\ serve' \in {"accept", "nil"}

\* Such a step keeps the invariant.
LEMMA ElsewhereStep == ASSUME LifeInv, LifeElsewhere PROVE LifeInv'
<1>1. LifeShape' /\ Sections'
  BY DEF LifeInv, LifeElsewhere, LifeShape, Sections
<1>2. Listed' /\ Counted'
  BY DEF LifeInv, LifeElsewhere, Listed, Counted, Begun, Distinct, ToSet
<1>3. QED
  BY <1>1, <1>2 DEF LifeInv

\* Every step of the server keeps the invariant.
LEMMA NextLife == LifeInv /\ [LifeNext]_lifeVars => LifeInv'
<1> SUFFICES ASSUME LifeInv, [LifeNext]_lifeVars PROVE LifeInv'
  OBVIOUS
<1>1. ASSUME NEW d \in Device, AddDevice(d) PROVE LifeInv'
  BY <1>1, AddDeviceStep
<1>2. CASE Lock
  BY <1>2, LockStep
<1>3. CASE StartDevices
  BY <1>3, StartDevicesStep
<1>4. cancelled \in BOOLEAN
  BY DEF LifeInv, LifeShape
<1>5. CASE Listen \/ Accept \/ Fails \/ Resume
  <2>1. LifeElsewhere
    BY <1>4, <1>5 DEF Listen, Accept, Fails, Resume, devices, LifeElsewhere
  <2>2. QED
    BY <2>1, ElsewhereStep
<1>6. CASE CloseListener \/ Cancel \/ Hiccup
  <2>1. LifeElsewhere
    BY <1>4, <1>6 DEF CloseListener, Cancel, Hiccup, devices, LifeElsewhere
  <2>2. QED
    BY <2>1, ElsewhereStep
<1>7. ASSUME NEW c \in Dialer, Dial(c) PROVE LifeInv'
  <2>1. LifeElsewhere
    BY <1>4, <1>7 DEF Dial, devices, LifeElsewhere
  <2>2. QED
    BY <2>1, ElsewhereStep
<1>8. CASE UNCHANGED lifeVars
  <2>1. LifeElsewhere
    BY <1>4, <1>8 DEF lifeVars, LifeElsewhere
  <2>2. QED
    BY <2>1, ElsewhereStep
<1>9. QED
  BY <1>1, <1>2, <1>3, <1>5, <1>6, <1>7, <1>8 DEF LifeNext, Serve

\* The invariant holds for ever.
LEMMA LifeInvariance == LifeSpec => []LifeInv
BY InitLife, NextLife, PTL DEF LifeSpec

-----------------------------------------------------------------------------
(* The theorem *)

\* However AddDevice falls between the steps of Serve, a device's background loop is
\* started by one of the two and never by both (Serve and AddDevice, server/server.go).
THEOREM StartedByOne == LifeSpec => []StartedOnce
<1>1. LifeInv => StartedOnce
  <2> SUFFICES ASSUME LifeInv PROVE StartedOnce
    OBVIOUS
  <2>1. \A d \in Device : starts[d] <= 1
    BY DEF LifeInv, Counted
  <2>2. ASSUME serve \in {"accept", "pause", "nil"}, NEW d \in ToSet(order) \cap Starters
        PROVE  starts[d] = 1
    <3>1. d \in Device /\ serveCtx /\ d \notin ToSet(devs)
      BY <2>2, LifecycleAssumption DEF LifecycleAssumption, LifeInv, Sections, ToSet
    <3>2. QED
      BY <2>2, <3>1 DEF LifeInv, Counted, Begun
  <2>3. QED
    BY <2>1, <2>2 DEF StartedOnce
<1>2. QED
  BY <1>1, LifeInvariance, PTL
=============================================================================
