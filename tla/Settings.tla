------------------------------ MODULE Settings ------------------------------
(***************************************************************************)
(* Commands that set things: the server's dispatchNew decides what becomes *)
(* of a client's newXVector, and the camera adapter's handlers             *)
(* (CCD_FRAME, CCD_CONTROLS, CCD_BINNING and CONNECTION, ccd/ccd.go) pass  *)
(* it to the camera and show what the camera made of it.  Every client's   *)
(* read loop runs its handlers itself, so two clients' interleave.         *)
(*                                                                         *)
(* A publication is atomic here: module Hub has its way to the clients.    *)
(* Exposures, which a disconnect stops, are in module Ccd; CCD_INFO, which *)
(* a connect fills with the sensor's constants, is here only a name.       *)
(* Numbers are integers or NaN, which ParseNumber takes and every          *)
(* comparison of dispatchNew lets through.  A handler sets members in any  *)
(* order.                                                                  *)
(***************************************************************************)
EXTENDS Integers, FiniteSets

CONSTANTS
    Client,    \* connections
    Commands,  \* what they may send: records [to, elem, vals]
    Limits,    \* of each number vector, its members' <<Min, Max>>
    Hardware,  \* those that the camera keeps: "CCD_FRAME" and "CCD_CONTROLS"
    Junk,      \* a member's text that is not a number
    NaN,       \* the number that the text "nan" is
    NaNInts,   \* what int() may make of it: Go leaves that to the processor
    MaxReq     \* bound: commands of one client

Vectors == DOMAIN Limits
Members(v) == DOMAIN Limits[v]

ASSUME SettingsAssumption ==
    /\ Hardware \subseteq Vectors \cap {"CCD_FRAME", "CCD_CONTROLS"}
    /\ {"CONNECTION", "nowhere"} \cap Vectors = {}
    /\ \A k \in Commands : k.elem = "Number" => \A m \in DOMAIN k.vals : k.vals[m] \in Int \cup {NaN, Junk}
    /\ NaN \notin Int /\ Junk \notin Int \cup {NaN} /\ NaNInts \subseteq Int /\ NaNInts # {}
    /\ Client # {} /\ MaxReq \in Nat
    /\ \A v \in Vectors : \A m \in Members(v) : Limits[v][m] \in Int \X Int

VARIABLES
    gone,       \* whether cam() fails
    camera,     \* the camera's settings
    connected,  \* d.connected
    defined,    \* the optional properties that exist: d.frame, d.controls
    num,        \* the values of number members
    sw,         \* CONNECTION's members that are On
    state,      \* the state of each property
    pc, cmd,    \* where each client's read loop is, and the command it handles
    local,      \* x, y, w and h, or the values to set
    left,       \* members it has still to set
    caps,       \* vectors that defineCaps has still to treat
    pubs,       \* vectors it has still to publish
    shown,      \* history: the last publication of each property
    defs,       \* history: how often each optional property was defined
    answered,   \* history: whether a client's command had an answer
    mixed,      \* history: the properties whose handlers overlapped, until one that runs
                \* alone sets them anew
    sentNaN,    \* history: the members <<v, m>> that a command which was handled gave as NaN
    spent       \* commands of each client, for the bound

device  == <<camera, connected, defined, num, sw, state>>
thread  == <<cmd, local, left, caps, pubs>>
history == <<shown, defs, answered, mixed, sentNaN, spent>>
vars    == <<gone, device, pc, thread, history>>

Start(v) == [m \in Members(v) |-> Limits[v][m][1]]
Unset == [state |-> "none", val |-> {}]

Init ==
    /\ gone \in BOOLEAN
    /\ camera = [h \in Hardware |-> Start(h)]
    /\ connected = FALSE /\ defined = {}
    /\ num = [v \in Vectors |-> Start(v)]
    /\ sw = {"DISCONNECT"}
    /\ state = [v \in Vectors \cup {"CONNECTION"} |-> "Ok"]
    /\ pc = [c \in Client |-> "idle"]
    /\ cmd = [c \in Client |-> [to |-> "none", elem |-> "none", vals |-> <<>>]]
    /\ local = [c \in Client |-> <<>>] /\ left = [c \in Client |-> {}]
    /\ caps = [c \in Client |-> {}] /\ pubs = [c \in Client |-> {}]
    /\ shown = [v \in Vectors \cup {"CONNECTION"} |-> Unset]
    /\ defs = [h \in Hardware |-> 0]
    /\ answered = [c \in Client |-> "yes"]
    /\ mixed = [v \in Vectors \cup {"CONNECTION"} |-> FALSE]
    /\ sentNaN = {}
    /\ spent = [c \in Client |-> 0]

(***************************************************************************)
(* The property model                                                      *)
(***************************************************************************)
\* SetSwitch on the members that are On, for a vector with the given rule.
SetSwitch(ons, rule, m, on) ==
    CASE on /\ rule # "AnyOfMany"         -> {m}
      [] on /\ rule = "AnyOfMany"         -> ons \cup {m}
      [] ~on /\ rule = "OneOfMany"        -> IF ons \ {m} # {} THEN ons \ {m} ELSE ons
      [] OTHER                            -> ons \ {m}

\* What a publication of p says.
Image(p) == [state |-> state[p], val |-> IF p = "CONNECTION" THEN sw ELSE num[p]]

\* Define or Update: a snapshot goes to every client, which answers client c's command.
Publish(c, p) ==
    /\ shown' = [shown EXCEPT ![p] = Image(p)]
    /\ answered' = [answered EXCEPT ![c] = "yes"]

(***************************************************************************)
(* dispatchNew                                                             *)
(***************************************************************************)
\* d.Properties(): the static ones, of which CCD_INFO is read-only, and the optional.
Properties == {"CONNECTION", "CCD_INFO"} \cup (Vectors \ Hardware) \cup defined
TypeOf(p) == IF p = "CONNECTION" THEN "Switch" ELSE "Number"

\* The command is dropped, with a message to its sender.
Dropped(k) ==
    \/ k.to \notin Properties
    \/ k.to = "CCD_INFO"
    \/ TypeOf(k.to) # k.elem
    \/ /\ k.elem = "Switch"
       /\ Cardinality({m \in DOMAIN k.vals : k.vals[m]}) > 1

\* A number that is none, or outside limits that are a range: NaN is neither below nor
\* above.  Members the property does not have are not checked.  Variant: an upper bound
\* is not looked at.
Outside_Above(v, m, val) ==
    m \in Members(v) /\ Limits[v][m][1] < Limits[v][m][2] /\ val # NaN /\ val < Limits[v][m][1]
Outside(v, m, val) ==
    /\ m \in Members(v)
    /\ Limits[v][m][1] < Limits[v][m][2]
    /\ val # NaN /\ (val < Limits[v][m][1] \/ val > Limits[v][m][2])
Rejected(k) ==
    /\ k.elem = "Number"
    /\ \E m \in DOMAIN k.vals : k.vals[m] = Junk \/ Outside(k.to, m, k.vals[m])

\* The properties that the handler of a command touches, and the handlers at one.
Touches(k) == IF k.to = "CONNECTION" THEN {"CONNECTION"} \cup Hardware ELSE {k.to}
Handlers(p) == {c \in Client : pc[c] \notin {"idle", "reject", "alert"} /\ p \in Touches(cmd[c])}

First(k) == CASE k.to = "CONNECTION"   -> "connection"
              [] k.to \in Hardware     -> "cam"
              [] OTHER                 -> "set"

\* messageTo, the answer to a command that is dropped.  Variant: it is dropped silently.
messageTo_Nobody(c) == answered' = [answered EXCEPT ![c] = "no"]
messageTo(c) == answered' = [answered EXCEPT ![c] = "yes"]

\* The members that a command gives as NaN.
NaNs(k) == {<<k.to, m>> : m \in {n \in DOMAIN k.vals : k.vals[n] = NaN}}

\* The read loop takes a command off the wire.  One for an unknown device is ignored.
Receive(c, k) ==
    /\ pc[c] = "idle" /\ spent[c] < MaxReq
    /\ spent' = [spent EXCEPT ![c] = @ + 1]
    /\ cmd' = [cmd EXCEPT ![c] = k]
    /\ IF k.to = "nowhere"
       THEN /\ answered' = [answered EXCEPT ![c] = "no device"]
            /\ UNCHANGED <<pc, mixed, sentNaN, left, local>>
       ELSE IF Dropped(k)
       THEN messageTo(c) /\ UNCHANGED <<pc, mixed, sentNaN, left, local>>
       ELSE /\ answered' = [answered EXCEPT ![c] = "no"]
            /\ IF Rejected(k)
               THEN pc' = [pc EXCEPT ![c] = "reject"] /\ UNCHANGED <<mixed, sentNaN, left, local>>
               ELSE /\ pc' = [pc EXCEPT ![c] = First(k)]
                    /\ mixed' = [p \in DOMAIN mixed |->
                                   mixed[p] \/ (p \in Touches(k) /\ Handlers(p) # {})]
                    /\ sentNaN' = IF k.elem = "Number" THEN sentNaN \cup NaNs(k) ELSE sentNaN
                    /\ local' = [local EXCEPT ![c] = k.vals]
                    /\ left' = [left EXCEPT ![c] = IF k.to \in Vectors THEN DOMAIN k.vals \cap Members(k.to) ELSE {}]
    /\ UNCHANGED <<gone, device, caps, pubs, shown, defs>>

\* rejectNumber, and every handler's last two steps: the state, then the update.
SetState(c, p, s, next) ==
    /\ state' = [state EXCEPT ![p] = s]
    /\ pc' = [pc EXCEPT ![c] = next]
    /\ UNCHANGED <<gone, camera, connected, defined, num, sw, thread, history>>

\* What rejectNumber does next.  Variant: nothing.
Rejecting_Quietly == "idle"
Rejecting == "alert"

Conclude(c) ==
    \/ pc[c] = "reject" /\ SetState(c, cmd[c].to, "Alert", Rejecting)
    \/ pc[c] = "failed" /\ SetState(c, cmd[c].to, "Alert", "publish")
    \/ pc[c] = "ok"     /\ SetState(c, cmd[c].to, "Ok", "publish")

Update(c) ==
    /\ pc[c] \in {"alert", "publish"}
    /\ Publish(c, cmd[c].to)
    /\ pc' = [pc EXCEPT ![c] = "idle"]
    /\ UNCHANGED <<gone, device, thread, defs, mixed, sentNaN, spent>>

(***************************************************************************)
(* CCD_FRAME, CCD_CONTROLS and CCD_BINNING                                 *)
(***************************************************************************)
\* The camera takes a setting, or keeps the one it has.
Takes(h, val) == {val, camera[h]}

\* int(f), where NaN becomes i.
ToInt(f, i) == IF f = NaN THEN i ELSE f

\* d.cam() fails and the handler returns; or the subframe is read, and the command's
\* members replace its own.  The two reads of the camera are one step.
Cam(c) ==
    /\ pc[c] = "cam"
    /\ LET v == cmd[c].to IN
         IF gone THEN
              /\ pc' = [pc EXCEPT ![c] = "idle"]
              /\ answered' = [answered EXCEPT ![c] = "gone"]
              /\ UNCHANGED local
         ELSE /\ pc' = [pc EXCEPT ![c] = "write"]
              /\ IF v = "CCD_CONTROLS" THEN UNCHANGED local
                 ELSE \E i \in NaNInts :
                        local' = [local EXCEPT ![c] = [m \in Members(v) |->
                            IF m \in DOMAIN cmd[c].vals THEN ToInt(cmd[c].vals[m], i) ELSE camera[v][m]]]
              /\ UNCHANGED answered
    /\ UNCHANGED <<gone, device, cmd, left, caps, pubs, shown, defs, mixed, sentNaN, spent>>

\* The subframe is set at once, ...
SetSubframe(c) ==
    /\ pc[c] = "write" /\ cmd[c].to = "CCD_FRAME"
    /\ \E got \in Takes("CCD_FRAME", local[c]) : camera' = [camera EXCEPT !["CCD_FRAME"] = got]
    /\ pc' = [pc EXCEPT ![c] = "read"]
    /\ UNCHANGED <<gone, connected, defined, num, sw, state, thread, history>>

\* ... gain and offset one after the other.
SetControl(c) ==
    /\ pc[c] = "write" /\ cmd[c].to = "CCD_CONTROLS"
    /\ IF left[c] = {} THEN pc' = [pc EXCEPT ![c] = "read"] /\ UNCHANGED <<camera, left>>
       ELSE /\ \E m \in left[c] :
                 /\ left' = [left EXCEPT ![c] = @ \ {m}]
                 /\ \E i \in NaNInts : \E got \in {ToInt(local[c][m], i), camera["CCD_CONTROLS"][m]} :
                      camera' = [camera EXCEPT !["CCD_CONTROLS"][m] = got]
            /\ UNCHANGED pc
    /\ UNCHANGED <<gone, connected, defined, num, sw, state, cmd, local, caps, pubs, history>>

\* From here on a handler sets p anew.
Anew(c, p) == mixed' = [mixed EXCEPT ![p] = @ /\ Handlers(p) # {c}]

\* What the members are set to: what the camera has now.  Variant: what was asked for.
ReadBack_Asked(v, asked) == [m \in Members(v) |-> IF m \in DOMAIN asked THEN asked[m] ELSE camera[v][m]]
ReadBack(v, asked) == camera[v]

Read(c) ==
    /\ pc[c] = "read"
    /\ local' = [local EXCEPT ![c] = ReadBack(cmd[c].to, local[c])]
    /\ left' = [left EXCEPT ![c] = Members(cmd[c].to)]
    /\ pc' = [pc EXCEPT ![c] = "set"]
    /\ Anew(c, cmd[c].to)
    /\ UNCHANGED <<gone, device, cmd, caps, pubs, shown, defs, answered, sentNaN, spent>>

\* SetNumber, member by member.
SetNumber(c) ==
    /\ pc[c] = "set"
    /\ IF left[c] = {} THEN pc' = [pc EXCEPT ![c] = "ok"] /\ UNCHANGED <<num, left>>
       ELSE /\ \E m \in left[c] :
                 /\ left' = [left EXCEPT ![c] = @ \ {m}]
                 /\ num' = [num EXCEPT ![cmd[c].to][m] = local[c][m]]
            /\ UNCHANGED pc
    /\ UNCHANGED <<gone, camera, connected, defined, sw, state, cmd, local, caps, pubs, history>>

(***************************************************************************)
(* CONNECTION                                                              *)
(***************************************************************************)
\* handleConnection: CONNECT On, and DISCONNECT not; anything else disconnects.
Asks(vals) ==
    /\ "CONNECT" \in DOMAIN vals /\ vals["CONNECT"]
    /\ "DISCONNECT" \in DOMAIN vals => ~vals["DISCONNECT"]

handleConnection(c) ==
    /\ pc[c] = "connection"
    /\ LET connect == Asks(cmd[c].vals) IN
         IF connect /\ gone THEN pc' = [pc EXCEPT ![c] = "failed"] /\ UNCHANGED <<connected, mixed>>
         ELSE /\ pc' = [pc EXCEPT ![c] = "switch"]
              /\ connected' = connect
              /\ Anew(c, "CONNECTION")
    /\ UNCHANGED <<gone, camera, defined, num, sw, state, thread, shown, defs, answered, sentNaN, spent>>

Switch(c) ==
    /\ pc[c] = "switch"
    /\ LET connect == Asks(cmd[c].vals) IN
         /\ sw' = SetSwitch(sw, "OneOfMany", IF connect THEN "CONNECT" ELSE "DISCONNECT", TRUE)
         /\ caps' = [caps EXCEPT ![c] = IF connect THEN Hardware ELSE {}]
         /\ pc' = [pc EXCEPT ![c] = IF connect THEN "caps" ELSE "ok"]
    /\ UNCHANGED <<gone, camera, connected, defined, num, state, cmd, local, left, pubs, history>>

\* defineCaps: the controls first, then the frame, ...
Cap(c) == IF "CCD_CONTROLS" \in caps[c] THEN "CCD_CONTROLS" ELSE "CCD_FRAME"

ReadCap(c) ==
    /\ pc[c] = "caps"
    /\ IF caps[c] = {} THEN pc' = [pc EXCEPT ![c] = "pubs"] /\ UNCHANGED local
       ELSE /\ pc' = [pc EXCEPT ![c] = "lock"]
            /\ local' = [local EXCEPT ![c] = camera[Cap(c)]]
    /\ UNCHANGED <<gone, device, cmd, left, caps, pubs, history>>

\* ... each in a section of d.mu of its own: the property is made, or brought up to date
\* (by SetNumbers of its own, which are one step here).
LockCap(c) ==
    /\ pc[c] = "lock"
    /\ LET h == Cap(c) IN
         /\ num' = [num EXCEPT ![h] = local[c]]
         /\ state' = IF h \in defined THEN state ELSE [state EXCEPT ![h] = "Ok"]
         /\ defined' = defined \cup {h}
         /\ pubs' = [pubs EXCEPT ![c] = @ \cup {<<IF h \in defined THEN "update" ELSE "define", h>>}]
         /\ caps' = [caps EXCEPT ![c] = @ \ {h}]
    /\ pc' = [pc EXCEPT ![c] = "caps"]
    /\ UNCHANGED <<gone, camera, connected, sw, cmd, local, left, history>>

\* Definitions before updates.
PublishCap(c) ==
    /\ pc[c] = "pubs"
    /\ IF pubs[c] = {}
       THEN pc' = [pc EXCEPT ![c] = "ok"] /\ UNCHANGED <<pubs, shown, defs, answered>>
       ELSE /\ \E p \in pubs[c] :
                 /\ p[1] = "define" \/ \A q \in pubs[c] : q[1] # "define"
                 /\ pubs' = [pubs EXCEPT ![c] = @ \ {p}]
                 /\ Publish(c, p[2])
                 /\ defs' = [defs EXCEPT ![p[2]] = IF p[1] = "define" THEN @ + 1 ELSE @]
            /\ UNCHANGED pc
    /\ UNCHANGED <<gone, device, cmd, local, left, caps, mixed, sentNaN, spent>>

\* The camera comes and goes.
Hotplug ==
    /\ gone' = ~gone
    /\ UNCHANGED <<device, pc, thread, history>>

HandleNew(c) ==
    \/ Cam(c) \/ SetSubframe(c) \/ SetControl(c) \/ Read(c) \/ SetNumber(c)
    \/ handleConnection(c) \/ Switch(c) \/ ReadCap(c) \/ LockCap(c) \/ PublishCap(c)
    \/ Conclude(c) \/ Update(c)

Next ==
    \/ \E c \in Client : HandleNew(c) \/ \E k \in Commands : Receive(c, k)
    \/ Hotplug

Spec == Init /\ [][Next]_vars
=============================================================================
