------------------------------- MODULE Mount -------------------------------
(***************************************************************************)
(* The mount adapter, mount/mount.go: clients' read loops call HandleNew,  *)
(* every goto and every pulse has a goroutine of its own, and Start polls  *)
(* the mount's position.  What they share is d.mu's few fields, the INDI   *)
(* properties and the mount.                                               *)
(*                                                                         *)
(* The mount (lx200.Mount) is not part of the repository: it is modelled   *)
(* by how the adapter uses it.  A pub.Update that follows a SetState is    *)
(* part of it; DUAL_AXIS_TRACKING's Define and Delete are not.             *)
(***************************************************************************)
EXTENDS Integers, Sequences, FiniteSets

CONSTANTS
    Client,    \* connections whose read loops call HandleNew
    Commands,  \* what they send: "goto", "sync", "bad", "abort", "guide", "connect",
               \* "disconnect"
    Axis,      \* the guide axes: TELESCOPE_TIMED_GUIDE_NS and _WE
    Position,  \* coordinate pairs <<ra, dec>> that clients ask for
    OpLocker,  \* whether the mount has an OpLock
    DualAxis,  \* whether the mount is a DualAxisTracker
    Online,    \* whether the device starts connected
    MaxReq,    \* bound: commands, of all clients together
    MaxGoto,   \* bound: gotos
    MaxPulse   \* bound: pulses

ASSUME MountAssumption ==
    /\ Client # {} /\ Position # {} /\ \A pos \in Position : pos = <<pos[1], pos[2]>>
    /\ Commands \subseteq {"goto", "sync", "bad", "abort", "guide", "connect", "disconnect"}
    /\ OpLocker \in BOOLEAN /\ DualAxis \in BOOLEAN /\ Online \in BOOLEAN
    /\ MaxReq \in Nat /\ MaxGoto \in Nat /\ MaxPulse \in Nat

Goto  == 1..MaxGoto
Pulse == 1..MaxPulse
Free  == 0

VARIABLES
    shutdown,   \* Start's context is cancelled
    connected,  \* d.connected
    cap,        \* d.dualAxisCap
    defined,    \* whether clients have been sent DUAL_AXIS_TRACKING's definition
    eq,         \* the state of EQUATORIAL_EOD_COORD
    guide,      \* the state of each axis' timed guide property
    slot,       \* the mount's target registers, <<ra, dec>>
    motion,     \* the mount: "still" or "slewing"
    oplock,     \* the goto that holds the mount's OpLock
    pulsing,    \* the pulses the mount still executes
    poll,       \* the poll loop: "wait", "read", what Slewing has answered, or "ended"
    pc,         \* where each client's handler is
    gpc,        \* where each goto's goroutine is
    request,    \* the goto's coordinates
    sync,       \* the gotos that sync
    tpc,        \* each pulse command's timer: "none", "armed" or "done"
    axisOf,     \* the axis of each pulse
    went,       \* history: the positions slewed or synced to
    halted,     \* history: the gotos that were under way when the mount was halted
    met,        \* history: the clients during whose CONNECT a DISCONNECT was handled
    crossed,    \* history: one was, since the last CONNECT that met none
    spent       \* how many commands there have been, for the bound

sessionVars == <<connected, cap, defined, met, crossed>>
mountVars   == <<slot, motion, oplock>>
gotoVars    == <<gpc, request, sync>>
pulseVars   == <<guide, pulsing, tpc, axisOf>>
history     == <<went, halted>>
vars == <<shutdown, sessionVars, eq, mountVars, poll, pc, gotoVars, pulseVars, history, spent>>

Nowhere == <<0, 0>>

Init ==
    /\ shutdown = FALSE
    /\ connected = Online
    /\ cap = (Online /\ DualAxis) /\ defined = (Online /\ DualAxis)
    /\ eq = "Idle"
    /\ guide = [a \in Axis |-> "Ok"]
    /\ slot = Nowhere /\ motion = "still" /\ oplock = Free /\ pulsing = {}
    /\ poll = "wait"
    /\ pc = [c \in Client |-> "idle"]
    /\ gpc = [g \in Goto |-> "none"]
    /\ request = [g \in Goto |-> Nowhere]
    /\ sync = {}
    /\ tpc = [p \in Pulse |-> "none"]
    /\ axisOf = [p \in Pulse |-> "none"]
    /\ went = {} /\ halted = {} /\ met = {} /\ crossed = FALSE
    /\ spent = 0

(***************************************************************************)
(* The mount                                                               *)
(***************************************************************************)
Arrive ==
    /\ motion = "slewing"
    /\ motion' = "still"
    /\ UNCHANGED <<shutdown, sessionVars, eq, slot, oplock, poll, pc, gotoVars, pulseVars, history, spent>>

PulseEnds(p) ==
    /\ p \in pulsing
    /\ pulsing' = pulsing \ {p}
    /\ UNCHANGED <<shutdown, sessionVars, eq, mountVars, poll, pc, gotoVars, guide, tpc, axisOf, history, spent>>

(***************************************************************************)
(* HandleNew: gotos and aborts                                             *)
(***************************************************************************)
Receive(c, k) ==
    /\ pc[c] = "idle" /\ spent < MaxReq /\ k \in Commands
    /\ spent' = spent + 1

\* A malformed coordinate, or no mount: the whole command is rejected.
Reject(c) ==
    /\ Receive(c, "bad")
    /\ eq' = "Alert"
    /\ UNCHANGED <<shutdown, sessionVars, mountVars, poll, pc, gotoVars, pulseVars, history>>

\* handleEq: Busy, and a goroutine that does the rest.
handleEq(c) ==
    \E g \in Goto, pos \in Position, k \in {"goto", "sync"} :
        /\ Receive(c, k)
        /\ gpc[g] = "none" /\ \A h \in Goto : gpc[h] = "none" => g <= h
        /\ eq' = "Busy"
        /\ gpc' = [gpc EXCEPT ![g] = "begin"]
        /\ request' = [request EXCEPT ![g] = pos]
        /\ sync' = IF k = "sync" THEN sync \cup {g} ELSE sync
        /\ UNCHANGED <<shutdown, sessionVars, mountVars, poll, pc, pulseVars, history>>

Underway == {g \in Goto : gpc[g] \notin {"none", "done"}}

\* handleAbort: Mount.Halt, whatever else is using the mount.
handleAbort(c) ==
    /\ Receive(c, "abort")
    /\ motion' = "still"
    /\ pulsing' = {}
    /\ halted' = halted \cup Underway
    /\ UNCHANGED <<shutdown, sessionVars, eq, slot, oplock, poll, pc, gotoVars, guide, tpc, axisOf, went>>

Step(g, l) == gpc' = [gpc EXCEPT ![g] = l]

\* Variant: the operation lock is not taken.
withOp_Not(g) == UNCHANGED oplock
\* withOp: the goto's steps run under the mount's OpLock, if it has one.
withOp(g) == IF OpLocker THEN oplock = Free /\ oplock' = g ELSE UNCHANGED oplock

Begin(g) ==
    /\ gpc[g] = "begin"
    /\ withOp(g)
    /\ Step(g, "ra")
    /\ UNCHANGED <<shutdown, sessionVars, eq, slot, motion, poll, pc, request, sync, pulseVars, history, spent>>

SetTargetRA(g) ==
    /\ gpc[g] = "ra"
    /\ slot' = <<request[g][1], slot[2]>>
    /\ Step(g, "dec")
    /\ UNCHANGED <<shutdown, sessionVars, eq, motion, oplock, poll, pc, request, sync, pulseVars, history, spent>>

SetTargetDec(g) ==
    /\ gpc[g] = "dec"
    /\ slot' = <<slot[1], request[g][2]>>
    /\ Step(g, "act")
    /\ UNCHANGED <<shutdown, sessionVars, eq, motion, oplock, poll, pc, request, sync, pulseVars, history, spent>>

Unlock(g) == oplock' = IF oplock = g THEN Free ELSE oplock

\* SyncToTarget or SlewToTarget, to whatever the registers hold.
Act(g) ==
    /\ gpc[g] = "act"
    /\ went' = went \cup {slot}
    /\ motion' = IF g \in sync THEN motion ELSE "slewing"
    /\ Unlock(g)
    /\ Step(g, "acted")
    /\ UNCHANGED <<shutdown, sessionVars, eq, slot, poll, pc, request, sync, pulseVars, halted, spent>>

\* The mount rejects a coordinate or an action.
Refused(g) ==
    /\ gpc[g] \in {"ra", "dec", "act"}
    /\ Unlock(g)
    /\ Step(g, "refused")
    /\ UNCHANGED <<shutdown, sessionVars, eq, slot, motion, poll, pc, request, sync, pulseVars, history, spent>>

\* A failure is an Alert, a sync is Ok, and a slew is left to the poll loop.
Report(g) ==
    /\ gpc[g] \in {"acted", "refused"}
    /\ eq' = CASE gpc[g] = "refused" -> "Alert"
               [] gpc[g] = "acted" /\ g \in sync -> "Ok"
               [] OTHER -> eq
    /\ Step(g, "done")
    /\ UNCHANGED <<shutdown, sessionVars, mountVars, poll, pc, request, sync, pulseVars, history, spent>>

(***************************************************************************)
(* Start's poll loop                                                       *)
(***************************************************************************)
\* A tick finds the device connected and asks the mount where it is, ...
PollBegins ==
    /\ poll = "wait" /\ connected
    /\ poll' = "read"
    /\ UNCHANGED <<shutdown, sessionVars, eq, mountVars, pc, gotoVars, pulseVars, history, spent>>

\* (which may fail: the tick is skipped)
PollSkips ==
    /\ poll = "read"
    /\ poll' = "wait"
    /\ UNCHANGED <<shutdown, sessionVars, eq, mountVars, pc, gotoVars, pulseVars, history, spent>>

\* ... then whether it is slewing (a failure to answer counts as no), ...
PollReads ==
    /\ poll = "read"
    /\ poll' \in {motion, "still"}
    /\ UNCHANGED <<shutdown, sessionVars, eq, mountVars, pc, gotoVars, pulseVars, history, spent>>

\* Variant: the answer is not turned into a state.
Polled_Not == eq
Polled == IF poll = "slewing" THEN "Busy" ELSE "Ok"

\* ... and publishes that.
PollPublishes ==
    /\ poll \in {"still", "slewing"}
    /\ eq' = Polled
    /\ poll' = "wait"
    /\ UNCHANGED <<shutdown, sessionVars, mountVars, pc, gotoVars, pulseVars, history, spent>>

\* The context is cancelled.  The loop ends when it next waits and sees that, not a tick.
Cancel ==
    /\ ~shutdown
    /\ shutdown' = TRUE
    /\ UNCHANGED <<sessionVars, eq, mountVars, poll, pc, gotoVars, pulseVars, history, spent>>

PollEnds ==
    /\ shutdown /\ poll = "wait"
    /\ poll' = "ended"
    /\ UNCHANGED <<shutdown, sessionVars, eq, mountVars, pc, gotoVars, pulseVars, history, spent>>

(***************************************************************************)
(* HandleNew: pulse guiding                                                *)
(***************************************************************************)
handleGuide(c) ==
    \E a \in Axis, p \in Pulse :
        /\ Receive(c, "guide")
        /\ tpc[p] = "none" /\ \A q \in Pulse : tpc[q] = "none" => p <= q
        /\ pulsing' = pulsing \cup {p}
        /\ axisOf' = [axisOf EXCEPT ![p] = a]
        /\ guide' = [guide EXCEPT ![a] = "Busy"]
        /\ tpc' = [tpc EXCEPT ![p] = "armed"]
        /\ UNCHANGED <<shutdown, sessionVars, eq, mountVars, poll, pc, gotoVars, history>>

\* There is no mount to ask (Alert), or it refuses every pulse of the command (Ok): no
\* timer.
NoPulse(c) ==
    \E a \in Axis :
        /\ Receive(c, "guide")
        /\ \E s \in {"Ok", "Alert"} : guide' = [guide EXCEPT ![a] = s]
        /\ UNCHANGED <<shutdown, sessionVars, eq, mountVars, poll, pc, gotoVars, pulsing, tpc, axisOf, history>>

Fired(p) == "Ok"

\* The timer runs as long as the longest pulse of its command, and started later.
TimerFires(p) ==
    /\ tpc[p] = "armed" /\ p \notin pulsing
    /\ tpc' = [tpc EXCEPT ![p] = "done"]
    /\ guide' = [guide EXCEPT ![axisOf[p]] = Fired(p)]
    /\ UNCHANGED <<shutdown, sessionVars, eq, mountVars, poll, pc, gotoVars, pulsing, axisOf, history, spent>>

\* A timer that the cancelled context ends leaves its property as it is.
TimerStops(p) ==
    /\ shutdown /\ tpc[p] = "armed"
    /\ tpc' = [tpc EXCEPT ![p] = "done"]
    /\ UNCHANGED <<shutdown, sessionVars, eq, mountVars, poll, pc, gotoVars, guide, pulsing, axisOf,
                   history, spent>>

(***************************************************************************)
(* HandleNew: CONNECTION, with refreshDualAxis and clearDualAxis           *)
(***************************************************************************)
At(c, l) == pc' = [pc EXCEPT ![c] = l]

Connecting    == {c \in Client : pc[c] \in {"capable", "define"}}
Disconnecting == {c \in Client : pc[c] \in {"clear", "delete"}}

Connect(c) ==
    /\ Receive(c, "connect")
    /\ connected' = TRUE
    /\ IF DualAxis
       THEN /\ At(c, "capable")
            /\ met' = IF Disconnecting = {} THEN met \ {c} ELSE met \cup {c}
            /\ crossed' = (crossed \/ Disconnecting # {})
       ELSE UNCHANGED <<pc, met, crossed>>
    /\ UNCHANGED <<shutdown, cap, defined, eq, mountVars, poll, gotoVars, pulseVars, history>>

RefreshDualAxis(c) ==
    /\ pc[c] = "capable"
    /\ cap' = TRUE
    /\ At(c, "define")
    /\ UNCHANGED <<shutdown, connected, defined, met, crossed, eq, mountVars, poll, gotoVars,
                   pulseVars, history, spent>>

Define(c) ==
    /\ pc[c] = "define"
    /\ defined' = TRUE
    /\ crossed' = (crossed /\ c \in met)
    /\ At(c, "idle")
    /\ UNCHANGED <<shutdown, connected, cap, met, eq, mountVars, poll, gotoVars, pulseVars, history,
                   spent>>

Disconnect(c) ==
    /\ Receive(c, "disconnect")
    /\ connected' = FALSE
    /\ At(c, "clear")
    /\ met' = met \cup Connecting
    /\ crossed' = (crossed \/ Connecting # {})
    /\ UNCHANGED <<shutdown, cap, defined, eq, mountVars, poll, gotoVars, pulseVars, history>>

\* Variant: the capability is forgotten without a word to the clients.
Cleared_Silently(c) == At(c, "idle")
Cleared(c) == At(c, IF cap THEN "delete" ELSE "idle")

ClearDualAxis(c) ==
    /\ pc[c] = "clear"
    /\ cap' = FALSE
    /\ Cleared(c)
    /\ UNCHANGED <<shutdown, connected, defined, met, crossed, eq, mountVars, poll, gotoVars,
                   pulseVars, history, spent>>

Delete(c) ==
    /\ pc[c] = "delete"
    /\ defined' = FALSE
    /\ At(c, "idle")
    /\ UNCHANGED <<shutdown, connected, cap, met, crossed, eq, mountVars, poll, gotoVars, pulseVars,
                   history, spent>>

-----------------------------------------------------------------------------
Session(c) == RefreshDualAxis(c) \/ Define(c) \/ ClearDualAxis(c) \/ Delete(c)

HandleNew(c) ==
    \/ Reject(c) \/ handleEq(c) \/ handleAbort(c) \/ handleGuide(c) \/ NoPulse(c)
    \/ Connect(c) \/ Disconnect(c)

Going(g) == Begin(g) \/ SetTargetRA(g) \/ SetTargetDec(g) \/ Act(g) \/ Refused(g) \/ Report(g)

Polling == PollBegins \/ PollSkips \/ PollReads \/ PollPublishes \/ PollEnds

Next ==
    \/ Arrive \/ \E p \in Pulse : PulseEnds(p)
    \/ \E c \in Client : HandleNew(c) \/ Session(c)
    \/ \E g \in Goto : Going(g)
    \/ Cancel \/ Polling
    \/ \E p \in Pulse : TimerFires(p) \/ TimerStops(p)

Spec == Init /\ [][Next]_vars

\* Handlers, goroutines, timers and the poll loop run, slews end and reads of the
\* position succeed again and again.
LiveSpec ==
    /\ Spec
    /\ WF_vars(Arrive) /\ \A p \in Pulse : WF_vars(PulseEnds(p)) /\ WF_vars(TimerFires(p))
    /\ \A c \in Client : WF_vars(Session(c))
    /\ \A g \in Goto : WF_vars(Going(g))
    /\ WF_vars(PollBegins) /\ SF_vars(PollReads) /\ WF_vars(PollPublishes)
=============================================================================
