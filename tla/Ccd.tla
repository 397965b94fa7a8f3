-------------------------------- MODULE Ccd --------------------------------
(***************************************************************************)
(* The camera adapter, ccd/ccd.go: clients' read loops call HandleNew, and *)
(* every exposure has a goroutine of its own (awaitFrame) that polls the   *)
(* camera, sends the frame and ends the exposure.  Only d.mu separates     *)
(* them; the camera and CCD_EXPOSURE's state are touched outside it.       *)
(*                                                                         *)
(* The camera is not part of the repository: it is modelled by how the     *)
(* adapter uses it.  A pub.Update that follows a SetState is part of it.   *)
(***************************************************************************)
EXTENDS Integers, Sequences, FiniteSets

CONSTANTS
    Client,    \* connections whose read loops call HandleNew
    Commands,  \* what they send: "expose", "malformed", "abort", "connect", "disconnect"
    SlowRead,  \* whether a camera call may outlast stopExposure's 2 seconds
    Faults,    \* whether camera calls may fail and the camera may be unplugged
    MaxReq,    \* bound: commands of one client
    MaxExp     \* bound: exposures

ASSUME CcdAssumption ==
    /\ Client # {}
    /\ Commands \subseteq {"expose", "malformed", "abort", "connect", "disconnect"}
    /\ SlowRead \in BOOLEAN /\ Faults \in BOOLEAN
    /\ MaxReq \in Nat /\ MaxExp \in Nat

Exposure == 1..MaxExp
Nobody == 0      \* no exposure

VARIABLES
    shutdown,  \* the server's ctx is done
    started,   \* Start has recorded the server's ctx
    current,   \* d.exposing, d.cancelExp and d.exposeDone: the exposure they are of
    connected, \* d.connected
    state,     \* the state of CCD_EXPOSURE
    cam,       \* the camera: "idle", "exposing", "ready", "wedged" or "gone"
    shot,      \* the exposure the camera is integrating or holds the frame of
    pc,        \* where each client's handler is
    cmd,       \* the command it handles
    stops,     \* the exposure its stopExposure has taken out
    starts,    \* the exposure it is starting
    gpc,       \* where each exposure's goroutine is
    cancelled, \* the exposures whose ctx has been cancelled
    detached,  \* the exposures whose ctx derives from Background
    frame,     \* the exposure that each goroutine's frame is of
    blobs,     \* history: <<goroutine, frame>> of every BLOB sent
    stopped,   \* history: exposures that a finished abort or disconnect found,
               \* or a later exposure superseded
    released,  \* history: a disconnect was the last thing done to the camera
    refused,   \* history: exposures that the camera went on with when told to abort
    spent      \* commands used up, for the bound

devVars  == <<started, shutdown>>
propVars == <<connected, state>>
camVars  == <<cam, shot>>
callVars == <<pc, cmd, stops, starts>>
goVars   == <<gpc, frame>>
ctxVars  == <<cancelled, detached>>
history  == <<blobs, stopped, released, refused, spent>>
vars == <<devVars, current, propVars, camVars, callVars, goVars, ctxVars, history>>

Init ==
    /\ shutdown = FALSE /\ started = FALSE
    /\ current = Nobody
    /\ connected = FALSE /\ state = "Idle"
    /\ cam = "idle" /\ shot = Nobody
    /\ pc = [c \in Client |-> "idle"]
    /\ cmd = [c \in Client |-> "none"]
    /\ stops = [c \in Client |-> Nobody]
    /\ starts = [c \in Client |-> Nobody]
    /\ gpc = [e \in Exposure |-> "none"]
    /\ frame = [e \in Exposure |-> Nobody]
    /\ cancelled = {} /\ detached = {}
    /\ blobs = <<>> /\ stopped = {} /\ released = FALSE /\ refused = {}
    /\ spent = [c \in Client |-> 0]

(***************************************************************************)
(* The camera                                                              *)
(***************************************************************************)
CameraReady ==
    /\ cam = "exposing"
    /\ cam' = "ready"
    /\ UNCHANGED <<shot, devVars, current, propVars, callVars, goVars, ctxVars, history>>

Unplug ==
    /\ Faults /\ cam # "gone"
    /\ cam' = "gone" /\ shot' = Nobody
    /\ UNCHANGED <<devVars, current, propVars, callVars, goVars, ctxVars, history>>

Replug ==
    /\ cam = "gone"
    /\ cam' = "idle"
    /\ UNCHANGED <<shot, devVars, current, propVars, callVars, goVars, ctxVars, history>>

\* Camera.StartExposure: overlapping exposures wedge the camera.
Integrate(e) ==
    /\ cam \in {"idle", "ready", "exposing"}
    /\ cam' = IF cam = "exposing" THEN "wedged" ELSE "exposing"
    /\ shot' = e

\* Camera.AbortExposure.
AbortCamera ==
    /\ cam' = IF cam \in {"exposing", "ready"} THEN "idle" ELSE cam
    /\ shot' = Nobody
    /\ UNCHANGED refused

\* Its error is ignored, and the camera goes on.
AbortFails ==
    /\ Faults
    /\ refused' = IF cam = "exposing" THEN refused \cup {shot} ELSE refused
    /\ UNCHANGED camVars

(***************************************************************************)
(* The server around the device                                            *)
(***************************************************************************)
Start ==
    /\ ~started
    /\ started' = TRUE
    /\ UNCHANGED <<shutdown, current, propVars, camVars, callVars, goVars, ctxVars, history>>

Cancel ==
    /\ ~shutdown
    /\ shutdown' = TRUE
    /\ UNCHANGED <<started, current, propVars, camVars, callVars, goVars, ctxVars, history>>

(***************************************************************************)
(* HandleNew                                                               *)
(***************************************************************************)
Goto(c, l) == pc' = [pc EXCEPT ![c] = l]

Receive(c, k) ==
    /\ pc[c] = "idle" /\ spent[c] < MaxReq /\ k \in Commands
    /\ spent' = [spent EXCEPT ![c] = @ + 1]
    /\ cmd' = [cmd EXCEPT ![c] = k]

\* startExposure has no camera, or the duration is malformed: Alert.
Rejects(c) ==
    /\ Receive(c, "malformed") \/ (Receive(c, "expose") /\ cam = "gone")
    /\ state' = "Alert"
    /\ UNCHANGED <<pc, stops, starts, devVars, current, connected, camVars, goVars, ctxVars,
                   blobs, stopped, released, refused>>

Unstarted == {e \in Exposure : gpc[e] = "none" /\ \A c \in Client : starts[c] # e}

\* Abort, disconnect and a new exposure, if there is a camera to start it on, begin
\* with stopExposure.
Begins(c) ==
    /\ \/ /\ Receive(c, "expose") /\ cam # "gone"
          /\ \E x \in Unstarted : /\ \A y \in Unstarted : x <= y
                                 /\ starts' = [starts EXCEPT ![c] = x]
       \/ \E k \in {"abort", "disconnect"} : Receive(c, k) /\ UNCHANGED starts
    /\ Goto(c, "take")
    /\ UNCHANGED <<stops, devVars, current, propVars, camVars, goVars, ctxVars,
                   blobs, stopped, released, refused>>

Connects(c) ==
    /\ Receive(c, "connect")
    /\ connected' = (connected \/ cam # "gone")
    /\ UNCHANGED <<pc, stops, starts, devVars, current, state, camVars, goVars, ctxVars,
                   blobs, stopped, released, refused>>

\* stopExposure: take the running exposure out under d.mu and cancel its ctx.
Take(c) ==
    /\ pc[c] = "take"
    /\ stops' = [stops EXCEPT ![c] = current]
    /\ current' = Nobody
    /\ cancelled' = cancelled \cup ({current} \ {Nobody})
    /\ Goto(c, "join")
    /\ UNCHANGED <<detached, cmd, starts, devVars, propVars, camVars, goVars, history>>

Ended(e) == \A x \in {e} \ {Nobody} : gpc[x] = "done"

\* Variant: nobody waits for the goroutine.
Joined_Never(c) == TRUE
\* It waits for the exposure's goroutine, for at most 2 seconds: longer than any
\* goroutine takes that no camera call holds up.
Joined(c) == Ended(stops[c]) \/ SlowRead

Join(c) ==
    /\ pc[c] = "join" /\ Joined(c)
    /\ Goto(c, "halt")
    /\ UNCHANGED <<cmd, stops, starts, devVars, current, propVars, camVars, goVars, ctxVars,
                   history>>

\* Variant: the camera is left to finish what it integrates.
Halted_Not(c) == UNCHANGED <<camVars, refused>>
Halted(c) == IF stops[c] # Nobody THEN AbortCamera \/ AbortFails
             ELSE UNCHANGED <<camVars, refused>>

\* Then the camera itself is stopped; what comes next depends on the command.
Halt(c) ==
    /\ pc[c] = "halt"
    /\ Halted(c)
    /\ stopped' = stopped \cup ({stops[c]} \ {Nobody})
    /\ Goto(c, IF cmd[c] = "expose" THEN "start" ELSE "settle")
    /\ UNCHANGED <<cmd, stops, starts, devVars, current, propVars, goVars, ctxVars,
                   blobs, released, spent>>

\* After abort and disconnect, CCD_EXPOSURE is Idle.
Settle(c) ==
    /\ pc[c] = "settle"
    /\ state' = "Idle"
    /\ connected' = (connected /\ cmd[c] # "disconnect")
    /\ released' = (released \/ (cmd[c] = "disconnect" /\ cam # "gone"))
    /\ Goto(c, "idle")
    /\ UNCHANGED <<cmd, stops, starts, devVars, current, camVars, goVars, ctxVars,
                   blobs, stopped, refused, spent>>

StartCamera(c) ==
    /\ pc[c] = "start"
    /\ Integrate(starts[c])
    /\ released' = FALSE
    /\ Goto(c, "record")
    /\ UNCHANGED <<cmd, stops, starts, devVars, current, propVars, goVars, ctxVars,
                   blobs, stopped, refused, spent>>

StartFails(c) ==
    /\ pc[c] = "start"
    /\ Faults \/ cam \in {"gone", "wedged"}
    /\ state' = "Alert"
    /\ starts' = [starts EXCEPT ![c] = Nobody]
    /\ Goto(c, "idle")
    /\ UNCHANGED <<cmd, stops, devVars, current, connected, camVars, goVars, ctxVars,
                   history>>

\* The exposure becomes the running one, under d.mu, with a ctx from serverCtx ...
Record(c) ==
    /\ pc[c] = "record"
    /\ current' = starts[c]
    /\ detached' = IF started THEN detached ELSE detached \cup {starts[c]}
    /\ Goto(c, "busy")
    /\ UNCHANGED <<cancelled, cmd, stops, starts, devVars, propVars, camVars, goVars, history>>

\* ... CCD_EXPOSURE goes Busy ...
Busy(c) ==
    /\ pc[c] = "busy"
    /\ state' = "Busy"
    /\ Goto(c, "spawn")
    /\ UNCHANGED <<cmd, stops, starts, devVars, current, connected, camVars, goVars, ctxVars,
                   history>>

\* ... and its goroutine starts.
Spawn(c) ==
    /\ pc[c] = "spawn"
    /\ gpc' = [gpc EXCEPT ![starts[c]] = "poll"]
    /\ starts' = [starts EXCEPT ![c] = Nobody]
    /\ Goto(c, "idle")
    /\ UNCHANGED <<cmd, stops, frame, devVars, current, propVars, camVars, ctxVars, history>>

(***************************************************************************)
(* awaitFrame                                                              *)
(***************************************************************************)
GoTo(e, l) == gpc' = [gpc EXCEPT ![e] = l]

CtxDone(e) == e \in cancelled \/ (shutdown /\ e \notin detached)

\* Variant: the server's ctx is ignored.
Leaves_Cancelled(e) == e \in cancelled
Leaves(e) == CtxDone(e)

Leave(e) ==
    /\ gpc[e] = "poll" /\ Leaves(e)
    /\ GoTo(e, "done")
    /\ UNCHANGED <<frame, devVars, current, propVars, camVars, callVars, ctxVars, history>>

\* A tick that finds an image ready; select may prefer it to a ctx that is done.
Tick(e) ==
    /\ gpc[e] = "poll" /\ cam = "ready"
    /\ GoTo(e, "frame")
    /\ UNCHANGED <<frame, devVars, current, propVars, camVars, callVars, ctxVars, history>>

ReadFrame(e) ==
    /\ gpc[e] = "frame" /\ cam = "ready"
    /\ frame' = [frame EXCEPT ![e] = shot]
    /\ cam' = "idle" /\ shot' = Nobody
    /\ GoTo(e, "send")
    /\ UNCHANGED <<devVars, current, propVars, callVars, ctxVars, history>>

\* Frame fails, if only because the exposure has been aborted since.
FrameFails(e) ==
    /\ gpc[e] = "frame"
    /\ Faults \/ cam # "ready"
    /\ GoTo(e, "clear")
    /\ UNCHANGED <<frame, devVars, current, propVars, camVars, callVars, ctxVars, history>>

Sent(e) == blobs' = Append(blobs, <<e, frame[e]>>)

SendBLOB(e) ==
    /\ gpc[e] = "send"
    /\ Sent(e)
    /\ GoTo(e, "clear")
    /\ UNCHANGED <<frame, devVars, current, propVars, camVars, callVars, ctxVars,
                   stopped, released, refused, spent>>

\* clearExposing, whichever exposure is the running one.
clearExposing(e) ==
    /\ gpc[e] = "clear"
    /\ current' = Nobody
    /\ GoTo(e, "finish")
    /\ UNCHANGED <<frame, devVars, propVars, camVars, callVars, ctxVars, history>>

\* Variant: the exposure ends without a word about CCD_EXPOSURE.
Outcome_Kept(e) == state
Outcome(e) == IF frame[e] = Nobody THEN "Alert" ELSE "Ok"

Finish(e) ==
    /\ gpc[e] = "finish"
    /\ state' = Outcome(e)
    /\ GoTo(e, "done")
    /\ UNCHANGED <<frame, devVars, current, connected, camVars, callVars, ctxVars, history>>

-----------------------------------------------------------------------------
Handle(c) ==
    \/ Rejects(c) \/ Begins(c) \/ Connects(c)
    \/ Take(c) \/ Join(c) \/ Halt(c) \/ Settle(c)
    \/ StartCamera(c) \/ StartFails(c) \/ Record(c) \/ Busy(c) \/ Spawn(c)

awaitFrame(e) ==
    \/ Leave(e) \/ Tick(e) \/ ReadFrame(e) \/ FrameFails(e)
    \/ SendBLOB(e) \/ clearExposing(e) \/ Finish(e)

Next ==
    \/ Start \/ Cancel
    \/ CameraReady \/ Unplug \/ Replug
    \/ \E c \in Client : Handle(c)
    \/ \E e \in Exposure : awaitFrame(e)

Spec == Init /\ [][Next]_vars

\* Goroutines run; clients, unplugging and shutting down are up to others.
Runs == /\ \A c \in Client : WF_vars(pc[c] # "idle" /\ Handle(c))
        /\ \A e \in Exposure : WF_vars(awaitFrame(e))
\* A plugged camera also finishes what it integrates.
LiveSpec == Spec /\ Runs /\ WF_vars(CameraReady)
=============================================================================
