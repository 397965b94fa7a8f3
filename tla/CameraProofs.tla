---------------------------- MODULE CameraProofs ----------------------------
(***************************************************************************)
(* Proofs about a camera's frames on both ends.                            *)
(*                                                                         *)
(* First, that the camera adapter (module Ccd) takes and sends them one at *)
(* a time, but for an exposure that the camera refuses to abort: for any   *)
(* number of exposures and of commands, with or without faults, of one     *)
(* client and camera calls that stopExposure outlasts.  With two clients   *)
(* the code does not keep this (README, Disagreements).                    *)
(*                                                                         *)
(* Then, that the client's decoders (module Fits) make of a FITS payload   *)
(* what it holds: for images of any size, with the integers of any         *)
(* machine.                                                                *)
(***************************************************************************)
EXTENDS CcdProperties, FitsProperties, TLAPS, SequenceTheorems

OneAtATime == (\E c \in Client : Client = {c}) /\ ~SlowRead

-----------------------------------------------------------------------------
(* The invariant *)

Shape ==
    /\ current \in Exposure \cup {Nobody} /\ stopped \subseteq Exposure
    /\ DOMAIN pc = Client /\ DOMAIN cmd = Client /\ DOMAIN stops = Client /\ DOMAIN starts = Client
    /\ DOMAIN gpc = Exposure /\ DOMAIN frame = Exposure
    /\ stops \in [Client -> Exposure \cup {Nobody}]
    /\ blobs \in Seq(Exposure \X (Exposure \cup {Nobody}))

\* What a handler has under way; the exposure that it starts has no goroutine yet.
Starting(c) == \/ pc[c] \in {"start", "record", "busy", "spawn"}
               \/ pc[c] \in {"take", "join", "halt"} /\ cmd[c] = "expose"
Handling ==
    \A c \in Client :
        /\ pc[c] \in {"join", "halt", "settle", "start", "record"} => current = Nobody
        /\ pc[c] \in {"busy", "spawn"} => current = starts[c]
        /\ Starting(c) => starts[c] \in Exposure /\ gpc[starts[c]] = "none"
        /\ pc[c] = "halt" => Ended(stops[c])

\* A goroutine that is not about to end is of the running exposure, or is waited for.
OneRuns ==
    \A e \in Exposure : gpc[e] \in {"poll", "frame", "send", "clear"} =>
        current = e \/ \E c \in Client : pc[c] = "join" /\ stops[c] = e

\* What the camera integrates, or holds a frame of, is what that goroutine waits for, or
\* what the camera refused to abort.
Serves(c) == pc[c] = "record" \/ (pc[c] \in {"join", "halt"} /\ stops[c] = shot)
CameraServes ==
    /\ released /\ cam = "exposing" => shot \in refused
    /\ cam = "exposing" =>
         shot \in Exposure /\ (current = shot \/ shot \in refused \/ \E c \in Client : Serves(c))
    /\ \A e \in Exposure : gpc[e] \in {"frame", "send", "clear"} => cam # "exposing"
    /\ \A e \in Exposure : gpc[e] \in {"poll", "frame"} /\ cam \in {"exposing", "ready"} => shot = e
    /\ \A c \in Client : pc[c] \in {"record", "busy", "spawn"} /\ cam \in {"exposing", "ready"}
                           => shot = starts[c]

\* A goroutine sends the frame that it waited for, once, and not after it was stopped.
Frames ==
    /\ \A e \in Exposure : gpc[e] = "send" => frame[e] = e
    /\ \A i \in DOMAIN blobs : gpc[blobs[i][1]] \in {"clear", "finish", "done"}
    /\ \A e \in stopped : gpc[e] = "done"

IInv == Shape /\ Handling /\ OneRuns /\ CameraServes /\ Frames

-----------------------------------------------------------------------------
(* The steps keep it *)

\* No exposure has the number of no exposure.
LEMMA NotNobody == Nobody \notin Exposure
BY CcdAssumption DEF CcdAssumption, Nobody, Exposure

\* Nothing has been asked of the camera.
LEMMA InitIInv == Init => IInv
<1> SUFFICES ASSUME Init PROVE IInv
  OBVIOUS
<1>1. Shape
  <2>1. blobs \in Seq(Exposure \X (Exposure \cup {Nobody}))
    BY DEF Init
  <2>2. stops \in [Client -> Exposure \cup {Nobody}]
    BY DEF Init
  <2>3. QED
    BY <2>1, <2>2 DEF Init, Shape
<1>2. Handling
  BY DEF Init, Handling, Starting
<1>3. OneRuns
  BY DEF Init, OneRuns
<1>4. CameraServes
  BY DEF Init, CameraServes
<1>5. Frames
  BY DEF Init, Frames
<1>6. QED
  BY <1>1, <1>2, <1>3, <1>4, <1>5 DEF IInv

\* A handler's step: it starts an exposure only when no goroutine waits for another one.
LEMMA HandleKeeps ==
    ASSUME OneAtATime, IInv, NEW c \in Client, Handle(c) PROVE IInv'
<1>1. Client = {c} /\ ~SlowRead
  BY DEF OneAtATime
<1>2. ASSUME NEW l, Goto(c, l) PROVE pc'[c] = l /\ DOMAIN pc' = Client
  BY <1>2 DEF Goto, IInv, Shape
<1>3. CASE Rejects(c)
  <2>1. UNCHANGED <<pc, stops, starts, current, stopped, gpc, frame, blobs, cam, shot, released, refused>>
        /\ pc[c] = "idle" /\ DOMAIN cmd' = Client
    BY <1>3 DEF Rejects, Receive, camVars, goVars, IInv, Shape
  <2>2. Shape'
    BY <2>1 DEF IInv, Shape
  <2>3. Handling'
    BY <1>1, <2>1 DEF IInv, Handling, Starting
  <2>4. OneRuns' /\ CameraServes' /\ Frames'
    BY <2>1 DEF IInv, OneRuns, CameraServes, Serves, Frames
  <2>5. QED
    BY <2>2, <2>3, <2>4 DEF IInv
<1>4. CASE Begins(c)
  <2>1. /\ pc[c] = "idle" /\ pc'[c] = "take" /\ DOMAIN pc' = Client
        /\ UNCHANGED <<stops, current, stopped, gpc, frame, blobs, cam, shot, released, refused>>
    BY <1>2, <1>4 DEF Begins, Receive, camVars, goVars
  <2>2. /\ DOMAIN cmd' = Client /\ DOMAIN starts' = Client
        /\ cmd'[c] = "expose" => starts'[c] \in Exposure /\ gpc[starts'[c]] = "none"
    <3>1. CASE Receive(c, "expose") /\ cam # "gone"
      <4>1. PICK x \in Unstarted : starts' = [starts EXCEPT ![c] = x]
        BY <1>4, <3>1 DEF Begins, Receive, IInv, Shape
      <4>2. QED
        BY <3>1, <4>1 DEF Receive, Unstarted, IInv, Shape
    <3>2. CASE \E k \in {"abort", "disconnect"} : Receive(c, k) /\ UNCHANGED starts
      BY <3>2 DEF Receive, IInv, Shape
    <3>3. QED
      BY <1>4, <3>1, <3>2 DEF Begins
  <2>3. Shape'
    BY <2>1, <2>2 DEF IInv, Shape
  <2>4. Handling'
    BY <1>1, <2>1, <2>2 DEF IInv, Handling, Starting
  <2>5. OneRuns'
    BY <1>1, <2>1 DEF IInv, OneRuns
  <2>6. CameraServes' /\ Frames'
    BY <1>1, <2>1 DEF IInv, CameraServes, Serves, Frames
  <2>7. QED
    BY <2>3, <2>4, <2>5, <2>6 DEF IInv
<1>5. CASE Connects(c)
  <2>1. UNCHANGED <<pc, stops, starts, current, stopped, gpc, frame, blobs, cam, shot, released, refused>>
        /\ pc[c] = "idle" /\ DOMAIN cmd' = Client
    BY <1>5 DEF Connects, Receive, camVars, goVars, IInv, Shape
  <2>2. Shape'
    BY <2>1 DEF IInv, Shape
  <2>3. Handling'
    BY <1>1, <2>1 DEF IInv, Handling, Starting
  <2>4. OneRuns' /\ CameraServes' /\ Frames'
    BY <2>1 DEF IInv, OneRuns, CameraServes, Serves, Frames
  <2>5. QED
    BY <2>2, <2>3, <2>4 DEF IInv
<1>6. CASE Take(c)
  <2>1. /\ pc[c] = "take" /\ pc'[c] = "join" /\ DOMAIN pc' = Client
        /\ current' = Nobody /\ stops' = [stops EXCEPT ![c] = current]
        /\ UNCHANGED <<cmd, starts, stopped, gpc, frame, blobs, cam, shot, released, refused>>
    BY <1>2, <1>6 DEF Take, camVars, goVars, history
  <2>2. stops' \in [Client -> Exposure \cup {Nobody}] /\ stops'[c] = current
    BY <2>1 DEF IInv, Shape
  <2>3. Shape'
    BY <2>1, <2>2 DEF IInv, Shape
  <2>4. Handling'
    BY <1>1, <2>1 DEF IInv, Handling, Starting
  <2>5. OneRuns'
    BY <1>1, <2>1, <2>2 DEF IInv, OneRuns
  <2>6. CameraServes' /\ Frames'
    BY <1>1, <2>1, <2>2 DEF IInv, CameraServes, Serves, Frames
  <2>7. QED
    BY <2>3, <2>4, <2>5, <2>6 DEF IInv
<1>7. CASE Join(c)
  <2>1. /\ pc[c] = "join" /\ pc'[c] = "halt" /\ DOMAIN pc' = Client /\ Ended(stops[c])
        /\ UNCHANGED <<cmd, stops, starts, current, stopped, gpc, frame, blobs, cam, shot, released, refused>>
    BY <1>1, <1>2, <1>7 DEF Join, Joined, camVars, goVars, history
  <2>2. Shape'
    BY <2>1 DEF IInv, Shape
  <2>3. Handling'
    BY <1>1, <2>1 DEF IInv, Handling, Starting, Ended
  <2>4. OneRuns'
    <3>1. \A e \in Exposure : stops[c] = e => gpc[e] = "done"
      BY <2>1, NotNobody DEF Ended
    <3>2. QED
      BY <1>1, <2>1, <3>1 DEF IInv, OneRuns
  <2>5. CameraServes' /\ Frames'
    BY <1>1, <2>1 DEF IInv, CameraServes, Serves, Frames
  <2>6. QED
    BY <2>2, <2>3, <2>4, <2>5 DEF IInv
<1>8. CASE Halt(c)
  <2>1. /\ pc[c] = "halt" /\ pc'[c] = (IF cmd[c] = "expose" THEN "start" ELSE "settle") /\ DOMAIN pc' = Client
        /\ stopped' = stopped \cup ({stops[c]} \ {Nobody}) /\ Halted(c)
        /\ UNCHANGED <<cmd, stops, starts, current, gpc, frame, blobs, released>>
    BY <1>2, <1>8 DEF Halt, goVars
  <2>2. current = Nobody /\ Ended(stops[c]) /\ (stops[c] # Nobody => stops[c] \in Exposure)
    BY <2>1 DEF IInv, Handling, Shape
  <2>3. \A e \in Exposure : gpc[e] \notin {"poll", "frame", "send", "clear"}
    BY <1>1, <2>1, <2>2, NotNobody DEF IInv, OneRuns
  <2>4. cam' = "exposing" => cam = "exposing" /\ shot' = shot /\ shot \in refused'
    <3>1. CASE stops[c] # Nobody
      <4>1. CASE AbortCamera
        BY <4>1 DEF AbortCamera
      <4>2. CASE AbortFails
        BY <4>2 DEF AbortFails, camVars
      <4>3. QED
        BY <2>1, <3>1, <4>1, <4>2 DEF Halted
    <3>2. CASE stops[c] = Nobody
      <4>1. cam = "exposing" => shot \in refused
        BY <1>1, <2>1, <2>2, <3>2, NotNobody DEF IInv, CameraServes, Serves
      <4>2. QED
        BY <2>1, <3>2, <4>1 DEF Halted, camVars
    <3>3. QED
      BY <3>1, <3>2
  <2>5. Shape'
    BY <2>1, <2>2 DEF IInv, Shape
  <2>6. Handling'
    BY <1>1, <2>1, <2>2 DEF IInv, Handling, Starting
  <2>7. OneRuns'
    BY <2>1, <2>3 DEF OneRuns
  <2>8. CameraServes'
    <3>1. cam = "exposing" => shot \in Exposure
      BY DEF IInv, CameraServes
    <3>2. QED
      BY <1>1, <2>1, <2>3, <2>4, <3>1 DEF CameraServes
  <2>9. Frames'
    BY <2>1, <2>2 DEF IInv, Frames, Ended
  <2>10. QED
    BY <2>5, <2>6, <2>7, <2>8, <2>9 DEF IInv
<1>9. CASE Settle(c)
  <2>1. /\ pc[c] = "settle" /\ pc'[c] = "idle" /\ DOMAIN pc' = Client
        /\ UNCHANGED <<cmd, stops, starts, current, stopped, gpc, frame, blobs, cam, shot, refused>>
    BY <1>2, <1>9 DEF Settle, camVars, goVars
  <2>2. current = Nobody
    BY <2>1 DEF IInv, Handling
  <2>3. cam = "exposing" => shot \in refused
    BY <1>1, <2>1, <2>2, NotNobody DEF IInv, CameraServes, Serves
  <2>4. Shape'
    BY <2>1 DEF IInv, Shape
  <2>5. Handling'
    BY <1>1, <2>1 DEF IInv, Handling, Starting
  <2>6. OneRuns'
    BY <1>1, <2>1 DEF IInv, OneRuns
  <2>7. CameraServes' /\ Frames'
    BY <1>1, <2>1, <2>3 DEF IInv, CameraServes, Serves, Frames
  <2>8. QED
    BY <2>4, <2>5, <2>6, <2>7 DEF IInv
<1>10. CASE StartCamera(c)
  <2>1. /\ pc[c] = "start" /\ pc'[c] = "record" /\ DOMAIN pc' = Client
        /\ Integrate(starts[c]) /\ released' = FALSE
        /\ UNCHANGED <<cmd, stops, starts, current, stopped, gpc, frame, blobs, refused>>
    BY <1>2, <1>10 DEF StartCamera, goVars
  <2>2. current = Nobody /\ starts[c] \in Exposure /\ gpc[starts[c]] = "none"
    BY <2>1 DEF IInv, Handling, Starting
  <2>3. cam' \in {"exposing", "wedged"} /\ shot' = starts[c]
    BY <2>1 DEF Integrate
  <2>5. \A e \in Exposure : gpc[e] \notin {"poll", "frame", "send", "clear"}
    BY <1>1, <2>1, <2>2, NotNobody DEF IInv, OneRuns
  <2>6. Shape'
    BY <2>1 DEF IInv, Shape
  <2>7. Handling'
    BY <1>1, <2>1, <2>2 DEF IInv, Handling, Starting
  <2>8. OneRuns'
    BY <2>1, <2>5 DEF OneRuns
  <2>9. CameraServes'
    BY <1>1, <2>1, <2>2, <2>3, <2>5 DEF CameraServes, Serves
  <2>10. Frames'
    BY <2>1 DEF IInv, Frames
  <2>11. QED
    BY <2>6, <2>7, <2>8, <2>9, <2>10 DEF IInv
<1>11. CASE StartFails(c)
  <2>1. /\ pc[c] = "start" /\ pc'[c] = "idle" /\ DOMAIN pc' = Client /\ DOMAIN starts' = Client
        /\ UNCHANGED <<cmd, stops, current, stopped, gpc, frame, blobs, cam, shot, released, refused>>
    BY <1>2, <1>11 DEF StartFails, camVars, goVars, history, IInv, Shape
  <2>2. Shape'
    BY <2>1 DEF IInv, Shape
  <2>3. Handling'
    BY <1>1, <2>1 DEF IInv, Handling, Starting
  <2>4. OneRuns'
    BY <1>1, <2>1 DEF IInv, OneRuns
  <2>5. CameraServes' /\ Frames'
    BY <1>1, <2>1 DEF IInv, CameraServes, Serves, Frames
  <2>6. QED
    BY <2>2, <2>3, <2>4, <2>5 DEF IInv
<1>12. CASE Record(c)
  <2>1. /\ pc[c] = "record" /\ pc'[c] = "busy" /\ DOMAIN pc' = Client /\ current' = starts[c]
        /\ UNCHANGED <<cmd, stops, starts, stopped, gpc, frame, blobs, cam, shot, released, refused>>
    BY <1>2, <1>12 DEF Record, camVars, goVars, history
  <2>2. current = Nobody /\ starts[c] \in Exposure /\ gpc[starts[c]] = "none"
    BY <2>1 DEF IInv, Handling, Starting
  <2>3. \A e \in Exposure : gpc[e] \notin {"poll", "frame", "send", "clear"}
    BY <1>1, <2>1, <2>2, NotNobody DEF IInv, OneRuns
  <2>4. Shape'
    BY <2>1, <2>2 DEF IInv, Shape
  <2>5. Handling'
    BY <1>1, <2>1, <2>2 DEF IInv, Handling, Starting
  <2>6. OneRuns'
    BY <2>1, <2>3 DEF OneRuns
  <2>7. CameraServes' /\ Frames'
    BY <1>1, <2>1, <2>3 DEF IInv, CameraServes, Serves, Frames
  <2>8. QED
    BY <2>4, <2>5, <2>6, <2>7 DEF IInv
<1>13. CASE Busy(c)
  <2>1. /\ pc[c] = "busy" /\ pc'[c] = "spawn" /\ DOMAIN pc' = Client
        /\ UNCHANGED <<cmd, stops, starts, current, stopped, gpc, frame, blobs, cam, shot, released, refused>>
    BY <1>2, <1>13 DEF Busy, camVars, goVars, history
  <2>2. Shape'
    BY <2>1 DEF IInv, Shape
  <2>3. Handling'
    BY <1>1, <2>1 DEF IInv, Handling, Starting
  <2>4. OneRuns'
    BY <1>1, <2>1 DEF IInv, OneRuns
  <2>5. CameraServes' /\ Frames'
    BY <1>1, <2>1 DEF IInv, CameraServes, Serves, Frames
  <2>6. QED
    BY <2>2, <2>3, <2>4, <2>5 DEF IInv
<1>14. CASE Spawn(c)
  <2> DEFINE e == starts[c]
  <2>1. /\ pc[c] = "spawn" /\ pc'[c] = "idle" /\ DOMAIN pc' = Client /\ DOMAIN starts' = Client
        /\ gpc' = [gpc EXCEPT ![e] = "poll"]
        /\ UNCHANGED <<cmd, stops, current, stopped, frame, blobs, cam, shot, released, refused>>
    BY <1>2, <1>14 DEF Spawn, camVars, history, IInv, Shape
  <2>2. current = e /\ e \in Exposure /\ gpc[e] = "none"
    BY <2>1 DEF IInv, Handling, Starting
  <2>3. cam \in {"exposing", "ready"} => shot = e
    BY <2>1 DEF IInv, CameraServes
  <2> HIDE DEF e
  <2>4. DOMAIN gpc' = Exposure /\ gpc'[e] = "poll" /\ \A x \in Exposure \ {e} : gpc'[x] = gpc[x]
    BY <2>1, <2>2 DEF IInv, Shape
  <2>5. Shape'
    BY <2>1, <2>4 DEF IInv, Shape
  <2>6. Handling'
    BY <1>1, <2>1 DEF IInv, Handling, Starting
  <2>7. OneRuns'
    BY <1>1, <2>1, <2>2, <2>4 DEF IInv, OneRuns
  <2>8. CameraServes'
    BY <1>1, <2>1, <2>2, <2>3, <2>4 DEF IInv, CameraServes, Serves
  <2>9. Frames'
    <3>1. \A i \in DOMAIN blobs : blobs[i][1] \in Exposure
      BY DEF IInv, Shape
    <3>2. QED
      BY <2>1, <2>2, <2>4, <3>1 DEF IInv, Shape, Frames
  <2>10. QED
    BY <2>5, <2>6, <2>7, <2>8, <2>9 DEF IInv
<1>15. QED
  BY <1>3, <1>4, <1>5, <1>6, <1>7, <1>8, <1>9, <1>10, <1>11, <1>12, <1>13, <1>14 DEF Handle

\* A goroutine's step.
LEMMA AwaitFrameKeeps ==
    ASSUME OneAtATime, IInv, NEW e \in Exposure, awaitFrame(e) PROVE IInv'
<1>1. \A c, d \in Client : c = d
  BY DEF OneAtATime
<1>2. \A i \in DOMAIN blobs : blobs[i][1] \in Exposure
  BY DEF IInv, Shape
<1>3. UNCHANGED <<pc, cmd, stops, starts, stopped, released, refused>>
  BY DEF awaitFrame, Leave, Tick, ReadFrame, FrameFails, SendBLOB, clearExposing, Finish,
         callVars, history
<1>4. ASSUME NEW l, GoTo(e, l)
      PROVE  DOMAIN gpc' = Exposure /\ gpc'[e] = l /\ \A x \in Exposure \ {e} : gpc'[x] = gpc[x]
  BY <1>4 DEF GoTo, IInv, Shape
\* An exposure that a handler is starting has no goroutine, so that this is another.
<1>5. ASSUME gpc[e] # "none", DOMAIN gpc' = Exposure, \A x \in Exposure \ {e} : gpc'[x] = gpc[x],
             gpc[e] = "done" => gpc'[e] = "done",
             current' = current \/ (current' = Nobody /\ gpc[e] = "clear")
      PROVE  Handling'
  <2>1. ASSUME NEW c \in Client, Starting(c) PROVE gpc'[starts[c]] = "none" /\ starts[c] # e
    BY <1>5, <2>1 DEF IInv, Handling
  <2>2. ASSUME NEW c \in Client, pc[c] = "halt" PROVE \A x \in {stops[c]} \ {Nobody} : gpc'[x] = "done"
    <3>1. stops[c] \in Exposure \cup {Nobody} /\ \A x \in {stops[c]} \ {Nobody} : gpc[x] = "done"
      BY <2>2 DEF IInv, Shape, Handling, Ended
    <3>2. QED
      BY <1>5, <3>1
  <2>3. ASSUME NEW c \in Client, pc[c] \in {"busy", "spawn"} PROVE current' = starts[c]
    <3>1. current = starts[c] /\ starts[c] # e
      BY <2>1, <2>3 DEF IInv, Handling, Starting
    <3>2. gpc[e] = "clear" => current = e
      BY <1>1, <2>3 DEF IInv, OneRuns
    <3>3. QED
      BY <1>5, <3>1, <3>2
  <2>4. QED
    BY <1>3, <1>5, <2>1, <2>2, <2>3 DEF IInv, Handling, Starting, Ended
<1>6. CASE Leave(e) \/ Tick(e) \/ FrameFails(e)
  <2>1. /\ \/ gpc[e] = "poll" /\ gpc'[e] = "done"
           \/ gpc[e] = "poll" /\ gpc'[e] = "frame" /\ cam = "ready"
           \/ gpc[e] = "frame" /\ gpc'[e] = "clear"
        /\ DOMAIN gpc' = Exposure /\ \A x \in Exposure \ {e} : gpc'[x] = gpc[x]
        /\ UNCHANGED <<current, frame, blobs, cam, shot>>
    BY <1>4, <1>6 DEF Leave, Tick, FrameFails, camVars, history
  <2>2. Shape'
    BY <1>3, <2>1 DEF IInv, Shape
  <2>3. Handling'
    BY <1>5, <2>1
  <2>4. OneRuns'
    BY <1>3, <2>1 DEF IInv, OneRuns
  <2>5. CameraServes'
    BY <1>3, <2>1 DEF IInv, CameraServes, Serves
  <2>6. Frames'
    BY <1>2, <1>3, <2>1 DEF IInv, Shape, Frames
  <2>7. QED
    BY <2>2, <2>3, <2>4, <2>5, <2>6 DEF IInv
<1>7. CASE ReadFrame(e)
  <2>1. /\ gpc[e] = "frame" /\ gpc'[e] = "send" /\ cam = "ready" /\ cam' = "idle" /\ shot' = Nobody
        /\ frame' = [frame EXCEPT ![e] = shot]
        /\ DOMAIN gpc' = Exposure /\ \A x \in Exposure \ {e} : gpc'[x] = gpc[x]
        /\ UNCHANGED <<current, blobs>>
    BY <1>4, <1>7 DEF ReadFrame, history
  <2>2. shot = e
    BY <2>1 DEF IInv, CameraServes
  <2>3. DOMAIN frame' = Exposure /\ frame'[e] = e /\ \A x \in Exposure \ {e} : frame'[x] = frame[x]
    BY <2>1, <2>2 DEF IInv, Shape
  <2>4. Shape'
    BY <1>3, <2>1, <2>3 DEF IInv, Shape
  <2>5. Handling'
    BY <1>5, <2>1
  <2>6. OneRuns'
    BY <1>3, <2>1 DEF IInv, OneRuns
  <2>7. CameraServes'
    BY <1>3, <2>1 DEF IInv, CameraServes
  <2>8. Frames'
    BY <1>2, <1>3, <2>1, <2>3 DEF IInv, Shape, Frames
  <2>9. QED
    BY <2>4, <2>5, <2>6, <2>7, <2>8 DEF IInv
<1>8. CASE SendBLOB(e)
  <2>1. /\ gpc[e] = "send" /\ gpc'[e] = "clear" /\ blobs' = Append(blobs, <<e, frame[e]>>)
        /\ DOMAIN gpc' = Exposure /\ \A x \in Exposure \ {e} : gpc'[x] = gpc[x]
        /\ UNCHANGED <<current, frame, cam, shot>>
    BY <1>4, <1>8 DEF SendBLOB, Sent, camVars
  <2>2. frame[e] = e
    BY <2>1 DEF IInv, Frames
  <2>3. /\ blobs' \in Seq(Exposure \X (Exposure \cup {Nobody}))
        /\ \A i \in DOMAIN blobs' : blobs'[i][1] = e \/ (i \in DOMAIN blobs /\ blobs'[i] = blobs[i])
    <3>1. <<e, frame[e]>> \in Exposure \X (Exposure \cup {Nobody})
      BY <2>2
    <3>2. blobs \in Seq(Exposure \X (Exposure \cup {Nobody}))
      BY DEF IInv, Shape
    <3>3. QED
      BY <2>1, <3>1, <3>2
  <2>4. Shape'
    BY <1>3, <2>1, <2>3 DEF IInv, Shape
  <2>5. Handling'
    BY <1>5, <2>1
  <2>6. OneRuns'
    BY <1>3, <2>1 DEF IInv, OneRuns
  <2>7. CameraServes'
    BY <1>3, <2>1 DEF IInv, CameraServes, Serves
  <2>8. Frames'
    <3>1. ASSUME NEW i \in DOMAIN blobs' PROVE gpc'[blobs'[i][1]] \in {"clear", "finish", "done"}
      <4>1. ASSUME i \in DOMAIN blobs, blobs'[i] = blobs[i]
            PROVE  gpc'[blobs[i][1]] \in {"clear", "finish", "done"}
        <5>1. blobs[i][1] \in Exposure /\ gpc[blobs[i][1]] \in {"clear", "finish", "done"}
          BY <1>2, <4>1 DEF IInv, Frames
        <5>2. QED
          BY <2>1, <5>1
      <4>2. QED
        BY <2>1, <2>3, <4>1
    <3>2. \A x \in stopped' : gpc'[x] = "done"
      BY <1>3, <2>1 DEF IInv, Shape, Frames
    <3>3. QED
      BY <2>1, <3>1, <3>2 DEF IInv, Frames
  <2>9. QED
    BY <2>4, <2>5, <2>6, <2>7, <2>8 DEF IInv
<1>9. CASE clearExposing(e)
  <2>1. /\ gpc[e] = "clear" /\ gpc'[e] = "finish" /\ current' = Nobody
        /\ DOMAIN gpc' = Exposure /\ \A x \in Exposure \ {e} : gpc'[x] = gpc[x]
        /\ UNCHANGED <<frame, blobs, cam, shot>>
    BY <1>4, <1>9 DEF clearExposing, camVars, history
  <2>2. Shape'
    BY <1>3, <2>1 DEF IInv, Shape
  <2>3. Handling'
    BY <1>5, <2>1
  <2>4. \A x \in Exposure \ {e} : gpc[x] \in {"poll", "frame", "send", "clear"} =>
           current # x /\ \E c \in Client : pc[c] = "join" /\ stops[c] = x
    <3>1. current = e \/ \E c \in Client : pc[c] = "join" /\ stops[c] = e
      BY <2>1 DEF IInv, OneRuns
    <3>2. \A c \in Client : pc[c] = "join" => current = Nobody
      BY DEF IInv, Handling
    <3>3. QED
      BY <1>1, <3>1, <3>2, NotNobody DEF IInv, OneRuns
  <2>5. OneRuns'
    BY <1>3, <2>1, <2>4 DEF OneRuns
  <2>6. cam # "exposing"
    BY <2>1 DEF IInv, CameraServes
  <2>7. CameraServes'
    BY <1>3, <2>1, <2>6 DEF IInv, CameraServes
  <2>8. Frames'
    BY <1>2, <1>3, <2>1 DEF IInv, Shape, Frames
  <2>9. QED
    BY <2>2, <2>3, <2>5, <2>7, <2>8 DEF IInv
<1>10. CASE Finish(e)
  <2>1. /\ gpc[e] = "finish" /\ gpc'[e] = "done"
        /\ DOMAIN gpc' = Exposure /\ \A x \in Exposure \ {e} : gpc'[x] = gpc[x]
        /\ UNCHANGED <<current, frame, blobs, cam, shot>>
    BY <1>4, <1>10 DEF Finish, camVars, history
  <2>2. Shape'
    BY <1>3, <2>1 DEF IInv, Shape
  <2>3. Handling'
    BY <1>5, <2>1
  <2>4. OneRuns'
    BY <1>3, <2>1 DEF IInv, OneRuns
  <2>5. CameraServes'
    BY <1>3, <2>1 DEF IInv, CameraServes, Serves
  <2>6. Frames'
    BY <1>2, <1>3, <2>1 DEF IInv, Shape, Frames
  <2>7. QED
    BY <2>2, <2>3, <2>4, <2>5, <2>6 DEF IInv
<1>11. QED
  BY <1>6, <1>7, <1>8, <1>9, <1>10 DEF awaitFrame

\* The camera's own steps, and the server's, touch only what they are of.
LEMMA CameraKeeps == ASSUME IInv, CameraReady \/ Unplug \/ Replug PROVE IInv'
<1>1. /\ UNCHANGED <<pc, cmd, stops, starts, current, stopped, gpc, frame, blobs, released, refused>>
      /\ \/ cam = "exposing" /\ cam' = "ready" /\ shot' = shot
         \/ cam' \in {"gone", "idle"}
  BY DEF CameraReady, Unplug, Replug, callVars, goVars, history
<1>2. Shape' /\ Handling' /\ OneRuns' /\ Frames'
  BY <1>1 DEF IInv, Shape, Handling, Starting, Ended, OneRuns, Frames
<1>3. CameraServes'
  BY <1>1 DEF IInv, CameraServes
<1>4. QED
  BY <1>2, <1>3 DEF IInv

\* Every step keeps the invariant.
LEMMA NextIInv == ASSUME OneAtATime PROVE IInv /\ [Next]_vars => IInv'
<1> SUFFICES ASSUME IInv, [Next]_vars PROVE IInv'
  OBVIOUS
<1>1. CASE Start \/ Cancel \/ UNCHANGED vars
  <2>1. UNCHANGED <<pc, cmd, stops, starts, current, stopped, gpc, frame, blobs, released, refused, cam, shot>>
    BY <1>1 DEF Start, Cancel, vars, callVars, goVars, camVars, history
  <2>2. QED
    BY <2>1 DEF IInv, Shape, Handling, Starting, Ended, OneRuns, CameraServes, Serves, Frames
<1>2. QED
  BY <1>1, HandleKeeps, AwaitFrameKeeps, CameraKeeps DEF Next

\* The invariant holds for ever.
LEMMA Invariance == ASSUME OneAtATime PROVE Spec => []IInv
BY InitIInv, NextIInv, PTL DEF Spec

\* The exposure that a handler is about to start over, or a disconnect to leave behind,
\* is one that the camera refused to abort.
LEMMA HandleOverlaps ==
    ASSUME OneAtATime, IInv, NEW c \in Client, Handle(c), cam' = "wedged", cam # "wedged"
    PROVE  shot \in refused
<1>1. Client = {c}
  BY DEF OneAtATime
<1>2. CASE Halt(c)
  BY <1>2 DEF Halt, Halted, AbortCamera, AbortFails, camVars
<1>3. CASE StartCamera(c)
  <2>1. pc[c] = "start" /\ current = Nobody /\ cam = "exposing"
    BY <1>3 DEF StartCamera, Integrate, IInv, Handling
  <2>2. QED
    BY <1>1, <2>1, NotNobody DEF IInv, CameraServes, Serves
<1>4. QED
  BY <1>2, <1>3 DEF Handle, Rejects, Begins, Connects, Take, Join, Settle, StartFails, Record,
                    Busy, Spawn, camVars

\* With one client, and camera calls that stopExposure outlasts, an exposure is started
\* over another, or one outlives a disconnect, only if the camera refused to abort that
\* very exposure: startExposure and handleConnection go through stopExposure first, which
\* ignores AbortExposure's error (ccd/ccd.go).
THEOREM OnlyRefusedOverlaps == ASSUME OneAtATime PROVE Spec => OverlapOnlyRefused
<1> DEFINE Good == /\ cam' = "wedged" /\ cam # "wedged" => shot \in refused
                   /\ released' /\ cam' = "exposing" => shot' \in refused'
<1>1. IInv /\ IInv' /\ [Next]_vars => [Good]_vars
  <2> SUFFICES ASSUME IInv, IInv', Next PROVE Good
    OBVIOUS
  <2>1. cam' = "wedged" /\ cam # "wedged" => shot \in refused
    <3>1. \A e \in Exposure : awaitFrame(e) => cam' = cam \/ cam' = "idle"
      BY DEF awaitFrame, Leave, Tick, ReadFrame, FrameFails, SendBLOB, clearExposing, Finish, camVars
    <3>2. Start \/ Cancel \/ CameraReady \/ Unplug \/ Replug => cam' = cam \/ cam' \in {"ready", "gone", "idle"}
      BY DEF Start, Cancel, CameraReady, Unplug, Replug, camVars
    <3>3. QED
      BY <3>1, <3>2, HandleOverlaps DEF Next
  <2>2. released' /\ cam' = "exposing" => shot' \in refused'
    BY DEF IInv, CameraServes
  <2>3. QED
    BY <2>1, <2>2
<1>2. QED
  BY <1>1, Invariance, PTL DEF Spec, OverlapOnlyRefused

\* In the same circumstances an exposure sends one BLOB at most, of its own frame, and
\* none once it has been stopped: stopExposure joins awaitFrame's goroutine (ccd/ccd.go).
THEOREM OneClientStopsForGood == ASSUME OneAtATime PROVE Spec => StopIsFinal
<1> DEFINE new == blobs'[Len(blobs')]
           Good == blobs' = Append(blobs, new) /\ new[1] = new[2] /\ new[1] \notin stopped
                     /\ \A i \in DOMAIN blobs : blobs[i][1] # new[1]
<1>1. IInv /\ [Next]_vars => [blobs' # blobs => Good]_vars
  <2> SUFFICES ASSUME IInv, Next, blobs' # blobs PROVE Good
    BY DEF vars, history
  <2>1. PICK e \in Exposure : SendBLOB(e)
    <3>1. ~(Start \/ Cancel \/ CameraReady \/ Unplug \/ Replug)
      BY DEF Start, Cancel, CameraReady, Unplug, Replug, history
    <3>2. \A c \in Client : ~Handle(c)
      BY DEF Handle, Rejects, Begins, Connects, Take, Join, Halt, Settle, StartCamera, StartFails,
             Record, Busy, Spawn, history
    <3>3. \A e \in Exposure : awaitFrame(e) => SendBLOB(e)
      BY DEF awaitFrame, Leave, Tick, ReadFrame, FrameFails, clearExposing, Finish, history
    <3>4. QED
      BY <3>1, <3>2, <3>3 DEF Next
  <2>2. gpc[e] = "send" /\ blobs' = Append(blobs, <<e, frame[e]>>)
    BY <2>1 DEF SendBLOB, Sent
  <2>3. frame[e] = e /\ e \notin stopped /\ \A i \in DOMAIN blobs : blobs[i][1] # e
    BY <2>2 DEF IInv, Frames
  <2>4. blobs \in Seq(Exposure \X (Exposure \cup {Nobody}))
    BY DEF IInv, Shape
  <2>5. new = <<e, frame[e]>>
    BY <2>2, <2>4
  <2>6. QED
    BY <2>2, <2>3, <2>5
<1>2. QED
  BY <1>1, Invariance, PTL DEF Spec, StopIsFinal

-----------------------------------------------------------------------------
(* The decoders: the inductive invariant *)

\* Where the rows start, where row s of the file does, and its place in the frame.
Behind == payload.end * Block
RowStart(s) == Behind + s * Stride
Place(s) == IF bottomUp(payload) THEN payload.h - 1 - s ELSE s

\* The bytes that have been consumed are the first of the payload; buf is the next ones.
Consumed == sent - Len(buf)
Typed ==
    /\ payload \in Payloads /\ sent \in Nat /\ y \in Nat
    /\ err \in BOOLEAN /\ done \in BOOLEAN
    /\ buf \in Seq(Int) /\ hdrBuf \in Seq(Int) /\ row \in Seq(Int)
    /\ Consumed \in Nat /\ buf = Bytes(Consumed, Len(buf))
    /\ done => buf = <<>>

\* Before the header is complete, what was consumed has been collected; an error there
\* means that no header is, or an unusable one.
Collecting ==
    ~Sized =>
      /\ y = 0 /\ row = <<>>
      /\ IF err THEN buf = <<>> /\ (scanFITSHeader(payload, sent) = 0 \/ ~Usable(payload))
         ELSE /\ hdrBuf = Bytes(0, Consumed) /\ ~done
              /\ scanFITSHeader(payload, Consumed) = 0
              /\ payload.simple \/ Consumed < Block

\* Then rows are, of which row holds the beginning of the next one.
Filling ==
    Sized =>
      /\ payload.simple /\ payload.end > 0 /\ Usable(payload) /\ Behind <= Consumed
      /\ y <= payload.h
      /\ IF y < payload.h THEN /\ Consumed = RowStart(y) + Len(row)
                               /\ Len(row) < Stride \/ row = <<>>
                               /\ row = Bytes(RowStart(y), Len(row))
         ELSE row = <<>> /\ RowStart(y) <= Consumed
      /\ err <=> done /\ y < payload.h

\* The rows of the file that are in their places.
Filled ==
    Sized =>
      /\ pix = [r \in 0..(payload.h - 1) |-> pix[r]]
      /\ \A s \in 0..(y - 1) :
           pix[Place(s)] = convertFITSRow(Bytes(RowStart(s), Stride), payload.per)

\* The output and f.row could be allocated, and the rows converted so far lay in them, so
\* that their sizes did not wrap.
Fitting ==
    Sized =>
      /\ Allocates
      /\ y > 0 => Stride = payload.w * payload.per
      /\ y * payload.w <= Pixels

Decoding == Typed /\ Collecting /\ Filling /\ Filled /\ Fitting
FitsInv == IF panicked THEN ~done /\ ~Allocatable ELSE Decoding

-----------------------------------------------------------------------------
(* Ranges of bytes *)

\* What a range of bytes is, ...
LEMMA BytesAre ==
    ASSUME NEW f \in Int, NEW n \in Nat
    PROVE  /\ Bytes(f, n) \in Seq(Int) /\ Len(Bytes(f, n)) = n
           /\ \A i \in 1..n : Bytes(f, n)[i] = f + i
<1>1. \A i \in 1..n : f + i \in Int
  OBVIOUS
<1>2. QED
  BY <1>1 DEF Bytes

\* ... and that nothing else is one.
LEMMA BytesIf ==
    ASSUME NEW f \in Int, NEW n \in Nat, NEW s \in Seq(Int), Len(s) = n,
           \A i \in 1..n : s[i] = f + i
    PROVE  s = Bytes(f, n)
<1>1. s = [i \in 1..n |-> s[i]]
  OBVIOUS
<1>2. QED
  BY <1>1 DEF Bytes

\* An empty range has no bytes.
LEMMA NoBytes == \A f \in Int : Bytes(f, 0) = <<>>
<1> TAKE f \in Int
<1>1. <<>> \in Seq(Int) /\ Len(<<>>) = 0
  OBVIOUS
<1>2. \A i \in 1..0 : <<>>[i] = f + i
  OBVIOUS
<1>3. QED
  BY <1>1, <1>2, BytesIf

\* Part of a range is a range, ...
LEMMA BytesSub ==
    ASSUME NEW f \in Int, NEW n \in Nat, NEW a \in 1..(n + 1), NEW b \in (a - 1)..n
    PROVE  SubSeq(Bytes(f, n), a, b) = Bytes(f + a - 1, b - a + 1)
<1>1. PICK s \in Seq(Int) : s = Bytes(f, n) /\ Len(s) = n /\ \A i \in 1..n : s[i] = f + i
  BY BytesAre
<1>2. SubSeq(s, a, b) = [i \in 1..(b - a + 1) |-> s[a + i - 1]]
  BY <1>1
<1>3. \A i \in 1..(b - a + 1) : s[a + i - 1] = f + a - 1 + i
  <2>1. ASSUME NEW i \in 1..(b - a + 1) PROVE s[a + i - 1] = f + a - 1 + i
    <3>1. a + i - 1 \in 1..n
      OBVIOUS
    <3>2. QED
      BY <1>1, <3>1
  <2>2. QED
    BY <2>1
<1>4. QED
  BY <1>1, <1>2, <1>3 DEF Bytes

\* ... and two are one if the second goes on where the first ends.
LEMMA BytesJoin ==
    ASSUME NEW f \in Int, NEW m \in Nat, NEW n \in Nat
    PROVE  Bytes(f, m) \o Bytes(f + m, n) = Bytes(f, m + n)
<1>1. PICK s \in Seq(Int) : s = Bytes(f, m) /\ Len(s) = m /\ \A i \in 1..m : s[i] = f + i
  BY BytesAre
<1>2. f + m \in Int
  OBVIOUS
<1>3. PICK r \in Seq(Int) : r = Bytes(f + m, n) /\ Len(r) = n /\ \A i \in 1..n : r[i] = f + m + i
  BY <1>2, BytesAre
<1>4. PICK z \in Seq(Int) : /\ z = s \o r /\ Len(z) = Len(s) + Len(r)
                            /\ \A i \in 1..Len(s) : z[i] = s[i]
                            /\ \A i \in 1..Len(r) : z[Len(s) + i] = r[i]
  <2>1. /\ s \o r \in Seq(Int) /\ Len(s \o r) = Len(s) + Len(r)
        /\ \A i \in 1..Len(s) : (s \o r)[i] = s[i]
        /\ \A i \in 1..Len(r) : (s \o r)[Len(s) + i] = r[i]
    OBVIOUS
  <2>2. QED
    BY <2>1
<1>5. Len(z) = m + n
  BY <1>1, <1>3, <1>4
<1>6. ASSUME NEW i \in 1..(m + n) PROVE z[i] = f + i
  <2>1. CASE i <= m
    BY <1>1, <1>4, <2>1
  <2>2. CASE i > m
    <3>1. PICK j \in 1..n : i = m + j
      <4>1. i - m \in 1..n /\ i = m + (i - m)
        BY <2>2
      <4>2. QED
        BY <4>1
    <3>2. z[m + j] = r[j]
      BY <1>1, <1>3, <1>4
    <3>3. QED
      BY <1>3, <3>1, <3>2
  <2>3. QED
    BY <2>1, <2>2
<1>7. z = Bytes(f, m + n)
  BY <1>5, <1>6, BytesIf
<1>8. QED
  BY <1>1, <1>3, <1>4, <1>7

-----------------------------------------------------------------------------
(* Numbers *)

\* Data is too short for a frame exactly if it ends before the last row does.
LEMMA ShortIs ==
    ASSUME NEW p, p.w \in Nat \ {0}, p.h \in Nat \ {0}, p.per \in Nat \ {0}, NEW n \in Nat
    PROVE  Short(p, n) <=> n < p.h * (p.w * p.per)
<1>1. PICK w \in Nat \ {0}, h \in Nat \ {0}, d \in Nat \ {0} : w = p.w /\ h = p.h /\ d = p.per
  OBVIOUS
<1>2. PICK q \in Nat : q = n \div d /\ q * d <= n /\ n < q * d + d
  OBVIOUS
<1>3. PICK k \in Nat : k = q \div h /\ k * h <= q /\ q < k * h + h
  OBVIOUS
<1>4. ASSUME w > k PROVE n < h * (w * d)
  <2>1. (k + 1) * h <= w * h
    BY <1>4
  <2>2. q + 1 <= w * h
    BY <1>3, <2>1
  <2>3. (q + 1) * d <= (w * h) * d
    BY <2>2
  <2>4. QED
    BY <1>2, <2>3
<1>5. ASSUME w <= k PROVE h * (w * d) <= n
  <2>1. w * h <= k * h
    BY <1>5
  <2>2. w * h <= q
    BY <1>3, <2>1
  <2>3. (w * h) * d <= q * d
    BY <2>2
  <2>4. QED
    BY <1>2, <2>3
<1>6. QED
  BY <1>1, <1>2, <1>3, <1>4, <1>5 DEF Short

\* The numbers that an int holds.
LEMMA MachineIs ==
    /\ IntMax \in Nat
    /\ \A v : v \in Machine <=> v \in Int /\ -IntMax - 1 <= v /\ v <= IntMax
BY FitsAssumption DEF FitsAssumption, Machine

\* What an int keeps of a number is an int that differs from it by a multiple of 2^w: the
\* number itself if that is an int, and less if it is too large.
LEMMA WrapIs ==
    ASSUME NEW x \in Int
    PROVE  /\ Wrap(x) \in Machine /\ IntMax \in Nat
           /\ \E k \in Int : Wrap(x) = x + k * (2 * (IntMax + 1))
           /\ 0 <= x => Wrap(x) <= x
<1>1. IntMax \in Nat
  BY FitsAssumption DEF FitsAssumption
<1>2. PICK m \in Nat \ {0}, n \in Nat \ {0} : m = IntMax + 1 /\ n = 2 * m
  BY <1>1
<1>3. PICK r \in Int, q \in Int, d \in Int :
        r = (x + m) % n /\ d = n * q /\ x + m = d + r /\ 0 <= r /\ r < n
  <2>1. PICK a \in Int : a = x + m
    OBVIOUS
  <2>2. /\ (a \div n) \in Int /\ (a % n) \in Int /\ a = n * (a \div n) + (a % n)
        /\ 0 <= a % n /\ a % n < n
    OBVIOUS
  <2>3. n * (a \div n) \in Int
    BY <2>2
  <2>4. QED
    BY <2>1, <2>2, <2>3
<1>4. Wrap(x) = r - m
  <2>1. x + IntMax + 1 = x + m /\ 2 * (IntMax + 1) = n /\ IntMax + 1 = m
    BY <1>1, <1>2
  <2>2. Wrap(x) = ((x + m) % n) - m
    BY <2>1 DEF Wrap
  <2>3. QED
    BY <1>3, <2>2
<1>5. x + m = d + r /\ 0 <= r /\ r < n
  BY <1>3
<1>6. -q \in Int /\ r - m = x + (-q) * n
  <2>1. -q \in Int /\ (-q) * n = -(n * q)
    OBVIOUS
  <2>2. (-q) * n = -d
    BY <1>3, <2>1
  <2>3. r - m = x + (-d)
    BY <1>5
  <2>4. QED
    BY <2>1, <2>2, <2>3
<1>7. ASSUME 0 <= x PROVE r - m <= x
  <2>1. CASE q < 0
    <3>1. d <= -n
      <4>1. n * q <= -n
        BY <2>1
      <4>2. QED
        BY <1>3, <4>1
    <3>2. QED
      BY <1>2, <1>5, <1>7, <3>1
  <2>2. CASE q >= 0
    <3>1. d >= 0
      <4>1. n * q >= 0
        BY <2>2
      <4>2. QED
        BY <1>3, <4>1
    <3>2. QED
      BY <1>5, <3>1
  <2>3. QED
    BY <2>1, <2>2
<1>8. Wrap(x) \in Machine
  BY <1>1, <1>2, <1>4, <1>5, MachineIs
<1>9. \E k \in Int : Wrap(x) = x + k * (2 * (IntMax + 1))
  <2>1. 2 * (IntMax + 1) = n
    BY <1>1, <1>2
  <2>2. QED
    BY <1>4, <1>6, <2>1
<1>10. QED
  BY <1>1, <1>4, <1>7, <1>8, <1>9

\* There is one such int.
LEMMA WrapOf ==
    ASSUME NEW x \in Int, NEW v \in Machine, NEW k \in Int, v = x + k * (2 * (IntMax + 1))
    PROVE  Wrap(x) = v
<1>1. IntMax \in Nat /\ v \in Int
  BY MachineIs
<1>2. PICK n \in Nat \ {0} : n = 2 * (IntMax + 1)
  BY <1>1
<1>3. PICK u \in Int, l \in Int : /\ u = Wrap(x) /\ u \in Machine /\ u = x + l * n
  <2>1. Wrap(x) \in Machine /\ \E l \in Int : Wrap(x) = x + l * n
    BY <1>2, WrapIs
  <2>2. Wrap(x) \in Int
    BY <1>1, <2>1, MachineIs
  <2>3. QED
    BY <2>1, <2>2
<1>4. -n < u - v /\ u - v < n
  BY <1>1, <1>2, <1>3, MachineIs
<1>5. u - v = (l - k) * n
  <2>1. PICK a \in Int, b \in Int : a = l * n /\ b = k * n /\ (l - k) * n = a - b
    OBVIOUS
  <2>2. QED
    BY <1>1, <1>2, <1>3, <2>1
<1>6. \A j \in Int : -n < j * n /\ j * n < n => j = 0
  <2>1. ASSUME NEW j \in Int, j >= 1 PROVE j * n >= n
    BY <2>1
  <2>2. ASSUME NEW j \in Int, j <= -1 PROVE j * n <= -n
    BY <2>2
  <2>3. \A j \in Int : j * n \in Int
    OBVIOUS
  <2>4. QED
    BY <2>1, <2>2, <2>3
<1>7. l - k = 0
  BY <1>4, <1>5, <1>6
<1>8. QED
  BY <1>1, <1>3, <1>5, <1>7

\* An int is kept as it is.
LEMMA WrapKeeps == \A x \in Machine : Wrap(x) = x
<1> TAKE x \in Machine
<1>1. x \in Int /\ 0 \in Int /\ IntMax \in Nat
  BY MachineIs
<1>2. x = x + 0 * (2 * (IntMax + 1))
  BY <1>1
<1>3. QED
  BY <1>1, <1>2, WrapOf

\* Where the rows of a usable payload are.
LEMMA RowsAre ==
    ASSUME Typed, Usable(payload), Allocates
    PROVE  /\ payload.w \in Nat \ {0} /\ payload.h \in Nat \ {0} /\ payload.per \in Nat \ {0}
           /\ payload.end \in Nat /\ Block \in Nat \ {0}
           /\ Stride \in Nat /\ Behind \in Nat /\ RowStart(0) = Behind
           /\ \A s \in Nat : RowStart(s) \in Nat /\ RowStart(s + 1) = RowStart(s) + Stride
           /\ \A s \in Nat, t \in Nat : s <= t => RowStart(s) <= RowStart(t)
           /\ \A s \in 0..(payload.h - 1) :
                /\ Place(s) \in 0..(payload.h - 1) /\ Place(Place(s)) = s
                /\ \A t \in 0..(payload.h - 1) : Place(s) = Place(t) => s = t
<1>1. /\ payload.w \in Nat \ {0} /\ payload.h \in Nat \ {0} /\ payload.per \in Nat \ {0}
      /\ payload.end \in Nat /\ Block \in Nat \ {0}
  BY FitsAssumption, MachineIs DEF FitsAssumption, Typed, Header, Usable
<1>2. Stride \in Nat
  BY FitsAssumption DEF FitsAssumption, Allocates
<1>3. Behind \in Nat
  BY <1>1 DEF Behind
<1>4. PICK d \in Nat, b \in Nat : d = Stride /\ b = Behind
  BY <1>2, <1>3
<1>5. \A s \in Nat : s * d \in Nat /\ (s + 1) * d = s * d + d
  BY <1>4
<1>6. \A s \in Nat, t \in Nat : s <= t => s * d <= t * d
  BY <1>4
<1>7. \A s \in Nat : RowStart(s) \in Nat /\ RowStart(s + 1) = RowStart(s) + Stride
  BY <1>4, <1>5 DEF RowStart
<1>8. \A s \in Nat, t \in Nat : s <= t => RowStart(s) <= RowStart(t)
  BY <1>4, <1>5, <1>6 DEF RowStart
<1>9. RowStart(0) = Behind
  BY <1>4 DEF RowStart
<1>10. \A s \in 0..(payload.h - 1) :
         /\ Place(s) \in 0..(payload.h - 1) /\ Place(Place(s)) = s
         /\ \A t \in 0..(payload.h - 1) : Place(s) = Place(t) => s = t
  BY <1>1 DEF Place
<1>11. QED
  BY <1>1, <1>2, <1>3, <1>7, <1>8, <1>9, <1>10

-----------------------------------------------------------------------------
(* Every step keeps the invariant *)

\* What depends on the payload alone stays.
LEMMA PayloadStays ==
    ASSUME UNCHANGED payload
    PROVE  /\ Behind' = Behind /\ Stride' = Stride /\ (Usable(payload))' = Usable(payload)
           /\ \A s : RowStart(s)' = RowStart(s) /\ Place(s)' = Place(s)
           /\ Pixels' = Pixels /\ Allocates' = Allocates /\ Allocatable' = Allocatable
BY DEF Behind, Stride, RowStart, Place, Usable, bottomUp, Pixels, Allocates, Allocatable

\* A decoder starts in it.
LEMMA InitFits == FitsInit => FitsInv
<1> SUFFICES ASSUME FitsInit PROVE Decoding
  BY DEF FitsInv, FitsInit
<1>1. /\ sent = 0 /\ buf = <<>> /\ hdrBuf = <<>> /\ row = <<>> /\ y = 0 /\ ~Sized
      /\ err = FALSE /\ done = FALSE /\ payload \in Payloads
  BY DEF FitsInit, Sized
<1>2. <<>> \in Seq(Int) /\ Len(<<>>) = 0
  OBVIOUS
<1>3. Consumed = 0 /\ Bytes(0, 0) = <<>>
  <2>1. Len(buf) = 0 /\ sent = 0 /\ 0 \in Int
    BY <1>1, <1>2
  <2>2. sent - Len(buf) = 0
    BY <2>1
  <2>3. QED
    BY <2>1, <2>2, NoBytes DEF Consumed
<1>4. Typed
  BY <1>1, <1>2, <1>3 DEF Typed
<1>5. payload.end \in Nat /\ Block \in Nat \ {0}
  BY <1>1, FitsAssumption DEF FitsAssumption, Header
<1>6. scanFITSHeader(payload, 0) = 0
  <2>1. payload.end > 0 => payload.end * Block > 0
    BY <1>5
  <2>2. QED
    BY <1>5, <2>1 DEF scanFITSHeader
<1>7. Collecting
  BY <1>1, <1>3, <1>5, <1>6 DEF Collecting
<1>8. QED
  BY <1>1, <1>4, <1>7 DEF Decoding, Filling, Filled, Fitting

\* Write hands over what follows what was consumed.
LEMMA WriteKeeps == ASSUME Decoding, NEW k \in 1..MaxLength, Write(k) PROVE Decoding'
<1>1. /\ ~done /\ ~err /\ buf = <<>> /\ buf' = Bytes(sent, k) /\ sent' = sent + k
      /\ UNCHANGED <<payload, hdrBuf, pix, row, y, err, done>>
  BY DEF Write, fits, Running
<1>2. k \in Nat /\ sent \in Nat /\ sent \in Int
  <2>1. MaxLength \in Nat /\ sent \in Nat
    BY FitsAssumption DEF FitsAssumption, Decoding, Typed
  <2>2. QED
    BY <2>1
<1>3. Bytes(sent, k) \in Seq(Int) /\ Len(Bytes(sent, k)) = k
  BY <1>2, BytesAre
<1>4. Consumed = sent /\ Consumed' = sent
  BY <1>1, <1>2, <1>3 DEF Consumed
<1>5. Typed'
  BY <1>1, <1>2, <1>3, <1>4 DEF Decoding, Typed
<1>6. Collecting'
  BY <1>1, <1>4 DEF Decoding, Collecting, Sized
<1>7. Filling' /\ Filled' /\ Fitting'
  BY <1>1, <1>4, PayloadStays DEF Decoding, Filling, Filled, Fitting, Sized
<1>8. QED
  BY <1>5, <1>6, <1>7 DEF Decoding

\* A frame and a row of it that can be allocated are: their sizes do not wrap.
LEMMA NotAllocated ==
    ASSUME Typed, Usable(payload), Allocatable
    PROVE  /\ Allocates /\ Pixels = payload.w * payload.h /\ Stride = payload.w * payload.per
           /\ Pixels \in Machine
<1>1. /\ payload.w \in Nat \ {0} /\ payload.h \in Nat \ {0} /\ payload.per \in Nat \ {0}
      /\ IntMax \in Nat /\ MaxAlloc \in 0..IntMax
  BY FitsAssumption, MachineIs DEF FitsAssumption, Typed, Header, Usable
<1>2. PICK a \in Nat, b \in Nat : a = payload.w * payload.h /\ b = payload.w * payload.per
  BY <1>1
<1>3. 2 * a <= MaxAlloc /\ b <= MaxAlloc
  BY <1>2 DEF Allocatable
<1>4. a \in Machine /\ b \in Machine
  BY <1>1, <1>3, MachineIs
<1>5. Pixels = a /\ Stride = b
  BY <1>2, <1>4, WrapKeeps DEF Pixels, Stride
<1>6. QED
  BY <1>1, <1>2, <1>3, <1>4, <1>5 DEF Allocates

\* convert finds its row in the output only where no size has wrapped so far, and else the
\* frame or a row could not be allocated.
LEMMA RowFits ==
    ASSUME Decoding, Sized, y < payload.h, NEW src, Len(src) = Stride
    PROVE  /\ InBounds(Place(y), src) =>
                Stride = payload.w * payload.per /\ (y + 1) * payload.w <= Pixels
           /\ ~InBounds(Place(y), src) => ~Allocatable
<1>1. Typed /\ Usable(payload) /\ Allocates /\ y \in Nat /\ y * payload.w <= Pixels
  BY DEF Decoding, Typed, Filling, Fitting
<1>2. PICK w \in Nat \ {0}, h \in Nat \ {0}, d \in Nat \ {0}, m \in Nat :
        /\ w = payload.w /\ h = payload.h /\ d = payload.per /\ m = IntMax /\ w <= m
  <2>1. payload.w \in Nat \ {0} /\ payload.h \in Nat \ {0} /\ payload.per \in Nat \ {0}
    BY <1>1, RowsAre
  <2>2. payload.w \in Machine
    BY <1>1, FitsAssumption DEF FitsAssumption, Typed, Header
  <2>3. IntMax \in Nat /\ payload.w <= IntMax
    BY <2>2, MachineIs
  <2>4. QED
    BY <2>1, <2>3
<1>3. PICK p \in Nat, k \in Int, e \in Int :
        p = Pixels /\ p <= m /\ e = k * (2 * (IntMax + 1)) /\ p = w * h + e
  <2>1. w * h \in Int
    OBVIOUS
  <2>2. /\ Pixels \in Machine /\ \E k \in Int : Pixels = w * h + k * (2 * (IntMax + 1))
    BY <1>2, <2>1, WrapIs DEF Pixels
  <2>3. Pixels \in Nat /\ Pixels <= m
    <3>1. Pixels \in Int /\ Pixels <= m
      BY <1>2, <2>2, MachineIs
    <3>2. 0 <= Pixels
      BY <1>1, <3>1, FitsAssumption DEF FitsAssumption, Allocates
    <3>3. QED
      BY <3>1, <3>2
  <2>4. PICK k \in Int : Pixels = w * h + k * (2 * (IntMax + 1))
    BY <2>2
  <2>5. k * (2 * (IntMax + 1)) \in Int
    BY MachineIs
  <2>6. QED
    BY <2>3, <2>4, <2>5
<1>4. PICK b \in Nat : b = y * w /\ b <= p /\ (y + 1) * w = b + w
  <2>1. y * w \in Nat /\ (y + 1) * w = y * w + w
    BY <1>1
  <2>2. QED
    BY <1>1, <1>2, <1>3, <2>1
<1>5. m = IntMax /\ w <= m /\ p <= m /\ b <= p
  BY <1>2, <1>3, <1>4
<1>6. ASSUME InBounds(Place(y), src)
      PROVE  Stride = payload.w * payload.per /\ (y + 1) * payload.w <= Pixels
  <2>1. /\ 0 <= Wrap(Place(y) * w) /\ Wrap(Place(y) * w) <= Wrap((Place(y) + 1) * w)
        /\ Wrap((Place(y) + 1) * w) <= p /\ w * d <= Stride
    BY <1>2, <1>3, <1>6 DEF InBounds
  <2>2. Stride = w * d
    <3>1. w * d \in Int /\ 0 <= w * d
      OBVIOUS
    <3>2. Stride <= w * d /\ Stride \in Machine
      BY <1>2, <3>1, WrapIs DEF Stride
    <3>3. Stride \in Int
      BY <1>2, <3>2, MachineIs
    <3>4. QED
      BY <2>1, <3>1, <3>2, <3>3
  <2>3. b + w <= p
    <3>1. CASE bottomUp(payload)
      <4>1. PICK c \in Int : c = Place(y) * w /\ c = w * h - (b + w)
        <5>1. Place(y) = h - 1 - y
          BY <1>2, <3>1 DEF Place
        <5>2. (h - 1 - y) * w = w * h - (y + 1) * w /\ (h - 1 - y) * w \in Int
          BY <1>1
        <5>3. QED
          BY <1>4, <5>1, <5>2
      <4>2. p - (b + w) \in Machine
        BY <1>5, MachineIs
      <4>3. p - (b + w) = c + k * (2 * (IntMax + 1))
        <5>1. PICK a \in Int : a = w * h
          OBVIOUS
        <5>2. p = a + e /\ c = a - (b + w) /\ e = k * (2 * (IntMax + 1))
          BY <1>3, <4>1, <5>1
        <5>3. p - (b + w) = c + e
          BY <5>2
        <5>4. QED
          BY <5>2, <5>3
      <4>4. Wrap(c) = p - (b + w)
        BY <4>2, <4>3, WrapOf
      <4>5. QED
        BY <2>1, <4>1, <4>4
    <3>2. CASE ~bottomUp(payload)
      <4>1. Place(y) * w = b /\ (Place(y) + 1) * w = b + w
        BY <1>4, <3>2 DEF Place
      <4>2. Wrap(b) = b
        <5>1. b \in Machine
          BY <1>5, MachineIs
        <5>2. QED
          BY <5>1, WrapKeeps
      <4>3. CASE b + w <= m
        <5>1. b + w \in Machine
          BY <1>5, <4>3, MachineIs
        <5>2. QED
          BY <2>1, <4>1, <5>1, WrapKeeps
      <4>4. CASE b + w > m
        <5>1. b + w - 2 * (m + 1) \in Machine /\ b + w - 2 * (m + 1) < 0
          BY <1>5, <4>4, MachineIs
        <5>2. b + w - 2 * (m + 1) = (b + w) + (-1) * (2 * (IntMax + 1)) /\ -1 \in Int /\ b + w \in Int
          BY <1>5
        <5>3. Wrap(b + w) = b + w - 2 * (m + 1)
          BY <5>1, <5>2, WrapOf
        <5>4. QED
          BY <2>1, <4>1, <4>2, <5>1, <5>3
      <4>5. QED
        BY <4>3, <4>4
    <3>3. QED
      BY <3>1, <3>2
  <2>4. QED
    BY <1>2, <1>3, <1>4, <2>2, <2>3
<1>7. ASSUME Allocatable PROVE InBounds(Place(y), src)
  <2>1. p = w * h /\ Stride = w * d
    BY <1>1, <1>2, <1>3, <1>7, NotAllocated
  <2>2. PICK l \in Nat : l = Place(y) /\ l + 1 <= h
    <3>1. Place(y) \in Nat /\ Place(y) + 1 <= h
      BY <1>1, <1>2 DEF Place
    <3>2. QED
      BY <3>1
  <2>3. PICK f \in Nat, g \in Nat : f = l * w /\ g = (l + 1) * w /\ f <= g /\ g <= p
    <3>1. l * w \in Nat /\ (l + 1) * w = l * w + w
      OBVIOUS
    <3>2. (l + 1) * w <= h * w
      BY <2>2
    <3>3. h * w = w * h
      OBVIOUS
    <3>4. QED
      BY <2>1, <3>1, <3>2, <3>3
  <2>4. f \in Machine /\ g \in Machine
    <3>1. f <= g /\ g <= p
      BY <2>3
    <3>2. QED
      BY <1>5, <3>1, MachineIs
  <2>5. Wrap(f) = f /\ Wrap(g) = g
    BY <2>4, WrapKeeps
  <2>6. w * d <= Len(src)
    BY <2>1
  <2>7. QED
    BY <1>2, <1>3, <2>2, <2>3, <2>5, <2>6 DEF InBounds
<1>8. QED
  BY <1>6, <1>7

\* consumeHeader collects all there is, or leaves what follows the header.
LEMMA HeaderKeeps == ASSUME Decoding, consumeHeader PROVE FitsInv'
<1>1. PICK all, off : all = hdrBuf \o buf /\ off = scanFITSHeader(payload, Len(all))
  OBVIOUS
<1>2. /\ buf # <<>> /\ ~Sized /\ ~err /\ ~panicked /\ UNCHANGED <<payload, sent, row, y, done>>
      /\ \/ /\ off = 0 /\ (Len(all) < Block \/ payload.simple)
            /\ hdrBuf' = all /\ buf' = <<>> /\ UNCHANGED <<pix, err, panicked>>
         \/ /\ (Len(all) >= Block /\ ~payload.simple) \/ (off > 0 /\ ~Usable(payload))
            /\ hdrBuf' = all /\ buf' = <<>> /\ err' = TRUE /\ UNCHANGED <<pix, panicked>>
         \/ /\ off > 0 /\ Usable(payload)
            /\ hdrBuf' = <<>> /\ buf' = Rest(all, off) /\ size
  BY <1>1 DEF consumeHeader, Running
<1>3. /\ y = 0 /\ row = <<>> /\ done = FALSE /\ err = FALSE /\ payload \in Payloads /\ Typed
      /\ payload.simple \/ Consumed < Block
  BY <1>2 DEF Decoding, Typed, Collecting
<1>9. PICK m \in Nat, n \in Nat : /\ m = Consumed /\ n = Len(buf) /\ sent = m + n /\ sent \in Nat
                                 /\ buf = Bytes(m, n) /\ hdrBuf = Bytes(0, m)
  <2>1. Consumed \in Nat /\ Len(buf) \in Nat /\ sent \in Nat
    BY DEF Decoding, Typed
  <2>2. sent = Consumed + Len(buf)
    BY <2>1 DEF Consumed
  <2>3. buf = Bytes(Consumed, Len(buf)) /\ hdrBuf = Bytes(0, Consumed)
    BY <1>2 DEF Decoding, Typed, Collecting
  <2>4. QED
    BY <2>1, <2>2, <2>3
<1>4. all = Bytes(0, sent) /\ all \in Seq(Int) /\ Len(all) = sent
  <2>1. Bytes(0, m) \o Bytes(0 + m, n) = Bytes(0, m + n)
    <3>1. 0 \in Int
      OBVIOUS
    <3>2. QED
      BY <3>1, BytesJoin
  <2>2. 0 + m = m
    OBVIOUS
  <2>3. all = Bytes(0, sent)
    BY <1>1, <1>9, <2>1, <2>2
  <2>4. QED
    <3>1. 0 \in Int
      OBVIOUS
    <3>2. QED
      BY <1>9, <2>3, <3>1, BytesAre
<1>5. Len(<<>>) = 0 /\ <<>> \in Seq(Int)
  OBVIOUS
<1>6. CASE /\ buf' = <<>> /\ hdrBuf' = all /\ UNCHANGED <<pix, panicked>>
           /\ \/ off = 0 /\ (Len(all) < Block \/ payload.simple) /\ err' = err
              \/ err' = TRUE /\ (~payload.simple \/ ~Usable(payload))
  <2>1. Consumed' = sent /\ Bytes(sent, 0) = <<>>
    BY <1>2, <1>9, <1>5, <1>6, NoBytes DEF Consumed
  <2>2. err' \in BOOLEAN
    <3>1. err' = TRUE \/ err' = FALSE
      BY <1>3, <1>6
    <3>2. QED
      BY <3>1
  <2>3. Typed'
    BY <1>2, <1>3, <1>9, <1>4, <1>5, <1>6, <2>1, <2>2 DEF Typed
  <2>4. Collecting'
    <3>1. \/ off = 0 /\ (sent < Block \/ payload.simple)
          \/ err' = TRUE /\ (~payload.simple \/ ~Usable(payload))
      BY <1>4, <1>6
    <3>2. ~payload.simple => scanFITSHeader(payload, sent) = 0
      BY DEF scanFITSHeader
    <3>3. (scanFITSHeader(payload, sent) = 0 \/ ~Usable(payload))'
              <=> scanFITSHeader(payload, sent) = 0 \/ ~Usable(payload)
      BY <1>2 DEF scanFITSHeader, Usable
    <3>4. (scanFITSHeader(payload, Consumed))' = scanFITSHeader(payload, sent)
      BY <1>2, <2>1 DEF scanFITSHeader
    <3>5. QED
      BY <1>1, <1>2, <1>3, <1>9, <1>4, <1>6, <2>1, <2>2, <3>1, <3>2, <3>3, <3>4 DEF Collecting
  <2>5. ~Sized'
    BY <1>2, <1>6 DEF Sized
  <2>6. QED
    BY <1>2, <1>6, <2>3, <2>4, <2>5 DEF FitsInv, Decoding, Filling, Filled, Fitting
<1>7. CASE off > 0 /\ Usable(payload) /\ hdrBuf' = <<>> /\ buf' = Rest(all, off) /\ size /\ Allocates
  <2>1. off = Behind /\ payload.simple /\ payload.end > 0 /\ Behind <= sent
    BY <1>1, <1>4, <1>7 DEF scanFITSHeader, Behind
  <2>2. /\ payload.h \in Nat \ {0} /\ payload.w \in Nat \ {0} /\ Stride \in Nat /\ Behind \in Nat
        /\ RowStart(0) = Behind
    BY <1>7, RowsAre DEF Decoding
  <2>3. buf' = Bytes(Behind, sent - Behind) /\ sent - Behind \in Nat
    <3>1. SubSeq(Bytes(0, sent), Behind + 1, sent) = Bytes(0 + (Behind + 1) - 1, sent - (Behind + 1) + 1)
      <4>1. /\ Behind + 1 \in 1..(sent + 1) /\ sent \in ((Behind + 1) - 1)..sent /\ 0 \in Int
        BY <1>9, <2>1, <2>2
      <4>2. QED
        BY <1>9, <4>1, BytesSub
    <3>2. 0 + (Behind + 1) - 1 = Behind /\ sent - (Behind + 1) + 1 = sent - Behind /\ sent - Behind \in Nat
      BY <1>9, <2>1, <2>2
    <3>3. QED
      BY <1>4, <1>7, <2>1, <3>1, <3>2 DEF Rest
  <2>4. buf' \in Seq(Int) /\ Len(buf') = sent - Behind
    BY <2>2, <2>3, BytesAre
  <2>5. Consumed' = Behind
    BY <1>2, <1>9, <2>2, <2>4 DEF Consumed
  <2>6. err' = FALSE
    BY <1>3, <1>7 DEF size
  <2>7. Typed'
    BY <1>2, <1>3, <1>9, <1>5, <1>7, <2>2, <2>3, <2>4, <2>5, <2>6 DEF Typed
  <2>8. pix' = [r \in 0..(payload.h - 1) |-> [x \in 1..payload.w |-> <<>>]]
    BY <1>7 DEF size
  <2>9. Sized'
    <3>1. 0 \in 0..(payload.h - 1)
      BY <2>2
    <3>2. \A i \in DOMAIN <<>> : FALSE
      OBVIOUS
    <3>3. QED
      BY <2>8, <3>1, <3>2 DEF Sized, None
  <2>10. Filling'
    <3>1. /\ Behind' = Behind /\ RowStart(0)' = RowStart(0) /\ Stride' = Stride /\ (Usable(payload))'
      BY <1>2, <1>7, PayloadStays
    <3>2. Bytes(Behind, 0) = <<>>
      BY <2>2, NoBytes
    <3>3. Consumed' = RowStart(0)' + Len(<<>>)
      BY <1>5, <2>2, <2>5, <3>1
    <3>4. QED
      BY <1>2, <1>3, <1>5, <2>1, <2>2, <2>5, <2>6, <3>1, <3>2, <3>3 DEF Filling
  <2>11. Filled'
    <3>1. 0..(y' - 1) = {}
      BY <1>2, <1>3
    <3>2. pix' = [r \in 0..(payload.h - 1) |-> pix'[r]]
      BY <2>8
    <3>3. QED
      BY <1>2, <3>1, <3>2 DEF Filled
  <2>12. Fitting'
    <3>1. ~(y > 0) /\ y * payload.w = 0 /\ 0 <= Pixels
      <4>1. Pixels \in Machine
        <5>1. payload.w * payload.h \in Int
          BY <2>2
        <5>2. QED
          BY <5>1, WrapIs DEF Pixels
      <4>2. Pixels \in Int
        BY <4>1, MachineIs
      <4>3. QED
        BY <1>3, <1>7, <2>2, <4>2, FitsAssumption DEF FitsAssumption, Allocates
    <3>2. QED
      BY <1>2, <1>7, <3>1, PayloadStays DEF Fitting
  <2>13. panicked' = FALSE
    BY <1>2, <1>7 DEF size, FitsInv
  <2>14. QED
    BY <2>7, <2>9, <2>10, <2>11, <2>12, <2>13 DEF FitsInv, Decoding, Collecting
<1>8. CASE off > 0 /\ Usable(payload) /\ size /\ ~Allocates
  <2>1. panicked' = TRUE /\ ~done'
    BY <1>2, <1>3, <1>8 DEF size
  <2>2. ~Allocatable
    BY <1>3, <1>8, NotAllocated
  <2>3. QED
    BY <1>2, <2>1, <2>2, PayloadStays DEF FitsInv
<1>10. QED
  BY <1>2, <1>6, <1>7, <1>8

\* A source row that is complete goes to its place.
LEMMA RowDone ==
    ASSUME Decoding, Sized, y < payload.h, ~done, Typed', y' = y + 1, row' = <<>>,
           Consumed' = RowStart(y) + Stride, UNCHANGED <<payload, err, done>>,
           Stride = payload.w * payload.per, (y + 1) * payload.w <= Pixels,
           pix' = [pix EXCEPT ![Place(y)] =
                     convertFITSRow(Bytes(RowStart(y), Stride), payload.per)]
    PROVE  Decoding'
<1>1. /\ Usable(payload) /\ payload.simple /\ payload.end > 0 /\ Behind <= Consumed /\ y \in Nat
      /\ pix = [r \in 0..(payload.h - 1) |-> pix[r]] /\ Allocates
  BY DEF Decoding, Typed, Filling, Filled, Fitting
<1>2. /\ payload.h \in Nat \ {0} /\ Stride \in Nat /\ Behind \in Nat /\ RowStart(0) = Behind
      /\ RowStart(y) \in Nat /\ RowStart(y + 1) = RowStart(y) + Stride /\ Behind <= RowStart(y)
  <2>1. 0 <= y /\ 0 \in Nat
    BY <1>1
  <2>2. QED
    BY <1>1, <2>1, RowsAre DEF Decoding
<1>3. Place(y) \in 0..(payload.h - 1) /\ y \in 0..(payload.h - 1)
  <2>1. y \in 0..(payload.h - 1)
    BY <1>1, <1>2
  <2>2. QED
    BY <1>1, <2>1, RowsAre DEF Decoding
<1>4. pix' = [r \in 0..(payload.h - 1) |-> pix'[r]]
  BY <1>1
<1>5. Sized'
  <2>1. Place(y) \in DOMAIN pix'
    BY <1>3, <1>4
  <2>2. \A i \in DOMAIN <<>> : FALSE
    OBVIOUS
  <2>3. QED
    BY <2>1, <2>2 DEF Sized, None
<1>6. Filled'
  <2>1. ASSUME NEW s \in 0..y
        PROVE  pix'[Place(s)] = convertFITSRow(Bytes(RowStart(s), Stride), payload.per)
    <3>1. s \in 0..(payload.h - 1) /\ Place(s) \in 0..(payload.h - 1) /\ (Place(s) = Place(y) => s = y)
      <4>1. s \in 0..(payload.h - 1)
        BY <1>1, <1>2, <1>3
      <4>2. QED
        BY <1>1, <1>3, <4>1, RowsAre DEF Decoding
    <3>2. CASE s = y
      BY <1>1, <1>3, <3>2
    <3>3. CASE s # y
      <4>1. s \in 0..(y - 1)
        BY <1>1, <3>3
      <4>2. pix[Place(s)] = convertFITSRow(Bytes(RowStart(s), Stride), payload.per)
        BY <4>1 DEF Decoding, Filled
      <4>3. QED
        BY <1>1, <3>1, <3>3, <4>2
    <3>4. QED
      BY <3>2, <3>3
  <2>2. 0..(y' - 1) = 0..y
    BY <1>1
  <2>3. QED
    BY <1>4, <2>1, <2>2, PayloadStays DEF Filled
<1>7. Filling'
  <2>1. Behind <= Consumed' /\ y' <= payload.h /\ RowStart(y + 1) = Consumed'
    BY <1>1, <1>2
  <2>2. Bytes(RowStart(y + 1), 0) = <<>> /\ Len(<<>>) = 0
    BY <1>2, NoBytes
  <2>3. (err <=> done /\ y < payload.h) /\ ~err
    BY DEF Decoding, Filling
  <2>4. Consumed' = RowStart(y + 1) + Len(<<>>)
    BY <1>2, <2>1, <2>2
  <2>5. RowStart(y') = RowStart(y + 1) /\ RowStart(y + 1) <= Consumed'
    BY <1>2
  <2>6. QED
    BY <1>1, <2>1, <2>2, <2>3, <2>4, <2>5, PayloadStays DEF Filling
<1>8. Fitting'
  BY <1>1, PayloadStays DEF Fitting
<1>9. QED
  BY <1>5, <1>6, <1>7, <1>8 DEF Decoding, Collecting

\* While bytes are left the decoder has not been closed, and those that are consumed
\* first are a range.
LEMMA Taken ==
    ASSUME Decoding, NEW k \in Nat, k <= Len(buf), UNCHANGED sent,
           buf' = SubSeq(buf, k + 1, Len(buf))
    PROVE  /\ SubSeq(buf, 1, k) = Bytes(Consumed, k)
           /\ buf' \in Seq(Int) /\ Consumed' = Consumed + k /\ Consumed' \in Nat
           /\ buf' = Bytes(Consumed', Len(buf'))
<1>1. PICK m \in Nat, n \in Nat : m = Consumed /\ n = Len(buf) /\ sent = m + n /\ buf = Bytes(m, n)
  <2>1. Consumed \in Nat /\ Len(buf) \in Nat /\ sent \in Nat
    BY DEF Decoding, Typed
  <2>2. sent = Consumed + Len(buf)
    BY <2>1 DEF Consumed
  <2>3. QED
    BY <2>1, <2>2 DEF Decoding, Typed
<1>2. /\ k + 1 \in 1..(n + 1) /\ n \in ((k + 1) - 1)..n /\ 1 \in 1..(n + 1) /\ k \in (1 - 1)..n
      /\ m + (k + 1) - 1 = m + k /\ n - (k + 1) + 1 = n - k /\ n - k \in Nat
      /\ m + 1 - 1 = m /\ k - 1 + 1 = k /\ m \in Int /\ m + k \in Nat
  BY <1>1
<1>3. SubSeq(Bytes(m, n), 1, k) = Bytes(m + 1 - 1, k - 1 + 1)
  BY <1>2, BytesSub
<1>4. SubSeq(Bytes(m, n), k + 1, n) = Bytes(m + (k + 1) - 1, n - (k + 1) + 1)
  BY <1>2, BytesSub
<1>5. buf' = Bytes(m + k, n - k) /\ buf' \in Seq(Int) /\ Len(buf') = n - k
  <2>1. buf' = Bytes(m + k, n - k)
    BY <1>1, <1>2, <1>4
  <2>2. m + k \in Int /\ n - k \in Nat
    BY <1>2
  <2>3. QED
    BY <2>1, <2>2, BytesAre
<1>6. Consumed' = m + k
  <2>1. sent' = m + n /\ Len(buf') = n - k
    BY <1>1, <1>5
  <2>2. Consumed' = (m + n) - (n - k)
    BY <2>1 DEF Consumed
  <2>3. QED
    BY <2>2
<1>7. QED
  BY <1>1, <1>2, <1>3, <1>5, <1>6

\* A whole row is converted where it is.
LEMMA WholeRowKeeps == ASSUME Decoding, WholeRow PROVE FitsInv'
<1>1. /\ buf # <<>> /\ Sized /\ y < payload.h /\ row = <<>> /\ Len(buf) >= Stride /\ ~panicked
      /\ convert(SubSeq(buf, 1, Stride)) /\ buf' = SubSeq(buf, Stride + 1, Len(buf))
      /\ UNCHANGED <<payload, sent, hdrBuf, row, err, done>>
  BY DEF WholeRow, Running
<1>2. Stride \in Nat /\ RowStart(y) \in Nat /\ Len(buf) \in Nat /\ y \in Nat
  BY <1>1, RowsAre DEF Decoding, Typed, Filling, Fitting
<1>3. ~done
  BY <1>1 DEF Decoding, Typed
<1>4. Consumed = RowStart(y)
  <2>1. Consumed = RowStart(y) + Len(<<>>) /\ Len(<<>>) = 0
    BY <1>1 DEF Decoding, Filling
  <2>2. QED
    BY <1>2, <2>1
<1>5. /\ SubSeq(buf, 1, Stride) = Bytes(Consumed, Stride)
      /\ buf' \in Seq(Int) /\ Consumed' = Consumed + Stride /\ Consumed' \in Nat
      /\ buf' = Bytes(Consumed', Len(buf'))
  <2>1. Stride \in Nat /\ Stride <= Len(buf)
    BY <1>1, <1>2
  <2>2. QED
    BY <1>1, <2>1, Taken
<1>6. PICK src : src = SubSeq(buf, 1, Stride) /\ src = Bytes(RowStart(y), Stride) /\ Len(src) = Stride
  <2>1. RowStart(y) \in Int
    BY <1>2
  <2>2. QED
    BY <1>2, <1>4, <1>5, <2>1, BytesAre
<1>7. CASE InBounds(Place(y), src)
  <2>1. /\ pix' = [pix EXCEPT ![Place(y)] = convertFITSRow(Bytes(RowStart(y), Stride), payload.per)]
        /\ y' = y + 1 /\ panicked' = panicked
    BY <1>1, <1>6, <1>7 DEF convert, Place
  <2>2. Stride = payload.w * payload.per /\ (y + 1) * payload.w <= Pixels
    BY <1>1, <1>6, <1>7, RowFits
  <2>3. Typed'
    <3>1. y' \in Nat
      BY <1>2, <2>1
    <3>2. QED
      BY <1>1, <1>3, <1>5, <3>1 DEF Decoding, Typed
  <2>4. row' = <<>> /\ Consumed' = RowStart(y) + Stride
    BY <1>1, <1>4, <1>5
  <2>5. Decoding'
    BY <1>1, <1>3, <2>1, <2>2, <2>3, <2>4, RowDone
  <2>6. QED
    BY <1>1, <2>1, <2>5 DEF FitsInv
<1>8. CASE ~InBounds(Place(y), src)
  <2>1. panicked' = TRUE /\ ~Allocatable
    BY <1>1, <1>6, <1>8, RowFits DEF convert, Place
  <2>2. QED
    BY <1>1, <1>3, <2>1, PayloadStays DEF FitsInv
<1>9. QED
  BY <1>7, <1>8

\* A part of a row is carried over, or the row is completed.
LEMMA CarryRowKeeps == ASSUME Decoding, CarryRow PROVE FitsInv'
<1>1. PICK take, all :
        /\ take = IF Stride - Len(row) > Len(buf) THEN Len(buf) ELSE Stride - Len(row)
        /\ all = row \o SubSeq(buf, 1, take)
        /\ buf # <<>> /\ Sized /\ y < payload.h /\ ~panicked
        /\ row # <<>> \/ Len(buf) < Stride
        /\ buf' = SubSeq(buf, take + 1, Len(buf))
        /\ row' = Carried(all)
        /\ IF Len(all) = Stride THEN convert(all) ELSE UNCHANGED <<pix, y, panicked>>
        /\ UNCHANGED <<payload, sent, hdrBuf, err, done>>
  BY DEF CarryRow, Running
<1>2. /\ Stride \in Nat /\ RowStart(y) \in Nat /\ Len(buf) \in Nat /\ y \in Nat /\ Behind \in Nat
      /\ Len(row) \in Nat /\ Consumed \in Nat /\ Behind <= RowStart(y)
  <2>1. Usable(payload) /\ Allocates /\ y \in Nat /\ 0 \in Nat /\ 0 <= y
    BY <1>1 DEF Decoding, Filling, Typed, Fitting
  <2>2. Len(buf) \in Nat /\ Len(row) \in Nat /\ Consumed \in Nat
    BY DEF Decoding, Typed
  <2>3. /\ Stride \in Nat /\ RowStart(y) \in Nat /\ Behind \in Nat
        /\ RowStart(0) = Behind /\ RowStart(0) <= RowStart(y)
    BY <2>1, RowsAre DEF Decoding
  <2>4. QED
    BY <2>1, <2>2, <2>3
<1>3. ~done
  BY <1>1 DEF Decoding, Typed
<1>4. Consumed = RowStart(y) + Len(row) /\ Len(row) < Stride /\ row = Bytes(RowStart(y), Len(row))
  <2>1. /\ Consumed = RowStart(y) + Len(row) /\ row = Bytes(RowStart(y), Len(row))
        /\ Len(row) < Stride \/ row = <<>>
    BY <1>1 DEF Decoding, Filling
  <2>2. row = <<>> => Len(row) < Stride
    <3>1. Len(<<>>) = 0
      OBVIOUS
    <3>2. QED
      BY <1>1, <1>2, <3>1
  <2>3. QED
    BY <2>1, <2>2
<1>5. PICK k \in Nat, n \in Nat :
        /\ k = take /\ n = Len(row) /\ k <= Len(buf) /\ n + k <= Stride
  BY <1>1, <1>2, <1>4
<1>6. /\ SubSeq(buf, 1, k) = Bytes(Consumed, k)
      /\ buf' \in Seq(Int) /\ Consumed' = Consumed + k /\ Consumed' \in Nat
      /\ buf' = Bytes(Consumed', Len(buf'))
  BY <1>1, <1>5, Taken
<1>7. all = Bytes(RowStart(y), n + k) /\ all \in Seq(Int) /\ Len(all) = n + k
  <2>1. RowStart(y) \in Int /\ n + k \in Nat
    BY <1>2
  <2>2. Bytes(RowStart(y), n) \o Bytes(RowStart(y) + n, k) = Bytes(RowStart(y), n + k)
    BY <2>1, BytesJoin
  <2>3. all = Bytes(RowStart(y), n + k)
    BY <1>1, <1>4, <1>5, <1>6, <2>2
  <2>4. QED
    BY <2>1, <2>3, BytesAre
<1>8. Consumed' = RowStart(y) + (n + k)
  BY <1>2, <1>4, <1>5, <1>6
<1>9. CASE Len(all) = Stride /\ InBounds(Place(y), all)
  <2>1. /\ row' = <<>> /\ y' = y + 1 /\ Consumed' = RowStart(y) + Stride /\ panicked' = panicked
        /\ Stride = payload.w * payload.per /\ (y + 1) * payload.w <= Pixels
    BY <1>1, <1>7, <1>8, <1>9, RowFits DEF Carried, convert, Place
  <2>2. pix' = [pix EXCEPT ![Place(y)] = convertFITSRow(Bytes(RowStart(y), Stride), payload.per)]
    BY <1>1, <1>7, <1>9 DEF convert, Place
  <2>3. Typed'
    <3>1. y' \in Nat /\ <<>> \in Seq(Int)
      BY <1>2, <2>1
    <3>2. QED
      BY <1>1, <1>3, <1>6, <2>1, <3>1 DEF Decoding, Typed
  <2>4. Decoding'
    BY <1>1, <1>3, <2>1, <2>2, <2>3, RowDone
  <2>5. QED
    BY <1>1, <2>1, <2>4 DEF FitsInv
<1>11. CASE Len(all) = Stride /\ ~InBounds(Place(y), all)
  <2>1. panicked' = TRUE /\ ~Allocatable
    BY <1>1, <1>11, RowFits DEF convert, Place
  <2>2. QED
    BY <1>1, <1>3, <2>1, PayloadStays DEF FitsInv
<1>10. CASE Len(all) # Stride
  <2>1. row' = all /\ UNCHANGED <<pix, y, panicked>>
    BY <1>1, <1>10 DEF Carried
  <2>2. Typed'
    BY <1>1, <1>3, <1>6, <1>7, <2>1 DEF Decoding, Typed
  <2>3. Len(all) < Stride /\ Behind <= Consumed'
    BY <1>2, <1>5, <1>7, <1>8, <1>10
  <2>4. Filling'
    <3>1. Consumed' = RowStart(y) + Len(all) /\ all = Bytes(RowStart(y), Len(all))
      BY <1>7, <1>8
    <3>2. QED
      BY <1>1, <2>1, <2>3, <3>1, PayloadStays DEF Decoding, Filling, Sized
  <2>5. Filled'
    BY <1>1, <2>1, PayloadStays DEF Decoding, Filled, Sized
  <2>6. Fitting'
    BY <1>1, <2>1, PayloadStays DEF Decoding, Fitting, Sized
  <2>7. QED
    BY <1>1, <2>1, <2>2, <2>4, <2>5, <2>6 DEF FitsInv, Decoding, Collecting, Sized
<1>12. QED
  BY <1>9, <1>10, <1>11

\* Padding is consumed, and the end settles whether the frame is complete.
LEMMA PaddingKeeps == ASSUME Decoding, Padding PROVE Decoding'
<1>1. /\ buf # <<>> /\ Sized /\ y >= payload.h /\ buf' = <<>>
      /\ UNCHANGED <<payload, sent, hdrBuf, pix, row, y, err, done>>
  BY DEF Padding, fits, Running
<1>2. /\ Consumed \in Nat /\ sent \in Nat /\ Len(buf) \in Nat /\ sent = Consumed + Len(buf)
      /\ y \in Nat /\ Len(<<>>) = 0 /\ <<>> \in Seq(Int)
  <2>1. Consumed \in Nat /\ Len(buf) \in Nat /\ sent \in Nat /\ y \in Nat
    BY DEF Decoding, Typed
  <2>2. QED
    BY <2>1 DEF Consumed
<1>3. Consumed' = sent /\ Bytes(sent, 0) = <<>> /\ Consumed <= sent
  BY <1>1, <1>2, NoBytes DEF Consumed
<1>4. Typed'
  BY <1>1, <1>2, <1>3 DEF Decoding, Typed
<1>5. payload.h \in Nat \ {0} /\ RowStart(y) \in Nat /\ Behind \in Nat
  <2>1. Usable(payload) /\ Allocates
    BY <1>1 DEF Decoding, Filling, Fitting
  <2>2. QED
    BY <1>2, <2>1, RowsAre DEF Decoding
<1>6. Filling'
  <2>1. Behind <= Consumed' /\ RowStart(y) <= Consumed' /\ ~(y < payload.h) /\ row = <<>>
    <3>1. ~(y < payload.h)
      BY <1>1, <1>2, <1>5
    <3>2. Behind <= Consumed /\ RowStart(y) <= Consumed /\ row = <<>>
      BY <1>1, <3>1 DEF Decoding, Filling
    <3>3. QED
      BY <1>2, <1>3, <1>5, <3>1, <3>2
  <2>2. QED
    BY <1>1, <2>1, PayloadStays DEF Decoding, Filling, Sized
<1>7. Filled' /\ Fitting'
  BY <1>1, PayloadStays DEF Decoding, Filled, Fitting, Sized
<1>8. QED
  BY <1>1, <1>4, <1>6, <1>7 DEF Decoding, Collecting, Sized

\* FITSWriter.Close, the last step of a decode, keeps the invariant.
LEMMA CloseKeeps == ASSUME Decoding, Close PROVE Decoding'
<1>1. /\ ~done /\ buf = <<>> /\ done' = TRUE /\ err' = (err \/ ~Complete)
      /\ UNCHANGED <<payload, sent, buf, hdrBuf, pix, row, y>>
  BY DEF Close, Running
<1>2. Consumed' = Consumed /\ Consumed = sent
  <2>1. Len(<<>>) = 0 /\ sent \in Nat
    BY DEF Decoding, Typed
  <2>2. QED
    BY <1>1, <2>1 DEF Consumed
<1>3. Typed'
  BY <1>1, <1>2 DEF Decoding, Typed
<1>4. Collecting'
  <2>1. SUFFICES ASSUME ~Sized PROVE Collecting'
    BY <1>1 DEF Collecting, Sized
  <2>2. err' = TRUE /\ y = 0 /\ row = <<>>
    BY <1>1, <2>1 DEF Complete, Decoding, Collecting
  <2>3. scanFITSHeader(payload, sent) = 0 \/ ~Usable(payload)
    BY <1>2, <2>1 DEF Decoding, Collecting
  <2>4. (scanFITSHeader(payload, sent) = 0 \/ ~Usable(payload))'
    BY <1>1, <2>3 DEF scanFITSHeader, Usable
  <2>5. QED
    BY <1>1, <2>2, <2>4 DEF Collecting
<1>5. Filling'
  <2>1. SUFFICES ASSUME Sized PROVE Filling'
    BY <1>1 DEF Filling, Sized
  <2>2. y \in Nat /\ payload.h \in Nat \ {0}
    BY <2>1, RowsAre DEF Decoding, Typed, Filling, Fitting
  <2>3. ~err
    BY <1>1, <2>1 DEF Decoding, Filling
  <2>4. err' <=> y < payload.h
    <3>1. Complete <=> y >= payload.h
      BY <2>1 DEF Complete
    <3>2. y >= payload.h <=> ~(y < payload.h)
      BY <2>2
    <3>3. err' <=> ~Complete
      BY <1>1, <2>3
    <3>4. QED
      BY <3>1, <3>2, <3>3
  <2>5. QED
    BY <1>1, <1>2, <2>1, <2>4, PayloadStays DEF Decoding, Filling, Sized
<1>6. Filled' /\ Fitting'
  BY <1>1, PayloadStays DEF Decoding, Filled, Fitting, Sized
<1>7. QED
  BY <1>3, <1>4, <1>5, <1>6 DEF Decoding

\* Every step keeps the invariant, which so holds for ever.
LEMMA NextKeeps == FitsInv /\ [FitsNext]_fitsVars => FitsInv'
<1> SUFFICES ASSUME FitsInv, [FitsNext]_fitsVars PROVE FitsInv'
  OBVIOUS
<1>1. CASE UNCHANGED fitsVars
  <2>1. UNCHANGED <<payload, sent, buf, hdrBuf, pix, row, y, err, done, panicked>>
    BY <1>1 DEF fitsVars, fits
  <2>2. Consumed' = Consumed
    BY <2>1 DEF Consumed
  <2>3. Typed' = Typed /\ Collecting' = Collecting
    BY <2>1, <2>2 DEF Typed, Collecting, Sized, scanFITSHeader, Usable
  <2>4. Decoding => Filling' /\ Filled' /\ Fitting'
    BY <2>1, <2>2, PayloadStays DEF Decoding, Filling, Filled, Fitting, Sized
  <2>5. QED
    BY <2>1, <2>3, <2>4, PayloadStays DEF FitsInv, Decoding
<1>2. CASE FitsNext /\ panicked
  BY <1>2 DEF FitsNext, Write, consumeHeader, Padding, WholeRow, CarryRow, Close, Running
<1>3. CASE FitsNext /\ ~panicked
  <2>1. Decoding
    BY <1>3 DEF FitsInv
  <2>2. ASSUME NEW k \in 1..MaxLength, Write(k) PROVE FitsInv'
    BY <1>3, <2>1, <2>2, WriteKeeps DEF FitsInv, Write
  <2>3. Padding => FitsInv'
    BY <1>3, <2>1, PaddingKeeps DEF FitsInv, Padding
  <2>4. Close => FitsInv'
    BY <1>3, <2>1, CloseKeeps DEF FitsInv, Close
  <2>5. QED
    BY <1>3, <2>1, <2>2, <2>3, <2>4, HeaderKeeps, WholeRowKeeps, CarryRowKeeps DEF FitsNext
<1>4. QED
  BY <1>1, <1>2, <1>3

\* The invariant holds for ever.
LEMMA FitsInvariance == FitsSpec => []FitsInv
BY InitFits, NextKeeps, PTL DEF FitsSpec

-----------------------------------------------------------------------------
(* The theorems *)

\* However a payload is cut into pieces, and wherever it breaks off, FITSWriter accepts
\* exactly what DecodeFITS accepts of the same bytes, and decodes the same frame; it panics
\* only at a header whose frame or row could not be allocated (client/fits.go and
\* fitsstream.go).
THEOREM CutsAlike == FitsSpec => []DecodesAlike
<1>1. ASSUME Decoding, done PROVE Decoded = DecodeFITS(payload, sent)
  <2>1. Consumed = sent /\ sent \in Nat /\ y \in Nat
    <3>1. buf = <<>> /\ sent \in Nat /\ y \in Nat /\ Len(<<>>) = 0
      BY <1>1 DEF Decoding, Typed
    <3>2. QED
      BY <3>1 DEF Consumed
  <2>2. CASE ~Sized
    <3>1. err /\ (scanFITSHeader(payload, sent) = 0 \/ ~Usable(payload))
      BY <1>1, <2>2 DEF Decoding, Collecting
    <3>2. QED
      BY <3>1 DEF Decoded, DecodeFITS
  <2>3. CASE Sized
    <3>1. /\ payload.simple /\ payload.end > 0 /\ Usable(payload) /\ Behind <= sent /\ y <= payload.h
          /\ err <=> y < payload.h
          /\ Allocates /\ Typed
      BY <1>1, <2>1, <2>3 DEF Decoding, Filling, Fitting
    <3>2. /\ payload.w \in Nat \ {0} /\ payload.h \in Nat \ {0} /\ payload.per \in Nat \ {0}
          /\ payload.end \in Nat /\ Block \in Nat \ {0} /\ Behind \in Nat /\ Stride \in Nat
      BY <3>1, RowsAre
    <3>3. scanFITSHeader(payload, sent) = Behind /\ Behind # 0
      BY <3>1, <3>2 DEF scanFITSHeader, Behind
    <3>4. sent - Behind \in Nat
      BY <2>1, <3>1, <3>2
    <3>5. PICK f \in Nat \ {0} : f = payload.w * payload.per
      <4>1. payload.w * payload.per \in Nat \ {0}
        BY <3>2
      <4>2. QED
        BY <4>1
    <3>6. Stride <= f
      <4>1. Stride = Wrap(f) /\ f \in Int /\ 0 <= f
        BY <3>5 DEF Stride
      <4>2. QED
        BY <4>1, WrapIs
    <3>7. ASSUME y > 0 PROVE Stride = f
      BY <1>1, <2>3, <3>5, <3>7 DEF Decoding, Fitting
    <3>8. Short(payload, sent - Behind) <=> sent - Behind < payload.h * f
      <4>1. Short(payload, sent - Behind) <=> sent - Behind < payload.h * (payload.w * payload.per)
        BY <3>2, <3>4, ShortIs
      <4>2. QED
        BY <3>5, <4>1
    <3>9. CASE err
      <4>1. sent = RowStart(y) + Len(row) /\ Len(row) \in Nat /\ Len(row) < f /\ y < payload.h
        <5>1. /\ sent = RowStart(y) + Len(row)
              /\ Len(row) < Stride \/ row = <<>>
              /\ Len(row) \in Nat /\ y < payload.h /\ Len(<<>>) = 0
          BY <1>1, <2>1, <2>3, <3>1, <3>9 DEF Decoding, Filling, Typed
        <5>2. Len(row) < f
          <6>1. CASE Len(row) < Stride
            BY <3>2, <3>6, <5>1, <6>1
          <6>2. CASE row = <<>>
            BY <5>1, <6>2
          <6>3. QED
            BY <5>1, <6>1, <6>2
        <5>3. QED
          BY <5>1, <5>2
      <4>2. PICK l \in Nat, h \in Nat : l = Len(row) /\ h = payload.h /\ y + 1 <= h
        BY <2>1, <3>2, <4>1
      <4>3. RowStart(y) = Behind + y * f
        <5>1. CASE y = 0
          <6>1. y * Stride = 0 /\ y * f = 0
            BY <3>2, <5>1
          <6>2. QED
            BY <6>1 DEF RowStart
        <5>2. CASE y > 0
          BY <3>7, <5>2 DEF RowStart
        <5>3. QED
          BY <2>1, <5>1, <5>2
      <4>4. sent - Behind = y * f + l /\ y * f \in Nat
        <5>1. PICK a \in Nat : a = y * f
          BY <2>1
        <5>2. QED
          BY <3>2, <4>1, <4>2, <4>3, <5>1
      <4>5. y * f + f <= h * f
        <5>1. y * f + f = (y + 1) * f
          BY <2>1
        <5>2. (y + 1) * f <= h * f
          BY <2>1, <4>2
        <5>3. QED
          BY <5>1, <5>2
      <4>6. Short(payload, sent - Behind)
        <5>1. PICK a \in Nat, c \in Nat : a = y * f /\ c = h * f
          BY <2>1
        <5>2. a + l < c
          BY <4>1, <4>2, <4>5, <5>1
        <5>3. QED
          BY <3>8, <4>2, <4>4, <5>1, <5>2
      <4>7. QED
        BY <3>3, <3>9, <4>6 DEF Decoded, DecodeFITS
    <3>10. CASE ~err
      <4>1. y = payload.h /\ Stride = f /\ Stride = payload.w * payload.per
        <5>1. y = payload.h
          <6>1. ~(y < payload.h) /\ y <= payload.h
            BY <3>1, <3>10
          <6>2. QED
            BY <2>1, <3>2, <6>1
        <5>2. y > 0
          BY <3>2, <5>1
        <5>3. Stride = f
          BY <3>7, <5>2
        <5>4. QED
          BY <3>5, <5>1, <5>3
      <4>2. ~Short(payload, sent - Behind)
        <5>1. Behind + payload.h * f <= sent
          BY <1>1, <2>1, <2>3, <3>2, <4>1 DEF Decoding, Filling, RowStart
        <5>2. PICK a \in Nat : a = payload.h * f
          BY <3>2
        <5>3. QED
          BY <2>1, <3>2, <3>8, <5>1, <5>2
      <4>3. ASSUME NEW r \in 0..(payload.h - 1)
            PROVE  pix[r] = convertFITSRow(Bytes(Behind + Place(r) * Stride, Stride), payload.per)
        <5>1. Place(r) \in 0..(payload.h - 1) /\ Place(Place(r)) = r
          BY <3>1, RowsAre
        <5>2. QED
          BY <1>1, <2>3, <4>1, <5>1 DEF Decoding, Filled, RowStart
      <4>4. pix = [r \in 0..(payload.h - 1) |->
                     convertFITSRow(Bytes(Behind + Place(r) * Stride, Stride), payload.per)]
        <5>1. pix = [r \in 0..(payload.h - 1) |-> pix[r]]
          BY <1>1, <2>3 DEF Decoding, Filled
        <5>2. QED
          BY <4>3, <5>1
      <4>5. DecodeFITS(payload, sent) =
              Frame(payload, [r \in 0..(payload.h - 1) |->
                                convertFITSRow(Bytes(Behind + Place(r) * Stride, Stride), payload.per)])
        BY <3>1, <3>3, <4>1, <4>2 DEF DecodeFITS, Place
      <4>6. QED
        BY <3>10, <4>4, <4>5 DEF Decoded
    <3>11. QED
      BY <3>9, <3>10
  <2>4. QED
    BY <2>2, <2>3
<1>2. FitsInv => DecodesAlike
  BY <1>1 DEF FitsInv, DecodesAlike
<1>3. QED
  BY <1>2, FitsInvariance, PTL

-----------------------------------------------------------------------------
(* What a frame shows *)

\* A sample of a row is read from its pixel's bytes.
LEMMA SampleIs ==
    ASSUME NEW f \in Nat, NEW w \in Nat \ {0}, NEW per \in Nat \ {0}, NEW x \in 1..w
    PROVE  convertFITSRow(Bytes(f, w * per), per)[x] = Bytes(f + (x - 1) * per, per)
<1>1. PICK n \in Nat, a \in Nat : n = w * per /\ a = (x - 1) * per
  <2>1. w * per \in Nat /\ x - 1 \in Nat
    OBVIOUS
  <2>2. (x - 1) * per \in Nat
    BY <2>1
  <2>3. QED
    BY <2>1, <2>2
<1>2. x * per = a + per /\ a + per <= n
  <2>1. x * per = (x - 1) * per + per
    OBVIOUS
  <2>2. x * per <= w * per
    OBVIOUS
  <2>3. QED
    BY <1>1, <2>1, <2>2
<1>3. n \div per = w
  <2>1. (w * per) \div per = w
    OBVIOUS
  <2>2. QED
    BY <1>1, <2>1
<1>4. Len(Bytes(f, n)) = n
  BY BytesAre
<1>5. SubSeq(Bytes(f, n), a + 1, a + per) = Bytes(f + (a + 1) - 1, (a + per) - (a + 1) + 1)
  <2>1. /\ a + 1 \in 1..(n + 1) /\ a + per \in ((a + 1) - 1)..n /\ f \in Int
    BY <1>1, <1>2
  <2>2. QED
    BY <1>1, <2>1, BytesSub
<1>6. f + (a + 1) - 1 = f + a /\ (a + per) - (a + 1) + 1 = per
  OBVIOUS
<1>7. convertFITSRow(Bytes(f, n), per) =
        [i \in 1..w |-> SubSeq(Bytes(f, n), (i - 1) * per + 1, i * per)]
  BY <1>3, <1>4 DEF convertFITSRow
<1>8. QED
  BY <1>1, <1>2, <1>5, <1>6, <1>7

\* Two integers have the same parity exactly if their difference is even.
LEMMA SameParity == \A u, v \in Int : u % 2 = v % 2 <=> (u - v) % 2 = 0
OBVIOUS

\* A row keeps its place in the Bayer pattern when the image is turned upside down, if the
\* phase is shifted exactly when the height is even (fitsMosaic, client/fits.go).
LEMMA FlippedParity ==
    \A h, r, v \in Int :
      r % 2 = (v + IF h % 2 = 0 THEN 1 ELSE 0) % 2 <=> (h - 1 - r - v) % 2 = 0
OBVIOUS

\* The fast conversion is the general one.
LEMMA FastIsGeneral ==
    ASSUME NEW u \in ADU
    PROVE  FlipTopBit(u) = General(2, Half, u)
BY FitsAssumption DEF FitsAssumption, ADU, FlipTopBit, General, Signed, clampADU

\* A value that encodeFITS wrote is read as it was.
LEMMA WrittenIsRead ==
    ASSUME NEW v \in ADU
    PROVE  /\ General(1, 0, v) = v
           /\ FlipTopBit(Unsigned(v - Half)) = v
<1>1. Half \in Nat \ {0}
  BY FitsAssumption DEF FitsAssumption
<1>2. General(1, 0, v) = v
  BY <1>1 DEF ADU, General, clampADU
<1>3. \A k \in Int, m \in Nat \ {0} :
        /\ 0 <= k /\ k < m => k % m = k
        /\ k < 0 /\ 0 <= k + m => k % m = k + m
  OBVIOUS
<1>4. Unsigned(v - Half) = IF v < Half THEN v + Half ELSE v - Half
  <2>1. v - Half \in Int /\ 2 * Half \in Nat \ {0}
    BY <1>1 DEF ADU
  <2>2. CASE v < Half
    <3>1. v - Half < 0 /\ 0 <= (v - Half) + 2 * Half /\ (v - Half) + 2 * Half = v + Half
      BY <1>1, <2>2 DEF ADU
    <3>2. QED
      BY <1>3, <2>1, <2>2, <3>1 DEF Unsigned
  <2>3. CASE ~(v < Half)
    <3>1. 0 <= v - Half /\ v - Half < 2 * Half
      BY <1>1, <2>3 DEF ADU
    <3>2. QED
      BY <1>3, <2>1, <2>3, <3>1 DEF Unsigned
  <2>4. QED
    BY <2>2, <2>3
<1>5. QED
  BY <1>1, <1>2, <1>4 DEF FlipTopBit, ADU

\* A decoded frame is the image that the payload holds, behind the row flip, the
\* subframe's offset and the sample conversion (Frame, fitsMosaic and convertFITSRow in
\* client/fits.go, encodeFITS in ccd/ccd.go).
THEOREM ShowsImage == FitsSpec => []FrameIsImage
<1>1. ASSUME Decoding, done, Decoded.ok PROVE RowsInPlace /\ RedIsRed /\ ValueKept
  <2>1. err \in BOOLEAN /\ payload \in Payloads /\ Typed
    BY <1>1 DEF Decoding, Typed
  <2>2. ~err /\ Decoded = Frame(payload, pix)
    BY <1>1, <2>1 DEF Decoded, NoFrame
  <2>3. Sized
    BY <1>1, <2>2 DEF Decoding, Collecting
  <2>4. Usable(payload) /\ y = payload.h /\ Allocates /\ Stride = payload.w * payload.per
    <3>1. /\ Usable(payload) /\ y <= payload.h /\ ~(y < payload.h) /\ y \in Nat /\ Allocates
          /\ y > 0 => Stride = payload.w * payload.per
      BY <1>1, <2>2, <2>3 DEF Decoding, Filling, Fitting, Typed
    <3>2. payload.h \in Nat \ {0}
      BY <2>1, <3>1, RowsAre
    <3>3. QED
      BY <3>1, <3>2
  <2>5. /\ payload.w \in Nat \ {0} /\ payload.h \in Nat \ {0} /\ payload.per \in Nat \ {0}
        /\ Behind \in Nat /\ \A r \in 0..(payload.h - 1) : Line(r) = Place(r) /\ Line(r) \in 0..(payload.h - 1)
    <3>1. \A r : Line(r) = Place(r)
      BY DEF Line, Place, bottomUp
    <3>2. QED
      BY <2>1, <2>4, <3>1, RowsAre
  <2>6. Decoded.pix = pix
    BY <2>2 DEF Frame
  <2>7. RowsInPlace
    <3>1. ASSUME NEW r \in 0..(payload.h - 1), NEW x \in 1..payload.w
          PROVE  pix[r][x] = Bytes(payload.end * Block + (Line(r) * payload.w + x - 1) * payload.per, payload.per)
      <4>1. PICK b \in Nat, w \in Nat \ {0}, d \in Nat \ {0}, l \in Nat :
              b = Behind /\ w = payload.w /\ d = payload.per /\ l = Line(r)
        BY <2>5
      <4>2. l \in 0..(payload.h - 1) /\ Place(l) = r /\ l = Place(r)
        BY <2>1, <2>4, <2>5, <4>1, RowsAre
      <4>3. pix[r] = convertFITSRow(Bytes(b + l * (w * d), w * d), d)
        BY <1>1, <2>3, <2>4, <4>1, <4>2 DEF Decoding, Filled, RowStart
      <4>4. b + l * (w * d) \in Nat
        OBVIOUS
      <4>5. pix[r][x] = Bytes((b + l * (w * d)) + (x - 1) * d, d)
        <5>1. PICK f \in Nat : f = b + l * (w * d)
          BY <4>4
        <5>2. x \in 1..w
          BY <4>1
        <5>3. convertFITSRow(Bytes(f, w * d), d)[x] = Bytes(f + (x - 1) * d, d)
          BY <5>2, SampleIs
        <5>4. QED
          BY <4>3, <5>1, <5>3
      <4>6. (b + l * (w * d)) + (x - 1) * d = b + (l * w + x - 1) * d
        <5>1. l * (w * d) = (l * w) * d
          OBVIOUS
        <5>2. PICK m \in Nat : m = l * w
          OBVIOUS
        <5>3. m * d + (x - 1) * d = (m + x - 1) * d
          BY <4>1
        <5>4. PICK q \in Int, s \in Int : q = m * d /\ s = (x - 1) * d
          BY <4>1
        <5>5. (b + q) + s = b + (q + s)
          OBVIOUS
        <5>6. QED
          BY <5>1, <5>2, <5>3, <5>4, <5>5
      <4>7. QED
        BY <4>1, <4>5, <4>6 DEF Behind
    <3>2. QED
      BY <2>6, <3>1 DEF RowsInPlace
  <2>8. RedIsRed
    <3>1. SUFFICES ASSUME Decoded.bayer # Mono, NEW r \in 0..(payload.h - 1), NEW x \in 0..(payload.w - 1)
          PROVE  (x % 2 = Decoded.bayer[1] /\ r % 2 = Decoded.bayer[2]) <=>
                   /\ (x - bayerPhase[payload.bayer][1] - payload.xoff) % 2 = 0
                   /\ (Line(r) - bayerPhase[payload.bayer][2] - payload.yoff) % 2 = 0
      BY DEF RedIsRed
    <3>2. payload.bayer \in DOMAIN bayerPhase /\ Decoded.bayer = fitsMosaic(payload)
      BY <2>2, <3>1 DEF Frame
    <3>3. PICK a \in Int, b \in Int : a = bayerPhase[payload.bayer][1] /\ b = bayerPhase[payload.bayer][2]
      BY <3>2 DEF bayerPhase
    <3>4. PICK u \in Int, v \in Int : u = payload.xoff /\ v = payload.yoff
      BY <2>1, FitsAssumption, MachineIs DEF FitsAssumption, Header
    <3>5. /\ Decoded.bayer[1] = (a + u) % 2
          /\ Decoded.bayer[2] = (b + v + IF bottomUp(payload) /\ payload.h % 2 = 0 THEN 1 ELSE 0) % 2
      BY <3>2, <3>3, <3>4 DEF fitsMosaic
    <3>6. x % 2 = (a + u) % 2 <=> (x - a - u) % 2 = 0
      <4>1. x \in Int /\ a + u \in Int /\ x - (a + u) = x - a - u
        BY <2>5
      <4>2. QED
        BY <4>1, SameParity
    <3>7. r % 2 = Decoded.bayer[2] <=> (Line(r) - b - v) % 2 = 0
      <4>1. r \in Int /\ b + v \in Int /\ payload.h \in Int /\ r - (b + v) = r - b - v
            /\ payload.h - 1 - r - (b + v) = payload.h - 1 - r - b - v
        BY <2>5
      <4>2. CASE bottomUp(payload)
        <5>1. Line(r) = payload.h - 1 - r
          BY <4>2 DEF Line, bottomUp
        <5>2. Decoded.bayer[2] = ((b + v) + IF payload.h % 2 = 0 THEN 1 ELSE 0) % 2
          BY <3>5, <4>2
        <5>3. QED
          BY <4>1, <5>1, <5>2, FlippedParity
      <4>3. CASE ~bottomUp(payload)
        <5>1. Line(r) = r
          BY <4>3 DEF Line, bottomUp
        <5>2. Decoded.bayer[2] = (b + v) % 2
          BY <3>5, <4>1, <4>3
        <5>3. QED
          BY <4>1, <5>1, <5>2, SameParity
      <4>4. QED
        BY <4>2, <4>3
    <3>8. QED
      BY <3>3, <3>4, <3>5, <3>6, <3>7
  <2>9. ValueKept
    <3>1. payload.raw \in ADU
      BY <2>1, FitsAssumption DEF FitsAssumption, Header
    <3>2. convertSample(payload.per, payload.bzero, payload.raw) = General(payload.per, payload.bzero, payload.raw)
      BY <3>1, FastIsGeneral DEF convertSample
    <3>3. ASSUME payload.camera \in ADU
          PROVE  convertSample(payload.per, payload.bzero, payload.raw) = payload.camera
      <4>1. PICK bits \in {8, 16} : payload = encodeFITS(payload.w, payload.h, bits, payload.camera)
        BY <2>1, <3>3, FitsAssumption DEF FitsAssumption
      <4>2. /\ payload.per = IF bits <= 8 THEN 1 ELSE 2
            /\ payload.bzero = IF bits <= 8 THEN 0 ELSE Half
            /\ payload.raw = Stored(bits, payload.camera)
        BY <4>1 DEF encodeFITS
      <4>3. CASE bits = 8
        BY <3>3, <4>2, <4>3, WrittenIsRead DEF Stored, convertSample
      <4>4. CASE bits = 16
        BY <3>3, <4>2, <4>4, WrittenIsRead DEF Stored, convertSample
      <4>5. QED
        BY <4>3, <4>4
    <3>4. QED
      BY <3>2, <3>3 DEF ValueKept
  <2>10. QED
    BY <2>7, <2>8, <2>9
<1>2. FitsInv => FrameIsImage
  BY <1>1 DEF FitsInv, FrameIsImage
<1>3. QED
  BY <1>2, FitsInvariance, PTL
=============================================================================
