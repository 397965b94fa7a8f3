---------------------------- MODULE MountProofs ----------------------------
(***************************************************************************)
(* Proofs about the mount adapter, for any number of clients, gotos and    *)
(* pulses, and any positions.                                              *)
(***************************************************************************)
EXTENDS MountProperties, TLAPS

-----------------------------------------------------------------------------
(* The invariant behind GotoPaired *)

Pair(pos) == pos = <<pos[1], pos[2]>>
Holds(g)  == gpc[g] \in {"ra", "dec", "act"}

Shape ==
    /\ DOMAIN gpc = Goto /\ DOMAIN request = Goto
    /\ Pair(slot) /\ \A g \in Goto : Pair(request[g])

\* A goto is between its first and its last command to the mount while it holds the lock.
OneHolds == \A g \in Goto : Holds(g) <=> oplock = g

\* It has set what the registers hold.
Registers ==
    \A g \in Goto : /\ gpc[g] = "dec" => slot[1] = request[g][1]
                    /\ gpc[g] = "act" => slot = request[g]

\* What the mount went to is the request of a goto that was accepted.
Accepted == \A pos \in went : \E g \in Goto : gpc[g] # "none" /\ request[g] = pos

IInv == Shape /\ (OpLocker => OneHolds /\ Registers /\ Accepted)

-----------------------------------------------------------------------------
(* The steps keep it *)

\* A goto's number is not that of a free lock.
LEMMA GotoNotFree == Free \notin Goto
BY MountAssumption DEF MountAssumption, Free, Goto

\* No goto has begun.
LEMMA InitIInv == Init => IInv
<1> SUFFICES ASSUME Init PROVE IInv
  OBVIOUS
<1>1. Shape
  BY DEF Init, Shape, Pair, Nowhere
<1>2. OneHolds
  BY GotoNotFree DEF Init, OneHolds, Holds
<1>3. Registers /\ Accepted
  BY DEF Init, Registers, Accepted
<1>4. QED
  BY <1>1, <1>2, <1>3 DEF IInv

\* A goto that is accepted has a request and no lock yet.
LEMMA AcceptedKeeps == ASSUME IInv, NEW c \in Client, handleEq(c) PROVE IInv'
<1>1. PICK g \in Goto, pos \in Position :
         /\ gpc[g] = "none" /\ gpc' = [gpc EXCEPT ![g] = "begin"]
         /\ request' = [request EXCEPT ![g] = pos]
         /\ UNCHANGED <<slot, oplock, went>>
  BY DEF handleEq, mountVars, history
<1>2. Pair(pos)
  BY MountAssumption DEF MountAssumption, Pair
<1>3. /\ gpc'[g] = "begin" /\ request'[g] = pos
      /\ \A h \in Goto \ {g} : gpc'[h] = gpc[h] /\ request'[h] = request[h]
  BY <1>1 DEF IInv, Shape
<1>4. Shape'
  BY <1>1, <1>2, <1>3 DEF IInv, Shape
<1>5. ASSUME OpLocker PROVE OneHolds' /\ Registers' /\ Accepted'
  <2>1. OneHolds'
    BY <1>1, <1>3, <1>5 DEF IInv, OneHolds, Holds
  <2>2. Registers'
    BY <1>1, <1>3, <1>5 DEF IInv, Registers
  <2>3. Accepted'
    BY <1>1, <1>3, <1>5 DEF IInv, Accepted
  <2>4. QED
    BY <2>1, <2>2, <2>3
<1>6. QED
  BY <1>4, <1>5 DEF IInv

\* A goto's own steps: it takes the lock, sets both registers, acts and unlocks.
LEMMA GoingKeeps == ASSUME IInv, NEW g \in Goto, Going(g) PROVE IInv'
<1>1. /\ DOMAIN gpc = Goto /\ \A h \in Goto : Pair(request[h])
      /\ request' = request
  BY DEF IInv, Shape, Going, Begin, SetTargetRA, SetTargetDec, Act, Refused, Report, gotoVars
<1>2. ASSUME NEW l, Step(g, l)
      PROVE  DOMAIN gpc' = Goto /\ gpc'[g] = l /\ \A h \in Goto \ {g} : gpc'[h] = gpc[h]
  BY <1>1, <1>2 DEF Step
<1>3. CASE Begin(g)
  <2>1. /\ gpc[g] = "begin" /\ gpc'[g] = "ra" /\ (OpLocker => oplock = Free /\ oplock' = g)
        /\ UNCHANGED <<slot, went>> /\ DOMAIN gpc' = Goto
        /\ \A h \in Goto \ {g} : gpc'[h] = gpc[h]
    BY <1>2, <1>3 DEF Begin, withOp, history
  <2>2. OpLocker => OneHolds'
    BY <2>1, GotoNotFree DEF IInv, OneHolds, Holds
  <2>3. OpLocker => Registers' /\ Accepted'
    BY <1>1, <2>1 DEF IInv, Registers, Accepted
  <2>4. QED
    BY <1>1, <2>1, <2>2, <2>3 DEF IInv, Shape
<1>4. CASE SetTargetRA(g)
  <2>1. /\ gpc[g] = "ra" /\ gpc'[g] = "dec" /\ slot' = <<request[g][1], slot[2]>>
        /\ UNCHANGED <<oplock, went>> /\ DOMAIN gpc' = Goto
        /\ \A h \in Goto \ {g} : gpc'[h] = gpc[h]
    BY <1>2, <1>4 DEF SetTargetRA, history
  <2>2. OpLocker => OneHolds'
    BY <2>1 DEF IInv, OneHolds, Holds
  <2>3. OpLocker => \A h \in Goto \ {g} : ~Holds(h)
    BY <2>1 DEF IInv, OneHolds, Holds
  <2>4. OpLocker => Registers'
    BY <1>1, <2>1, <2>3 DEF Registers, Holds
  <2>5. OpLocker => Accepted'
    BY <1>1, <2>1 DEF IInv, Accepted
  <2>6. Pair(slot)'
    BY <2>1 DEF Pair
  <2>7. QED
    BY <1>1, <2>1, <2>2, <2>4, <2>5, <2>6 DEF IInv, Shape
<1>5. CASE SetTargetDec(g)
  <2>1. /\ gpc[g] = "dec" /\ gpc'[g] = "act" /\ slot' = <<slot[1], request[g][2]>>
        /\ UNCHANGED <<oplock, went>> /\ DOMAIN gpc' = Goto
        /\ \A h \in Goto \ {g} : gpc'[h] = gpc[h]
    BY <1>2, <1>5 DEF SetTargetDec, history
  <2>2. OpLocker => OneHolds'
    BY <2>1 DEF IInv, OneHolds, Holds
  <2>3. OpLocker => \A h \in Goto \ {g} : ~Holds(h)
    BY <2>1 DEF IInv, OneHolds, Holds
  <2>4. OpLocker => slot' = request[g]
    <3>1. OpLocker => slot[1] = request[g][1]
      BY <2>1 DEF IInv, Registers
    <3>2. QED
      BY <1>1, <2>1, <3>1 DEF Pair
  <2>5. OpLocker => Registers'
    BY <1>1, <2>1, <2>3, <2>4 DEF Registers, Holds
  <2>6. OpLocker => Accepted'
    BY <1>1, <2>1 DEF IInv, Accepted
  <2>7. Pair(slot)'
    BY <2>1 DEF Pair
  <2>8. QED
    BY <1>1, <2>1, <2>2, <2>5, <2>6, <2>7 DEF IInv, Shape
<1>6. CASE Act(g)
  <2>1. /\ gpc[g] = "act" /\ gpc'[g] = "acted" /\ went' = went \cup {slot} /\ slot' = slot
        /\ Unlock(g) /\ DOMAIN gpc' = Goto /\ \A h \in Goto \ {g} : gpc'[h] = gpc[h]
    BY <1>2, <1>6 DEF Act
  <2>2. OpLocker => OneHolds'
    BY <2>1, GotoNotFree DEF IInv, OneHolds, Holds, Unlock
  <2>3. OpLocker => Registers'
    BY <1>1, <2>1 DEF IInv, Registers
  <2>4. OpLocker => Accepted'
    <3>1. OpLocker => slot = request[g]
      BY <2>1 DEF IInv, Registers
    <3>2. QED
      BY <1>1, <2>1, <3>1 DEF IInv, Accepted
  <2>5. QED
    BY <1>1, <2>1, <2>2, <2>3, <2>4 DEF IInv, Shape
<1>7. CASE Refused(g)
  <2>1. /\ Holds(g) /\ gpc'[g] = "refused" /\ Unlock(g) /\ UNCHANGED <<slot, went>>
        /\ DOMAIN gpc' = Goto /\ \A h \in Goto \ {g} : gpc'[h] = gpc[h]
    BY <1>2, <1>7 DEF Refused, history, Holds
  <2>2. OpLocker => OneHolds'
    BY <2>1, GotoNotFree DEF IInv, OneHolds, Holds, Unlock
  <2>3. OpLocker => Registers' /\ Accepted'
    BY <1>1, <2>1 DEF IInv, Registers, Accepted
  <2>4. QED
    BY <1>1, <2>1, <2>2, <2>3 DEF IInv, Shape
<1>8. CASE Report(g)
  <2>1. /\ gpc[g] \in {"acted", "refused"} /\ gpc'[g] = "done" /\ UNCHANGED <<slot, oplock, went>>
        /\ DOMAIN gpc' = Goto /\ \A h \in Goto \ {g} : gpc'[h] = gpc[h]
    BY <1>2, <1>8 DEF Report, mountVars, history
  <2>2. OpLocker => OneHolds'
    BY <2>1 DEF IInv, OneHolds, Holds
  <2>3. OpLocker => Registers' /\ Accepted'
    BY <1>1, <2>1 DEF IInv, Registers, Accepted
  <2>4. QED
    BY <1>1, <2>1, <2>2, <2>3 DEF IInv, Shape
<1>9. QED
  BY <1>3, <1>4, <1>5, <1>6, <1>7, <1>8 DEF Going

\* Nothing else touches the lock, the registers or a goto's progress: a halt least of all.
LEMMA OthersKeep ==
    ASSUME IInv, UNCHANGED <<slot, oplock, gpc, request, went>> PROVE IInv'
BY DEF IInv, Shape, OneHolds, Holds, Registers, Accepted, Pair

\* The invariant holds for ever.
LEMMA Invariance == Spec => []IInv
<1>1. IInv /\ [Next]_vars => IInv'
  <2> SUFFICES ASSUME IInv, [Next]_vars PROVE IInv'
    OBVIOUS
  <2> DEFINE Others == UNCHANGED <<slot, oplock, gpc, request, went>>
  <2>1. Arrive \/ Cancel \/ (\E p \in Pulse : PulseEnds(p) \/ TimerFires(p) \/ TimerStops(p)) => Others
    BY DEF Arrive, Cancel, PulseEnds, TimerFires, TimerStops, gotoVars, mountVars, history
  <2>2. ASSUME NEW c \in Client, HandleNew(c) PROVE handleEq(c) \/ Others
    BY <2>2 DEF HandleNew, Reject, handleAbort, handleGuide, NoPulse, Connect, Disconnect,
                mountVars, gotoVars, history
  <2>3. ASSUME NEW c \in Client, Session(c) PROVE Others
    BY <2>3 DEF Session, RefreshDualAxis, Define, ClearDualAxis, Delete, mountVars, gotoVars, history
  <2>4. Polling => Others
    BY DEF Polling, PollBegins, PollSkips, PollReads, PollPublishes, PollEnds, mountVars, gotoVars,
           history
  <2>5. UNCHANGED vars => Others
    BY DEF vars, mountVars, gotoVars, history
  <2> HIDE DEF Others
  <2>6. Others => IInv'
    BY OthersKeep DEF Others
  <2>7. QED
    BY <2>1, <2>2, <2>3, <2>4, <2>5, <2>6, AcceptedKeeps, GoingKeeps DEF Next
<1>2. QED
  BY <1>1, InitIInv, PTL DEF Spec

\* However many gotos run at once, and whatever halts, polls and pulses do meanwhile, a
\* mount with an OpLock only goes where some client asked it to: withOp (mount/mount.go)
\* holds the lock from the first target register that is set to the slew.
THEOREM NeverMixed == Spec => []GotoPaired
<1>1. IInv => GotoPaired
  BY DEF IInv, Accepted, GotoPaired
<1>2. QED
  BY <1>1, Invariance, PTL

-----------------------------------------------------------------------------
(* DUAL_AXIS_TRACKING *)

\* Where a handler is.  A CONNECT that has met no DISCONNECT is alone with others of its
\* kind, and before it defines the property has had the capability set.
Handling ==
    /\ cap \in BOOLEAN /\ defined \in BOOLEAN /\ crossed \in BOOLEAN
    /\ DOMAIN pc = Client /\ met \subseteq Client
    /\ \A c \in Client : pc[c] \in {"idle", "capable", "define", "clear", "delete"}
    /\ \A c \in Connecting \ met : Disconnecting = {} /\ (pc[c] = "define" => cap)

\* Unless two have crossed, the handlers under way are of one kind, and have still to tell
\* the clients what the capability has become.
Telling ==
    ~crossed =>
      /\ Connecting = {} \/ Disconnecting = {}
      /\ IF \E c \in Client : pc[c] = "define" THEN cap
         ELSE IF \E c \in Client : pc[c] = "delete" THEN ~cap
         ELSE defined <=> cap

CapsInv == Handling /\ Telling

\* A mount starts with the property defined exactly if it is capable.
LEMMA InitCaps == Init => CapsInv
BY MountAssumption DEF MountAssumption, Init, CapsInv, Handling, Telling, Connecting, Disconnecting

\* refreshDualAxis and clearDualAxis (mount/mount.go) keep the invariant, whatever other
\* handlers are in the middle of them.
LEMMA SessionKeeps ==
    ASSUME CapsInv, NEW c \in Client, Connect(c) \/ Disconnect(c) \/ Session(c) PROVE CapsInv'
<1>1. CASE Connect(c)
  <2>1. CASE DualAxis
    <3>1. /\ pc[c] = "idle" /\ UNCHANGED <<cap, defined>> /\ pc' = [pc EXCEPT ![c] = "capable"]
          /\ met' = IF Disconnecting = {} THEN met \ {c} ELSE met \cup {c}
          /\ crossed' = (crossed \/ Disconnecting # {})
      BY <1>1, <2>1 DEF Connect, Receive, At
    <3>2. Connecting' = Connecting \cup {c} /\ Disconnecting' = Disconnecting
      BY <3>1 DEF CapsInv, Handling, Connecting, Disconnecting
    <3>3. Handling'
      BY <3>1, <3>2 DEF CapsInv, Handling, Connecting
    <3>4. Telling'
      BY <3>1, <3>2 DEF CapsInv, Handling, Telling
    <3>5. QED
      BY <3>3, <3>4 DEF CapsInv
  <2>2. CASE ~DualAxis
    BY <1>1, <2>2 DEF Connect, CapsInv, Handling, Telling, Connecting, Disconnecting
  <2>3. QED
    BY <2>1, <2>2
<1>2. CASE Disconnect(c)
  <2>1. /\ pc[c] = "idle" /\ UNCHANGED <<cap, defined>> /\ pc' = [pc EXCEPT ![c] = "clear"]
        /\ met' = met \cup Connecting /\ crossed' = (crossed \/ Connecting # {})
    BY <1>2 DEF Disconnect, Receive, At
  <2>2. Connecting' = Connecting /\ Disconnecting' = Disconnecting \cup {c}
    BY <2>1 DEF CapsInv, Handling, Connecting, Disconnecting
  <2>3. Handling'
    BY <2>1, <2>2 DEF CapsInv, Handling, Connecting
  <2>4. Telling'
    BY <2>1, <2>2 DEF CapsInv, Handling, Telling
  <2>5. QED
    BY <2>3, <2>4 DEF CapsInv
<1>3. CASE RefreshDualAxis(c)
  <2>1. /\ pc[c] = "capable" /\ cap' = TRUE /\ pc' = [pc EXCEPT ![c] = "define"]
        /\ UNCHANGED <<defined, met, crossed>>
    BY <1>3 DEF RefreshDualAxis, At
  <2>2. Connecting' = Connecting /\ Disconnecting' = Disconnecting /\ c \in Connecting
    BY <2>1 DEF CapsInv, Handling, Connecting, Disconnecting
  <2>3. Handling'
    BY <2>1, <2>2 DEF CapsInv, Handling, Connecting
  <2>4. Telling'
    BY <2>1, <2>2 DEF CapsInv, Handling, Telling
  <2>5. QED
    BY <2>3, <2>4 DEF CapsInv
<1>4. CASE Define(c)
  <2>1. /\ pc[c] = "define" /\ defined' = TRUE /\ pc' = [pc EXCEPT ![c] = "idle"]
        /\ crossed' = (crossed /\ c \in met) /\ UNCHANGED <<cap, met>>
    BY <1>4 DEF Define, At
  <2>2. /\ c \in Connecting /\ Connecting' = Connecting \ {c} /\ Disconnecting' = Disconnecting
        /\ \A d \in Client \ {c} : pc'[d] = pc[d]
        /\ pc'[c] = "idle"
    BY <2>1 DEF CapsInv, Handling, Connecting, Disconnecting
  <2>3. Handling'
    BY <2>1, <2>2 DEF CapsInv, Handling, Connecting
  <2>4. ~crossed' => Disconnecting = {} /\ cap
    <3>1. ~crossed => Disconnecting = {} /\ cap
      BY <2>1, <2>2 DEF CapsInv, Telling
    <3>2. c \notin met => Disconnecting = {} /\ cap
      BY <2>1, <2>2 DEF CapsInv, Handling
    <3>3. QED
      BY <2>1, <3>1, <3>2
  <2>5. Disconnecting = {} => \A d \in Client : pc'[d] # "delete"
    BY <2>2 DEF Disconnecting
  <2>6. Telling'
    BY <2>1, <2>2, <2>4, <2>5 DEF Telling
  <2>7. QED
    BY <2>3, <2>6 DEF CapsInv
<1>5. CASE ClearDualAxis(c)
  <2>1. /\ pc[c] = "clear" /\ cap' = FALSE /\ UNCHANGED <<defined, met, crossed>>
        /\ pc' = [pc EXCEPT ![c] = IF cap THEN "delete" ELSE "idle"]
    BY <1>5 DEF ClearDualAxis, Cleared, At
  <2>2. /\ c \in Disconnecting /\ Connecting' = Connecting /\ Disconnecting' \subseteq Disconnecting
        /\ \A d \in Client \ {c} : pc'[d] = pc[d]
        /\ pc'[c] = IF cap THEN "delete" ELSE "idle"
    BY <2>1 DEF CapsInv, Handling, Connecting, Disconnecting
  <2>3. Handling'
    BY <2>1, <2>2 DEF CapsInv, Handling, Connecting
  <2>4. Telling'
    <3>1. SUFFICES ASSUME ~crossed, Connecting = {} PROVE Telling'
      BY <2>1, <2>2 DEF CapsInv, Telling
    <3>2. \A d \in Client : pc[d] # "define" /\ pc'[d] # "define"
      BY <2>2, <3>1 DEF Connecting
    <3>3. CASE cap
      BY <2>1, <2>2, <3>1, <3>2, <3>3 DEF Telling
    <3>4. CASE ~cap
      BY <2>1, <2>2, <3>1, <3>2, <3>4 DEF CapsInv, Handling, Telling
    <3>5. QED
      BY <3>3, <3>4
  <2>5. QED
    BY <2>3, <2>4 DEF CapsInv
<1>6. CASE Delete(c)
  <2>1. /\ pc[c] = "delete" /\ defined' = FALSE /\ pc' = [pc EXCEPT ![c] = "idle"]
        /\ UNCHANGED <<cap, met, crossed>>
    BY <1>6 DEF Delete, At
  <2>2. /\ c \in Disconnecting /\ Connecting' = Connecting /\ Disconnecting' \subseteq Disconnecting
        /\ \A d \in Client \ {c} : pc'[d] = pc[d]
        /\ pc'[c] = "idle"
    BY <2>1 DEF CapsInv, Handling, Connecting, Disconnecting
  <2>3. Handling'
    BY <2>1, <2>2 DEF CapsInv, Handling, Connecting
  <2>4. Telling'
    <3>1. SUFFICES ASSUME ~crossed, Connecting = {} PROVE Telling'
      BY <2>1, <2>2 DEF CapsInv, Telling
    <3>2. \A d \in Client : pc[d] # "define" /\ pc'[d] # "define"
      BY <2>2, <3>1 DEF Connecting
    <3>3. ~cap
      BY <2>1, <3>1, <3>2 DEF CapsInv, Telling
    <3>4. QED
      BY <2>1, <2>2, <3>1, <3>2, <3>3 DEF Telling
  <2>5. QED
    BY <2>3, <2>4 DEF CapsInv
<1>7. QED
  BY <1>1, <1>2, <1>3, <1>4, <1>5, <1>6 DEF Session

\* However many clients connect and disconnect the mount at once, they have been sent the
\* definition of DUAL_AXIS_TRACKING exactly if Properties() lists it, when no CONNECTION
\* command is being handled, unless a DISCONNECT was handled during a CONNECT and no
\* CONNECT has met none since (refreshDualAxis and clearDualAxis, mount/mount.go).
THEOREM UncrossedAgrees == Spec => []CapsAgreeUncrossed
<1>1. CapsInv /\ [Next]_vars => CapsInv'
  <2> SUFFICES ASSUME CapsInv, [Next]_vars PROVE CapsInv'
    OBVIOUS
  <2> DEFINE Same == UNCHANGED <<cap, defined, met, crossed, pc>>
  <2>1. Arrive \/ Cancel \/ (\E p \in Pulse : PulseEnds(p) \/ TimerFires(p) \/ TimerStops(p)) => Same
    BY DEF Arrive, Cancel, PulseEnds, TimerFires, TimerStops, sessionVars
  <2>2. Polling => Same
    BY DEF Polling, PollBegins, PollSkips, PollReads, PollPublishes, PollEnds, sessionVars
  <2>3. ASSUME NEW g \in Goto, Going(g) PROVE Same
    BY <2>3 DEF Going, Begin, SetTargetRA, SetTargetDec, Act, Refused, Report, sessionVars
  <2>4. ASSUME NEW c \in Client, Reject(c) \/ handleEq(c) \/ handleAbort(c) \/ handleGuide(c) \/ NoPulse(c)
        PROVE  Same
    BY <2>4 DEF Reject, handleEq, handleAbort, handleGuide, NoPulse, sessionVars
  <2>5. UNCHANGED vars => Same
    BY DEF vars, sessionVars
  <2>6. Same => CapsInv'
    BY DEF CapsInv, Handling, Telling, Connecting, Disconnecting
  <2> HIDE DEF Same
  <2>7. ASSUME NEW c \in Client, HandleNew(c) \/ Session(c) PROVE CapsInv'
    BY <2>4, <2>6, <2>7, SessionKeeps DEF HandleNew
  <2>8. QED
    BY <2>1, <2>2, <2>3, <2>5, <2>6, <2>7 DEF Next
<1>2. CapsInv => CapsAgreeUncrossed
  BY DEF CapsInv, Telling, CapsAgreeUncrossed, CapsAgree, Quiet
<1>3. QED
  BY <1>1, <1>2, InitCaps, PTL DEF Spec
=============================================================================
