---------------------------- MODULE ClientProofs ----------------------------
(***************************************************************************)
(* Proofs about the client, for any number of waiters, devices and         *)
(* properties and any sequence of elements.                                *)
(***************************************************************************)
EXTENDS ClientProperties, FiniteSetTheorems, SequenceTheorems, TLAPS

-----------------------------------------------------------------------------
(* The inductive invariant *)

Shape ==
    /\ gen \in Nat /\ received \in Nat
    /\ props \in [Prop -> Entry]
    /\ pc \in [Waiter -> {"idle", "send", "look", "select", "poll", "dead?", "tick"}]
    /\ op \in [Waiter -> Ops \cup {"none"}]
    /\ target \in [Waiter -> Prop]
    /\ want \in [Waiter -> (SUBSET States) \cup {Acked}]
    /\ since \in [Waiter -> Nat]
    /\ began \in [Waiter -> Nat]
    /\ ch \in [Waiter -> Nat]
    /\ snap \in [Waiter -> Entry]
    /\ result \in [Waiter -> States \cup Outcome]

\* What a variable remembers lies in the past: a captured channel, the element that
\* wrote a property, the moment a call recorded a Rev.
Past ==
    /\ \A w \in Waiter : ch[w] <= gen /\ began[w] <= received
    /\ \A p \in Prop : props[p].at <= received

\* The connection is dead from the moment the read loop gives up.
Dead == closed \in BOOLEAN /\ (closed <=> reader # "reading")

\* A call that has not returned has no result.
Unanswered == \A w \in Waiter : pc[w] # "idle" => result[w] = "none"

\* A setAndWait that has recorded a Rev counts exactly what arrived afterwards: a
\* property that nothing has written since has not passed the recorded Rev.
Pending(w) == op[w] = "SetAndWait" /\ pc[w] \in {"send", "look", "select"}
Recording ==
    \A w \in Waiter : Pending(w) =>
        /\ want[w] = Acked
        /\ props[target[w]].at <= began[w] => props[target[w]].rev <= since[w]

IInv == Shape /\ Past /\ Dead /\ Unanswered /\ Recording
          /\ BlockedIsCurrent /\ DownIsFinal /\ FreshAck

-----------------------------------------------------------------------------
\* The zero Property is an Entry.
LEMMA AbsentIsEntry == Absent \in Entry
BY DEF Absent, Entry

\* The client starts in the invariant.
LEMMA InitIInv == Init => IInv
<1> SUFFICES ASSUME Init PROVE IInv
  OBVIOUS
<1>1. PICK d \in Device, n \in Name : TRUE
  BY ClientAssumption DEF ClientAssumption
<1>2. (CHOOSE p \in Prop : TRUE) \in Prop
  <2>1. <<d, n>> \in Prop
    BY DEF Prop
  <2>2. QED
    BY <2>1
<1>3. Shape
  BY <1>2, AbsentIsEntry DEF Init, Shape, Outcome
<1>4. Past /\ Dead /\ Unanswered /\ Recording
  <2>1. \A p \in Prop : props[p] = Absent
    BY DEF Init
  <2>2. Past
    BY <2>1 DEF Init, Past, Absent
  <2>3. Dead
    BY DEF Init, Dead
  <2>4. Unanswered /\ Recording
    BY DEF Init, Unanswered, Recording, Pending
  <2>5. QED
    BY <2>2, <2>3, <2>4
<1>5. BlockedIsCurrent /\ DownIsFinal /\ FreshAck
  BY DEF Init, BlockedIsCurrent, DownIsFinal, FreshAck, Acked
<1>6. QED
  BY <1>3, <1>4, <1>5 DEF IInv

-----------------------------------------------------------------------------
(* What the read loop may do to a store that others wait on *)

\* A step that leaves the waiters alone, announces every change of the store or of
\* the connection through c.updated, and writes only what it has just received.
Announced ==
    /\ UNCHANGED <<argVars, waitVars>>
    /\ received' \in Nat /\ received <= received'
    /\ gen' = gen \/ gen' = gen + 1
    /\ gen' = gen => props' = props /\ closed' = closed
    /\ Dead' /\ (closed => closed' /\ props' = props)
    /\ props' \in [Prop -> Entry]
    /\ \A p \in Prop : \/ props'[p] = props[p]
                       \/ props'[p] = Absent
                       \/ props'[p].at = received' /\ received < received'

\* Such a step preserves the invariant.
LEMMA AnnouncedStep == ASSUME IInv, Announced PROVE IInv'
<1> USE DEF argVars, waitVars
<1>1. Shape'
  BY DEF IInv, Announced, Shape
<1>2. Past'
  <2>1. gen \in Nat /\ received \in Nat /\ ch \in [Waiter -> Nat] /\ began \in [Waiter -> Nat]
    BY DEF IInv, Shape
  <2>2. \A w \in Waiter : ch'[w] <= gen' /\ began'[w] <= received'
    BY <2>1 DEF IInv, Past, Announced
  <2>3. \A p \in Prop : props'[p].at <= received'
    <3> TAKE p \in Prop
    <3>1. CASE props'[p] = props[p]
      <4>1. props[p].at \in Nat /\ props[p].at <= received
        BY DEF IInv, Shape, Entry, Past
      <4>2. QED
        BY <2>1, <3>1, <4>1 DEF Announced
    <3>2. CASE props'[p] = Absent
      BY <3>2 DEF Announced, Absent
    <3>3. CASE props'[p].at = received'
      BY <3>3 DEF Announced
    <3>4. QED
      BY <3>1, <3>2, <3>3 DEF Announced
  <2>4. QED
    BY <2>2, <2>3 DEF Past
<1>3. Dead' /\ Unanswered'
  BY DEF IInv, Announced, Unanswered
<1>4. Recording'
  <2> SUFFICES ASSUME NEW w \in Waiter, Pending(w)'
               PROVE  /\ want'[w] = Acked
                      /\ props'[target'[w]].at <= began'[w]
                            => props'[target'[w]].rev <= since'[w]
    BY DEF Recording
  <2> DEFINE p == target[w]
  <2>1. /\ p \in Prop /\ began[w] \in Nat /\ since[w] \in Nat /\ received \in Nat
        /\ began[w] <= received
    BY DEF IInv, Shape, Past
  <2>2. Pending(w)
    BY DEF Announced, Pending
  <2>3. want[w] = Acked /\ (props[p].at <= began[w] => props[p].rev <= since[w])
    BY <2>2 DEF IInv, Recording
  <2>4. CASE props'[p] = props[p]
    BY <2>3, <2>4 DEF Announced
  <2>5. CASE props'[p] = Absent
    BY <2>1, <2>3, <2>5 DEF Announced, Absent
  <2>6. CASE props'[p].at = received' /\ received < received'
    BY <2>1, <2>3, <2>6 DEF Announced
  <2>7. QED
    BY <2>1, <2>4, <2>5, <2>6 DEF Announced
<1>5. BlockedIsCurrent'
  <2> SUFFICES ASSUME NEW w \in Waiter, pc'[w] = "select", ch'[w] = gen'
               PROVE  /\ snap'[w] = props'[target'[w]]
                      /\ ~Meets(w, snap[w])'
                      /\ ~closed'
    BY DEF BlockedIsCurrent
  <2>1. ch[w] <= gen /\ ch[w] \in Nat /\ gen \in Nat
    BY DEF IInv, Shape, Past
  <2>2. gen' = gen
    BY <2>1 DEF Announced
  <2>3. QED
    BY <2>2 DEF Announced, IInv, BlockedIsCurrent, Meets
<1>6. DownIsFinal'
  BY DEF Announced, IInv, DownIsFinal, Meets
<1>7. FreshAck'
  BY DEF Announced, IInv, FreshAck
<1>8. QED
  BY <1>1, <1>2, <1>3, <1>4, <1>5, <1>6, <1>7 DEF IInv

\* What the elements write is an Entry.
LEMMA Written ==
    ASSUME IInv, NEW p \in Prop
    PROVE  /\ \A s \in States : Defined(p, s) \in Entry
           /\ \A s \in States \cup {NoState} :
                [rev |-> props[p].rev + 1, at |-> Newest,
                 state |-> IF s = NoState THEN props[p].state ELSE s] \in Entry
           /\ \A s : Defined(p, s).at = Newest
           /\ Newest \in Nat /\ received < Newest
<1>1. props[p] \in Entry /\ received \in Nat
  BY DEF IInv, Shape
<1>2. QED
  BY <1>1 DEF Entry, Defined, Newest

\* Every element of the stream is such a step.
LEMMA TokenSteps ==
    ASSUME IInv, NEW k, Token(k) PROVE
      /\ UNCHANGED <<argVars, waitVars>> /\ received' = Newest
      /\ received' \in Nat /\ received < received' /\ received <= received'
      /\ Dead' /\ ~closed /\ closed' = closed
<1>1. received \in Nat /\ Dead
  BY DEF IInv, Shape
<1>2. QED
  BY <1>1 DEF Token, connVars, Dead, Newest

\* A definition is such a step.
LEMMA DefStep ==
    ASSUME IInv, NEW p \in Prop, NEW s \in States, applyDef(p, s) PROVE Announced
<1>1. Token("def")
  BY DEF applyDef
<1>2. props \in [Prop -> Entry] /\ gen \in Nat
  BY DEF IInv, Shape
<1>3. props' = [props EXCEPT ![p] = Defined(p, s)] /\ gen' = gen + 1
  BY DEF applyDef, signalLocked
<1>4. props' \in [Prop -> Entry]
  BY <1>2, <1>3, Written
<1>5. \A q \in Prop : props'[q] = props[q] \/ props'[q].at = received'
  BY <1>1, <1>2, <1>3, Written, TokenSteps
<1>6. QED
  BY <1>1, <1>2, <1>3, <1>4, <1>5, TokenSteps DEF Announced

\* So is an update of any kind, of a known property or an unknown one.
LEMMA UpdateStep ==
    ASSUME IInv, NEW p \in Prop, NEW s \in States \cup {NoState}, NEW k,
           Token(k), Applied(p, s)
    PROVE  Announced
<1> DEFINE e == [rev |-> props[p].rev + 1, at |-> Newest,
                 state |-> IF s = NoState THEN props[p].state ELSE s]
<1>1. props \in [Prop -> Entry] /\ gen \in Nat
  BY DEF IInv, Shape
<1>2. CASE Known(p)
  <2>1. props' = [props EXCEPT ![p] = e] /\ gen' = gen + 1
    BY <1>2 DEF Applied, Updates, signalLocked
  <2>2. e \in Entry /\ e.at = Newest
    BY Written
  <2>3. props' \in [Prop -> Entry]
    BY <1>1, <2>1, <2>2
  <2>4. \A q \in Prop : props'[q] = props[q] \/ props'[q].at = received'
    BY <1>1, <2>1, <2>2, TokenSteps
  <2>5. QED
    BY <1>1, <2>1, <2>3, <2>4, TokenSteps DEF Announced
<1>3. CASE ~Known(p)
  BY <1>1, <1>3, TokenSteps DEF Applied, storeVars, Announced
<1>4. QED
  BY <1>2, <1>3

\* So is a deletion, of a property or of a device.
LEMMA DelStep ==
    ASSUME IInv, NEW d \in Device, NEW n \in Name \cup {All}, applyDel(d, n)
    PROVE  Announced
<1>1. Token("del")
  BY DEF applyDel
<1>2. props \in [Prop -> Entry] /\ gen \in Nat
  BY DEF IInv, Shape
<1>3. CASE d \in devices
  <2>1. /\ props' = [p \in Prop |-> IF p[1] = d /\ n \in {All, p[2]} THEN Absent ELSE props[p]]
        /\ gen' = gen + 1
    BY <1>3 DEF applyDel, signalLocked
  <2>2. props' \in [Prop -> Entry]
    BY <1>2, <2>1, AbsentIsEntry
  <2>3. \A q \in Prop : props'[q] = props[q] \/ props'[q] = Absent
    BY <1>2, <2>1
  <2>4. QED
    BY <1>1, <1>2, <2>1, <2>2, <2>3, TokenSteps DEF Announced
<1>4. CASE d \notin devices
  BY <1>1, <1>2, <1>4, TokenSteps DEF applyDel, storeVars, Announced
<1>5. QED
  BY <1>3, <1>4

\* So is a message, which leaves the store alone.
LEMMA MessageStep == ASSUME IInv, addMessage PROVE Announced
<1>1. Token("message") /\ UNCHANGED storeVars
  BY DEF addMessage
<1>2. props \in [Prop -> Entry] /\ gen \in Nat
  BY DEF IInv, Shape
<1>3. QED
  BY <1>1, <1>2, TokenSteps DEF storeVars, Announced

\* So are the end of the read loop and Close.
LEMMA FailStep == ASSUME IInv, ReadFails \/ CloseDone \/ Close PROVE Announced
<1>1. props \in [Prop -> Entry] /\ gen \in Nat /\ received \in Nat /\ Dead
  BY DEF IInv, Shape
<1>2. CASE ReadFails
  <2>1. gen' = gen + 1 /\ gen' # gen
    BY <1>1, <1>2 DEF ReadFails, signalLocked
  <2>2. Dead' /\ ~closed
    BY <1>1, <1>2 DEF ReadFails, Dead
  <2>3. UNCHANGED <<argVars, waitVars>> /\ received' = received /\ props' = props
    BY <1>2 DEF ReadFails
  <2>4. QED
    BY <1>1, <2>1, <2>2, <2>3 DEF Announced
<1>3. CASE CloseDone
  BY <1>1, <1>3 DEF CloseDone, storeVars, Announced, Dead
<1>4. CASE Close
  BY <1>1, <1>4 DEF Close, storeVars, Announced, Dead
<1>5. QED
  BY <1>2, <1>3, <1>4

\* Nothing else happens beside the waiters.
LEMMA ReaderSteps == ASSUME IInv, readLoop \/ Close PROVE Announced
<1>1. CASE \E p \in Prop, s \in States : applyDef(p, s)
  BY <1>1, DefStep
<1>2. CASE \E p \in Prop, s \in States \cup {NoState} : applySet(p, s) \/ applyBlobMeta(p, s)
  BY <1>2, UpdateStep DEF applySet, applyBlobMeta
<1>3. CASE \E d \in Device, n \in Name \cup {All} : applyDel(d, n)
  BY <1>3, DelStep
<1>4. CASE addMessage
  BY <1>4, MessageStep
<1>5. CASE ReadFails \/ CloseDone \/ Close
  BY <1>5, FailStep
<1>6. QED
  BY <1>1, <1>2, <1>3, <1>4, <1>5 DEF readLoop

-----------------------------------------------------------------------------
(* What one waiter does *)

\* The part of the invariant that is about one waiter.
Local(w) ==
    /\ ch[w] <= gen /\ began[w] <= received
    /\ pc[w] # "idle" => result[w] = "none"
    /\ Pending(w) =>
        /\ want[w] = Acked
        /\ props[target[w]].at <= began[w] => props[target[w]].rev <= since[w]
    /\ pc[w] = "select" /\ ch[w] = gen =>
        snap[w] = props[target[w]] /\ ~Meets(w, snap[w]) /\ ~closed
    /\ result[w] = "down" => closed /\ ~Meets(w, props[target[w]])
    /\ op[w] = "SetAndWait" /\ result[w] \in Acked => snap[w].at > began[w]

\* A step of w touches neither what is shared nor any other waiter.
Mine(w) ==
    /\ SharedUnchanged
    /\ \A v \in Waiter \ {w} :
        /\ op'[v] = op[v] /\ target'[v] = target[v] /\ want'[v] = want[v]
        /\ since'[v] = since[v] /\ began'[v] = began[v]
        /\ pc'[v] = pc[v] /\ ch'[v] = ch[v] /\ snap'[v] = snap[v] /\ result'[v] = result[v]

\* The invariant is what is shared, and the local part of every waiter.
LEMMA Locally == IInv <=> Shape /\ Dead /\ (\A p \in Prop : props[p].at <= received)
                          /\ \A w \in Waiter : Local(w)
BY DEF IInv, Past, Unanswered, Recording, BlockedIsCurrent, DownIsFinal, FreshAck, Local

\* So the invariant needs to be re-established for w alone.
LEMMA LocalStep ==
    ASSUME IInv, NEW w \in Waiter, Mine(w), Shape', Local(w)' PROVE IInv'
<1>1. Dead' /\ \A p \in Prop : props'[p].at <= received'
  BY DEF IInv, Past, Dead, Mine, SharedUnchanged, connVars, storeVars
<1>2. ASSUME NEW v \in Waiter \ {w} PROVE Local(v)'
  <2>1. Local(v)
    BY Locally
  <2>2. /\ op'[v] = op[v] /\ target'[v] = target[v] /\ want'[v] = want[v]
        /\ since'[v] = since[v] /\ began'[v] = began[v]
        /\ pc'[v] = pc[v] /\ ch'[v] = ch[v] /\ snap'[v] = snap[v] /\ result'[v] = result[v]
        /\ gen' = gen /\ received' = received /\ props' = props /\ closed' = closed
    BY DEF Mine, SharedUnchanged, connVars, storeVars
  <2>3. QED
    BY <2>1, <2>2 DEF Local, Pending, Meets
<1>3. \A v \in Waiter : Local(v)'
  BY <1>2
<1>4. QED
  BY <1>1, <1>3 DEF IInv, Past, Unanswered, Recording, BlockedIsCurrent, DownIsFinal,
     FreshAck, Local

\* The outcomes of a call are none of the states a property can have.
LEMMA OutcomesAreNoStates == States \cap ({NoState, "blocked"} \cup Outcome) = {}
BY ClientAssumption DEF ClientAssumption

\* A call begins with a Rev that it has just recorded, or one the caller has seen.
LEMMA CallStep ==
    ASSUME IInv, NEW w \in Waiter, CallWaitRev(w) \/ CallSetAndWait(w) \/ CallWait(w)
    PROVE  IInv'
<1> DEFINE Begun(o, p, states, n) ==
        /\ Call(w, o, p, states, n)
        /\ \/ since' = since
           \/ \E r \in Seen(p) : since' = [since EXCEPT ![w] = r]
           \/ since' = [since EXCEPT ![w] = Recorded(p)]
        /\ pc' = [pc EXCEPT ![w] = "look"] \/ pc' = [pc EXCEPT ![w] = "send"]
             \/ pc' = [pc EXCEPT ![w] = "poll"]
        /\ UNCHANGED <<ch, snap>>
        /\ o = "SetAndWait" => since' = [since EXCEPT ![w] = Recorded(p)] /\ states = Acked
<1>1. PICK o \in Ops, p \in Prop, states \in Wants \cup {{}, Acked}, n \in Needs \cup {0} :
        Begun(o, p, states, n)
  <2>1. CASE CallWaitRev(w)
    <3>1. PICK p \in Prop, states \in Wants : \E r \in Seen(p) :
            /\ Call(w, "WaitRev", p, states, 0)
            /\ since' = [since EXCEPT ![w] = r]
            /\ pc' = [pc EXCEPT ![w] = "look"]
            /\ UNCHANGED <<ch, snap>>
      BY <2>1 DEF CallWaitRev
    <3>2. "WaitRev" \in Ops /\ Begun("WaitRev", p, states, 0)
      BY <3>1 DEF Call
    <3>3. QED
      BY <3>2
  <2>2. CASE CallSetAndWait(w)
    <3>1. PICK p \in Prop :
            /\ Call(w, "SetAndWait", p, Acked, 0)
            /\ since' = [since EXCEPT ![w] = Recorded(p)]
            /\ pc' = [pc EXCEPT ![w] = "send"]
            /\ UNCHANGED <<ch, snap>>
      BY <2>2 DEF CallSetAndWait
    <3>2. "SetAndWait" \in Ops /\ Begun("SetAndWait", p, Acked, 0)
      BY <3>1 DEF Call
    <3>3. QED
      BY <3>2
  <2>3. ASSUME NEW p \in Prop, NEW states \in Wants, Call(w, "Wait", p, states, 0),
               pc' = [pc EXCEPT ![w] = "poll"], UNCHANGED <<since, ch, snap>>
        PROVE  "Wait" \in Ops /\ Begun("Wait", p, states, 0)
    BY <2>3 DEF Call
  <2>4. ASSUME NEW p \in Prop, NEW n \in Needs, Call(w, "WaitDevices", p, {}, n),
               pc' = [pc EXCEPT ![w] = "poll"], UNCHANGED <<since, ch, snap>>
        PROVE  "WaitDevices" \in Ops /\ Begun("WaitDevices", p, {}, n)
    BY <2>4 DEF Call
  <2>5. CASE CallWait(w)
    <3>1. CASE \E p \in Prop, states \in Wants :
                 /\ Call(w, "Wait", p, states, 0)
                 /\ pc' = [pc EXCEPT ![w] = "poll"] /\ UNCHANGED <<since, ch, snap>>
      <4>1. \E p \in Prop, states \in Wants : "Wait" \in Ops /\ Begun("Wait", p, states, 0)
        BY <2>3, <3>1
      <4>2. QED
        BY <4>1
    <3>2. CASE \E p \in Prop, n \in Needs :
                 /\ Call(w, "WaitDevices", p, {}, n)
                 /\ pc' = [pc EXCEPT ![w] = "poll"] /\ UNCHANGED <<since, ch, snap>>
      <4>1. \E p \in Prop, n \in Needs :
                "WaitDevices" \in Ops /\ Begun("WaitDevices", p, {}, n)
        BY <2>4, <3>2
      <4>2. QED
        BY <4>1
    <3>3. QED
      BY <2>5, <3>1, <3>2 DEF CallWait
  <2>6. QED
    BY <2>1, <2>2, <2>5
<1>2. Shape /\ props[p] \in Entry /\ Local(w)
  BY Locally DEF Shape
<1>3. states \in (SUBSET States) \cup {Acked}
  BY ClientAssumption DEF ClientAssumption
<1>4. since' \in [Waiter -> Nat]
  <2>1. props[p].rev \in Nat
    BY <1>2 DEF Entry
  <2>2. \A r \in Seen(p) : r \in Nat
    BY <2>1 DEF Seen
  <2>3. QED
    BY <1>1, <1>2, <2>1, <2>2 DEF Shape, Recorded
<1>5. Shape'
  BY <1>1, <1>2, <1>3, <1>4 DEF Call, SharedUnchanged, storeVars, Shape, Outcome
<1>6. Mine(w)
  BY <1>1, <1>2 DEF Call, Mine, Shape
<1>7. Local(w)'
  <2>1. /\ op'[w] = o /\ target'[w] = p /\ want'[w] = states /\ began'[w] = received
        /\ result'[w] = "none" /\ pc'[w] # "select" /\ pc'[w] # "idle"
        /\ ch' = ch /\ gen' = gen /\ received' = received /\ props' = props
    BY <1>1, <1>2 DEF Call, Shape, SharedUnchanged, storeVars
  <2>2. o = "SetAndWait" => since'[w] = props[p].rev /\ states = Acked
    BY <1>1, <1>2 DEF Shape, Recorded
  <2>3. received \in Nat /\ props[p].rev \in Nat /\ ch[w] <= gen
    BY <1>2 DEF Shape, Entry, Local
  <2>4. QED
    BY <2>1, <2>2, <2>3 DEF Local, Pending, Acked
<1>8. QED
  BY <1>5, <1>6, <1>7, LocalStep

\* A step that leaves the arguments, the capture and the store alone.
Quiet(w) ==
    /\ SharedUnchanged /\ UNCHANGED argVars /\ UNCHANGED <<ch, snap>>
    /\ pc' = [pc EXCEPT ![w] = pc'[w]] /\ result' = [result EXCEPT ![w] = result'[w]]
    /\ pc'[w] \in {"idle", "look", "poll", "dead?", "tick"}
    /\ result'[w] \in {"none", "unsent", "timeout", "true", "false"}
    /\ pc'[w] # "idle" => result'[w] = "none"
    /\ pc'[w] = "look" => pc[w] \in {"send", "select"}

\* Such a step preserves the invariant.
LEMMA QuietStep == ASSUME IInv, NEW w \in Waiter, Quiet(w) PROVE IInv'
<1>1. Shape /\ Local(w)
  BY Locally
<1>2. Shape'
  BY <1>1 DEF Quiet, Shape, SharedUnchanged, storeVars, argVars, Outcome
<1>3. Mine(w)
  BY <1>1 DEF Quiet, Mine, Shape, argVars
<1>4. Local(w)'
  BY <1>1 DEF Quiet, Local, Pending, Meets, SharedUnchanged, storeVars, connVars, argVars, Acked
<1>5. QED
  BY <1>2, <1>3, <1>4, LocalStep

\* All steps of a call but its first and its look at the store are such.
LEMMA OtherSteps ==
    ASSUME IInv, NEW w \in Waiter,
           Send(w) \/ Wake(w) \/ CtxDone(w) \/ Poll(w) \/ PollDead(w) \/ Tick(w) \/ PollCtxDone(w)
    PROVE  Quiet(w)
<1>1. Shape /\ Local(w)
  BY Locally
<1>2. CASE Send(w)
  BY <1>1, <1>2 DEF Send, Return, Quiet, Shape, Local
<1>3. CASE Wake(w) \/ Tick(w)
  BY <1>1, <1>3 DEF Wake, Tick, Quiet, Shape, Local
<1>4. CASE CtxDone(w) \/ PollCtxDone(w)
  BY <1>1, <1>4 DEF CtxDone, PollCtxDone, LastLook, Return, Quiet, Shape
<1>5. CASE Poll(w) \/ PollDead(w)
  BY <1>1, <1>5 DEF Poll, PollDead, Return, Quiet, Shape, Local
<1>6. QED
  BY <1>2, <1>3, <1>4, <1>5

\* The look: what it captures is the store as it is, and what it returns is in it.
LEMMA LookStep == ASSUME IInv, NEW w \in Waiter, Look(w) PROVE IInv'
<1> DEFINE e == props[target[w]]
<1>1. Shape /\ Local(w) /\ target[w] \in Prop
  BY Locally DEF Shape
<1>2. e \in Entry /\ gen \in Nat
  BY <1>1 DEF Shape
<1>3. Meets(w, e) => e.state \in States \cup Acked /\ e.state \in States \cup {NoState}
  BY <1>1, <1>2 DEF Meets, Shape, Entry
<1>4. Meets(w, e) => e.state \in States
  BY <1>1, <1>2, <1>3, ClientAssumption DEF Shape, NoState, Acked
<1>5. /\ ch' = [ch EXCEPT ![w] = gen] /\ snap' = [snap EXCEPT ![w] = e]
      /\ SharedUnchanged /\ UNCHANGED argVars /\ pc[w] = "look"
  BY DEF Look
<1>6. CASE Meets(w, e)
  <2>1. pc' = [pc EXCEPT ![w] = "idle"] /\ result' = [result EXCEPT ![w] = e.state]
    BY <1>4, <1>6, OutcomesAreNoStates DEF Look, Verdict, Return
  <2>2. Shape'
    BY <1>1, <1>2, <1>4, <1>5, <1>6, <2>1 DEF Shape, SharedUnchanged, storeVars, argVars
  <2>3. Mine(w)
    BY <1>1, <1>5, <2>1 DEF Mine, Shape, argVars
  <2>4. e.state # "down"
    BY <1>4, <1>6, OutcomesAreNoStates DEF Outcome
  <2>5. op[w] = "SetAndWait" => e.at > began[w]
    <3>1. e.rev > since[w] /\ e.rev \in Nat /\ since[w] \in Nat /\ e.at \in Nat /\ began[w] \in Nat
      BY <1>1, <1>2, <1>6 DEF Meets, Shape, Entry
    <3>2. op[w] = "SetAndWait" => (e.at <= began[w] => e.rev <= since[w])
      BY <1>1, <1>5 DEF Local, Pending
    <3>3. QED
      BY <3>1, <3>2
  <2>6. Local(w)'
    BY <1>1, <1>2, <1>5, <2>1, <2>4, <2>5
       DEF Local, Pending, Shape, SharedUnchanged, storeVars, argVars
  <2>7. QED
    BY <2>2, <2>3, <2>6, LocalStep
<1>7. CASE ~Meets(w, e) /\ closed
  <2>1. pc' = [pc EXCEPT ![w] = "idle"] /\ result' = [result EXCEPT ![w] = "down"]
    BY <1>7 DEF Look, Verdict, Return
  <2>2. Shape'
    BY <1>1, <1>2, <1>5, <2>1 DEF Shape, SharedUnchanged, storeVars, argVars, Outcome
  <2>3. Mine(w)
    BY <1>1, <1>5, <2>1 DEF Mine, Shape, argVars
  <2>4. Local(w)'
    BY <1>1, <1>2, <1>5, <1>7, <2>1
       DEF Local, Pending, Meets, Shape, SharedUnchanged, storeVars, connVars, argVars, Acked
  <2>5. QED
    BY <2>2, <2>3, <2>4, LocalStep
<1>8. CASE ~Meets(w, e) /\ ~closed
  <2>1. pc' = [pc EXCEPT ![w] = "select"] /\ result' = result
    BY <1>8 DEF Look, Verdict
  <2>2. Shape'
    BY <1>1, <1>2, <1>5, <2>1 DEF Shape, SharedUnchanged, storeVars, argVars
  <2>3. Mine(w)
    BY <1>1, <1>5, <2>1 DEF Mine, Shape, argVars
  <2>4. Local(w)'
    BY <1>1, <1>2, <1>5, <1>8, <2>1
       DEF Local, Pending, Meets, Shape, SharedUnchanged, storeVars, connVars, argVars, Acked
  <2>5. QED
    BY <2>2, <2>3, <2>4, LocalStep
<1>9. QED
  BY <1>6, <1>7, <1>8

-----------------------------------------------------------------------------
(* The theorems *)

\* The invariant is inductive.
LEMMA NextIInv == IInv /\ [Next]_vars => IInv'
<1> SUFFICES ASSUME IInv, [Next]_vars PROVE IInv'
  OBVIOUS
<1>1. CASE readLoop \/ Close
  BY <1>1, ReaderSteps, AnnouncedStep
<1>2. ASSUME NEW w \in Waiter, Wait(w) PROVE IInv'
  BY <1>2, CallStep, OtherSteps, QuietStep, LookStep DEF Wait
<1>3. CASE UNCHANGED vars
  <2>1. Dead' /\ gen' = gen /\ received' = received /\ props' = props /\ closed' = closed
    BY <1>3 DEF vars, connVars, storeVars, IInv, Dead
  <2>2. gen \in Nat /\ received \in Nat /\ props \in [Prop -> Entry]
    BY DEF IInv, Shape
  <2>3. UNCHANGED <<argVars, waitVars>>
    BY <1>3 DEF vars
  <2>4. Announced
    BY <2>1, <2>2, <2>3 DEF Announced
  <2>5. QED
    BY <2>4, AnnouncedStep
<1>4. QED
  BY <1>1, <1>2, <1>3 DEF Next

\* And so it holds in every reachable state.
LEMMA Invariance == Spec => []IInv
<1>1. QED
  BY InitIInv, NextIInv, PTL DEF Spec

\* Whatever the read loop and the other waiters do between a waiter's capture of
\* c.updated and its select, it blocks only on the store as it is now.
THEOREM NoMissedUpdate == Spec => []BlockedIsCurrent
<1>1. IInv => BlockedIsCurrent
  BY DEF IInv
<1>2. QED
  BY <1>1, Invariance, PTL

\* State from before a command is never returned as its acknowledgement.
THEOREM AcksAreFresh == Spec => []FreshAck
<1>1. IInv => FreshAck
  BY DEF IInv
<1>2. QED
  BY <1>1, Invariance, PTL

\* An answer that was applied before the connection died is returned.
THEOREM DownMeansUnanswered == Spec => []DownIsFinal
<1>1. IInv => DownIsFinal
  BY DEF IInv
<1>2. QED
  BY <1>1, Invariance, PTL

\* One element adds one to the Rev of a property that stays known, or leaves it be.
Counted(p) ==
    Known(p)' => \/ props'[p] = props[p]
                 \/ props'[p].rev = props[p].rev + 1 /\ props'[p].at = Newest

\* No waiter touches what the waiters share.
LEMMA WaiterSpares == ASSUME NEW w \in Waiter, Wait(w) PROVE SharedUnchanged
BY DEF Wait, CallWaitRev, CallSetAndWait, CallWait, Call, Send, Look, Wake, CtxDone,
   Poll, PollDead, Tick, PollCtxDone

\* Every step of the client counts so.
LEMMA CountedStep == ASSUME IInv, Next, NEW p \in Prop PROVE Counted(p)
<1>1. props \in [Prop -> Entry]
  BY DEF IInv, Shape
<1>2. ASSUME NEW q \in Prop, NEW s \in States, applyDef(q, s) PROVE Counted(p)
  BY <1>1, <1>2 DEF applyDef, Defined, Counted
<1>3. ASSUME NEW q \in Prop, NEW s \in States \cup {NoState},
             applySet(q, s) \/ applyBlobMeta(q, s)
      PROVE  Counted(p)
  <2>1. CASE Known(q)
    BY <1>1, <1>3, <2>1 DEF applySet, applyBlobMeta, Applied, Updates, Counted
  <2>2. CASE ~Known(q)
    BY <1>1, <1>3, <2>2 DEF applySet, applyBlobMeta, Applied, storeVars, Counted
  <2>3. QED
    BY <2>1, <2>2
<1>4. ASSUME NEW d \in Device, NEW n \in Name \cup {All}, applyDel(d, n) PROVE Counted(p)
  <2>1. props'[p] = props[p] \/ props'[p] = Absent
    BY <1>1, <1>4 DEF applyDel, storeVars
  <2>2. QED
    BY <2>1 DEF Counted, Known, Absent
<1>5. CASE addMessage \/ ReadFails \/ CloseDone \/ Close
  BY <1>5 DEF addMessage, ReadFails, CloseDone, Close, storeVars, Counted
<1>6. ASSUME NEW w \in Waiter, Wait(w) PROVE Counted(p)
  BY <1>6, WaiterSpares DEF SharedUnchanged, storeVars, Counted
<1>7. QED
  BY <1>2, <1>3, <1>4, <1>5, <1>6 DEF Next, readLoop

\* Rev counts every update and redefinition of a property that stays known.
THEOREM RevIsMonotone == Spec => RevCounts
<1> DEFINE Counts == \A p \in Prop : Known(p) /\ Known(p)' =>
        props'[p].rev = props[p].rev + (IF props'[p] # props[p] THEN 1 ELSE 0)
<1>1. ASSUME IInv, [Next]_vars PROVE Counts
  <2> SUFFICES ASSUME NEW p \in Prop, Known(p), Known(p)'
               PROVE props'[p].rev = props[p].rev + (IF props'[p] # props[p] THEN 1 ELSE 0)
    OBVIOUS
  <2>1. props[p].at <= received /\ received \in Nat /\ props[p].rev \in Nat
          /\ props[p].at \in Nat
    BY <1>1 DEF IInv, Shape, Past, Entry
  <2>2. CASE Next
    <3>1. \/ props'[p] = props[p]
          \/ props'[p].rev = props[p].rev + 1 /\ props'[p].at = Newest
      BY <1>1, <2>2, CountedStep DEF Counted
    <3>2. Newest \in Nat /\ props[p].at < Newest
      BY <2>1 DEF Newest
    <3>3. QED
      BY <2>1, <3>1, <3>2
  <2>3. CASE UNCHANGED vars
    BY <2>1, <2>3 DEF vars, storeVars
  <2>4. QED
    BY <1>1, <2>2, <2>3
<1>2. QED
  BY <1>1, Invariance, PTL DEF Spec, RevCounts
-----------------------------------------------------------------------------
(* What the client keeps twice: devices in order and in store, the ring and the log *)

\* The devices of the store stand in order once each, and a known property is one of
\* theirs.
Ordering ==
    /\ order \in Seq(Device)
    /\ devices = {order[i] : i \in 1..Len(order)}
    /\ \A i, j \in 1..Len(order) : order[i] = order[j] => i = j
    /\ \A p \in Prop : Known(p) => p[1] \in devices

\* Each place of the ring, counted from the oldest message: msgNext, the place that is
\* overwritten next, divides the ring into its older part, behind, and its newer one.
Ring ==
    /\ messages \in Seq(Nat) /\ log \in Seq(Nat)
    /\ msgNext \in 0..(MaxMessages - 1)
    /\ Len(messages) = IF Len(log) < MaxMessages THEN Len(log) ELSE MaxMessages
    /\ Len(log) < MaxMessages => msgNext = 0
    /\ \A i \in 1..Len(messages) :
          messages[i] = IF i > msgNext THEN log[Len(log) - Len(messages) + i - msgNext]
                        ELSE log[Len(log) - msgNext + i]

\* These hold beside IInv, and give TypeOK.
Tidy == Ordering /\ Ring /\ calls \in [Waiter -> Nat] /\ need \in [Waiter -> Nat]
                 /\ conn \in {"open", "closed"}
                 /\ reader \in {"reading", "failing", "exited"}

\* A sequence that holds nothing twice.
Distinct(s) == \A i, j \in 1..Len(s) : s[i] = s[j] => i = j
Elems(s) == {s[i] : i \in 1..Len(s)}

\* Of a sequence that holds nothing twice, Without takes just the element it names.
LEMMA WithoutIs ==
    ASSUME NEW s \in Seq(Device), Distinct(s), NEW d \in Elems(s)
    PROVE  /\ Without(s, d) \in Seq(Device) /\ Distinct(Without(s, d))
           /\ Elems(Without(s, d)) = Elems(s) \ {d}
<1> DEFINE First(i) == s[i] = d /\ \A j \in 1..(i - 1) : s[j] # d
           k == CHOOSE i \in 1..Len(s) : First(i)
           r == SubSeq(s, 1, k - 1) \o SubSeq(s, k + 1, Len(s))
<1>1. Len(s) \in Nat /\ \A i \in 1..Len(s) : s[i] \in Device
  OBVIOUS
<1>2. PICK m \in 1..Len(s) : s[m] = d
  BY DEF Elems
<1>3. First(m)
  BY <1>1, <1>2 DEF Distinct
<1>4. k \in 1..Len(s) /\ s[k] = d
  BY <1>3
<1>5. Without(s, d) = r
  BY <1>2 DEF Without
<1> HIDE DEF k
<1>6. /\ SubSeq(s, 1, k - 1) \in Seq(Device) /\ Len(SubSeq(s, 1, k - 1)) = k - 1
      /\ \A i \in 1..(k - 1) : SubSeq(s, 1, k - 1)[i] = s[i]
  <2>1. 1 \in Int /\ k - 1 \in Int /\ (\A i \in 1..(k - 1) : s[i] \in Device)
    BY <1>1, <1>4
  <2>2. QED
    BY <1>1, <1>4, <2>1, SubSeqProperties
<1>7. /\ SubSeq(s, k + 1, Len(s)) \in Seq(Device) /\ Len(SubSeq(s, k + 1, Len(s))) = Len(s) - k
      /\ \A i \in 1..(Len(s) - k) : SubSeq(s, k + 1, Len(s))[i] = s[k + i]
  <2>1. k + 1 \in Int /\ Len(s) \in Int /\ (\A i \in (k + 1)..Len(s) : s[i] \in Device)
    BY <1>1, <1>4
  <2>2. /\ SubSeq(s, k + 1, Len(s)) \in Seq(Device)
        /\ Len(SubSeq(s, k + 1, Len(s))) = (IF k + 1 <= Len(s) THEN Len(s) - (k + 1) + 1 ELSE 0)
        /\ \A i \in 1..(Len(s) - (k + 1) + 1) : SubSeq(s, k + 1, Len(s))[i] = s[(k + 1) + i - 1]
    BY <2>1, SubSeqProperties
  <2>3. Len(SubSeq(s, k + 1, Len(s))) = Len(s) - k
    BY <1>1, <1>4, <2>2
  <2>4. ASSUME NEW i \in 1..(Len(s) - k) PROVE SubSeq(s, k + 1, Len(s))[i] = s[k + i]
    <3>1. i \in 1..(Len(s) - (k + 1) + 1) /\ (k + 1) + i - 1 = k + i
      BY <1>1, <1>4
    <3>2. QED
      BY <2>2, <3>1
  <2>5. QED
    BY <2>2, <2>3, <2>4
<1>8. /\ r \in Seq(Device) /\ Len(r) = Len(s) - 1
      /\ \A i \in 1..(Len(s) - 1) : r[i] = IF i < k THEN s[i] ELSE s[i + 1]
  <2> DEFINE a == SubSeq(s, 1, k - 1)
             b == SubSeq(s, k + 1, Len(s))
  <2> HIDE DEF a, b
  <2>1. /\ r = a \o b /\ a \in Seq(Device) /\ b \in Seq(Device)
        /\ Len(a) = k - 1 /\ Len(b) = Len(s) - k
        /\ \A i \in 1..(k - 1) : a[i] = s[i]
        /\ \A i \in 1..(Len(s) - k) : b[i] = s[k + i]
    BY <1>6, <1>7 DEF a, b
  <2> HIDE DEF r
  <2>2. /\ a \o b \in Seq(Device) /\ Len(a \o b) = Len(a) + Len(b)
        /\ \A i \in 1..(Len(a) + Len(b)) : (a \o b)[i] = IF i <= Len(a) THEN a[i] ELSE b[i - Len(a)]
    BY <2>1, ConcatProperties
  <2>3. ASSUME NEW i \in 1..(Len(s) - 1) PROVE r[i] = IF i < k THEN s[i] ELSE s[i + 1]
    <3>1. CASE i < k
      BY <1>1, <1>4, <2>1, <2>2, <3>1
    <3>2. CASE ~(i < k)
      <4>1. i - (k - 1) \in 1..(Len(s) - k) /\ k + (i - (k - 1)) = i + 1 /\ ~(i <= k - 1)
        BY <1>1, <1>4, <3>2
      <4>2. i \in 1..(Len(a) + Len(b)) /\ ~(i <= Len(a)) /\ i - Len(a) = i - (k - 1)
        BY <1>1, <1>4, <2>1, <4>1
      <4>3. r[i] = b[i - (k - 1)]
        BY <2>1, <2>2, <4>2
      <4>4. QED
        BY <2>1, <3>2, <4>1, <4>3
    <3>3. QED
      BY <3>1, <3>2
  <2>4. QED
    BY <1>1, <1>4, <2>1, <2>2, <2>3
<1> HIDE DEF r
<1>9. Distinct(r)
  BY <1>1, <1>4, <1>8 DEF Distinct
<1>10. Elems(r) = Elems(s) \ {d}
  <2>1. ASSUME NEW x \in Elems(r) PROVE x \in Elems(s) \ {d}
    <3>1. PICK i \in 1..(Len(s) - 1) : x = r[i]
      BY <1>8 DEF Elems
    <3>2. \E j \in 1..Len(s) : x = s[j] /\ j # k
      <4>1. CASE i < k
        BY <1>1, <1>4, <1>8, <3>1, <4>1
      <4>2. CASE ~(i < k)
        BY <1>1, <1>4, <1>8, <3>1, <4>2
      <4>3. QED
        BY <4>1, <4>2
    <3>3. QED
      BY <1>4, <3>2 DEF Distinct, Elems
  <2>2. ASSUME NEW x \in Elems(s) \ {d} PROVE x \in Elems(r)
    <3>1. PICK j \in 1..Len(s) : x = s[j]
      BY DEF Elems
    <3>2. j # k
      BY <1>4, <3>1
    <3>3. \E i \in 1..(Len(s) - 1) : x = r[i]
      <4>1. CASE j < k
        BY <1>1, <1>4, <1>8, <3>1, <4>1
      <4>2. CASE j > k
        <5>1. j - 1 \in 1..(Len(s) - 1) /\ ~(j - 1 < k) /\ (j - 1) + 1 = j
          BY <1>1, <1>4, <4>2
        <5>2. r[j - 1] = s[j]
          BY <1>8, <5>1
        <5>3. QED
          BY <3>1, <5>1, <5>2
      <4>3. QED
        BY <1>1, <1>4, <3>2, <4>1, <4>2
    <3>4. QED
      BY <1>8, <3>3 DEF Elems
  <2>3. QED
    BY <2>1, <2>2
<1>11. QED
  BY <1>5, <1>8, <1>9, <1>10

\* Ordered adds a device that is not yet in order, at its end.
LEMMA OrderedIs ==
    ASSUME Ordering, NEW d \in Device
    PROVE  /\ Ordered(d) \in Seq(Device) /\ Distinct(Ordered(d))
           /\ Elems(Ordered(d)) = devices \cup {d}
<1>1. order \in Seq(Device) /\ Len(order) \in Nat /\ Distinct(order) /\ devices = Elems(order)
  BY DEF Ordering, Distinct, Elems
<1>2. CASE d \in devices
  BY <1>1, <1>2 DEF Ordered
<1>3. CASE d \notin devices
  <2>1. ~(\E i \in 1..Len(order) : order[i] = d)
    BY <1>1, <1>3 DEF Elems
  <2>2. Ordered(d) = Append(order, d)
    BY <1>3, <2>1 DEF Ordered
  <2> DEFINE r == Append(order, d)
  <2>3. /\ r \in Seq(Device) /\ Len(r) = Len(order) + 1 /\ r[Len(order) + 1] = d
        /\ \A i \in 1..Len(order) : r[i] = order[i]
    BY <1>1
  <2> HIDE DEF r
  <2>4. Distinct(r)
    BY <1>1, <2>1, <2>3 DEF Distinct
  <2>5. Elems(r) = Elems(order) \cup {d}
    <3>1. \A i \in 1..Len(r) : i \in 1..Len(order) \/ i = Len(order) + 1
      BY <1>1, <2>3
    <3>2. \A i \in 1..Len(order) : i \in 1..Len(r)
      BY <1>1, <2>3
    <3>3. Len(order) + 1 \in 1..Len(r)
      BY <1>1, <2>3
    <3>4. QED
      BY <2>3, <3>1, <3>2, <3>3 DEF Elems
  <2>6. QED
    BY <1>1, <2>2, <2>3, <2>4, <2>5 DEF r
<1>4. QED
  BY <1>2, <1>3

\* The client starts with everything empty.
LEMMA InitTidy == Init => Tidy
<1> SUFFICES ASSUME Init PROVE Tidy
  OBVIOUS
<1>1. MaxMessages \in Nat \ {0}
  BY ClientAssumption DEF ClientAssumption
<1>2. Ordering
  BY DEF Init, Ordering, Known, Absent
<1>3. Ring
  BY <1>1 DEF Init, Ring
<1>4. QED
  BY <1>2, <1>3 DEF Init, Tidy

\* Ordering is of the store alone, and asks nothing of the state of a property.
LEMMA OrderingKept == ASSUME IInv, Ordering, Next PROVE Ordering'
<1>1. /\ order \in Seq(Device) /\ Distinct(order) /\ devices = Elems(order)
      /\ props \in [Prop -> Entry]
  BY DEF Ordering, Distinct, Elems, IInv, Shape
<1>2. ASSUME order' \in Seq(Device), Distinct(order'), devices' = Elems(order'),
             \A p \in Prop : Known(p)' => p[1] \in devices'
      PROVE  Ordering'
  BY <1>2 DEF Ordering, Distinct, Elems
<1>3. ASSUME NEW p \in Prop, NEW s \in States, applyDef(p, s) PROVE Ordering'
  <2>1. /\ devices' = devices \cup {p[1]} /\ order' = Ordered(p[1])
        /\ props' = [props EXCEPT ![p] = Defined(p, s)]
    BY <1>3 DEF applyDef
  <2>2. p[1] \in Device
    BY DEF Prop
  <2>3. order' \in Seq(Device) /\ Distinct(order') /\ devices' = Elems(order')
    BY <2>1, <2>2, OrderedIs
  <2>4. ASSUME NEW q \in Prop, Known(q)' PROVE q[1] \in devices'
    <3>1. q # p => Known(q)
      BY <1>1, <2>1, <2>4 DEF Known
    <3>2. QED
      BY <2>1, <3>1 DEF Ordering
  <2>5. QED
    BY <1>2, <2>3, <2>4
<1>4. ASSUME NEW p \in Prop, NEW s \in States \cup {NoState}, applySet(p, s) \/ applyBlobMeta(p, s)
      PROVE  Ordering'
  <2>1. Applied(p, s)
    BY <1>4 DEF applySet, applyBlobMeta
  <2>2. UNCHANGED <<devices, order>>
    BY <2>1 DEF Applied, Updates, storeVars
  <2>3. \A q \in Prop : Known(q)' => Known(q)
    BY <1>1, <2>1 DEF Applied, Updates, storeVars, Known
  <2>4. QED
    BY <1>1, <1>2, <2>2, <2>3 DEF Ordering
<1>5. ASSUME NEW d \in Device, NEW n \in Name \cup {All}, applyDel(d, n) PROVE Ordering'
  <2>1. CASE d \in devices /\ n = All
    <3>1. /\ devices' = devices \ {d} /\ order' = Without(order, d)
          /\ props' = [p \in Prop |-> IF p[1] = d /\ n \in {All, p[2]} THEN Absent ELSE props[p]]
      BY <1>5, <2>1 DEF applyDel
    <3>2. order' \in Seq(Device) /\ Distinct(order') /\ devices' = Elems(order')
      BY <1>1, <2>1, <3>1, WithoutIs
    <3>3. \A q \in Prop : Known(q)' => Known(q) /\ q[1] # d
      BY <2>1, <3>1 DEF Known, Absent
    <3>4. QED
      BY <1>2, <3>1, <3>2, <3>3 DEF Ordering
  <2>2. CASE d \in devices /\ n # All
    <3>1. /\ devices' = devices /\ order' = order
          /\ props' = [p \in Prop |-> IF p[1] = d /\ n \in {All, p[2]} THEN Absent ELSE props[p]]
      BY <1>5, <2>2 DEF applyDel
    <3>2. \A q \in Prop : Known(q)' => Known(q)
      BY <3>1 DEF Known, Absent
    <3>3. QED
      BY <1>1, <1>2, <3>1, <3>2 DEF Ordering
  <2>3. CASE d \notin devices
    BY <1>5, <2>3 DEF applyDel, storeVars, Ordering, Known
  <2>4. QED
    BY <2>1, <2>2, <2>3
<1>6. CASE addMessage \/ ReadFails \/ CloseDone \/ Close
  <2>1. UNCHANGED <<devices, order, props>>
    BY <1>6 DEF addMessage, ReadFails, CloseDone, Close, storeVars
  <2>2. QED
    BY <2>1 DEF Ordering, Known
<1>7. ASSUME NEW w \in Waiter, Wait(w) PROVE Ordering'
  <2>1. UNCHANGED <<devices, order, props>>
    BY <1>7, WaiterSpares DEF SharedUnchanged, storeVars
  <2>2. QED
    BY <2>1 DEF Ordering, Known
<1>8. QED
  BY <1>3, <1>4, <1>5, <1>6, <1>7 DEF Next, readLoop

\* A message goes to the end of a ring that is not full, else in place of the oldest.
LEMMA RingKept == ASSUME Ring, received \in Nat, addMessage PROVE Ring'
<1> DEFINE M == MaxMessages
           n == Len(log)
           x == Newest
<1>1. M \in Nat \ {0} /\ x \in Nat /\ n \in Nat /\ Len(messages) \in Nat
  BY ClientAssumption DEF ClientAssumption, Newest, Ring
<1>2. log' = Append(log, x) /\ messages \in Seq(Nat) /\ log \in Seq(Nat)
  BY DEF addMessage, Ring
<1>3. /\ log' \in Seq(Nat) /\ Len(log') = n + 1 /\ log'[n + 1] = x
      /\ \A i \in 1..n : log'[i] = log[i]
  BY <1>1, <1>2
<1>4. /\ msgNext \in 0..(M - 1) /\ Len(messages) = (IF n < M THEN n ELSE M)
      /\ n < M => msgNext = 0
      /\ \A i \in 1..Len(messages) :
            messages[i] = IF i > msgNext THEN log[n - Len(messages) + i - msgNext]
                          ELSE log[n - msgNext + i]
  BY DEF Ring
<1>5. CASE n < M
  <2>1. Len(messages) = n /\ msgNext = 0
    BY <1>1, <1>4, <1>5
  <2>2. messages' = Append(messages, x) /\ msgNext' = 0
    BY <1>1, <1>5, <2>1 DEF addMessage
  <2>3. /\ messages' \in Seq(Nat) /\ Len(messages') = n + 1 /\ messages'[n + 1] = x
        /\ \A i \in 1..n : messages'[i] = messages[i]
    BY <1>1, <1>2, <2>1, <2>2
  <2>4. \A i \in 1..n : messages[i] = log[i]
    <3> TAKE i \in 1..n
    <3>1. i > msgNext /\ n - Len(messages) + i - msgNext = i
      BY <1>1, <2>1
    <3>2. QED
      BY <1>4, <2>1, <3>1
  <2>5. ASSUME NEW i \in 1..(n + 1) PROVE messages'[i] = log'[i]
    <3>1. CASE i = n + 1
      BY <1>3, <2>3, <3>1
    <3>2. CASE i \in 1..n
      BY <1>3, <2>3, <2>4, <3>2
    <3>3. QED
      BY <1>1, <3>1, <3>2
  <2>6. ASSUME NEW i \in 1..(n + 1)
        PROVE  messages'[i] = IF i > msgNext' THEN log'[Len(log') - Len(messages') + i - msgNext']
                              ELSE log'[Len(log') - msgNext' + i]
    <3>1. i > msgNext' /\ Len(log') - Len(messages') + i - msgNext' = i
      BY <1>1, <1>3, <2>2, <2>3
    <3>2. QED
      BY <2>5, <3>1
  <2>7. Len(messages') = (IF Len(log') < M THEN Len(log') ELSE M)
    BY <1>1, <1>3, <1>5, <2>3
  <2>8. msgNext' \in 0..(M - 1)
    BY <1>1, <2>2
  <2>9. QED
    BY <1>3, <2>2, <2>3, <2>6, <2>7, <2>8 DEF Ring
<1>6. CASE ~(n < M)
  <2>1. Len(messages) = M
    BY <1>1, <1>4, <1>6
  <2>2. messages' = [messages EXCEPT ![msgNext + 1] = x] /\ msgNext' = (msgNext + 1) % M
    BY <1>1, <1>6, <2>1 DEF addMessage, Overwrite
  <2>3. msgNext' = IF msgNext + 1 = M THEN 0 ELSE msgNext + 1
    BY <1>1, <1>4, <2>2
  <2>4. /\ messages' \in Seq(Nat) /\ Len(messages') = M
        /\ \A i \in 1..M : messages'[i] = IF i = msgNext + 1 THEN x ELSE messages[i]
    <3>1. msgNext + 1 \in 1..Len(messages)
      BY <1>1, <1>4, <2>1
    <3>2. QED
      BY <1>1, <1>2, <2>1, <2>2, <3>1, ExceptSeq
  <2>5. ASSUME NEW i \in 1..M
        PROVE  messages'[i] = IF i > msgNext' THEN log'[(n + 1) - M + i - msgNext']
                              ELSE log'[(n + 1) - msgNext' + i]
    <3>1. CASE i = msgNext + 1
      <4>1. messages'[i] = log'[n + 1]
        BY <1>3, <2>4, <3>1
      <4>2. CASE msgNext + 1 = M
        <5>1. msgNext' = 0 /\ i > msgNext' /\ (n + 1) - M + i - msgNext' = n + 1
          BY <1>1, <1>4, <2>3, <3>1, <4>2
        <5>2. QED
          BY <4>1, <5>1
      <4>3. CASE msgNext + 1 # M
        <5>1. ~(i > msgNext') /\ (n + 1) - msgNext' + i = n + 1
          BY <1>1, <1>4, <2>3, <3>1, <4>3
        <5>2. QED
          BY <4>1, <5>1
      <4>4. QED
        BY <4>2, <4>3
    <3>2. CASE i > msgNext + 1
      <4>1. i > msgNext /\ i > msgNext' /\ msgNext' = msgNext + 1
        BY <1>1, <1>4, <2>3, <3>2
      <4>2. (n + 1) - M + i - msgNext' = n - M + i - msgNext /\ n - M + i - msgNext \in 1..n
        BY <1>1, <1>4, <1>6, <3>2, <4>1
      <4>3. messages'[i] = messages[i]
        BY <1>1, <1>4, <2>4, <3>2
      <4>4. messages[i] = log[n - M + i - msgNext]
        BY <1>4, <2>1, <4>1
      <4>5. QED
        BY <1>3, <4>1, <4>2, <4>3, <4>4
    <3>3. CASE i < msgNext + 1
      <4>1. ~(i > msgNext) /\ n - msgNext + i \in 1..n
        BY <1>1, <1>4, <1>6, <3>3
      <4>2. messages'[i] = log'[n - msgNext + i]
        <5>1. messages'[i] = messages[i]
          BY <1>1, <1>4, <2>4, <3>3
        <5>2. messages[i] = log[n - msgNext + i]
          BY <1>4, <2>1, <4>1
        <5>3. QED
          BY <1>3, <4>1, <5>1, <5>2
      <4>3. CASE msgNext + 1 = M
        <5>1. i > msgNext' /\ (n + 1) - M + i - msgNext' = n - msgNext + i
          BY <1>1, <1>4, <2>3, <4>3
        <5>2. QED
          BY <4>2, <5>1
      <4>4. CASE msgNext + 1 # M
        <5>1. ~(i > msgNext') /\ (n + 1) - msgNext' + i = n - msgNext + i
          BY <1>1, <1>4, <2>3, <3>3, <4>4
        <5>2. QED
          BY <4>2, <5>1
      <4>5. QED
        BY <4>3, <4>4
    <3>4. QED
      BY <1>1, <1>4, <3>1, <3>2, <3>3
  <2>6. Len(messages') = (IF Len(log') < M THEN Len(log') ELSE M) /\ ~(Len(log') < M)
    BY <1>1, <1>3, <1>6, <2>4
  <2>7. msgNext' \in 0..(M - 1)
    BY <1>1, <1>4, <2>3
  <2>8. QED
    BY <1>3, <2>4, <2>5, <2>6, <2>7 DEF Ring
<1>7. QED
  BY <1>5, <1>6

\* Every step keeps what is kept twice in agreement.
LEMMA TidyKept == ASSUME IInv, Tidy, [Next]_vars PROVE Tidy'
<1>1. CASE Next
  <2>1. Ordering'
    BY <1>1, OrderingKept DEF Tidy
  <2>2. Ring'
    <3>1. CASE addMessage
      BY <3>1, RingKept DEF Tidy, IInv, Shape
    <3>2. CASE ~addMessage
      <4>1. ASSUME NEW w \in Waiter, Wait(w) PROVE UNCHANGED ringVars
        BY <4>1, WaiterSpares DEF SharedUnchanged
      <4>2. UNCHANGED ringVars
        BY <1>1, <3>2, <4>1 DEF Next, readLoop, applyDef, applySet, applyBlobMeta, applyDel,
           ReadFails, CloseDone, Close
      <4>3. QED
        BY <4>2 DEF ringVars, Ring, Tidy
    <3>3. QED
      BY <3>1, <3>2
  <2>3. calls' \in [Waiter -> Nat] /\ need' \in [Waiter -> Nat]
    <3>1. ASSUME NEW w \in Waiter, Wait(w)
          PROVE  calls' \in [Waiter -> Nat] /\ need' \in [Waiter -> Nat]
      <4>1. CASE UNCHANGED argVars
        BY <4>1 DEF argVars, Tidy
      <4>2. CASE \E o, p, states : \E n \in Needs \cup {0} : Call(w, o, p, states, n)
        <5>1. /\ calls' = [calls EXCEPT ![w] = @ + 1]
              /\ \E n \in Nat : need' = [need EXCEPT ![w] = n]
          BY <4>2, ClientAssumption DEF Call, ClientAssumption
        <5>2. QED
          BY <5>1 DEF Tidy
      <4>3. QED
        BY <3>1, <4>1, <4>2 DEF Wait, CallWaitRev, CallSetAndWait, CallWait, Send, Look, Wake,
           CtxDone, Poll, PollDead, Tick, PollCtxDone
    <3>2. CASE readLoop \/ Close
      BY <3>2, ReaderSteps DEF Announced, argVars, Tidy
    <3>3. QED
      BY <1>1, <3>1, <3>2 DEF Next
  <2>4. conn' \in {"open", "closed"} /\ reader' \in {"reading", "failing", "exited"}
    <3>1. ASSUME NEW w \in Waiter, Wait(w) PROVE conn' = conn /\ reader' = reader
      BY <3>1, WaiterSpares DEF SharedUnchanged, connVars
    <3>2. CASE readLoop \/ Close
      BY <3>2 DEF Tidy, readLoop, applyDef, applySet, applyBlobMeta, applyDel, addMessage, Token,
         ReadFails, CloseDone, Close, connVars
    <3>3. QED
      BY <1>1, <3>1, <3>2 DEF Next, Tidy
  <2>5. QED
    BY <2>1, <2>2, <2>3, <2>4 DEF Tidy
<1>2. CASE UNCHANGED vars
  BY <1>2 DEF vars, connVars, storeVars, ringVars, argVars, Tidy, Ordering, Ring, Known
<1>3. QED
  BY <1>1, <1>2

\* The order has as many places as the store has devices.
LEMMA CountOfDevices == ASSUME Ordering PROVE Cardinality(devices) = Len(order)
<1>1. /\ Len(order) \in Nat /\ order \in [1..Len(order) -> devices]
      /\ \A i, j \in 1..Len(order) : order[i] = order[j] => i = j
      /\ \A d \in devices : \E i \in 1..Len(order) : order[i] = d
  <2>1. order \in Seq(Device) /\ devices = {order[i] : i \in 1..Len(order)}
    BY DEF Ordering
  <2>2. order \in [1..Len(order) -> Device] /\ Len(order) \in Nat
    BY <2>1
  <2>3. QED
    BY <2>1, <2>2 DEF Ordering
<1>2. order \in Bijection(1..Len(order), devices)
  BY <1>1 DEF Bijection, Injection, IsInjective, Surjection
<1>3. ExistsBijection(1..Len(order), devices)
  BY <1>2 DEF ExistsBijection
<1>4. QED
  BY <1>1, <1>3, FS_CountingElements

\* The two parts of the ring, put together at msgNext, are the end of the log.
LEMMA RingIsLast == ASSUME Ring PROVE MessagesAreLast /\ Len(messages) <= MaxMessages
<1> DEFINE n == Len(messages)
           L == Len(log)
           a == SubSeq(messages, msgNext + 1, n)
           b == SubSeq(messages, 1, msgNext)
           c == SubSeq(log, L - n + 1, L)
<1>1. /\ MaxMessages \in Nat \ {0} /\ n \in Nat /\ L \in Nat /\ msgNext \in Nat
      /\ messages \in Seq(Nat) /\ log \in Seq(Nat)
      /\ n = (IF L < MaxMessages THEN L ELSE MaxMessages) /\ n <= L /\ n <= MaxMessages
  BY ClientAssumption DEF ClientAssumption, Ring
<1>2. msgNext <= n /\ (n > 0 => msgNext < n)
  BY <1>1 DEF Ring
<1>3. \A i \in 1..n : messages[i] = IF i > msgNext THEN log[L - n + i - msgNext]
                                    ELSE log[L - msgNext + i]
  BY DEF Ring
<1>4. (\A i \in 1..n : messages[i] \in Nat) /\ (\A i \in 1..L : log[i] \in Nat)
  BY <1>1
<1>5. /\ a \in Seq(Nat) /\ Len(a) = n - msgNext
      /\ \A i \in 1..(n - msgNext) : a[i] = messages[msgNext + i]
  <2>1. msgNext + 1 \in Int /\ n \in Int /\ (\A i \in (msgNext + 1)..n : messages[i] \in Nat)
    BY <1>1, <1>4
  <2>2. /\ a \in Seq(Nat) /\ Len(a) = (IF msgNext + 1 <= n THEN n - (msgNext + 1) + 1 ELSE 0)
        /\ \A i \in 1..(n - (msgNext + 1) + 1) : a[i] = messages[(msgNext + 1) + i - 1]
    BY <2>1, SubSeqProperties
  <2> HIDE DEF a
  <2>3. Len(a) = n - msgNext
    BY <1>1, <1>2, <2>2
  <2>4. ASSUME NEW i \in 1..(n - msgNext) PROVE a[i] = messages[msgNext + i]
    <3>1. i \in 1..(n - (msgNext + 1) + 1) /\ (msgNext + 1) + i - 1 = msgNext + i
      BY <1>1
    <3>2. QED
      BY <2>2, <3>1
  <2>5. QED
    BY <2>2, <2>3, <2>4
<1>6. /\ b \in Seq(Nat) /\ Len(b) = msgNext
      /\ \A i \in 1..msgNext : b[i] = messages[i]
  <2>1. 1 \in Int /\ msgNext \in Int /\ (\A i \in 1..msgNext : messages[i] \in Nat)
    BY <1>1, <1>2, <1>4
  <2>2. /\ b \in Seq(Nat) /\ Len(b) = (IF 1 <= msgNext THEN msgNext - 1 + 1 ELSE 0)
        /\ \A i \in 1..(msgNext - 1 + 1) : b[i] = messages[1 + i - 1]
    BY <2>1, SubSeqProperties
  <2> HIDE DEF b
  <2>3. Len(b) = msgNext
    BY <1>1, <2>2
  <2>4. ASSUME NEW i \in 1..msgNext PROVE b[i] = messages[i]
    <3>1. i \in 1..(msgNext - 1 + 1) /\ 1 + i - 1 = i
      BY <1>1
    <3>2. QED
      BY <2>2, <3>1
  <2>5. QED
    BY <2>2, <2>3, <2>4
<1>7. /\ c \in Seq(Nat) /\ Len(c) = n
      /\ \A i \in 1..n : c[i] = log[L - n + i]
  <2>1. L - n + 1 \in Int /\ L \in Int /\ (\A i \in (L - n + 1)..L : log[i] \in Nat)
    BY <1>1, <1>4
  <2>2. /\ c \in Seq(Nat) /\ Len(c) = (IF L - n + 1 <= L THEN L - (L - n + 1) + 1 ELSE 0)
        /\ \A i \in 1..(L - (L - n + 1) + 1) : c[i] = log[(L - n + 1) + i - 1]
    BY <2>1, SubSeqProperties
  <2> HIDE DEF c
  <2>3. Len(c) = n
    BY <1>1, <2>2
  <2>4. ASSUME NEW i \in 1..n PROVE c[i] = log[L - n + i]
    <3>1. i \in 1..(L - (L - n + 1) + 1) /\ (L - n + 1) + i - 1 = L - n + i
      BY <1>1
    <3>2. QED
      BY <2>2, <3>1
  <2>5. QED
    BY <2>2, <2>3, <2>4
<1>8. Messages = a \o b
  BY DEF Messages
<1> HIDE DEF a, b, c
<1>9. /\ a \o b \in Seq(Nat) /\ Len(a \o b) = Len(a) + Len(b)
      /\ \A i \in 1..(Len(a) + Len(b)) : (a \o b)[i] = IF i <= Len(a) THEN a[i] ELSE b[i - Len(a)]
  BY <1>5, <1>6, ConcatProperties
<1>10. Len(a) + Len(b) = n
  BY <1>1, <1>5, <1>6
<1>11. ASSUME NEW i \in 1..n PROVE (a \o b)[i] = c[i]
  <2>1. CASE i <= n - msgNext
    <3>1. i \in 1..(n - msgNext) /\ msgNext + i \in 1..n /\ msgNext + i > msgNext
            /\ L - n + (msgNext + i) - msgNext = L - n + i
      BY <1>1, <1>2, <2>1
    <3>2. (a \o b)[i] = a[i]
      BY <1>5, <1>9, <1>10, <2>1
    <3>3. a[i] = messages[msgNext + i]
      BY <1>5, <3>1
    <3>4. messages[msgNext + i] = log[L - n + i]
      BY <1>3, <3>1
    <3>5. QED
      BY <1>7, <3>2, <3>3, <3>4
  <2>2. CASE ~(i <= n - msgNext)
    <3>1. /\ i - (n - msgNext) \in 1..msgNext /\ i - (n - msgNext) \in 1..n
          /\ ~(i - (n - msgNext) > msgNext) /\ L - msgNext + (i - (n - msgNext)) = L - n + i
      <4>1. PICK m \in Nat, k \in Nat, l \in Nat :
              m = msgNext /\ k = n /\ l = L /\ m <= k
        BY <1>1, <1>2
      <4>2. i \in 1..k /\ ~(i <= k - m)
        BY <2>2, <4>1
      <4>3. /\ i - (k - m) \in 1..m /\ i - (k - m) \in 1..k
            /\ ~(i - (k - m) > m) /\ l - m + (i - (k - m)) = l - k + i
        BY <4>1, <4>2
      <4>4. QED
        BY <4>1, <4>3
    <3>2. (a \o b)[i] = b[i - (n - msgNext)]
      BY <1>5, <1>9, <1>10, <2>2
    <3>3. b[i - (n - msgNext)] = messages[i - (n - msgNext)]
      BY <1>6, <3>1
    <3>4. messages[i - (n - msgNext)] = log[L - n + i]
      BY <1>3, <3>1
    <3>5. QED
      BY <1>7, <3>2, <3>3, <3>4
  <2>3. QED
    BY <2>1, <2>2
<1>12. a \o b = c
  BY <1>7, <1>9, <1>10, <1>11, SeqEqual
<1>13. QED
  BY <1>1, <1>8, <1>12 DEF MessagesAreLast, c

\* The two invariants give every variable its shape, and what is kept twice agrees.
LEMMA TidyTypes == IInv /\ Tidy => TypeOK
<1> SUFFICES ASSUME IInv, Tidy PROVE TypeOK
  OBVIOUS
<1>1. ConnTypes
  BY DEF IInv, Dead, Tidy, ConnTypes
<1>2. StoreTypes
  BY CountOfDevices DEF IInv, Shape, Tidy, Ordering, OrderIsStore, StoreTypes
<1>3. RingTypes
  BY RingIsLast DEF Tidy, Ring, RingTypes
<1>4. CallTypes
  BY Zenon DEF IInv, Shape, Tidy, CallTypes
<1>5. QED
  BY <1>1, <1>2, <1>3, <1>4 DEF TypeOK

\* The client's types, and with them: Devices lists each device of the store once, no
\* property outlives its device, and Messages returns the last lines in their order.
THEOREM ListsAgree == Spec => []TypeOK
<1>1. Spec => []Tidy
  BY InitTidy, InitIInv, NextIInv, TidyKept, PTL DEF Spec
<1>2. QED
  BY <1>1, Invariance, TidyTypes, PTL
=============================================================================
