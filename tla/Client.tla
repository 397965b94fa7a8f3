------------------------------- MODULE Client -------------------------------
(***************************************************************************)
(* The INDI client, client/client.go: one read loop applies what the       *)
(* server sends to the property store, and any number of goroutines wait   *)
(* for the store to reach a state (WaitRevCtx, setAndWaitCtx, WaitCtx,     *)
(* WaitDevicesCtx).                                                        *)
(*                                                                         *)
(* One action is one critical section of c.mu, one select or one send.     *)
(* c.updated, the channel that is closed and replaced on every change, is  *)
(* its generation number: the channel a waiter holds is closed iff its     *)
(* generation is not the current one.                                      *)
(***************************************************************************)
EXTENDS Integers, Sequences, FiniteSets

CONSTANTS
    Waiter,       \* goroutines that call the client
    Device, Name, \* what the server may define
    Elements,     \* kinds of element the server sends
    States,       \* states that definitions carry; a set* may also carry none
    Ops,          \* the calls that waiters make
    Wants,        \* predicates of WaitRev and Wait: the sets of states they accept
    Needs,        \* the n of WaitDevices
    MaxMessages,  \* maxMessages, the capacity of the message ring
    MaxElements,  \* bound: elements the client receives
    MaxCalls      \* bound: calls of one waiter

Prop   == Device \X Name
All    == "*"       \* an empty name attribute
NoState == ""       \* an absent state attribute
Acked  == {"Ok", "Alert"}

\* A property of the store: its Rev, its State, and in "at" the number of the
\* element that wrote it last.  The zero Property stands for an unknown one.
Entry  == [rev : Nat, state : States \cup {NoState}, at : Nat]
Absent == [rev |-> 0, state |-> NoState, at |-> 0]

\* What a call returns when it does not return the property's state.
Outcome == {"none", "unsent", "down", "timeout", "true", "false"}

ASSUME ClientAssumption ==
    /\ Waiter # {} /\ Device # {} /\ Name # {}
    /\ All \notin Name
    /\ Elements \subseteq {"def", "set", "blob", "del", "message"}
    /\ Ops \subseteq {"WaitRev", "SetAndWait", "Wait", "WaitDevices"}
    /\ States \cap ({NoState, "blocked"} \cup Outcome) = {}
    /\ Wants \subseteq SUBSET States
    /\ Needs \subseteq Nat
    /\ MaxMessages \in Nat \ {0}
    /\ MaxElements \in Nat /\ MaxCalls \in Nat

VARIABLES
    conn,      \* "open", or "closed" by Close
    reader,    \* the read loop: "reading", "failing" (in fail), "exited" (done closed)
    closed,    \* c.closed
    gen,       \* the generation of c.updated
    devices,   \* the keys of c.store
    order,     \* c.order
    props,     \* c.store, Absent where there is no entry
    messages, msgNext,  \* the message ring
    pc,        \* where each waiter is
    op, target, want, since, need,  \* its call and the arguments of the call
    ch, snap,  \* the channel and the property it captured
    result,    \* what its last call returned
    received,  \* history: elements received
    log,       \* history: every message received
    began,     \* history: elements received when the call recorded its Rev
    calls      \* calls made, for the bound

storeVars == <<gen, devices, order, props>>
ringVars  == <<messages, msgNext, log>>
connVars  == <<conn, reader, closed>>
argVars   == <<op, target, want, since, need, began, calls>>
waitVars  == <<pc, ch, snap, result>>
vars == <<connVars, storeVars, ringVars, received, argVars, waitVars>>

Init ==
    /\ conn = "open" /\ reader = "reading" /\ closed = FALSE
    /\ gen = 0
    /\ devices = {} /\ order = <<>>
    /\ props = [p \in Prop |-> Absent]
    /\ messages = <<>> /\ msgNext = 0
    /\ received = 0 /\ log = <<>>
    /\ pc = [w \in Waiter |-> "idle"]
    /\ op = [w \in Waiter |-> "none"]
    /\ target = [w \in Waiter |-> CHOOSE p \in Prop : TRUE]
    /\ want = [w \in Waiter |-> {}]
    /\ since = [w \in Waiter |-> 0]
    /\ need = [w \in Waiter |-> 0]
    /\ began = [w \in Waiter |-> 0]
    /\ calls = [w \in Waiter |-> 0]
    /\ ch = [w \in Waiter |-> 0]
    /\ snap = [w \in Waiter |-> Absent]
    /\ result = [w \in Waiter |-> "none"]

(***************************************************************************)
(* The read loop                                                           *)
(***************************************************************************)
signalLocked == gen' = gen + 1

Known(p) == props[p].rev > 0

\* The next element of kind k has been decoded.
Newest == received + 1
Token(k) ==
    /\ reader = "reading"
    /\ k \in Elements
    /\ received < MaxElements
    /\ received' = Newest
    /\ UNCHANGED <<connVars, argVars, waitVars>>

\* Variant: a redefinition starts the count again.
Defined_Restarts(p, s) == [rev |-> 1, state |-> s, at |-> Newest]
\* A redefinition continues the count of the entry it replaces.
Defined(p, s) == [rev |-> props[p].rev + 1, state |-> s, at |-> Newest]

\* Variant: a definition of a known device is appended to order again.
Ordered_Always(d) == Append(order, d)
Ordered(d) == IF d \in devices \/ (\E i \in 1..Len(order) : order[i] = d)
              THEN order ELSE Append(order, d)

applyDef(p, s) ==
    /\ Token("def")
    /\ devices' = devices \cup {p[1]}
    /\ order' = Ordered(p[1])
    /\ props' = [props EXCEPT ![p] = Defined(p, s)]
    /\ signalLocked
    /\ UNCHANGED ringVars

\* Variant: an update that repeats the state wakes nobody.
Updates_Quietly(p, s) ==
    /\ props' = [props EXCEPT ![p] = [rev |-> @.rev + 1, at |-> Newest,
                                      state |-> IF s = NoState THEN @.state ELSE s]]
    /\ gen' = IF s \in {NoState, props[p].state} THEN gen ELSE gen + 1
    /\ UNCHANGED <<devices, order>>

\* What applySet and applyBlobMeta do to the property they name, if it is known.
Updates(p, s) ==
    /\ props' = [props EXCEPT ![p] = [rev |-> @.rev + 1, at |-> Newest,
                                      state |-> IF s = NoState THEN @.state ELSE s]]
    /\ signalLocked
    /\ UNCHANGED <<devices, order>>

Applied(p, s) == IF Known(p) THEN Updates(p, s) ELSE UNCHANGED storeVars

applySet(p, s) ==
    /\ Token("set")
    /\ Applied(p, s)
    /\ UNCHANGED ringVars

applyBlobMeta(p, s) ==
    /\ Token("blob")
    /\ Applied(p, s)
    /\ UNCHANGED ringVars

\* slices.Delete at the slices.Index of d, if it is there.
Without(s, d) ==
    IF \E i \in 1..Len(s) : s[i] = d
    THEN LET k == CHOOSE i \in 1..Len(s) : s[i] = d /\ \A j \in 1..(i - 1) : s[j] # d
         IN  SubSeq(s, 1, k - 1) \o SubSeq(s, k + 1, Len(s))
    ELSE s

\* A deletion of the whole device takes its entry out of the store and of order;
\* one of a property leaves the device, and signals even if there was none.
applyDel(d, n) ==
    /\ Token("del")
    /\ IF d \in devices
       THEN /\ devices' = IF n = All THEN devices \ {d} ELSE devices
            /\ order' = IF n = All THEN Without(order, d) ELSE order
            /\ props' = [p \in Prop |-> IF p[1] = d /\ n \in {All, p[2]}
                                        THEN Absent ELSE props[p]]
            /\ signalLocked
       ELSE UNCHANGED storeVars
    /\ UNCHANGED ringVars

Overwrite ==
    /\ messages' = [messages EXCEPT ![msgNext + 1] = Newest]
    /\ msgNext' = (msgNext + 1) % MaxMessages

\* A message is the number of the element that carried it.
addMessage ==
    /\ Token("message")
    /\ log' = Append(log, Newest)
    /\ IF Len(messages) < MaxMessages
       THEN messages' = Append(messages, Newest) /\ UNCHANGED msgNext
       ELSE Overwrite
    /\ UNCHANGED storeVars

\* The stream ends, is cut or is no XML any more: fail, first under c.mu ...
ReadFails ==
    /\ reader = "reading"
    /\ reader' = "failing"
    /\ closed' = TRUE
    /\ signalLocked
    /\ UNCHANGED <<conn, devices, order, props, ringVars, received, argVars, waitVars>>

\* ... and then close(c.done).
CloseDone ==
    /\ reader = "failing"
    /\ reader' = "exited"
    /\ UNCHANGED <<conn, closed, storeVars, ringVars, received, argVars, waitVars>>

readLoop ==
    \/ \E p \in Prop, s \in States : applyDef(p, s)
    \/ \E p \in Prop, s \in States \cup {NoState} : applySet(p, s) \/ applyBlobMeta(p, s)
    \/ \E d \in Device, n \in Name \cup {All} : applyDel(d, n)
    \/ addMessage
    \/ ReadFails
    \/ CloseDone

-----------------------------------------------------------------------------
Close ==
    /\ conn = "open"
    /\ conn' = "closed"
    /\ UNCHANGED <<reader, closed, storeVars, ringVars, received, argVars, waitVars>>

(***************************************************************************)
(* The callers                                                             *)
(***************************************************************************)
SharedUnchanged == UNCHANGED <<connVars, storeVars, ringVars, received>>

Return(w, r) ==
    /\ result' = [result EXCEPT ![w] = r]
    /\ pc' = [pc EXCEPT ![w] = "idle"]

\* A call of WaitRev names a Rev the caller has seen: that of a property it read,
\* now or earlier, or 0.
Seen(p) == 0..props[p].rev

Call(w, o, p, states, n) ==
    /\ pc[w] = "idle" /\ calls[w] < MaxCalls
    /\ o \in Ops
    /\ op' = [op EXCEPT ![w] = o]
    /\ target' = [target EXCEPT ![w] = p]
    /\ want' = [want EXCEPT ![w] = states]
    /\ need' = [need EXCEPT ![w] = n]
    /\ calls' = [calls EXCEPT ![w] = @ + 1]
    /\ began' = [began EXCEPT ![w] = received]
    /\ result' = [result EXCEPT ![w] = "none"]
    /\ SharedUnchanged

CallWaitRev(w) ==
    \E p \in Prop, states \in Wants : \E r \in Seen(p) :
        /\ Call(w, "WaitRev", p, states, 0)
        /\ since' = [since EXCEPT ![w] = r]
        /\ pc' = [pc EXCEPT ![w] = "look"]
        /\ UNCHANGED <<ch, snap>>

\* Variant: the Rev of the property is not recorded before the command.
Recorded_Not(p) == 0
Recorded(p) == props[p].rev

\* setAndWaitCtx: record the property's Rev, ...
CallSetAndWait(w) ==
    \E p \in Prop :
        /\ Call(w, "SetAndWait", p, Acked, 0)
        /\ since' = [since EXCEPT ![w] = Recorded(p)]
        /\ pc' = [pc EXCEPT ![w] = "send"]
        /\ UNCHANGED <<ch, snap>>

\* ... send the command, which fails on a closed connection and may fail on any,
Send(w) ==
    /\ pc[w] = "send"
    /\ \/ /\ conn = "open"
          /\ pc' = [pc EXCEPT ![w] = "look"]
          /\ UNCHANGED result
       \/ Return(w, "unsent")
    /\ UNCHANGED <<ch, snap>>
    /\ SharedUnchanged /\ UNCHANGED argVars

Meets(w, e) == e.rev > since[w] /\ e.state \in want[w]

\* Variant: the dead connection is noticed before the property is examined.
Verdict_DeadFirst(w) ==
    IF closed THEN "down"
    ELSE IF Meets(w, props[target[w]]) THEN props[target[w]].state ELSE "blocked"
\* What one pass of WaitRevCtx's loop concludes from what it captures under c.mu.
Verdict(w) ==
    IF Meets(w, props[target[w]]) THEN props[target[w]].state
    ELSE IF closed THEN "down" ELSE "blocked"

\* WaitRevCtx: capture c.updated, the property and c.closed together.
Look(w) ==
    /\ pc[w] = "look"
    /\ ch' = [ch EXCEPT ![w] = gen]
    /\ snap' = [snap EXCEPT ![w] = props[target[w]]]
    /\ IF Verdict(w) = "blocked"
       THEN pc' = [pc EXCEPT ![w] = "select"] /\ UNCHANGED result
       ELSE Return(w, Verdict(w))
    /\ SharedUnchanged /\ UNCHANGED argVars

\* The select: the captured channel is closed, or ctx is done.
Wake(w) ==
    /\ pc[w] = "select" /\ ch[w] # gen
    /\ pc' = [pc EXCEPT ![w] = "look"]
    /\ UNCHANGED <<ch, snap, result>>
    /\ SharedUnchanged /\ UNCHANGED argVars

CtxDone(w) ==
    /\ pc[w] = "select"
    /\ Return(w, "timeout")
    /\ UNCHANGED <<ch, snap>>
    /\ SharedUnchanged /\ UNCHANGED argVars

-----------------------------------------------------------------------------
(* WaitCtx and WaitDevicesCtx poll *)

CallWait(w) ==
    \/ \E p \in Prop, states \in Wants :
        /\ Call(w, "Wait", p, states, 0)
        /\ pc' = [pc EXCEPT ![w] = "poll"]
        /\ UNCHANGED <<since, ch, snap>>
    \/ \E p \in Prop, n \in Needs :
        /\ Call(w, "WaitDevices", p, {}, n)
        /\ pc' = [pc EXCEPT ![w] = "poll"]
        /\ UNCHANGED <<since, ch, snap>>

Reached(w) == IF op[w] = "Wait"
              THEN Known(target[w]) /\ props[target[w]].state \in want[w]
              ELSE Len(order) >= need[w]

Poll(w) ==
    /\ pc[w] = "poll"
    /\ IF Reached(w) THEN Return(w, "true")
       ELSE pc' = [pc EXCEPT ![w] = "dead?"] /\ UNCHANGED result
    /\ UNCHANGED <<ch, snap>>
    /\ SharedUnchanged /\ UNCHANGED argVars

IsDead == closed

PollDead(w) ==
    /\ pc[w] = "dead?"
    /\ IF IsDead THEN Return(w, "false")
       ELSE pc' = [pc EXCEPT ![w] = "tick"] /\ UNCHANGED result
    /\ UNCHANGED <<ch, snap>>
    /\ SharedUnchanged /\ UNCHANGED argVars

Tick(w) ==
    /\ pc[w] = "tick"
    /\ pc' = [pc EXCEPT ![w] = "poll"]
    /\ UNCHANGED <<ch, snap, result>>
    /\ SharedUnchanged /\ UNCHANGED argVars

\* WaitDevices looks once more when its ctx is done, Wait only re-reads its answer.
LastLook(w) == IF op[w] = "WaitDevices" /\ Reached(w) THEN "true" ELSE "false"

PollCtxDone(w) ==
    /\ pc[w] = "tick"
    /\ Return(w, LastLook(w))
    /\ UNCHANGED <<ch, snap>>
    /\ SharedUnchanged /\ UNCHANGED argVars

Wait(w) ==
    \/ CallWaitRev(w) \/ CallSetAndWait(w) \/ CallWait(w)
    \/ Send(w) \/ Look(w) \/ Wake(w) \/ CtxDone(w)
    \/ Poll(w) \/ PollDead(w) \/ Tick(w) \/ PollCtxDone(w)

Next == readLoop \/ Close \/ \E w \in Waiter : Wait(w)

Spec == Init /\ [][Next]_vars

\* The goroutines run; nobody has to send, to close or to cancel anything.  After
\* Close the next read fails, and fail runs to its end.
Progress(w) == Send(w) \/ Look(w) \/ Wake(w) \/ Poll(w) \/ PollDead(w) \/ Tick(w)
LiveSpec == /\ Spec
            /\ \A w \in Waiter : WF_vars(Progress(w))
            /\ WF_vars(conn = "closed" /\ ReadFails)
            /\ WF_vars(CloseDone)
=============================================================================
