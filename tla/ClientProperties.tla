-------------------------- MODULE ClientProperties --------------------------
(***************************************************************************)
(* The properties of the client (module Client).                           *)
(***************************************************************************)
EXTENDS Client

\* c.order and c.store, kept in step by hand in applyDef and applyDel: order lists
\* every device of the store exactly once, and no property outlives its device.
OrderIsStore ==
    /\ devices = {order[i] : i \in 1..Len(order)}
    /\ Cardinality(devices) = Len(order)
    /\ \A p \in Prop : Known(p) => p[1] \in devices

\* Messages returns the last maxMessages lines received, oldest first.
Messages == SubSeq(messages, msgNext + 1, Len(messages)) \o SubSeq(messages, 1, msgNext)
MessagesAreLast ==
    LET n == IF Len(log) < MaxMessages THEN Len(log) ELSE MaxMessages
    IN  Messages = SubSeq(log, Len(log) - n + 1, Len(log))

\* Every variable has the shape the code gives it, and what the client keeps twice
\* agrees: its devices in order and in store, and the ring with what was received.
ConnTypes ==
    /\ conn \in {"open", "closed"} /\ closed \in BOOLEAN
    /\ reader \in {"reading", "failing", "exited"}
    /\ closed <=> reader # "reading"
StoreTypes ==
    /\ gen \in Nat /\ received \in Nat
    /\ order \in Seq(Device) /\ OrderIsStore
    /\ props \in [Prop -> Entry]
RingTypes ==
    /\ messages \in Seq(Nat) /\ Len(messages) <= MaxMessages
    /\ msgNext \in 0..(MaxMessages - 1)
    /\ log \in Seq(Nat) /\ MessagesAreLast
CallTypes ==
    /\ pc \in [Waiter -> {"idle", "send", "look", "select", "poll", "dead?", "tick"}]
    /\ op \in [Waiter -> Ops \cup {"none"}]
    /\ target \in [Waiter -> Prop] /\ want \in [Waiter -> (SUBSET States) \cup {Acked}]
    /\ since \in [Waiter -> Nat] /\ need \in [Waiter -> Nat]
    /\ began \in [Waiter -> Nat] /\ calls \in [Waiter -> Nat]
    /\ ch \in [Waiter -> Nat] /\ snap \in [Waiter -> Entry]
    /\ result \in [Waiter -> States \cup Outcome]
TypeOK == ConnTypes /\ StoreTypes /\ RingTypes /\ CallTypes

\* As long as a property stays in the store, every update and redefinition adds
\* exactly one to its Rev, and nothing else changes the property (Rev's comment).
RevCounts ==
    [][\A p \in Prop : Known(p) /\ Known(p)' =>
        props'[p].rev = props[p].rev + (IF props'[p] # props[p] THEN 1 ELSE 0)]_vars

\* No wakeup is lost between capturing c.updated and the select: a waiter blocked
\* on a channel that is still open has examined the property as it is now, did not
\* accept it, and the connection is alive.
BlockedIsCurrent ==
    \A w \in Waiter : pc[w] = "select" /\ ch[w] = gen =>
        /\ snap[w] = props[target[w]]
        /\ ~Meets(w, snap[w])
        /\ ~closed

\* A waiter whose property stays acceptable, or whose connection is dead, does not
\* wait forever, whether or not its ctx is ever done.
WaitersWake ==
    \A w \in Waiter :
        /\ []<>~(pc[w] \in {"look", "select"} /\ Meets(w, props[target[w]]))
        /\ closed ~> pc[w] = "idle"

\* The update that satisfied a setAndWait arrived after the call recorded the
\* property's Rev: state from before the command never passes for its answer.
FreshAck ==
    \A w \in Waiter : op[w] = "SetAndWait" /\ result[w] \in Acked => snap[w].at > began[w]

\* A setAndWait that is blocked has no answer: no later update in Ok or Alert is in
\* the store (the comment on SetNumberAndWait).
\* The code does not keep this (README, Disagreements).
AckSeen ==
    \A w \in Waiter : op[w] = "SetAndWait" /\ pc[w] = "select" /\ ch[w] = gen =>
        LET p == props[target[w]] IN ~(p.at > began[w] /\ p.state \in Acked)

\* A waiter is told that the connection went down only if the last state the client
\* received is not the one it waits for: an answer applied just before the
\* connection died is not thrown away.
DownIsFinal ==
    \A w \in Waiter : result[w] = "down" => closed /\ ~Meets(w, props[target[w]])
=============================================================================
