-------------------------------- MODULE Hub --------------------------------
(***************************************************************************)
(* The INDI hub, server/server.go: device goroutines and client read loops *)
(* publish messages, every connection has a bounded outbound queue and a   *)
(* writer, and whoever finds a connection broken tears it down.            *)
(*                                                                         *)
(* One action is one critical section (s.mu, c.qmu, c.pmu or p.mu) or one  *)
(* socket operation, so every interleaving the three mutexes admit is a    *)
(* behaviour.  A message is its kind, its property, the version of the     *)
(* property's value it was marshalled from and the goroutine that built it.*)
(***************************************************************************)
EXTENDS Integers, Sequences, FiniteSets

CONSTANTS
    Conn,          \* connections that may be accepted
    Publisher,     \* device goroutines that call the Publisher interface
    Order,         \* the properties in s.order / Properties() order
    Device, DeviceOf,  \* the devices, and the one each property belongs to
    BlobProp,      \* properties of BLOBType
    QueueMsgs,     \* outQueueMsgs: capacity of a connection's channel
    QueueBytes,    \* outQueueBytes: byte budget of a connection's queue
    SizeOf,        \* len(frame(...)) of each kind of message
    Publications,  \* <<kind, property>> pairs a device goroutine publishes
    Requests,      \* kinds of element clients send
    Asked,         \* scopes clients name in getProperties
    Enables,       \* <<scope, policy>> pairs clients send in enableBLOB
    Shutdown,      \* whether the host may cancel the context
    MaxPub,        \* bound: publications of one device goroutine
    MaxReq         \* bound: elements handled for one client

Prop == {Order[i] : i \in 1..Len(Order)}
All  == "*"        \* an empty device or name attribute
Kind == {"def", "set", "blob", "message", "del"}

Caller == ({"device"} \X Publisher) \cup ({"reader"} \X Conn)
Reader(c) == <<"reader", c>>
Writer(c) == <<"writer", c>>
Thread == Caller \cup ({"writer"} \X Conn)

Message == [kind : Kind, prop : Prop, val : Nat, from : Caller]
Job     == [kind : Kind, prop : Prop, to : {"all", "own", "nobody"}]

Scope  == ({All} \cup Device) \X ({All} \cup Prop)
Policy == {"never", "also", "only"}
NoMsg  == [kind |-> "none"]
NoConn == "none"

ASSUME HubAssumption ==
    /\ Conn # {}
    /\ DeviceOf \in [Prop -> Device]
    /\ All \notin Device \cup Prop
    /\ NoConn \notin Conn
    /\ QueueMsgs \in Nat \ {0}
    /\ QueueBytes \in Nat
    /\ SizeOf \in [Kind -> Nat \ {0}]
    /\ Publications \subseteq Kind \X Prop
    /\ Requests \subseteq {"getProperties", "enableBLOB", "command", "reject", "ignored"}
    /\ Asked \subseteq Scope
    /\ Enables \subseteq Scope \X Policy
    /\ Shutdown \in BOOLEAN
    /\ MaxPub \in Nat /\ MaxReq \in Nat
    /\ Order \in Seq(Prop)

VARIABLES
    cancelled,  \* ctx is done
    listening,  \* the listener is open
    conns,      \* s.conns, the registered connections
    sock,       \* c.nc: "none" before Accept, then "open", then "closed"
    closed,     \* c.closed, and c.done is closed with it
    chan,       \* c.queue as a Go channel: "open", "closed" or "panic"
    queue,      \* the messages buffered in c.queue
    qbytes,     \* c.qbytes
    policy,     \* c.policy: the scopes enableBLOB has set
    value,      \* the version of each property's values and state
    agenda,     \* what a caller still has to publish in this call
    msg,        \* the message a caller is sending
    todo,       \* the connections it has still to visit
    cur,        \* the connection a thread works on
    pc,         \* where a thread is
    back,       \* where removeConn returns to
    held,       \* the message a writer has received and not yet written
    watcher,    \* the goroutine of handle that waits for ctx or c.done
    wire,       \* what each client's socket has taken
    refused,    \* history: the threads whose message c's queue was too full for
    entitled,   \* history: the connections whose policy has let a caller's
                \* message through at some moment since it chose its audience
    spent       \* publications or elements used up, for the bounds

hostVars   == <<cancelled, listening>>
queueVars  == <<closed, chan, queue, qbytes>>
connVars   == <<conns, sock, queueVars, policy>>
callVars   == <<agenda, msg, todo>>
threadVars == <<cur, pc, back>>
clientVars == <<held, watcher, wire>>
history    == <<refused, entitled, spent>>
vars == <<hostVars, connVars, value, callVars, threadVars, clientVars, history>>

(***************************************************************************)
(* enableBLOB policy: the narrowest scope set decides, the default is      *)
(* Never.  A device's message has no property name.                        *)
(***************************************************************************)
FirstSet(c, scopes) ==
    LET set == {i \in DOMAIN scopes : scopes[i] \in DOMAIN policy[c]}
    IN  IF set = {} THEN "never"
        ELSE policy[c][scopes[CHOOSE i \in set : \A j \in set : i <= j]]

policyFor(c, d, n) == FirstSet(c, << <<d, n>>, <<d, All>>, <<All, All>> >>)

NameOf(m) == IF m.kind = "message" THEN All ELSE m.prop

\* What enableBLOB promises, stated over the set of scopes instead of the order
\* of the lookups: the scope that is set and has no narrower one set decides.
Covers(s, m)   == s[1] \in {All, DeviceOf[m.prop]} /\ s[2] \in {All, NameOf(m)}
                    /\ (s[1] = All => s[2] = All)
Narrower(r, s) == r # s /\ s[1] \in {All, r[1]} /\ s[2] \in {All, r[2]}
Entitled(pol, m) ==
    LET set      == {s \in DOMAIN pol : Covers(s, m)}
        deciding == {pol[s] : s \in {x \in set : \A r \in set : ~Narrower(r, x)}}
    IN  \/ m.kind = "def" /\ m.prop \in BlobProp
        \/ m.kind = "blob" /\ deciding \cap {"also", "only"} # {}
        \/ m.kind # "blob" /\ "only" \notin deciding

\* Variant: whatever is of a BLOB vector passes, as its definition does.
wants_Frames(c, m) ==
    m.prop \in BlobProp \/ policyFor(c, DeviceOf[m.prop], NameOf(m)) # "only"

wants(c, m) ==
    LET p == policyFor(c, DeviceOf[m.prop], NameOf(m))
    IN  CASE m.kind = "def" /\ m.prop \in BlobProp -> TRUE
          [] m.kind = "blob" -> p # "never"
          [] OTHER           -> p # "only"

Init ==
    /\ cancelled = FALSE
    /\ listening = TRUE
    /\ conns = {}
    /\ sock = [c \in Conn |-> "none"]
    /\ closed = [c \in Conn |-> FALSE]
    /\ chan = [c \in Conn |-> "open"]
    /\ queue = [c \in Conn |-> <<>>]
    /\ qbytes = [c \in Conn |-> 0]
    /\ policy = [c \in Conn |-> <<>>]
    /\ value = [p \in Prop |-> 0]
    /\ agenda = [t \in Caller |-> <<>>]
    /\ msg = [t \in Caller |-> NoMsg]
    /\ todo = [t \in Caller |-> {}]
    /\ cur = [t \in Thread |-> NoConn]
    /\ pc = [t \in Thread |-> IF t[1] = "device" THEN "idle" ELSE "none"]
    /\ back = [t \in Thread |-> "idle"]
    /\ held = [c \in Conn |-> NoMsg]
    /\ watcher = [c \in Conn |-> "none"]
    /\ wire = [c \in Conn |-> <<>>]
    /\ refused = [c \in Conn |-> {}]
    /\ entitled = [t \in Caller |-> {}]
    /\ spent = [t \in Caller |-> 0]

-----------------------------------------------------------------------------
(* Accepting and shutting down *)

\* acceptLoop: register the connection and start its reader, watcher, writer.
Accept(c) ==
    /\ listening
    /\ sock[c] = "none"
    /\ sock' = [sock EXCEPT ![c] = "open"]
    /\ conns' = conns \cup {c}
    /\ pc' = [pc EXCEPT ![Reader(c)] = "idle", ![Writer(c)] = "recv"]
    /\ watcher' = [watcher EXCEPT ![c] = "waiting"]
    /\ UNCHANGED <<hostVars, queueVars, policy, value, callVars, cur, back,
                   held, wire, history>>

\* The host cancels the context given to Serve.
Cancel ==
    /\ Shutdown /\ ~cancelled
    /\ cancelled' = TRUE
    /\ UNCHANGED <<listening, connVars, value, callVars, threadVars, clientVars,
                   history>>

\* The goroutine of Serve that waits for ctx closes the listener.
StopListening ==
    /\ cancelled /\ listening
    /\ listening' = FALSE
    /\ UNCHANGED <<cancelled, connVars, value, callVars, threadVars, clientVars,
                   history>>

\* The watcher of a connection: ctx done closes the socket ...
WatcherEnds(c, nc) ==
    /\ watcher[c] = "waiting"
    /\ watcher' = [watcher EXCEPT ![c] = "exited"]
    /\ sock' = [sock EXCEPT ![c] = nc]
    /\ UNCHANGED <<hostVars, conns, queueVars, policy, value, callVars,
                   threadVars, held, wire, history>>

\* Variant: it forgets the socket.
WatcherCancels_Only(c) == cancelled /\ WatcherEnds(c, sock[c])

WatcherCancels(c) == cancelled /\ WatcherEnds(c, "closed")
\* ... and a closed c.done lets it go.
WatcherDone(c) == closed[c] /\ WatcherEnds(c, sock[c])

-----------------------------------------------------------------------------
(* What starts a call: a device goroutine, or an element a client sent *)

Start(t, jobs) ==
    /\ spent' = [spent EXCEPT ![t] = @ + 1]
    /\ agenda' = [agenda EXCEPT ![t] = jobs]
    /\ pc' = [pc EXCEPT ![t] = IF jobs = <<>> THEN "idle" ELSE "marshal"]

ToAll(k, p) == [kind |-> k, prop |-> p, to |-> "all"]
ToOwn(k, p) == [kind |-> k, prop |-> p, to |-> "own"]

\* A driver changes a property, or takes a frame, and publishes it.
Publish(d) ==
    LET t == <<"device", d>>
    IN  /\ pc[t] = "idle"
        /\ spent[t] < MaxPub
        /\ \E pub \in Publications :
              /\ value' = IF pub[1] \in {"message", "del"} THEN value
                          ELSE [value EXCEPT ![pub[2]] = @ + 1]
              /\ Start(t, << ToAll(pub[1], pub[2]) >>)
        /\ UNCHANGED <<hostVars, connVars, msg, todo, cur, back, clientVars,
                       refused, entitled>>

\* A read loop between two elements; buffered ones outlive the socket.
Reading(c, request) ==
    /\ request \in Requests
    /\ pc[Reader(c)] = "idle"
    /\ spent[Reader(c)] < MaxReq

\* getProperties: the properties in order, each one the two attributes select
\* sent as a def to the client that asked.
GetProperties(c) ==
    /\ Reading(c, "getProperties")
    /\ \E s \in Asked :
          LET asked(p) == s[1] \in {All, DeviceOf[p]} /\ s[2] \in {All, p}
          IN  Start(Reader(c),
                    [i \in 1..Len(Order) |->
                        [kind |-> "def", prop |-> Order[i],
                         to |-> IF asked(Order[i]) THEN "own" ELSE "nobody"]])
    /\ UNCHANGED <<hostVars, connVars, value, msg, todo, cur, back, clientVars,
                   refused, entitled>>

\* enableBLOB with a recognised mode.
EnableBLOB(c) ==
    /\ Reading(c, "enableBLOB")
    /\ \E e \in Enables :
          policy' = [policy EXCEPT ![c] =
                        [s \in DOMAIN @ \cup {e[1]} |->
                            IF s = e[1] THEN e[2] ELSE policy[c][s]]]
    /\ entitled' = [t \in Caller |->
                       IF msg[t] # NoMsg /\ Entitled(policy'[c], msg[t])
                         THEN entitled[t] \cup {c} ELSE entitled[t]]
    /\ spent' = [spent EXCEPT ![Reader(c)] = @ + 1]
    /\ UNCHANGED <<hostVars, conns, sock, queueVars, value, callVars,
                   threadVars, clientVars, refused>>

\* A valid command: HandleNew, on this goroutine, changes p and updates it.
Command(c) ==
    /\ Reading(c, "command")
    /\ \E p \in Prop \ BlobProp :
          /\ value' = [value EXCEPT ![p] = @ + 1]
          /\ Start(Reader(c), << ToAll("set", p) >>)
    /\ UNCHANGED <<hostVars, connVars, msg, todo, cur, back, clientVars,
                   refused, entitled>>

\* rejectNumber: Alert, the update, then a message, all to every client.
Reject(c) ==
    /\ Reading(c, "reject")
    /\ \E p \in Prop \ BlobProp :
          /\ value' = [value EXCEPT ![p] = @ + 1]
          /\ Start(Reader(c), << ToAll("set", p), ToAll("message", p) >>)
    /\ UNCHANGED <<hostVars, connVars, msg, todo, cur, back, clientVars,
                   refused, entitled>>

\* A command dropped by validation: a message to its sender only.
Ignore(c) ==
    /\ Reading(c, "ignored")
    /\ \E p \in Prop : Start(Reader(c), << ToOwn("message", p) >>)
    /\ UNCHANGED <<hostVars, connVars, value, msg, todo, cur, back, clientVars,
                   refused, entitled>>

\* The read loop ends: EOF, a reset, malformed XML, an oversized element or a
\* socket this side closed.  Its deferred removeConn follows.
ReadFails(c) ==
    /\ pc[Reader(c)] = "idle"
    /\ pc' = [pc EXCEPT ![Reader(c)] = "unregister"]
    /\ cur' = [cur EXCEPT ![Reader(c)] = c]
    /\ back' = [back EXCEPT ![Reader(c)] = "exited"]
    /\ UNCHANGED <<hostVars, connVars, value, callVars, clientVars, history>>

-----------------------------------------------------------------------------
(* Define, Update, Message, Delete, SendBLOB, snapshot, messageTo *)

\* marshalDef or marshalSet, under p.mu: the value is copied here.
Marshal(t) ==
    /\ pc[t] = "marshal"
    /\ LET job == Head(agenda[t])
       IN  /\ msg' = [msg EXCEPT ![t] = [kind |-> job.kind, prop |-> job.prop,
                                         val |-> value[job.prop], from |-> t]]
           /\ todo' = [todo EXCEPT ![t] = IF job.to = "own" THEN {t[2]} ELSE {}]
           /\ pc' = [pc EXCEPT ![t] = IF job.to = "all" THEN "snapshot" ELSE "visit"]
    /\ entitled' = [entitled EXCEPT ![t] =
                       {c \in todo'[t] : Entitled(policy[c], msg'[t])}]
    /\ UNCHANGED <<hostVars, connVars, value, agenda, cur, back, clientVars,
                   refused, spent>>

\* snapshotConns, under s.mu.
SnapshotConns(t) ==
    /\ pc[t] = "snapshot"
    /\ todo' = [todo EXCEPT ![t] = conns]
    /\ pc' = [pc EXCEPT ![t] = "visit"]
    /\ entitled' = [entitled EXCEPT ![t] = {c \in conns : Entitled(policy[c], msg[t])}]
    /\ UNCHANGED <<hostVars, connVars, value, agenda, msg, cur, back,
                   clientVars, refused, spent>>

\* The next connection, in map order: c.wants, under c.pmu.  messageTo sends
\* without asking.
Visit(t) ==
    /\ pc[t] = "visit"
    /\ \E c \in todo[t] :
          /\ todo' = [todo EXCEPT ![t] = @ \ {c}]
          /\ IF Head(agenda[t]) = ToOwn("message", msg[t].prop) \/ wants(c, msg[t])
               THEN /\ cur' = [cur EXCEPT ![t] = c]
                    /\ pc' = [pc EXCEPT ![t] = "enqueue"]
               ELSE UNCHANGED <<cur, pc>>
    /\ UNCHANGED <<hostVars, connVars, value, agenda, msg, back, clientVars,
                   history>>

\* All connections visited: the next job, or the call returns.
Finish(t) ==
    /\ pc[t] = "visit"
    /\ todo[t] = {}
    /\ agenda' = [agenda EXCEPT ![t] = Tail(@)]
    /\ msg' = [msg EXCEPT ![t] = NoMsg]
    /\ pc' = [pc EXCEPT ![t] = IF Tail(agenda[t]) = <<>> THEN "idle" ELSE "marshal"]
    /\ entitled' = [entitled EXCEPT ![t] = {}]
    /\ UNCHANGED <<hostVars, connVars, value, todo, cur, back, clientVars,
                   refused, spent>>

\* Variant: the budget is checked without the message at hand.
OverBudget_Late(c, m) == qbytes[c] > QueueBytes

OverBudget(c, m) == qbytes[c] > 0 /\ qbytes[c] + SizeOf[m.kind] > QueueBytes

\* enqueue, under c.qmu: admitted ...
Admitted(t) ==
    LET c == cur[t]
    IN  /\ ~OverBudget(c, msg[t])
        /\ Len(queue[c]) < QueueMsgs
        /\ IF chan[c] = "open"
             THEN queue' = [queue EXCEPT ![c] = Append(@, msg[t])] /\ chan' = chan
             ELSE chan' = [chan EXCEPT ![c] = "panic"] /\ queue' = queue
        /\ qbytes' = [qbytes EXCEPT ![c] = @ + SizeOf[msg[t].kind]]
        /\ pc' = [pc EXCEPT ![t] = "visit"]
        /\ cur' = [cur EXCEPT ![t] = NoConn]
        /\ UNCHANGED <<hostVars, conns, sock, closed, policy, value, callVars,
                       back, clientVars, history>>

\* Variant: enqueue does not look at c.closed.
Admit_Unchecked(t) == pc[t] = "enqueue" /\ Admitted(t)
Admit(t) == pc[t] = "enqueue" /\ ~closed[cur[t]] /\ Admitted(t)

\* ... lost because the connection is already closed ...
Gone(t) ==
    /\ pc[t] = "enqueue"
    /\ closed[cur[t]]
    /\ pc' = [pc EXCEPT ![t] = "visit"]
    /\ cur' = [cur EXCEPT ![t] = NoConn]
    /\ UNCHANGED <<hostVars, connVars, value, callVars, back, clientVars,
                   history>>

\* ... or the queue is full, and send goes on to removeConn.
Refuse(t, next, return) ==
    LET c == cur[t]
    IN  /\ pc[t] = "enqueue"
        /\ ~closed[c]
        /\ OverBudget(c, msg[t]) \/ Len(queue[c]) = QueueMsgs
        /\ refused' = [refused EXCEPT ![c] = @ \cup {t}]
        /\ pc' = [pc EXCEPT ![t] = next]
        /\ back' = [back EXCEPT ![t] = return]
        /\ UNCHANGED <<hostVars, connVars, value, callVars, cur, clientVars,
                       entitled, spent>>

\* Variants: lose the message and keep the client, block the sender, or drop the
\* client and try again.
Full_Loses(t)   == Refuse(t, "visit", "visit")
Full_Blocks(t)  == Refuse(t, "enqueue", "visit") /\ FALSE
Full_Retries(t) == Refuse(t, "unregister", "enqueue")

Full(t) == Refuse(t, "unregister", "visit")

-----------------------------------------------------------------------------
(* removeConn(cur[t]), which readers, writers and senders race to run *)

\* Under s.mu: leave s.conns.
UnregisterInto(t, left) ==
    /\ pc[t] = "unregister"
    /\ conns' = left
    /\ pc' = [pc EXCEPT ![t] = "close"]
    /\ UNCHANGED <<hostVars, sock, queueVars, policy, value, callVars, cur, back,
                   clientVars, history>>

Unregister_Not(t) == UnregisterInto(t, conns)   \* variant: it stays registered
Unregister(t) == UnregisterInto(t, conns \ {cur[t]})

\* Under c.qmu: the first one here closes done and the queue.
CloseQueue(t) ==
    LET c == cur[t]
    IN  /\ pc[t] = "close"
        /\ closed' = [closed EXCEPT ![c] = TRUE]
        /\ chan' = IF closed[c] THEN chan
                   ELSE [chan EXCEPT ![c] = IF @ = "open" THEN "closed" ELSE "panic"]
        /\ pc' = [pc EXCEPT ![t] = "hangup"]
        /\ UNCHANGED <<hostVars, conns, sock, queue, qbytes, policy, value,
                       callVars, cur, back, clientVars, history>>

\* nc.Close.
HangUp(t) ==
    /\ pc[t] = "hangup"
    /\ sock' = [sock EXCEPT ![cur[t]] = "closed"]
    /\ pc' = [pc EXCEPT ![t] = back[t]]
    /\ cur' = [cur EXCEPT ![t] = NoConn]
    /\ UNCHANGED <<hostVars, conns, queueVars, policy, value, callVars, back,
                   clientVars, history>>

-----------------------------------------------------------------------------
(* writeLoop *)

\* Receive from the channel, which drains after close ...
Received(c, m, rest) ==
    /\ held' = [held EXCEPT ![c] = m]
    /\ queue' = [queue EXCEPT ![c] = rest]
    /\ pc' = [pc EXCEPT ![Writer(c)] = "account"]
    /\ UNCHANGED <<hostVars, conns, sock, closed, chan, qbytes, policy, value,
                   callVars, cur, back, watcher, wire, history>>

Receiving(c) == pc[Writer(c)] = "recv" /\ queue[c] # <<>>

\* Variant: last in, first out.
Receive_Newest(c) ==
    LET n == Len(queue[c])
    IN  Receiving(c) /\ Received(c, queue[c][n], SubSeq(queue[c], 1, n - 1))
Receive(c) == Receiving(c) /\ Received(c, Head(queue[c]), Tail(queue[c]))

\* ... and then ends the range.
Drained(c) ==
    /\ pc[Writer(c)] = "recv"
    /\ queue[c] = <<>>
    /\ chan[c] = "closed"
    /\ pc' = [pc EXCEPT ![Writer(c)] = "exited"]
    /\ UNCHANGED <<hostVars, connVars, value, callVars, cur, back, clientVars,
                   history>>

\* Under c.qmu: give the bytes back before writing.
GiveBack(c, n) ==
    /\ pc[Writer(c)] = "account"
    /\ qbytes' = [qbytes EXCEPT ![c] = @ - n]
    /\ pc' = [pc EXCEPT ![Writer(c)] = "write"]
    /\ UNCHANGED <<hostVars, conns, sock, closed, chan, queue, policy, value,
                   callVars, cur, back, clientVars, history>>

Account(c) == GiveBack(c, SizeOf[held[c].kind])

\* The peer takes the message.
Write(c) ==
    /\ pc[Writer(c)] = "write"
    /\ sock[c] = "open"
    /\ wire' = [wire EXCEPT ![c] = Append(@, held[c])]
    /\ held' = [held EXCEPT ![c] = NoMsg]
    /\ pc' = [pc EXCEPT ![Writer(c)] = "recv"]
    /\ UNCHANGED <<hostVars, connVars, value, callVars, cur, back, watcher,
                   history>>

\* The peer reset, stalled past writeTimeout, or the socket is closed here.
WriteFails(c) ==
    /\ pc[Writer(c)] = "write"
    /\ held' = [held EXCEPT ![c] = NoMsg]
    /\ pc' = [pc EXCEPT ![Writer(c)] = "unregister"]
    /\ cur' = [cur EXCEPT ![Writer(c)] = c]
    /\ back' = [back EXCEPT ![Writer(c)] = "exited"]
    /\ UNCHANGED <<hostVars, connVars, value, callVars, watcher, wire, history>>

-----------------------------------------------------------------------------
RemoveConn(t) == Unregister(t) \/ CloseQueue(t) \/ HangUp(t)
Send(t)    == Marshal(t) \/ SnapshotConns(t) \/ Visit(t) \/ Finish(t)
                \/ Admit(t) \/ Gone(t) \/ Full(t)
Handle(c)  == GetProperties(c) \/ EnableBLOB(c) \/ Command(c) \/ Reject(c)
                \/ Ignore(c)
WriteLoop(c) == Receive(c) \/ Drained(c) \/ Account(c) \/ Write(c) \/ WriteFails(c)
Watch(c)   == WatcherCancels(c) \/ WatcherDone(c)

Next ==
    \/ Cancel
    \/ StopListening
    \/ \E c \in Conn : Accept(c) \/ Watch(c) \/ Handle(c) \/ ReadFails(c)
                         \/ WriteLoop(c)
    \/ \E d \in Publisher : Publish(d)
    \/ \E t \in Caller : Send(t)
    \/ \E t \in Thread : RemoveConn(t)

Spec == Init /\ [][Next]_vars

\* A device goroutine that has started to publish keeps running; nothing is
\* assumed of clients, sockets, readers or writers.
PublisherFairness ==
    \A d \in Publisher : WF_vars(Send(<<"device", d>>) \/ RemoveConn(<<"device", d>>))

\* The Go scheduler runs every goroutine that can run, a read of a socket closed
\* here fails, and the write deadline ends every write one way or the other.
ServerFairness ==
    /\ PublisherFairness
    /\ WF_vars(StopListening)
    /\ \A c \in Conn :
          /\ WF_vars(Send(Reader(c)) \/ RemoveConn(Reader(c)))
          /\ WF_vars(sock[c] = "closed" /\ ReadFails(c))
          /\ WF_vars(WriteLoop(c) \/ RemoveConn(Writer(c)))
          /\ WF_vars(Watch(c))

PublisherSpec == Spec /\ PublisherFairness
=============================================================================
