--------------------------- MODULE HubProperties ---------------------------
(***************************************************************************)
(* The properties of the hub (module Hub), and the refinement of Feed.     *)
(***************************************************************************)
EXTENDS Hub

\* Every variable has the shape the code gives it: a sender's removeConn returns
\* into its send, a channel carries messages and a queue never holds a non-message.
HostTypes ==
    /\ cancelled \in BOOLEAN /\ listening \in BOOLEAN
    /\ value \in [Prop -> Nat]
ConnTypes ==
    /\ conns \subseteq Conn
    /\ sock \in [Conn -> {"none", "open", "closed"}]
    /\ closed \in [Conn -> BOOLEAN]
    /\ chan \in [Conn -> {"open", "closed", "panic"}]
    /\ queue \in [Conn -> Seq(Message)]
    /\ qbytes \in [Conn -> Int]
CallTypes ==
    /\ agenda \in [Caller -> Seq(Job)]
    /\ msg \in [Caller -> Message \cup {NoMsg}]
    /\ todo \in [Caller -> SUBSET Conn]
ThreadTypes ==
    /\ cur \in [Thread -> Conn \cup {NoConn}]
    /\ pc \in [Thread -> {"none", "idle", "marshal", "snapshot", "visit", "enqueue",
                          "unregister", "close", "hangup", "recv", "account",
                          "write", "exited"}]
    /\ back \in [Thread -> {"idle", "visit", "exited"}]
ClientTypes ==
    /\ held \in [Conn -> Message \cup {NoMsg}]
    /\ watcher \in [Conn -> {"none", "waiting", "exited"}]
    /\ wire \in [Conn -> Seq(Message)]
HistoryTypes ==
    /\ refused \in [Conn -> SUBSET Caller]
    /\ entitled \in [Caller -> SUBSET Conn]
    /\ spent \in [Caller -> Nat]
TypeOK == HostTypes /\ ConnTypes /\ CallTypes /\ ThreadTypes /\ ClientTypes
            /\ HistoryTypes

\* No goroutine sends on, or closes, a queue that removeConn has closed, however
\* readers, writers and senders race to tear the connection down.
NoChannelPanic == \A c \in Conn : chan[c] # "panic"

\* The bytes of the messages that the writer has not yet given back: those in the
\* channel and the one it has received but not accounted.
Bytes(s) ==
    LET sum[i \in 0..Len(s)] ==
            IF i = 0 THEN 0 ELSE sum[i - 1] + SizeOf[s[i].kind]
    IN  sum[Len(s)]

Unaccounted(c) ==
    IF pc[Writer(c)] = "account" THEN <<held[c]>> \o queue[c] ELSE queue[c]

\* The memory a stalled client can pin: c.qbytes counts exactly what is unaccounted,
\* and that is never more than outQueueBytes, except by one message that is larger
\* than the whole budget and has the queue to itself.
Budget ==
    \A c \in Conn :
        /\ qbytes[c] = Bytes(Unaccounted(c))
        /\ Len(queue[c]) <= QueueMsgs
        /\ Bytes(Unaccounted(c)) > QueueBytes => Len(Unaccounted(c)) = 1

\* A client whose queue refused a message is being dropped by the thread that was
\* refused, or is dropped already: it cannot stay connected with a message missing.
RefusalDrops ==
    \A c \in Conn : \A t \in refused[c] :
        closed[c] \/ (cur[t] = c /\ pc[t] \in {"unregister", "close"})

\* A torn-down connection is out of s.conns and its socket is closed by the time
\* its reader is gone, and no thread puts it back.
Forgotten ==
    \A c \in Conn :
        /\ closed[c] => c \notin conns
        /\ pc[Reader(c)] = "exited" => closed[c] /\ sock[c] = "closed"

\* What a client gets from one sender has no gap: once a message from t was
\* refused by c's queue, no later message from t is admitted to it.
Queued(c) == queue'[c] # queue[c] /\ Len(queue'[c]) > Len(queue[c])
Newest(c) == queue'[c][Len(queue'[c])]

NoGap == \A c \in Conn : Queued(c) => Newest(c).from \notin refused[c]
GapFree == [][NoGap]_vars

\* A message reaches a client's queue only if that client's enableBLOB policy
\* let it through at some moment of the broadcast; replies to the client itself
\* about a dropped command are exempt.
OnlyToTheEntitled ==
    \A c \in Conn : Queued(c) =>
        LET m == Newest(c)
        IN  \/ c \in entitled[m.from]
            \/ m.kind = "message" /\ m.from = Reader(c)
PolicyHonoured == [][OnlyToTheEntitled]_vars

\* A message too large for the whole budget is admitted when the queue is empty
\* (the comment in enqueue): an empty channel refuses nothing.
\* The code does not keep this (README, Disagreements).
EmptyQueueAdmits ==
    [][\A c \in Conn : queue[c] = <<>> => refused'[c] = refused[c]]_vars

-----------------------------------------------------------------------------
(* Currency: what a client holds when nothing is in motion *)

Quiet ==
    /\ \A t \in Caller : pc[t] \in {"none", "idle", "exited"}
    /\ \A c \in Conn : queue[c] = <<>> /\ pc[Writer(c)] \in {"none", "recv", "exited"}

Told(c, p) == SelectSeq(wire[c], LAMBDA m : m.kind \in {"def", "set"} /\ m.prop = p)

\* When nothing is in motion, a client that is still connected holds the current
\* value of every property it was ever told of, as Update's comment promises.
\* The code keeps this for one publisher only (README, Disagreements).
ClientsEndCurrent ==
    Quiet => \A c \in conns, p \in Prop :
        LET told == Told(c, p)
        IN  told # <<>> => told[Len(told)].val = value[p]

-----------------------------------------------------------------------------
(* Every connection implements Feed *)

WriterUp(c) == pc[Writer(c)] \in {"none", "recv", "account", "write"}

FeedStatus == [c \in Conn |-> IF ~WriterUp(c) THEN "cut"
                              ELSE IF closed[c] THEN "closing" ELSE "up"]
FeedPending == [c \in Conn |-> IF ~WriterUp(c) THEN <<>>
                               ELSE IF held[c] = NoMsg THEN queue[c]
                               ELSE <<held[c]>> \o queue[c]]

F == INSTANCE Feed WITH Msg <- Message, status <- FeedStatus,
                        pending <- FeedPending, delivered <- wire

\* The stream a client's socket takes is what was admitted to its queue, in that
\* order, with nothing lost in the middle, repeated or admitted after the close.
FeedRefined == F!Spec

-----------------------------------------------------------------------------
(* Liveness *)

\* One stalled client does not stall the hub: a publication by a device goroutine
\* ends although no socket, reader or writer is assumed to make progress.
PublicationEnds ==
    \A d \in Publisher : pc[<<"device", d>>] # "idle" ~> pc[<<"device", d>>] = "idle"

\* If every goroutine of the server that can run does, then every goroutine of a connection
\* that is torn down, by anyone, ends, and cancelling the context ends every connection,
\* one accepted meanwhile included.
AllExited(c) == /\ pc[Reader(c)] = "exited" /\ pc[Writer(c)] = "exited"
                /\ watcher[c] = "exited"
ConnsReaped ==
    ServerFairness =>
        \A c \in Conn : closed[c] \/ (cancelled /\ sock[c] # "none") ~> AllExited(c)
=============================================================================
