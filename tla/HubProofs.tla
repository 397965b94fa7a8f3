------------------------------ MODULE HubProofs ------------------------------
(***************************************************************************)
(* Proofs about the server: its hub, for any number of connections,        *)
(* publishers and properties and any queue bounds, and its life, for any   *)
(* set of devices, however they are named and whenever they are added.     *)
(***************************************************************************)
EXTENDS HubProperties, TLAPS, SequenceTheorems, WellFoundedInduction

\* The states of a thread inside removeConn, and of a caller inside one call.
Removing == {"unregister", "close", "hangup"}
Calling  == {"marshal", "snapshot", "visit", "enqueue"}

-----------------------------------------------------------------------------
(* The inductive invariant *)

\* Where a caller can be, and what it has at hand there.
Callers ==
    \A t \in Caller :
        /\ pc[t] \notin {"recv", "account", "write"}
        /\ pc[t] \in Removing => back[t] \in {"visit", "exited"}
        /\ pc[t] \in Calling \/ (pc[t] \in Removing /\ back[t] = "visit")
              => agenda[t] # <<>>
        /\ pc[t] \in {"snapshot", "visit", "enqueue"}
                 \/ (pc[t] \in Removing /\ back[t] = "visit")
              => msg[t] \in Message /\ msg[t].from = t

\* A device goroutine has no client of its own to answer.
Broadcast == [kind : Kind, prop : Prop, to : {"all"}]
Devices == \A d \in Publisher : agenda[<<"device", d>>] \in Seq(Broadcast)

\* Where a writer can be; it holds a message from the receive to the write.
Writers ==
    \A c \in Conn :
        /\ pc[Writer(c)] \notin Calling \cup {"idle"}
        /\ pc[Writer(c)] \in Removing => back[Writer(c)] = "exited"
        /\ pc[Writer(c)] \in {"account", "write"} => held[c] \in Message
        /\ pc[Writer(c)] \notin {"account", "write"} => held[c] = NoMsg

\* A thread that enqueues or tears down names its connection.
Targets == \A t \in Thread : pc[t] \in {"enqueue"} \cup Removing => cur[t] \in Conn

\* Only an accepted connection has anything to do with a thread.
Accepted ==
    /\ \A c \in conns : sock[c] # "none"
    /\ \A c \in Conn : closed[c] => sock[c] # "none"
    /\ \A c \in Conn : pc[Reader(c)] # "none" => sock[c] # "none"
    /\ \A c \in Conn : pc[Writer(c)] # "none" => sock[c] # "none"
    /\ \A t \in Caller : \A c \in todo[t] : sock[c] # "none"
    /\ \A t \in Thread : cur[t] # NoConn => sock[cur[t]] # "none"

\* How far each removeConn has come.
Teardown ==
    /\ \A c \in Conn : chan[c] = IF closed[c] THEN "closed" ELSE "open"
    /\ \A t \in Thread : pc[t] = "close" => cur[t] \notin conns
    /\ \A t \in Thread : pc[t] = "hangup" => closed[cur[t]]
    /\ \A c \in Conn : pc[Reader(c)] \in Removing /\ back[Reader(c)] = "exited"
                          => cur[Reader(c)] = c

IInv == TypeOK /\ Callers /\ Devices /\ Writers /\ Targets /\ Accepted /\ Teardown
          /\ RefusalDrops /\ Forgotten

-----------------------------------------------------------------------------
\* The three kinds of thread are distinct.
LEMMA Threads ==
    /\ Caller \subseteq Thread
    /\ \A c \in Conn : Reader(c) \in Caller /\ Writer(c) \in Thread
    /\ \A c \in Conn : \A t \in Caller : t # Writer(c)
    /\ \A c, d \in Conn : Writer(c) = Writer(d) => c = d
    /\ \A c, d \in Conn : Reader(c) = Reader(d) => c = d
    /\ \A d \in Publisher : <<"device", d>> \in Caller
    /\ \A d \in Publisher : \A c \in Conn : <<"device", d>> # Reader(c)
    /\ \A t \in Thread : t \in Caller \/ \E c \in Conn : t = Writer(c)
    /\ \A t \in Caller : (\E d \in Publisher : t = <<"device", d>>) \/ (\E c \in Conn : t = Reader(c))
BY DEF Thread, Caller, Reader, Writer

\* The empty hand is not a message.
LEMMA NoMsgIsNone == NoMsg \notin Message
<1>1. SUFFICES ASSUME NoMsg \in Message PROVE FALSE
  OBVIOUS
<1>2. NoMsg.kind \in Kind
  BY <1>1 DEF Message
<1>3. QED
  BY <1>2 DEF NoMsg, Kind

\* What the agendas are made of.
LEMMA Jobs ==
    /\ \A k \in Kind, p \in Prop : /\ <<ToAll(k, p)>> \in Seq(Broadcast) \ {<<>>}
                                  /\ <<ToOwn(k, p)>> \in Seq(Job) \ {<<>>}
    /\ \A k, l \in Kind, p \in Prop :
          <<ToAll(k, p), ToAll(l, p)>> \in Seq(Job) \ {<<>>}
    /\ Seq(Broadcast) \subseteq Seq(Job)
<1>1. Broadcast \subseteq Job
  BY DEF Broadcast, Job
<1>2. \A k \in Kind, p \in Prop : ToAll(k, p) \in Broadcast /\ ToOwn(k, p) \in Job
  BY DEF Broadcast, Job, ToAll, ToOwn
<1>3. QED
  BY <1>1, <1>2

\* The hub starts in the invariant.
LEMMA InitIInv == Init => IInv
<1> SUFFICES ASSUME Init PROVE IInv
  OBVIOUS
<1>1. TypeOK
  <2>1. <<>> \in Seq(Message) /\ <<>> \in Seq(Job)
    OBVIOUS
  <2>2. HostTypes
    BY DEF Init, HostTypes
  <2>3. ConnTypes
    BY <2>1 DEF Init, ConnTypes
  <2>4. CallTypes
    BY <2>1 DEF Init, CallTypes
  <2>5. ThreadTypes
    BY DEF Init, ThreadTypes
  <2>6. ClientTypes
    BY <2>1 DEF Init, ClientTypes
  <2>7. HistoryTypes
    BY DEF Init, HistoryTypes
  <2>8. QED
    BY <2>2, <2>3, <2>4, <2>5, <2>6, <2>7 DEF TypeOK
<1>8. Devices
  <2>1. <<>> \in Seq(Broadcast)
    OBVIOUS
  <2>2. QED
    BY <2>1, Threads DEF Init, Devices
<1>2. Callers /\ Writers /\ Targets
  BY Threads DEF Init, Callers, Writers, Targets, Removing, Calling, Writer, Caller,
     Thread
<1>3. Accepted
  BY Threads DEF Init, Accepted, Reader, Writer, Caller, Thread
<1>4. Teardown
  BY Threads DEF Init, Teardown, Removing, Reader, Writer, Caller, Thread
<1>5. RefusalDrops
  BY DEF Init, RefusalDrops
<1>6. Forgotten
  BY Threads DEF Init, Forgotten, Reader, Caller, Thread
<1>7. QED
  BY <1>8, <1>1, <1>2, <1>3, <1>4, <1>5, <1>6 DEF IInv

-----------------------------------------------------------------------------
(* Every action keeps it *)

\* A new connection starts with its threads at their beginnings.
LEMMA AcceptKeeps ==
    ASSUME IInv, NEW c \in Conn, Accept(c)
    PROVE  IInv'
<1> USE Threads DEF IInv, TypeOK, Accept, hostVars, connVars, queueVars, callVars,
   threadVars, clientVars, history
<1>a. pc[Reader(c)] = "none" /\ pc[Writer(c)] = "none"
  BY DEF Accepted
<1>1. HostTypes' /\ CallTypes' /\ HistoryTypes' /\ Devices'
  BY DEF HostTypes, CallTypes, HistoryTypes, Devices
<1>2. ConnTypes'
  BY DEF ConnTypes
<1>3. ThreadTypes'
  BY DEF ThreadTypes
<1>4. ClientTypes'
  BY DEF ClientTypes
<1>5. Callers'
  BY DEF Callers, CallTypes, ThreadTypes, Accepted, Removing, Calling
<1>6. Writers'
  BY NoMsgIsNone DEF Writers, ThreadTypes, ClientTypes, Callers, Accepted, Removing,
     Calling
<1>7. Targets'
  BY DEF Targets, ThreadTypes, Removing
<1>8. Accepted'
  BY DEF Accepted, ConnTypes, CallTypes, ThreadTypes, Targets, Removing
<1>9. Teardown'
  BY HubAssumption DEF Teardown, ConnTypes, ThreadTypes, Targets, Callers, Accepted,
     Removing
<1>10. RefusalDrops'
  BY <1>a DEF RefusalDrops, ConnTypes, ThreadTypes, HistoryTypes, Accepted, Removing
<1>11. Forgotten'
  BY DEF Forgotten, ConnTypes, ThreadTypes, Accepted, Teardown, Callers, Targets,
     Removing
<1>12. QED
  BY <1>1, <1>2, <1>3, <1>4, <1>5, <1>6, <1>7, <1>8, <1>9, <1>10, <1>11

\* The host and the listener touch no connection.
LEMMA CancelKeeps ==
    ASSUME IInv, Cancel \/ StopListening
    PROVE  IInv'
<1> USE Threads DEF IInv, TypeOK, Cancel, StopListening, hostVars, connVars, queueVars,
   callVars, threadVars, clientVars, history
<1>1. ConnTypes' /\ CallTypes' /\ ThreadTypes' /\ ClientTypes' /\ HistoryTypes' /\ Callers' /\ Devices' /\ Writers' /\ Targets' /\ Accepted' /\ Teardown' /\ RefusalDrops' /\ Forgotten'
  BY DEF ConnTypes, CallTypes, ThreadTypes, ClientTypes, HistoryTypes, Callers,
     Devices, Writers, Targets, Accepted, Teardown, RefusalDrops, Forgotten, Removing,
     Calling
<1>2. HostTypes'
  BY DEF HostTypes
<1>3. QED
  BY <1>1, <1>2

\* A watcher may close a socket, never open one.
LEMMA WatchKeeps ==
    ASSUME IInv, NEW c \in Conn, Watch(c)
    PROVE  IInv'
<1> USE Threads DEF IInv, TypeOK, Watch, WatcherCancels, WatcherDone, WatcherEnds,
   hostVars, connVars, queueVars, callVars, threadVars, clientVars, history
<1>1. HostTypes' /\ CallTypes' /\ ThreadTypes' /\ HistoryTypes' /\ Callers' /\ Devices' /\ Writers' /\ Targets' /\ Teardown' /\ RefusalDrops'
  BY DEF HostTypes, CallTypes, ThreadTypes, HistoryTypes, Callers, Devices, Writers,
     Targets, Teardown, RefusalDrops, Removing, Calling
<1>2. ConnTypes'
  BY DEF ConnTypes
<1>3. ClientTypes'
  BY DEF ClientTypes
<1>4. Accepted'
  BY DEF Accepted, ConnTypes, CallTypes, ThreadTypes, Targets, Removing
<1>5. Forgotten'
  BY DEF Forgotten, ConnTypes, ThreadTypes, Accepted, Teardown, Callers, Targets,
     Removing
<1>6. QED
  BY <1>1, <1>2, <1>3, <1>4, <1>5

\* Any call starts with a well-formed agenda.
LEMMA StartKeeps ==
    ASSUME IInv, NEW t \in Caller, NEW jobs \in Seq(Job),
           t[1] = "device" => jobs \in Seq(Broadcast),
           pc[t] = "idle", Start(t, jobs), value' \in [Prop -> Nat],
           UNCHANGED <<hostVars, connVars, msg, todo, cur, back, clientVars,
                       refused, entitled>>
    PROVE  IInv'
<1> USE Threads DEF IInv, TypeOK, Start, hostVars, connVars, queueVars, callVars,
   threadVars, clientVars, history
<1>a. \A d \in Publisher : t = <<"device", d>> => jobs \in Seq(Broadcast)
  OBVIOUS
<1>1. ConnTypes' /\ ClientTypes'
  BY DEF ConnTypes, ClientTypes
<1>2. HostTypes'
  BY DEF HostTypes
<1>3. CallTypes'
  BY DEF CallTypes
<1>4. ThreadTypes'
  BY DEF ThreadTypes
<1>5. HistoryTypes'
  BY DEF HistoryTypes
<1>6. Callers'
  BY DEF Callers, CallTypes, ThreadTypes, Accepted, Removing, Calling
<1>7. Devices'
  BY <1>a DEF Devices, CallTypes
<1>8. Writers'
  BY NoMsgIsNone DEF Writers, ThreadTypes, ClientTypes, Callers, Accepted, Removing,
     Calling
<1>9. Targets'
  BY DEF Targets, ThreadTypes, Removing
<1>10. Accepted'
  BY DEF Accepted, ConnTypes, CallTypes, ThreadTypes, Targets, Removing
<1>11. Teardown'
  BY DEF Teardown, ConnTypes, ThreadTypes, Targets, Callers, Accepted, Removing
<1>12. RefusalDrops'
  BY DEF RefusalDrops, ConnTypes, ThreadTypes, HistoryTypes, Accepted, Removing
<1>13. Forgotten'
  BY DEF Forgotten, ConnTypes, ThreadTypes, Accepted, Teardown, Callers, Targets,
     Removing
<1>14. QED
  BY <1>1, <1>2, <1>3, <1>4, <1>5, <1>6, <1>7, <1>8, <1>9, <1>10, <1>11, <1>12, <1>13

\* enableBLOB touches the policy only.
LEMMA EnableBLOBKeeps ==
    ASSUME IInv, NEW c \in Conn, EnableBLOB(c)
    PROVE  IInv'
<1> USE Threads DEF IInv, TypeOK, EnableBLOB, Reading, hostVars, connVars, queueVars,
   callVars, threadVars, clientVars, history
<1>1. HostTypes' /\ ConnTypes' /\ CallTypes' /\ ThreadTypes' /\ ClientTypes' /\ Callers' /\ Devices' /\ Writers' /\ Targets' /\ Accepted' /\ Teardown' /\ RefusalDrops' /\ Forgotten'
  BY DEF HostTypes, ConnTypes, CallTypes, ThreadTypes, ClientTypes, Callers, Devices,
     Writers, Targets, Accepted, Teardown, RefusalDrops, Forgotten, Removing, Calling
<1>2. HistoryTypes'
  BY DEF HistoryTypes
<1>3. QED
  BY <1>1, <1>2

\* A reader tears down its own connection.
LEMMA ReadFailsKeeps ==
    ASSUME IInv, NEW c \in Conn, ReadFails(c)
    PROVE  IInv'
<1> USE Threads DEF IInv, TypeOK, ReadFails, hostVars, connVars, queueVars, callVars,
   threadVars, clientVars, history
<1>1. HostTypes' /\ ConnTypes' /\ CallTypes' /\ ClientTypes' /\ HistoryTypes' /\ Devices'
  BY DEF HostTypes, ConnTypes, CallTypes, ClientTypes, HistoryTypes, Devices
<1>2. ThreadTypes'
  BY DEF ThreadTypes
<1>3. Callers'
  BY DEF Callers, CallTypes, ThreadTypes, Accepted, Removing, Calling
<1>4. Writers'
  BY NoMsgIsNone DEF Writers, ThreadTypes, ClientTypes, Callers, Accepted, Removing,
     Calling
<1>5. Targets'
  BY DEF Targets, ThreadTypes, Removing
<1>6. Accepted'
  BY DEF Accepted, ConnTypes, CallTypes, ThreadTypes, Targets, Removing
<1>7. Teardown'
  BY DEF Teardown, ConnTypes, ThreadTypes, Targets, Callers, Accepted, Removing
<1>8. RefusalDrops'
  BY DEF RefusalDrops, ConnTypes, ThreadTypes, HistoryTypes, Accepted, Removing
<1>9. Forgotten'
  BY DEF Forgotten, ConnTypes, ThreadTypes, Accepted, Teardown, Callers, Targets,
     Removing
<1>10. QED
  BY <1>1, <1>2, <1>3, <1>4, <1>5, <1>6, <1>7, <1>8, <1>9

\* Only a reader answers its own client.
LEMMA MarshalKeeps ==
    ASSUME IInv, NEW t \in Caller, Marshal(t)
    PROVE  IInv'
<1> USE Threads DEF IInv, TypeOK, Marshal, hostVars, connVars, queueVars, callVars,
   threadVars, clientVars, history
<1> DEFINE job == Head(agenda[t])
<1>a. job \in Job
  BY DEF CallTypes, Callers, Calling
<1>b. job.kind \in Kind /\ job.prop \in Prop
  BY <1>a DEF Job
<1>c. msg'[t] \in Message /\ msg'[t].from = t
  BY <1>b DEF Message, HostTypes, CallTypes
<1>d. job.to = "own" => \E c \in Conn : t = Reader(c)
  <2>1. SUFFICES ASSUME NEW d \in Publisher, t = <<"device", d>> PROVE job.to = "all"
    OBVIOUS
  <2>2. job \in Broadcast
    BY <2>1 DEF Devices, Callers, Calling
  <2>3. QED
    BY <2>2 DEF Broadcast
<1>e. todo'[t] \subseteq Conn /\ \A c \in todo'[t] : sock[c] # "none"
  BY <1>d DEF CallTypes, Accepted, Reader
<1>1. HostTypes' /\ ConnTypes' /\ ClientTypes' /\ Devices'
  BY DEF HostTypes, ConnTypes, ClientTypes, Devices
<1>2. CallTypes'
  BY <1>c, <1>e DEF CallTypes
<1>3. ThreadTypes'
  BY DEF ThreadTypes
<1>4. HistoryTypes'
  BY <1>e DEF HistoryTypes
<1>5. Callers'
  BY <1>c DEF Callers, CallTypes, ThreadTypes, Accepted, Removing, Calling
<1>6. Writers'
  BY NoMsgIsNone DEF Writers, ThreadTypes, ClientTypes, Callers, Accepted, Removing,
     Calling
<1>7. Targets'
  BY DEF Targets, ThreadTypes, Removing
<1>8. Accepted'
  BY <1>e DEF Accepted, ConnTypes, CallTypes, ThreadTypes, Targets, Removing
<1>9. Teardown'
  BY DEF Teardown, ConnTypes, ThreadTypes, Targets, Callers, Accepted, Removing
<1>10. RefusalDrops'
  BY DEF RefusalDrops, ConnTypes, ThreadTypes, HistoryTypes, Accepted, Removing
<1>11. Forgotten'
  BY DEF Forgotten, ConnTypes, ThreadTypes, Accepted, Teardown, Callers, Targets,
     Removing
<1>12. QED
  BY <1>1, <1>2, <1>3, <1>4, <1>5, <1>6, <1>7, <1>8, <1>9, <1>10, <1>11

\* The audience is registered, hence accepted.
LEMMA SnapshotConnsKeeps ==
    ASSUME IInv, NEW t \in Caller, SnapshotConns(t)
    PROVE  IInv'
<1> USE Threads DEF IInv, TypeOK, SnapshotConns, hostVars, connVars, queueVars,
   callVars, threadVars, clientVars, history
<1>1. HostTypes' /\ ConnTypes' /\ ClientTypes' /\ Devices'
  BY DEF HostTypes, ConnTypes, ClientTypes, Devices
<1>2. CallTypes'
  BY DEF CallTypes, ConnTypes
<1>3. ThreadTypes'
  BY DEF ThreadTypes
<1>4. HistoryTypes'
  BY DEF HistoryTypes, ConnTypes
<1>5. Callers'
  BY DEF Callers, CallTypes, ThreadTypes, Accepted, Removing, Calling
<1>6. Writers'
  BY NoMsgIsNone DEF Writers, ThreadTypes, ClientTypes, Callers, Accepted, Removing,
     Calling
<1>7. Targets'
  BY DEF Targets, ThreadTypes, Removing
<1>8. Accepted'
  BY DEF Accepted, ConnTypes, CallTypes, ThreadTypes, Targets, Removing
<1>9. Teardown'
  BY DEF Teardown, ConnTypes, ThreadTypes, Targets, Callers, Accepted, Removing
<1>10. RefusalDrops'
  BY DEF RefusalDrops, ConnTypes, ThreadTypes, HistoryTypes, Accepted, Removing
<1>11. Forgotten'
  BY DEF Forgotten, ConnTypes, ThreadTypes, Accepted, Teardown, Callers, Targets,
     Removing
<1>12. QED
  BY <1>1, <1>2, <1>3, <1>4, <1>5, <1>6, <1>7, <1>8, <1>9, <1>10, <1>11

\* A sender works on an accepted connection.
LEMMA VisitKeeps ==
    ASSUME IInv, NEW t \in Caller, Visit(t)
    PROVE  IInv'
<1> USE Threads DEF IInv, TypeOK, Visit, hostVars, connVars, queueVars, callVars,
   threadVars, clientVars, history
<1>a. PICK c \in todo[t] :
          /\ todo' = [todo EXCEPT ![t] = @ \ {c}]
          /\ \/ /\ cur' = [cur EXCEPT ![t] = c]
                /\ pc' = [pc EXCEPT ![t] = "enqueue"]
             \/ UNCHANGED <<cur, pc>>
  OBVIOUS
<1>b. c \in Conn /\ sock[c] # "none" /\ pc[t] = "visit"
  BY DEF CallTypes, Accepted
<1> HIDE DEF Visit
<1>c. UNCHANGED <<hostVars, connVars, value, agenda, msg, back, clientVars, history>>
  BY DEF Visit
<1>1. HostTypes' /\ ConnTypes' /\ ClientTypes' /\ HistoryTypes' /\ Devices'
  BY <1>c DEF HostTypes, ConnTypes, ClientTypes, HistoryTypes, Devices
<1>2. CallTypes'
  BY <1>a, <1>b, <1>c DEF CallTypes
<1>3. ThreadTypes'
  BY <1>a, <1>b, <1>c DEF ThreadTypes
<1>4. Callers'
  BY <1>a, <1>b, <1>c DEF Callers, CallTypes, ThreadTypes, Accepted, Removing, Calling
<1>5. Writers'
  BY NoMsgIsNone, <1>a, <1>b, <1>c DEF Writers, ThreadTypes, ClientTypes, Callers,
     Accepted, Removing, Calling
<1>6. Targets'
  BY <1>a, <1>b, <1>c DEF Targets, ThreadTypes, Removing
<1>7. Accepted'
  BY <1>a, <1>b, <1>c DEF Accepted, ConnTypes, CallTypes, ThreadTypes, Targets, Removing
<1>8. Teardown'
  <2>1. CASE UNCHANGED <<cur, pc>>
    BY <2>1, <1>c DEF Teardown, Removing
  <2>2. CASE cur' = [cur EXCEPT ![t] = c] /\ pc' = [pc EXCEPT ![t] = "enqueue"]
    BY <2>2, <1>b, <1>c DEF ConnTypes, ThreadTypes, Teardown, Removing
  <2>3. QED
    BY <1>a, <2>1, <2>2
<1>9. RefusalDrops'
  BY <1>a, <1>b, <1>c DEF RefusalDrops, ConnTypes, ThreadTypes, HistoryTypes, Accepted,
     Removing
<1>10. Forgotten'
  BY <1>a, <1>b, <1>c DEF Forgotten, ConnTypes, ThreadTypes, Accepted, Teardown,
     Callers, Targets, Removing
<1>11. QED
  BY <1>1, <1>2, <1>3, <1>4, <1>5, <1>6, <1>7, <1>8, <1>9, <1>10

\* The agenda shrinks by one job.
LEMMA FinishKeeps ==
    ASSUME IInv, NEW t \in Caller, Finish(t)
    PROVE  IInv'
<1> USE Threads DEF IInv, TypeOK, Finish, hostVars, connVars, queueVars, callVars,
   threadVars, clientVars, history
<1>a. agenda[t] \in Seq(Job) /\ agenda[t] # <<>>
  BY DEF CallTypes, Callers, Calling
<1>b. Tail(agenda[t]) \in Seq(Job)
  BY <1>a, HeadTailProperties
<1>c. \A q \in Seq(Broadcast) : q # <<>> => Tail(q) \in Seq(Broadcast)
  BY HeadTailProperties
<1>1. HostTypes' /\ ConnTypes' /\ ClientTypes'
  BY DEF HostTypes, ConnTypes, ClientTypes
<1>2. CallTypes'
  BY <1>b DEF CallTypes
<1>3. ThreadTypes'
  BY DEF ThreadTypes
<1>4. HistoryTypes'
  BY DEF HistoryTypes
<1>5. Callers'
  BY <1>b DEF Callers, CallTypes, ThreadTypes, Accepted, Removing, Calling
<1>6. Devices'
  BY <1>a, <1>c DEF Devices, CallTypes
<1>7. Writers'
  BY NoMsgIsNone DEF Writers, ThreadTypes, ClientTypes, Callers, Accepted, Removing,
     Calling
<1>8. Targets'
  BY DEF Targets, ThreadTypes, Removing
<1>9. Accepted'
  BY DEF Accepted, ConnTypes, CallTypes, ThreadTypes, Targets, Removing
<1>10. Teardown'
  BY DEF Teardown, ConnTypes, ThreadTypes, Targets, Callers, Accepted, Removing
<1>11. RefusalDrops'
  BY DEF RefusalDrops, ConnTypes, ThreadTypes, HistoryTypes, Accepted, Removing
<1>12. Forgotten'
  BY DEF Forgotten, ConnTypes, ThreadTypes, Accepted, Teardown, Callers, Targets,
     Removing
<1>13. QED
  BY <1>1, <1>2, <1>3, <1>4, <1>5, <1>6, <1>7, <1>8, <1>9, <1>10, <1>11, <1>12

\* A message is admitted to an open queue only.
LEMMA AdmitKeeps ==
    ASSUME IInv, NEW t \in Caller, Admit(t)
    PROVE  IInv'
<1> USE Threads DEF IInv, TypeOK, Admit, Admitted, hostVars, connVars, queueVars,
   callVars, threadVars, clientVars, history
<1>a. cur[t] \in Conn /\ msg[t] \in Message
  BY DEF Targets, Callers
<1>b. SizeOf[msg[t].kind] \in Nat
  BY <1>a, HubAssumption DEF Message
<1>c. Append(queue[cur[t]], msg[t]) \in Seq(Message)
  BY <1>a DEF ConnTypes
<1>d. /\ queue' \in [Conn -> Seq(Message)]
      /\ qbytes' \in [Conn -> Int]
      /\ chan' \in [Conn -> {"open", "closed", "panic"}]
  <2>1. queue' \in [Conn -> Seq(Message)]
    <3>1. queue \in [Conn -> Seq(Message)]
      BY DEF ConnTypes
    <3>2. \/ queue' = queue
          \/ queue' = [queue EXCEPT ![cur[t]] = Append(queue[cur[t]], msg[t])]
      BY <3>1, <1>a
    <3>3. QED
      BY <1>a, <1>c, <3>1, <3>2
  <2>2. qbytes' \in [Conn -> Int]
    BY <1>a, <1>b DEF ConnTypes
  <2>3. chan' \in [Conn -> {"open", "closed", "panic"}]
    BY <1>a DEF ConnTypes
  <2>4. QED
    BY <2>1, <2>2, <2>3
<1>1. HostTypes' /\ CallTypes' /\ ClientTypes' /\ HistoryTypes' /\ Devices'
  BY DEF HostTypes, CallTypes, ClientTypes, HistoryTypes, Devices
<1>2. ConnTypes'
  BY <1>d DEF ConnTypes
<1>3. ThreadTypes'
  BY DEF ThreadTypes
<1>4. Callers'
  BY DEF Callers, CallTypes, ThreadTypes, Accepted, Removing, Calling
<1>5. Writers'
  BY NoMsgIsNone DEF Writers, ThreadTypes, ClientTypes, Callers, Accepted, Removing,
     Calling
<1>6. Targets'
  BY DEF Targets, ThreadTypes, Removing
<1>7. Accepted'
  BY DEF Accepted, ConnTypes, CallTypes, ThreadTypes, Targets, Removing
<1>8. Teardown'
  BY DEF Teardown, ConnTypes, ThreadTypes, Targets, Callers, Accepted, Removing
<1>9. RefusalDrops'
  BY DEF RefusalDrops, ConnTypes, ThreadTypes, HistoryTypes, Accepted, Removing
<1>10. Forgotten'
  BY DEF Forgotten, ConnTypes, ThreadTypes, Accepted, Teardown, Callers, Targets,
     Removing
<1>11. QED
  BY <1>1, <1>2, <1>3, <1>4, <1>5, <1>6, <1>7, <1>8, <1>9, <1>10

\* A closed connection is skipped.
LEMMA GoneKeeps ==
    ASSUME IInv, NEW t \in Caller, Gone(t)
    PROVE  IInv'
<1> USE Threads DEF IInv, TypeOK, Gone, hostVars, connVars, queueVars, callVars,
   threadVars, clientVars, history
<1>1. HostTypes' /\ ConnTypes' /\ CallTypes' /\ ClientTypes' /\ HistoryTypes' /\ Devices'
  BY DEF HostTypes, ConnTypes, CallTypes, ClientTypes, HistoryTypes, Devices
<1>2. ThreadTypes'
  BY DEF ThreadTypes
<1>3. Callers'
  BY DEF Callers, CallTypes, ThreadTypes, Accepted, Removing, Calling
<1>4. Writers'
  BY NoMsgIsNone DEF Writers, ThreadTypes, ClientTypes, Callers, Accepted, Removing,
     Calling
<1>5. Targets'
  BY DEF Targets, ThreadTypes, Removing
<1>6. Accepted'
  BY DEF Accepted, ConnTypes, CallTypes, ThreadTypes, Targets, Removing
<1>7. Teardown'
  BY DEF Teardown, ConnTypes, ThreadTypes, Targets, Callers, Accepted, Removing
<1>8. RefusalDrops'
  BY DEF RefusalDrops, ConnTypes, ThreadTypes, HistoryTypes, Accepted, Removing
<1>9. Forgotten'
  BY DEF Forgotten, ConnTypes, ThreadTypes, Accepted, Teardown, Callers, Targets,
     Removing
<1>10. QED
  BY <1>1, <1>2, <1>3, <1>4, <1>5, <1>6, <1>7, <1>8, <1>9

\* The refused thread turns to tearing the connection down.
LEMMA FullKeeps ==
    ASSUME IInv, NEW t \in Caller, Full(t)
    PROVE  IInv'
<1> USE Threads DEF IInv, TypeOK, Full, Refuse, hostVars, connVars, queueVars,
   callVars, threadVars, clientVars, history
<1>1. HostTypes' /\ ConnTypes' /\ CallTypes' /\ ClientTypes' /\ Devices'
  BY DEF HostTypes, ConnTypes, CallTypes, ClientTypes, Devices
<1>2. ThreadTypes'
  BY DEF ThreadTypes
<1>3. HistoryTypes'
  BY DEF HistoryTypes
<1>4. Callers'
  BY DEF Callers, CallTypes, ThreadTypes, Accepted, Removing, Calling
<1>5. Writers'
  BY NoMsgIsNone DEF Writers, ThreadTypes, ClientTypes, Callers, Accepted, Removing,
     Calling
<1>6. Targets'
  BY DEF Targets, ThreadTypes, Removing
<1>7. Accepted'
  BY DEF Accepted, ConnTypes, CallTypes, ThreadTypes, Targets, Removing
<1>8. Teardown'
  BY DEF Teardown, ConnTypes, ThreadTypes, Targets, Callers, Accepted, Removing
<1>9. RefusalDrops'
  BY DEF RefusalDrops, ConnTypes, ThreadTypes, HistoryTypes, Accepted, Removing
<1>10. Forgotten'
  BY DEF Forgotten, ConnTypes, ThreadTypes, Accepted, Teardown, Callers, Targets,
     Removing
<1>11. QED
  BY <1>1, <1>2, <1>3, <1>4, <1>5, <1>6, <1>7, <1>8, <1>9, <1>10

\* First half of removeConn.
LEMMA UnregisterKeeps ==
    ASSUME IInv, NEW t \in Thread, Unregister(t)
    PROVE  IInv'
<1> USE Threads DEF IInv, TypeOK, Unregister, UnregisterInto, hostVars, connVars,
   queueVars, callVars, threadVars, clientVars, history
<1>1. HostTypes' /\ CallTypes' /\ ClientTypes' /\ HistoryTypes' /\ Devices'
  BY DEF HostTypes, CallTypes, ClientTypes, HistoryTypes, Devices
<1>2. ConnTypes'
  BY DEF ConnTypes
<1>3. ThreadTypes'
  BY DEF ThreadTypes
<1>4. Callers'
  BY DEF Callers, CallTypes, ThreadTypes, Accepted, Removing, Calling
<1>5. Writers'
  BY NoMsgIsNone DEF Writers, ThreadTypes, ClientTypes, Callers, Accepted, Removing,
     Calling
<1>6. Targets'
  BY DEF Targets, ThreadTypes, Removing
<1>7. Accepted'
  BY DEF Accepted, ConnTypes, CallTypes, ThreadTypes, Targets, Removing
<1>8. Teardown'
  BY DEF Teardown, ConnTypes, ThreadTypes, Targets, Callers, Accepted, Removing
<1>9. RefusalDrops'
  BY DEF RefusalDrops, ConnTypes, ThreadTypes, HistoryTypes, Accepted, Removing
<1>10. Forgotten'
  BY DEF Forgotten, ConnTypes, ThreadTypes, Accepted, Teardown, Callers, Targets,
     Removing
<1>11. QED
  BY <1>1, <1>2, <1>3, <1>4, <1>5, <1>6, <1>7, <1>8, <1>9, <1>10

\* The queue is closed once, after the connection left s.conns.
LEMMA CloseQueueKeeps ==
    ASSUME IInv, NEW t \in Thread, CloseQueue(t)
    PROVE  IInv'
<1> USE Threads DEF IInv, TypeOK, CloseQueue, hostVars, connVars, queueVars, callVars,
   threadVars, clientVars, history
<1>1. HostTypes' /\ CallTypes' /\ ClientTypes' /\ HistoryTypes' /\ Devices'
  BY DEF HostTypes, CallTypes, ClientTypes, HistoryTypes, Devices
<1>2. ConnTypes'
  BY DEF ConnTypes
<1>3. ThreadTypes'
  BY DEF ThreadTypes
<1>4. Callers'
  BY DEF Callers, CallTypes, ThreadTypes, Accepted, Removing, Calling
<1>5. Writers'
  BY NoMsgIsNone DEF Writers, ThreadTypes, ClientTypes, Callers, Accepted, Removing,
     Calling
<1>6. Targets'
  BY DEF Targets, ThreadTypes, Removing
<1>7. Accepted'
  BY HubAssumption DEF Accepted, ConnTypes, CallTypes, ThreadTypes, Targets, Removing
<1>8. Teardown'
  BY DEF Teardown, ConnTypes, ThreadTypes, Targets, Callers, Accepted, Removing
<1>9. RefusalDrops'
  BY DEF RefusalDrops, ConnTypes, ThreadTypes, HistoryTypes, Accepted, Removing
<1>10. Forgotten'
  BY DEF Forgotten, ConnTypes, ThreadTypes, Accepted, Teardown, Callers, Targets,
     Removing
<1>11. QED
  BY <1>1, <1>2, <1>3, <1>4, <1>5, <1>6, <1>7, <1>8, <1>9, <1>10

\* The socket closes after the queue.
LEMMA HangUpKeeps ==
    ASSUME IInv, NEW t \in Thread, HangUp(t)
    PROVE  IInv'
<1> USE Threads DEF IInv, TypeOK, HangUp, hostVars, connVars, queueVars, callVars,
   threadVars, clientVars, history
<1>1. HostTypes' /\ CallTypes' /\ ClientTypes' /\ HistoryTypes' /\ Devices'
  BY DEF HostTypes, CallTypes, ClientTypes, HistoryTypes, Devices
<1>2. ConnTypes'
  BY DEF ConnTypes
<1>3. ThreadTypes'
  BY DEF ThreadTypes
<1>4. Callers'
  BY DEF Callers, CallTypes, ThreadTypes, Accepted, Removing, Calling
<1>5. Writers'
  BY NoMsgIsNone DEF Writers, ThreadTypes, ClientTypes, Callers, Accepted, Removing,
     Calling
<1>6. Targets'
  BY DEF Targets, ThreadTypes, Removing
<1>7. Accepted'
  BY DEF Accepted, ConnTypes, CallTypes, ThreadTypes, Targets, Removing
<1>8. Teardown'
  BY DEF Teardown, ConnTypes, ThreadTypes, Targets, Callers, Accepted, Removing
<1>9. RefusalDrops'
  BY DEF RefusalDrops, ConnTypes, ThreadTypes, HistoryTypes, Accepted, Removing
<1>10. Forgotten'
  BY DEF Forgotten, ConnTypes, ThreadTypes, Accepted, Teardown, Callers, Targets,
     Removing
<1>11. QED
  BY <1>1, <1>2, <1>3, <1>4, <1>5, <1>6, <1>7, <1>8, <1>9, <1>10

\* The writer holds what it received.
LEMMA ReceiveKeeps ==
    ASSUME IInv, NEW c \in Conn, Receive(c)
    PROVE  IInv'
<1> USE Threads DEF IInv, TypeOK, Receive, Receiving, Received, hostVars, connVars,
   queueVars, callVars, threadVars, clientVars, history
<1>a. Head(queue[c]) \in Message /\ Tail(queue[c]) \in Seq(Message)
  BY DEF ConnTypes
<1>1. HostTypes' /\ CallTypes' /\ HistoryTypes' /\ Devices'
  BY DEF HostTypes, CallTypes, HistoryTypes, Devices
<1>2. ConnTypes'
  BY <1>a DEF ConnTypes
<1>3. ThreadTypes'
  BY DEF ThreadTypes
<1>4. ClientTypes'
  BY <1>a DEF ClientTypes
<1>5. Callers'
  BY DEF Callers, CallTypes, ThreadTypes, Accepted, Removing, Calling
<1>6. Writers'
  BY NoMsgIsNone, <1>a DEF Writers, ThreadTypes, ClientTypes, Callers, Accepted,
     Removing, Calling
<1>7. Targets'
  BY DEF Targets, ThreadTypes, Removing
<1>8. Accepted'
  BY DEF Accepted, ConnTypes, CallTypes, ThreadTypes, Targets, Removing
<1>9. Teardown'
  BY DEF Teardown, ConnTypes, ThreadTypes, Targets, Callers, Accepted, Removing
<1>10. RefusalDrops'
  BY DEF RefusalDrops, ConnTypes, ThreadTypes, HistoryTypes, Accepted, Removing
<1>11. Forgotten'
  BY DEF Forgotten, ConnTypes, ThreadTypes, Accepted, Teardown, Callers, Targets,
     Removing
<1>12. QED
  BY <1>1, <1>2, <1>3, <1>4, <1>5, <1>6, <1>7, <1>8, <1>9, <1>10, <1>11

\* A writer ends with nothing in hand.
LEMMA DrainedKeeps ==
    ASSUME IInv, NEW c \in Conn, Drained(c)
    PROVE  IInv'
<1> USE Threads DEF IInv, TypeOK, Drained, hostVars, connVars, queueVars, callVars,
   threadVars, clientVars, history
<1>1. HostTypes' /\ ConnTypes' /\ CallTypes' /\ ClientTypes' /\ HistoryTypes' /\ Devices'
  BY DEF HostTypes, ConnTypes, CallTypes, ClientTypes, HistoryTypes, Devices
<1>2. ThreadTypes'
  BY DEF ThreadTypes
<1>3. Callers'
  BY DEF Callers, CallTypes, ThreadTypes, Accepted, Removing, Calling
<1>4. Writers'
  BY NoMsgIsNone DEF Writers, ThreadTypes, ClientTypes, Callers, Accepted, Removing,
     Calling
<1>5. Targets'
  BY DEF Targets, ThreadTypes, Removing
<1>6. Accepted'
  BY DEF Accepted, ConnTypes, CallTypes, ThreadTypes, Targets, Removing
<1>7. Teardown'
  BY DEF Teardown, ConnTypes, ThreadTypes, Targets, Callers, Accepted, Removing
<1>8. RefusalDrops'
  BY DEF RefusalDrops, ConnTypes, ThreadTypes, HistoryTypes, Accepted, Removing
<1>9. Forgotten'
  BY DEF Forgotten, ConnTypes, ThreadTypes, Accepted, Teardown, Callers, Targets,
     Removing
<1>10. QED
  BY <1>1, <1>2, <1>3, <1>4, <1>5, <1>6, <1>7, <1>8, <1>9

\* Giving bytes back keeps the message in hand.
LEMMA AccountKeeps ==
    ASSUME IInv, NEW c \in Conn, Account(c)
    PROVE  IInv'
<1> USE Threads DEF IInv, TypeOK, Account, GiveBack, hostVars, connVars, queueVars,
   callVars, threadVars, clientVars, history
<1>a. SizeOf[held[c].kind] \in Nat
  BY HubAssumption DEF Writers, Message
<1>1. HostTypes' /\ CallTypes' /\ ClientTypes' /\ HistoryTypes' /\ Devices'
  BY DEF HostTypes, CallTypes, ClientTypes, HistoryTypes, Devices
<1>2. ConnTypes'
  BY <1>a DEF ConnTypes
<1>3. ThreadTypes'
  BY DEF ThreadTypes
<1>4. Callers'
  BY DEF Callers, CallTypes, ThreadTypes, Accepted, Removing, Calling
<1>5. Writers'
  BY NoMsgIsNone DEF Writers, ThreadTypes, ClientTypes, Callers, Accepted, Removing,
     Calling
<1>6. Targets'
  BY DEF Targets, ThreadTypes, Removing
<1>7. Accepted'
  BY DEF Accepted, ConnTypes, CallTypes, ThreadTypes, Targets, Removing
<1>8. Teardown'
  BY DEF Teardown, ConnTypes, ThreadTypes, Targets, Callers, Accepted, Removing
<1>9. RefusalDrops'
  BY DEF RefusalDrops, ConnTypes, ThreadTypes, HistoryTypes, Accepted, Removing
<1>10. Forgotten'
  BY DEF Forgotten, ConnTypes, ThreadTypes, Accepted, Teardown, Callers, Targets,
     Removing
<1>11. QED
  BY <1>1, <1>2, <1>3, <1>4, <1>5, <1>6, <1>7, <1>8, <1>9, <1>10

\* A written message leaves the hand.
LEMMA WriteKeeps ==
    ASSUME IInv, NEW c \in Conn, Write(c)
    PROVE  IInv'
<1> USE Threads DEF IInv, TypeOK, Write, hostVars, connVars, queueVars, callVars,
   threadVars, clientVars, history
<1>a. held[c] \in Message
  BY DEF Writers
<1>1. HostTypes' /\ ConnTypes' /\ CallTypes' /\ HistoryTypes' /\ Devices'
  BY DEF HostTypes, ConnTypes, CallTypes, HistoryTypes, Devices
<1>2. ThreadTypes'
  BY DEF ThreadTypes
<1>3. ClientTypes'
  BY <1>a DEF ClientTypes
<1>4. Callers'
  BY DEF Callers, CallTypes, ThreadTypes, Accepted, Removing, Calling
<1>5. Writers'
  BY NoMsgIsNone DEF Writers, ThreadTypes, ClientTypes, Callers, Accepted, Removing,
     Calling
<1>6. Targets'
  BY DEF Targets, ThreadTypes, Removing
<1>7. Accepted'
  BY DEF Accepted, ConnTypes, CallTypes, ThreadTypes, Targets, Removing
<1>8. Teardown'
  BY DEF Teardown, ConnTypes, ThreadTypes, Targets, Callers, Accepted, Removing
<1>9. RefusalDrops'
  BY DEF RefusalDrops, ConnTypes, ThreadTypes, HistoryTypes, Accepted, Removing
<1>10. Forgotten'
  BY DEF Forgotten, ConnTypes, ThreadTypes, Accepted, Teardown, Callers, Targets,
     Removing
<1>11. QED
  BY <1>1, <1>2, <1>3, <1>4, <1>5, <1>6, <1>7, <1>8, <1>9, <1>10

\* A failed write turns to tearing the connection down.
LEMMA WriteFailsKeeps ==
    ASSUME IInv, NEW c \in Conn, WriteFails(c)
    PROVE  IInv'
<1> USE Threads DEF IInv, TypeOK, WriteFails, hostVars, connVars, queueVars, callVars,
   threadVars, clientVars, history
<1>1. HostTypes' /\ ConnTypes' /\ CallTypes' /\ HistoryTypes' /\ Devices'
  BY DEF HostTypes, ConnTypes, CallTypes, HistoryTypes, Devices
<1>2. ThreadTypes'
  BY DEF ThreadTypes
<1>3. ClientTypes'
  BY DEF ClientTypes
<1>4. Callers'
  BY DEF Callers, CallTypes, ThreadTypes, Accepted, Removing, Calling
<1>5. Writers'
  BY NoMsgIsNone DEF Writers, ThreadTypes, ClientTypes, Callers, Accepted, Removing,
     Calling
<1>6. Targets'
  BY DEF Targets, ThreadTypes, Removing
<1>7. Accepted'
  BY DEF Accepted, ConnTypes, CallTypes, ThreadTypes, Targets, Removing
<1>8. Teardown'
  BY DEF Teardown, ConnTypes, ThreadTypes, Targets, Callers, Accepted, Removing
<1>9. RefusalDrops'
  BY DEF RefusalDrops, ConnTypes, ThreadTypes, HistoryTypes, Accepted, Removing
<1>10. Forgotten'
  BY DEF Forgotten, ConnTypes, ThreadTypes, Accepted, Teardown, Callers, Targets,
     Removing
<1>11. QED
  BY <1>1, <1>2, <1>3, <1>4, <1>5, <1>6, <1>7, <1>8, <1>9, <1>10

-----------------------------------------------------------------------------
(* The five ways a call starts *)

\* A device goroutine publishes to all.
LEMMA PublishKeeps == ASSUME IInv, NEW d \in Publisher, Publish(d) PROVE IInv'
<1> DEFINE t == <<"device", d>>
<1>1. PICK pub \in Publications :
          /\ value' = IF pub[1] \in {"message", "del"} THEN value
                      ELSE [value EXCEPT ![pub[2]] = @ + 1]
          /\ Start(t, << ToAll(pub[1], pub[2]) >>)
  BY DEF Publish
<1>2. pub[1] \in Kind /\ pub[2] \in Prop
  BY HubAssumption
<1>3. value' \in [Prop -> Nat]
  BY <1>1, <1>2 DEF IInv, TypeOK, HostTypes
<1>4. t \in Caller /\ pc[t] = "idle"
  BY Threads DEF Publish
<1>5. << ToAll(pub[1], pub[2]) >> \in Seq(Broadcast) /\ Seq(Broadcast) \subseteq Seq(Job)
  BY <1>2, Jobs
<1>6. QED
  BY <1>1, <1>3, <1>4, <1>5, StartKeeps DEF Publish

\* A read loop is not a device goroutine, and a command changes one property.
LEMMA ReaderStarts ==
    ASSUME IInv, NEW c \in Conn, NEW jobs \in Seq(Job),
           pc[Reader(c)] = "idle", Start(Reader(c), jobs),
           value' = value \/ \E p \in Prop : value' = [value EXCEPT ![p] = @ + 1],
           UNCHANGED <<hostVars, connVars, msg, todo, cur, back, clientVars,
                       refused, entitled>>
    PROVE  IInv'
<1>1. Reader(c) \in Caller /\ Reader(c)[1] # "device"
  BY Threads DEF Reader
<1>2. value' \in [Prop -> Nat]
  BY DEF IInv, TypeOK, HostTypes
<1>3. QED
  BY <1>1, <1>2, StartKeeps

\* Whatever element a client sends.
LEMMA HandleKeeps == ASSUME IInv, NEW c \in Conn, Handle(c) PROVE IInv'
<1>1. CASE GetProperties(c)
  <2>1. PICK s \in Asked : Start(Reader(c), [i \in 1..Len(Order) |->
            [kind |-> "def", prop |-> Order[i],
             to |-> IF s[1] \in {All, DeviceOf[Order[i]]} /\ s[2] \in {All, Order[i]}
                    THEN "own" ELSE "nobody"]])
    BY <1>1 DEF GetProperties
  <2>2. [i \in 1..Len(Order) |->
            [kind |-> "def", prop |-> Order[i],
             to |-> IF s[1] \in {All, DeviceOf[Order[i]]} /\ s[2] \in {All, Order[i]}
                    THEN "own" ELSE "nobody"]] \in Seq(Job)
    BY HubAssumption DEF Job, Kind
  <2>3. QED
    BY <1>1, <2>1, <2>2, ReaderStarts DEF GetProperties, Reading
<1>2. CASE EnableBLOB(c)
  BY <1>2, EnableBLOBKeeps
<1>3. CASE Command(c)
  <2>1. PICK p \in Prop : /\ value' = [value EXCEPT ![p] = @ + 1]
                          /\ Start(Reader(c), << ToAll("set", p) >>)
    BY <1>3 DEF Command
  <2>2. << ToAll("set", p) >> \in Seq(Job)
    BY Jobs DEF Kind
  <2>3. QED
    BY <1>3, <2>1, <2>2, ReaderStarts DEF Command, Reading
<1>4. CASE Reject(c)
  <2>1. PICK p \in Prop : /\ value' = [value EXCEPT ![p] = @ + 1]
                          /\ Start(Reader(c), << ToAll("set", p), ToAll("message", p) >>)
    BY <1>4 DEF Reject
  <2>2. << ToAll("set", p), ToAll("message", p) >> \in Seq(Job)
    BY Jobs DEF Kind
  <2>3. QED
    BY <1>4, <2>1, <2>2, ReaderStarts DEF Reject, Reading
<1>5. CASE Ignore(c)
  <2>1. PICK p \in Prop : Start(Reader(c), << ToOwn("message", p) >>)
    BY <1>5 DEF Ignore
  <2>2. << ToOwn("message", p) >> \in Seq(Job)
    BY Jobs DEF Kind
  <2>3. QED
    BY <1>5, <2>1, <2>2, ReaderStarts DEF Ignore, Reading
<1>6. QED
  BY <1>1, <1>2, <1>3, <1>4, <1>5 DEF Handle

-----------------------------------------------------------------------------
(* The invariant, and what follows from it *)

\* Nothing moves.
LEMMA StutterKeeps == ASSUME IInv, UNCHANGED vars PROVE IInv'
<1> USE DEF vars, hostVars, connVars, queueVars, callVars, threadVars, clientVars,
   history
<1>1. TypeOK'
  BY DEF IInv, TypeOK, HostTypes, ConnTypes, CallTypes, ThreadTypes, ClientTypes,
     HistoryTypes
<1>2. Callers' /\ Devices' /\ Writers' /\ Targets'
  BY DEF IInv, Callers, Devices, Writers, Targets
<1>3. Accepted' /\ Teardown' /\ RefusalDrops' /\ Forgotten'
  BY DEF IInv, Accepted, Teardown, RefusalDrops, Forgotten
<1>4. QED
  BY <1>1, <1>2, <1>3 DEF IInv

\* The inductive step.
LEMMA NextKeeps == IInv /\ [Next]_vars => IInv'
<1> SUFFICES ASSUME IInv, [Next]_vars PROVE IInv'
  OBVIOUS
<1>1. CASE Cancel \/ StopListening
  BY <1>1, CancelKeeps
<1>2. ASSUME NEW c \in Conn, Accept(c) \/ Watch(c) \/ Handle(c) \/ ReadFails(c)
      PROVE  IInv'
  BY <1>2, AcceptKeeps, WatchKeeps, HandleKeeps, ReadFailsKeeps
<1>3. ASSUME NEW c \in Conn, WriteLoop(c) PROVE IInv'
  BY <1>3, ReceiveKeeps, DrainedKeeps, AccountKeeps, WriteKeeps, WriteFailsKeeps
     DEF WriteLoop
<1>4. ASSUME NEW d \in Publisher, Publish(d) PROVE IInv'
  BY <1>4, PublishKeeps
<1>5. ASSUME NEW t \in Caller, Send(t) PROVE IInv'
  BY <1>5, MarshalKeeps, SnapshotConnsKeeps, VisitKeeps, FinishKeeps, AdmitKeeps,
     GoneKeeps, FullKeeps DEF Send
<1>6. ASSUME NEW t \in Thread, RemoveConn(t) PROVE IInv'
  BY <1>6, UnregisterKeeps, CloseQueueKeeps, HangUpKeeps DEF RemoveConn
<1>7. CASE UNCHANGED vars
  BY <1>7, StutterKeeps
<1>8. QED
  BY <1>1, <1>2, <1>3, <1>4, <1>5, <1>6, <1>7 DEF Next

\* The inductive invariant holds in every reachable state of the hub.
THEOREM Invariance == Spec => []IInv
BY InitIInv, NextKeeps, PTL DEF Spec

\* Type correctness of the hub.
THEOREM TypeCorrect == Spec => []TypeOK
<1>1. IInv => TypeOK
  BY DEF IInv
<1>2. QED
  BY <1>1, Invariance, PTL

\* No send on and no second close of a closed queue, whoever races whom.
THEOREM NoPanic == Spec => []NoChannelPanic
<1>1. IInv => NoChannelPanic
  BY DEF IInv, Teardown, NoChannelPanic
<1>2. QED
  BY <1>1, Invariance, PTL

\* A client whose queue refused a message does not stay connected.
THEOREM RefusedIsDropped == Spec => []RefusalDrops
<1>1. IInv => RefusalDrops
  BY DEF IInv
<1>2. QED
  BY <1>1, Invariance, PTL

\* A torn-down connection leaves nothing behind in s.conns, nor an open socket.
THEOREM GoneIsForgotten == Spec => []Forgotten
<1>1. IInv => Forgotten
  BY DEF IInv
<1>2. QED
  BY <1>1, Invariance, PTL

-----------------------------------------------------------------------------
(* Gaps: only enqueue lengthens a queue *)

\* A queue grows by the message of a sender in enqueue, and in no other way.
LEMMA QueueGrows ==
    ASSUME IInv, [Next]_vars, NEW c \in Conn, Queued(c)
    PROVE  \E t \in Caller : /\ Admit(t) /\ cur[t] = c /\ msg[t] \in Message
                             /\ msg[t].from = t
                             /\ queue'[c] = Append(queue[c], msg[t])
<1> USE DEF hostVars, connVars, queueVars, callVars, threadVars, clientVars, history
<1>1. queue' # queue
  BY DEF Queued
<1>2. CASE \E d \in Conn : Receive(d)
  <2>1. PICK d \in Conn : Receive(d)
    BY <1>2
  <2>2. queue'[c] = IF c = d THEN Tail(queue[c]) ELSE queue[c]
    BY <2>1 DEF Receive, Received, IInv, TypeOK, ConnTypes
  <2>3. queue[d] \in Seq(Message) /\ queue[d] # <<>>
    BY <2>1 DEF Receive, Receiving, IInv, TypeOK, ConnTypes
  <2>4. Len(Tail(queue[d])) = Len(queue[d]) - 1 /\ Len(queue[d]) \in Nat
    BY <2>3, HeadTailProperties, LenProperties
  <2>5. QED
    BY <2>2, <2>4 DEF Queued
<1>3. CASE \E t \in Caller : Admit(t)
  <2>1. PICK t \in Caller : Admit(t)
    BY <1>3
  <2>2. cur[t] \in Conn /\ msg[t] \in Message /\ msg[t].from = t
    BY <2>1, Threads DEF Admit, IInv, Targets, Callers
  <2>3. queue' = queue \/ queue' = [queue EXCEPT ![cur[t]] = Append(queue[cur[t]], msg[t])]
    BY <2>1, <2>2 DEF Admit, Admitted, IInv, TypeOK, ConnTypes
  <2>4. cur[t] = c /\ queue'[c] = Append(queue[c], msg[t])
    BY <1>1, <2>2, <2>3 DEF Queued, IInv, TypeOK, ConnTypes
  <2>5. QED
    BY <2>1, <2>2, <2>4
<1>4. CASE ~(\E d \in Conn : Receive(d)) /\ ~(\E t \in Caller : Admit(t))
  <2>1. CASE Cancel \/ StopListening \/ UNCHANGED vars
    BY <1>1, <2>1 DEF Cancel, StopListening, vars
  <2>2. ASSUME NEW d \in Conn, Accept(d) \/ Watch(d) \/ Handle(d) \/ ReadFails(d)
        PROVE  FALSE
    BY <1>1, <2>2 DEF Accept, Watch, WatcherCancels, WatcherDone, WatcherEnds,
       ReadFails,
       Handle, GetProperties, EnableBLOB, Command, Reject, Ignore
  <2>3. ASSUME NEW d \in Conn, WriteLoop(d) PROVE FALSE
    BY <1>1, <1>4, <2>3 DEF WriteLoop, Drained, Account, GiveBack, Write, WriteFails
  <2>4. ASSUME NEW d \in Publisher, Publish(d) PROVE FALSE
    BY <1>1, <2>4 DEF Publish
  <2>5. ASSUME NEW t \in Caller, Send(t) PROVE FALSE
    BY <1>1, <1>4, <2>5 DEF Send, Marshal, SnapshotConns, Visit, Finish, Gone, Full,
       Refuse
  <2>6. ASSUME NEW t \in Thread, RemoveConn(t) PROVE FALSE
    BY <1>1, <2>6 DEF RemoveConn, Unregister, UnregisterInto, CloseQueue, HangUp
  <2>7. QED
    BY <2>1, <2>2, <2>3, <2>4, <2>5, <2>6 DEF Next
<1>5. QED
  BY <1>2, <1>3, <1>4

\* Once a sender's message was refused by a client's queue, nothing that sender
\* publishes later reaches that client: no client sees a gap in a sender's stream.
THEOREM NoGaps == Spec => GapFree
<1>1. IInv /\ [Next]_vars => NoGap
  <2> SUFFICES ASSUME IInv, [Next]_vars, NEW c \in Conn, Queued(c)
               PROVE  Newest(c).from \notin refused[c]
    BY DEF NoGap
  <2>1. PICK t \in Caller : /\ Admit(t) /\ cur[t] = c /\ msg[t] \in Message
                            /\ msg[t].from = t
                            /\ queue'[c] = Append(queue[c], msg[t])
    BY QueueGrows
  <2>2. queue[c] \in Seq(Message)
    BY DEF IInv, TypeOK, ConnTypes
  <2>3. Newest(c) = msg[t]
    BY <2>1, <2>2, AppendProperties DEF Newest
  <2>4. t \notin refused[c]
    BY <2>1 DEF Admit, IInv, RefusalDrops
  <2>5. QED
    BY <2>1, <2>3, <2>4
<1>2. QED
  BY <1>1, Invariance, PTL DEF Spec, GapFree

-----------------------------------------------------------------------------
(* enableBLOB policies *)

\* The lookup order of policyFor is what enableBLOB promises: the scope that is set and
\* has no narrower one set decides.
LEMMA WantsIsEntitled ==
    ASSUME NEW c \in Conn, NEW m \in Message, DOMAIN policy[c] \subseteq Scope,
           \A s \in DOMAIN policy[c] : policy[c][s] \in Policy, wants(c, m)
    PROVE  Entitled(policy[c], m)
<1> DEFINE D == DOMAIN policy[c]
           d == DeviceOf[m.prop]
           n == NameOf(m)
           s1 == <<d, n>>
           s2 == <<d, All>>
           s3 == <<All, All>>
           p == policyFor(c, d, n)
           set == {s \in D : Covers(s, m)}
           deciding == {policy[c][s] : s \in {x \in set : \A r \in set : ~Narrower(r, x)}}
<1>1. m.prop \in Prop /\ m.kind \in Kind /\ d \in Device /\ d # All
  BY HubAssumption DEF HubAssumption, Message
<1>2. (n = All <=> m.kind = "message") /\ n \in {All} \cup Prop
  BY <1>1, HubAssumption DEF HubAssumption, NameOf
<1>3. set = D \cap {s1, s2, s3}
  <2>1. ASSUME NEW s \in D, Covers(s, m) PROVE s \in {s1, s2, s3}
    <3>1. s \in Scope
      OBVIOUS
    <3>2. s = <<s[1], s[2]>>
      BY <3>1 DEF Scope
    <3>3. QED
      BY <2>1, <3>2 DEF Covers
  <2>2. Covers(s1, m) /\ Covers(s2, m) /\ Covers(s3, m)
    BY <1>1 DEF Covers
  <2>3. QED
    BY <2>1, <2>2
<1>4. /\ Narrower(s2, s3) /\ Narrower(s1, s3) /\ (s1 # s2 => Narrower(s1, s2))
      /\ ~Narrower(s2, s1) /\ ~Narrower(s3, s1) /\ ~Narrower(s3, s2)
      /\ ~Narrower(s1, s1) /\ ~Narrower(s2, s2) /\ ~Narrower(s3, s3)
  BY <1>1, <1>2 DEF Narrower
<1>5. p = IF s1 \in D THEN policy[c][s1] ELSE IF s2 \in D THEN policy[c][s2]
          ELSE IF s3 \in D THEN policy[c][s3] ELSE "never"
  <2> DEFINE scopes == <<s1, s2, s3>>
             is == {i \in DOMAIN scopes : scopes[i] \in D}
             first == CHOOSE i \in is : \A j \in is : i <= j
  <2>1. DOMAIN scopes = 1..3 /\ scopes[1] = s1 /\ scopes[2] = s2 /\ scopes[3] = s3
    OBVIOUS
  <2>2. p = IF is = {} THEN "never" ELSE policy[c][scopes[first]]
    BY DEF policyFor, FirstSet
  <2> HIDE DEF scopes, s1, s2, s3, p
  <2>3. is \subseteq 1..3 /\ (1 \in is <=> s1 \in D) /\ (2 \in is <=> s2 \in D) /\ (3 \in is <=> s3 \in D)
    BY <2>1
  <2>a. ASSUME NEW i \in is, \A j \in is : i <= j PROVE first \in is /\ \A j \in is : first <= j
    BY <2>a
  <2> HIDE DEF is, first
  <2>4. CASE s1 \in D
    <3>1. 1 \in is /\ \A j \in is : 1 <= j
      BY <2>3, <2>4
    <3>2. first \in is /\ \A j \in is : first <= j
      BY <2>a, <3>1
    <3>3. first \in 1..3 /\ first <= 1 /\ 1 <= first
      BY <2>3, <3>1, <3>2
    <3>4. first = 1
      BY <3>3
    <3>5. QED
      BY <2>1, <2>2, <2>4, <3>1, <3>4
  <2>5. CASE s1 \notin D /\ s2 \in D
    <3>1. 2 \in is /\ \A j \in is : 2 <= j
      BY <2>3, <2>5
    <3>2. first \in is /\ \A j \in is : first <= j
      BY <2>a, <3>1
    <3>3. first \in 1..3 /\ first <= 2 /\ 2 <= first
      BY <2>3, <3>1, <3>2
    <3>4. first = 2
      BY <3>3
    <3>5. QED
      BY <2>1, <2>2, <2>5, <3>1, <3>4
  <2>6. CASE s1 \notin D /\ s2 \notin D /\ s3 \in D
    <3>1. 3 \in is /\ \A j \in is : 3 <= j
      BY <2>3, <2>6
    <3>2. first \in is /\ \A j \in is : first <= j
      BY <2>a, <3>1
    <3>3. first \in 1..3 /\ first <= 3 /\ 3 <= first
      BY <2>3, <3>1, <3>2
    <3>4. first = 3
      BY <3>3
    <3>5. QED
      BY <2>1, <2>2, <2>6, <3>1, <3>4
  <2>7. CASE s1 \notin D /\ s2 \notin D /\ s3 \notin D
    BY <2>2, <2>3, <2>7
  <2>8. QED
    BY <2>4, <2>5, <2>6, <2>7
<1> HIDE DEF s1, s2, s3, set
<1>6. deciding = IF D \cap {s1, s2, s3} = {} THEN {} ELSE {p}
  <2>1. CASE s1 \in D
    <3>1. {x \in set : \A r \in set : ~Narrower(r, x)} = {s1}
      BY <1>3, <1>4, <2>1
    <3>2. QED
      BY <1>5, <2>1, <3>1
  <2>2. CASE s1 \notin D /\ s2 \in D
    <3>1. {x \in set : \A r \in set : ~Narrower(r, x)} = {s2}
      BY <1>3, <1>4, <2>2
    <3>2. QED
      BY <1>5, <2>2, <3>1
  <2>3. CASE s1 \notin D /\ s2 \notin D /\ s3 \in D
    <3>1. {x \in set : \A r \in set : ~Narrower(r, x)} = {s3}
      BY <1>3, <1>4, <2>3
    <3>2. QED
      BY <1>5, <2>3, <3>1
  <2>4. CASE s1 \notin D /\ s2 \notin D /\ s3 \notin D
    <3>1. {x \in set : \A r \in set : ~Narrower(r, x)} = {}
      BY <1>3, <2>4
    <3>2. QED
      BY <2>4, <3>1
  <2>5. QED
    BY <2>1, <2>2, <2>3, <2>4
<1>7. p \in Policy /\ (D \cap {s1, s2, s3} = {} => p = "never")
  BY <1>5 DEF Policy
<1>8. \/ m.kind = "def" /\ m.prop \in BlobProp
      \/ m.kind = "blob" /\ p # "never"
      \/ m.kind # "blob" /\ p # "only"
  BY DEF wants
<1>9. Entitled(policy[c], m) <=> (\/ m.kind = "def" /\ m.prop \in BlobProp
                                  \/ m.kind = "blob" /\ deciding \cap {"also", "only"} # {}
                                  \/ m.kind # "blob" /\ "only" \notin deciding)
  BY DEF Entitled, set
<1> HIDE DEF deciding, p
<1>10. QED
  BY <1>6, <1>7, <1>8, <1>9 DEF Policy

\* The policies that clients have set.
Policies == /\ DOMAIN policy = Conn
            /\ \A c \in Conn : /\ DOMAIN policy[c] \subseteq Scope
                               /\ \A s \in DOMAIN policy[c] : policy[c][s] \in Policy

\* A caller that visits its audience: who is in it and entitled is known to be, a reply
\* goes to the reader's own client, and what is being enqueued may be.
Visiting(t) == pc[t] \in {"visit", "enqueue"} \/ (pc[t] \in Removing /\ back[t] = "visit")
Reply(t) == Head(agenda[t]).to = "own"
Audience(t) ==
    /\ pc[t] = "snapshot" => ~Reply(t) /\ Head(agenda[t]).kind = msg[t].kind
    /\ Visiting(t) =>
        /\ \A c \in todo[t] : Entitled(policy[c], msg[t]) => c \in entitled[t]
        /\ Head(agenda[t]).kind = msg[t].kind
        /\ Reply(t) => \A c \in todo[t] : t = Reader(c)
        /\ pc[t] = "enqueue" =>
             cur[t] \in entitled[t] \/ (msg[t].kind = "message" /\ t = Reader(cur[t]))
Audiences == Policies /\ \A t \in Caller : Audience(t)

\* A caller whose call, and whose place in it, are left alone keeps its audience.
LEMMA AudienceStays ==
    ASSUME NEW t \in Caller, Audience(t), policy' = policy, pc'[t] = pc[t], back'[t] = back[t],
           todo'[t] = todo[t], msg'[t] = msg[t], agenda'[t] = agenda[t], cur'[t] = cur[t],
           entitled'[t] = entitled[t]
    PROVE  Audience(t)'
BY DEF Audience, Visiting, Reply

\* A caller's own step, and the choice of its audience.
LEMMA SendKeepsAudience ==
    ASSUME IInv, Audiences, NEW t \in Caller, Send(t)
    PROVE  policy' = policy /\ Audience(t)'
<1> USE DEF hostVars, connVars, queueVars, callVars, threadVars, clientVars, history
<1>1. /\ todo \in [Caller -> SUBSET Conn] /\ msg \in [Caller -> Message \cup {NoMsg}]
      /\ agenda \in [Caller -> Seq(Job)] /\ entitled \in [Caller -> SUBSET Conn]
      /\ DOMAIN pc = Thread /\ DOMAIN cur = Thread /\ DOMAIN back = Thread /\ t \in Thread
  BY Threads DEF IInv, TypeOK, CallTypes, ThreadTypes, HistoryTypes
<1>2. Policies /\ Audience(t)
  BY DEF Audiences
<1>3. CASE Marshal(t)
  <2> DEFINE job == Head(agenda[t])
  <2>1. /\ policy' = policy /\ agenda' = agenda /\ msg'[t].kind = job.kind
        /\ todo'[t] = (IF job.to = "own" THEN {t[2]} ELSE {})
        /\ entitled'[t] = {c \in todo'[t] : Entitled(policy[c], msg'[t])}
        /\ pc'[t] \in {"snapshot", "visit"}
    BY <1>1, <1>3 DEF Marshal
  <2>2. job.to = "own" => \E c \in Conn : t = Reader(c)
    <3>1. SUFFICES ASSUME NEW d \in Publisher, t = <<"device", d>> PROVE job.to = "all"
      BY Threads
    <3>2. agenda[t] \in Seq(Broadcast) /\ agenda[t] # <<>>
      BY <1>3, <3>1 DEF IInv, Devices, Callers, Calling, Marshal
    <3>3. job \in Broadcast
      BY <3>2
    <3>4. QED
      BY <3>3 DEF Broadcast
  <2>3. job.to = "own" => \A c \in todo'[t] : t = Reader(c)
    BY <2>1, <2>2 DEF Reader
  <2>4. \A c \in todo'[t] : Entitled(policy'[c], msg'[t]) => c \in entitled'[t]
    BY <2>1
  <2>5. pc'[t] = "snapshot" => job.to = "all"
    BY <1>1, <1>3 DEF Marshal
  <2> HIDE DEF job
  <2>6. QED
    BY <2>1, <2>3, <2>4, <2>5 DEF Audience, Reply, job
<1>4. CASE SnapshotConns(t)
  <2>1. /\ policy' = policy /\ agenda' = agenda /\ msg' = msg /\ todo'[t] = conns
        /\ entitled'[t] = {c \in conns : Entitled(policy[c], msg[t])} /\ pc[t] = "snapshot" /\ pc'[t] = "visit"
    BY <1>1, <1>4 DEF SnapshotConns
  <2>2. QED
    BY <1>2, <2>1 DEF Audience, Reply
<1>5. CASE Visit(t)
  <2>1. PICK c \in todo[t] :
          /\ todo' = [todo EXCEPT ![t] = @ \ {c}]
          /\ IF Head(agenda[t]) = ToOwn("message", msg[t].prop) \/ wants(c, msg[t])
               THEN cur' = [cur EXCEPT ![t] = c] /\ pc' = [pc EXCEPT ![t] = "enqueue"]
               ELSE UNCHANGED <<cur, pc>>
    BY <1>5 DEF Visit
  <2>2. /\ policy' = policy /\ agenda' = agenda /\ msg' = msg /\ entitled' = entitled /\ back' = back
        /\ pc[t] = "visit" /\ todo'[t] = todo[t] \ {c} /\ c \in Conn
    BY <1>1, <1>5, <2>1 DEF Visit
  <2>3. msg[t] \in Message
    BY <2>2 DEF IInv, Callers
  <2>4. Audience(t) /\ Visiting(t)
    BY <1>2, <2>2 DEF Visiting
  <2>5. CASE Head(agenda[t]) = ToOwn("message", msg[t].prop) \/ wants(c, msg[t])
    <3>1. pc'[t] = "enqueue" /\ cur'[t] = c
      BY <1>1, <2>1, <2>5
    <3>2. CASE Head(agenda[t]) = ToOwn("message", msg[t].prop)
      <4>1. Head(agenda[t]).to = "own" /\ Head(agenda[t]).kind = "message"
        BY <3>2 DEF ToOwn
      <4>2. msg[t].kind = "message" /\ t = Reader(c)
        BY <2>4, <4>1 DEF Audience, Reply
      <4>3. QED
        BY <2>2, <2>4, <3>1, <4>2 DEF Audience, Reply
    <3>3. CASE wants(c, msg[t])
      <4>1. Entitled(policy[c], msg[t])
        BY <1>2, <2>2, <2>3, <3>3, WantsIsEntitled DEF Policies
      <4>2. c \in entitled[t]
        BY <2>4, <4>1 DEF Audience
      <4>3. QED
        BY <2>2, <2>4, <3>1, <4>2 DEF Audience, Reply
    <3>4. QED
      BY <2>5, <3>2, <3>3
  <2>6. CASE ~(Head(agenda[t]) = ToOwn("message", msg[t].prop) \/ wants(c, msg[t]))
    BY <2>1, <2>2, <2>4, <2>6 DEF Audience, Reply
  <2>7. QED
    BY <2>2, <2>5, <2>6
<1>6. CASE Finish(t)
  <2>1. policy' = policy /\ pc'[t] \in {"idle", "marshal"}
    BY <1>1, <1>6 DEF Finish
  <2>2. QED
    BY <2>1 DEF Audience, Visiting, Removing
<1>7. CASE Admit(t) \/ Gone(t) \/ Full(t)
  <2>1. /\ policy' = policy /\ agenda' = agenda /\ msg' = msg /\ entitled' = entitled /\ todo' = todo
        /\ pc[t] = "enqueue" /\ pc'[t] \in {"visit", "unregister"}
    BY <1>1, <1>7 DEF Admit, Admitted, Gone, Full, Refuse
  <2>2. QED
    BY <1>2, <2>1 DEF Audience, Visiting, Reply
<1>8. QED
  BY <1>3, <1>4, <1>5, <1>6, <1>7 DEF Send

\* The callers that a step is not of.
LEMMA AudiencesKept == ASSUME IInv, Audiences, [Next]_vars PROVE Audiences'
<1> USE DEF hostVars, connVars, queueVars, callVars, threadVars, clientVars, history
<1>1. /\ DOMAIN todo = Caller /\ DOMAIN msg = Caller /\ DOMAIN agenda = Caller /\ entitled \in [Caller -> SUBSET Conn]
      /\ DOMAIN pc = Thread /\ DOMAIN cur = Thread /\ DOMAIN back = Thread
  BY DEF IInv, TypeOK, CallTypes, ThreadTypes, HistoryTypes
<1>2. Policies /\ \A t \in Caller : Audience(t)
  BY DEF Audiences
<1>3. SUFFICES Policies' /\ \A t \in Caller : Audience(t)'
  BY DEF Audiences
<1>4. ASSUME policy' = policy PROVE Policies'
  BY <1>2, <1>4 DEF Policies
<1>5. ASSUME UNCHANGED <<policy, pc, back, todo, msg, agenda, cur, entitled>>
      PROVE  Policies' /\ \A t \in Caller : Audience(t)'
  BY <1>2, <1>4, <1>5, AudienceStays
<1>6. CASE Cancel \/ StopListening \/ UNCHANGED vars
  <2>1. UNCHANGED <<policy, pc, back, todo, msg, agenda, cur, entitled>>
    BY <1>6 DEF Cancel, StopListening, vars
  <2>2. QED
    BY <1>5, <2>1
<1>7. ASSUME NEW c \in Conn, Watch(c) PROVE Policies' /\ \A t \in Caller : Audience(t)'
  <2>1. UNCHANGED <<policy, pc, back, todo, msg, agenda, cur, entitled>>
    BY <1>7 DEF Watch, WatcherCancels, WatcherDone, WatcherEnds
  <2>2. QED
    BY <1>5, <2>1
<1>8. ASSUME NEW c \in Conn, WriteLoop(c) PROVE Policies' /\ \A t \in Caller : Audience(t)'
  <2>1. UNCHANGED <<policy, todo, msg, agenda, entitled>>
    BY <1>8 DEF WriteLoop, Receive, Received, Drained, Account, GiveBack, Write, WriteFails
  <2>2. \A t \in Caller : t # Writer(c) /\ t \in Thread
    BY Threads
  <2>3. \A t \in Caller : pc'[t] = pc[t] /\ cur'[t] = cur[t] /\ back'[t] = back[t]
    BY <1>1, <1>8, <2>2 DEF WriteLoop, Receive, Received, Drained, Account, GiveBack, Write, WriteFails
  <2>4. QED
    BY <1>2, <1>4, <2>1, <2>3, AudienceStays
<1>9. ASSUME NEW t \in Caller, policy' = policy, pc'[t] \in {"none", "idle", "marshal"} \/ (pc'[t] = "unregister" /\ back'[t] = "exited"),
             \A u \in Caller : u # t => /\ pc'[u] = pc[u] /\ back'[u] = back[u] /\ todo'[u] = todo[u] /\ msg'[u] = msg[u]
                                       /\ agenda'[u] = agenda[u] /\ cur'[u] = cur[u] /\ entitled'[u] = entitled[u]
      PROVE  Policies' /\ \A u \in Caller : Audience(u)'
  <2>1. Audience(t)'
    BY <1>9 DEF Audience, Visiting, Removing
  <2>2. \A u \in Caller : u # t => Audience(u)'
    BY <1>2, <1>9, AudienceStays
  <2>3. QED
    BY <1>4, <1>9, <2>1, <2>2
<1>10. ASSUME NEW c \in Conn, Accept(c) PROVE Policies' /\ \A t \in Caller : Audience(t)'
  <2>1. UNCHANGED <<policy, back, todo, msg, agenda, cur, entitled>> /\ Reader(c) \in Caller
    BY <1>10, Threads DEF Accept
  <2>2. pc'[Reader(c)] = "idle" /\ \A t \in Caller : t # Reader(c) => pc'[t] = pc[t]
    BY <1>1, <1>10, Threads DEF Accept
  <2>3. QED
    BY <1>9, <2>1, <2>2
<1>11. ASSUME NEW c \in Conn, ReadFails(c) PROVE Policies' /\ \A t \in Caller : Audience(t)'
  <2>1. UNCHANGED <<policy, todo, msg, agenda, entitled>> /\ Reader(c) \in Caller
    BY <1>11, Threads DEF ReadFails
  <2>2. pc'[Reader(c)] = "unregister" /\ back'[Reader(c)] = "exited"
        /\ \A t \in Caller : t # Reader(c) => pc'[t] = pc[t] /\ cur'[t] = cur[t] /\ back'[t] = back[t]
    BY <1>1, <1>11, Threads DEF ReadFails
  <2>3. QED
    BY <1>9, <2>1, <2>2
<1>12. ASSUME NEW t \in Caller, NEW jobs, Start(t, jobs), UNCHANGED <<policy, back, todo, msg, cur, entitled>>
       PROVE  Policies' /\ \A u \in Caller : Audience(u)'
  <2>1. pc'[t] \in {"idle", "marshal"} /\ \A u \in Caller : u # t => pc'[u] = pc[u] /\ agenda'[u] = agenda[u]
    BY <1>1, <1>12, Threads DEF Start
  <2>2. QED
    BY <1>9, <1>12, <2>1
<1>13. ASSUME NEW d \in Publisher, Publish(d) PROVE Policies' /\ \A t \in Caller : Audience(t)'
  BY <1>12, <1>13, Threads DEF Publish
<1>14. ASSUME NEW c \in Conn, Handle(c), ~EnableBLOB(c) PROVE Policies' /\ \A t \in Caller : Audience(t)'
  BY <1>12, <1>14, Threads DEF Handle, GetProperties, Command, Reject, Ignore
<1>15. ASSUME NEW c \in Conn, EnableBLOB(c) PROVE Policies' /\ \A t \in Caller : Audience(t)'
  <2>1. PICK e \in Enables :
          policy' = [policy EXCEPT ![c] = [s \in DOMAIN @ \cup {e[1]} |-> IF s = e[1] THEN e[2] ELSE policy[c][s]]]
    BY <1>15 DEF EnableBLOB
  <2>2. e[1] \in Scope /\ e[2] \in Policy
    BY HubAssumption DEF HubAssumption
  <2>3. Policies'
    BY <1>2, <2>1, <2>2 DEF Policies
  <2>4. ASSUME NEW t \in Caller PROVE Audience(t)'
    <3>1. UNCHANGED <<pc, back, todo, msg, agenda, cur>>
      BY <1>15 DEF EnableBLOB
    <3>2. entitled'[t] = IF msg[t] # NoMsg /\ Entitled(policy'[c], msg[t]) THEN entitled[t] \cup {c} ELSE entitled[t]
      BY <1>15 DEF EnableBLOB
    <3>3. \A d \in Conn : d # c => policy'[d] = policy[d]
      BY <1>2, <2>1 DEF Policies
    <3>4. Visiting(t) => msg[t] # NoMsg /\ todo[t] \subseteq Conn
      BY NoMsgIsNone DEF Visiting, IInv, Callers, TypeOK, CallTypes
    <3>5. Visiting(t) => \A d \in todo[t] : Entitled(policy'[d], msg[t]) => d \in entitled'[t]
      BY <1>2, <3>2, <3>3, <3>4 DEF Audience
    <3>6. entitled[t] \subseteq entitled'[t] /\ Audience(t)
      BY <1>2, <3>2
    <3>7. QED
      BY <3>1, <3>5, <3>6 DEF Audience, Visiting, Reply
  <2>5. QED
    BY <2>3, <2>4
<1>16. ASSUME NEW t \in Caller, Send(t) PROVE Policies' /\ \A u \in Caller : Audience(u)'
  <2>1. policy' = policy /\ Audience(t)'
    BY <1>16, SendKeepsAudience
  <2>2. ASSUME NEW u \in Caller, u # t
        PROVE  /\ pc'[u] = pc[u] /\ back'[u] = back[u] /\ todo'[u] = todo[u] /\ msg'[u] = msg[u]
               /\ agenda'[u] = agenda[u] /\ cur'[u] = cur[u] /\ entitled'[u] = entitled[u]
    <3>1. u \in Thread
      BY Threads
    <3>2. CASE Marshal(t) \/ SnapshotConns(t)
      BY <1>1, <2>2, <3>1, <3>2 DEF Marshal, SnapshotConns
    <3>3. CASE Visit(t)
      BY <1>1, <2>2, <3>1, <3>3 DEF Visit
    <3>4. CASE Finish(t)
      BY <1>1, <2>2, <3>1, <3>4 DEF Finish
    <3>5. CASE Admit(t) \/ Gone(t) \/ Full(t)
      BY <1>1, <2>2, <3>1, <3>5 DEF Admit, Admitted, Gone, Full, Refuse
    <3>6. QED
      BY <1>16, <3>2, <3>3, <3>4, <3>5 DEF Send
  <2>3. \A u \in Caller : u # t => Audience(u)'
    BY <1>2, <2>1, <2>2, AudienceStays
  <2>4. QED
    BY <1>4, <2>1, <2>3
<1>17. ASSUME NEW t \in Thread, RemoveConn(t) PROVE Policies' /\ \A u \in Caller : Audience(u)'
  <2>1. UNCHANGED <<policy, back, todo, msg, agenda, entitled>> /\ pc[t] \in Removing
    BY <1>17 DEF RemoveConn, Unregister, UnregisterInto, CloseQueue, HangUp, Removing
  <2>2. pc'[t] \in {"close", "hangup", back[t]} /\ \A u \in Caller : u # t => pc'[u] = pc[u] /\ cur'[u] = cur[u]
    BY <1>1, <1>17, Threads DEF RemoveConn, Unregister, UnregisterInto, CloseQueue, HangUp
  <2>3. ASSUME t \in Caller PROVE Audience(t)'
    <3>1. back[t] \in {"visit", "exited"} /\ Audience(t)
      BY <1>2, <2>1, <2>3 DEF IInv, Callers
    <3>2. pc'[t] \notin {"enqueue", "snapshot"} /\ (Visiting(t)' => Visiting(t))
      BY <2>1, <2>2, <3>1 DEF Visiting, Removing
    <3>3. QED
      BY <2>1, <3>1, <3>2 DEF Audience, Reply
  <2>4. \A u \in Caller : u # t => Audience(u)'
    BY <1>2, <2>1, <2>2, AudienceStays
  <2>5. QED
    BY <1>4, <2>1, <2>3, <2>4
<1>18. QED
  BY <1>6, <1>7, <1>8, <1>10, <1>11, <1>13, <1>14, <1>15, <1>16, <1>17 DEF Next

\* Nothing is on its way at the start.
LEMMA InitAudiences == Init => Audiences
<1> SUFFICES ASSUME Init PROVE Audiences
  OBVIOUS
<1>1. Policies
  BY DEF Init, Policies
<1>2. \A t \in Caller : pc[t] \in {"none", "idle"}
  BY Threads DEF Init
<1>3. QED
  BY <1>1, <1>2 DEF Audiences, Audience, Visiting, Removing

\* A message reaches a client's queue only if the client's enableBLOB policy let it through
\* at some moment of the broadcast, however policies change during it; answers to the
\* client itself are exempt (wants, broadcast and messageTo, server.go).
THEOREM PoliciesHonoured == Spec => PolicyHonoured
<1>1. IInv /\ Audiences /\ [Next]_vars => OnlyToTheEntitled
  <2> SUFFICES ASSUME IInv, Audiences, [Next]_vars, NEW c \in Conn, Queued(c)
               PROVE  \/ c \in entitled[Newest(c).from]
                      \/ Newest(c).kind = "message" /\ Newest(c).from = Reader(c)
    BY DEF OnlyToTheEntitled
  <2>1. PICK t \in Caller : /\ Admit(t) /\ cur[t] = c /\ msg[t] \in Message
                            /\ msg[t].from = t
                            /\ queue'[c] = Append(queue[c], msg[t])
    BY QueueGrows
  <2>2. queue[c] \in Seq(Message)
    BY DEF IInv, TypeOK, ConnTypes
  <2>3. Newest(c) = msg[t]
    BY <2>1, <2>2, AppendProperties DEF Newest
  <2>4. c \in entitled[t] \/ (msg[t].kind = "message" /\ t = Reader(c))
    BY <2>1 DEF Admit, Audiences, Audience, Visiting
  <2>5. QED
    BY <2>1, <2>3, <2>4
<1>2. Spec => []Audiences
  BY AudiencesKept, InitAudiences, Invariance, PTL DEF Spec
<1>3. QED
  BY <1>1, <1>2, Invariance, PTL DEF Spec, PolicyHonoured

-----------------------------------------------------------------------------
(* The refinement of Feed *)

\* An idle hub is an idle Feed.
LEMMA FeedInit == Init => F!Init
<1> SUFFICES ASSUME Init PROVE F!Init
  OBVIOUS
<1>1. \A c \in Conn : WriterUp(c) /\ ~closed[c] /\ held[c] = NoMsg /\ queue[c] = <<>>
  BY Threads DEF Init, WriterUp, Writer, Thread
<1>2. FeedStatus = [c \in Conn |-> "up"]
  BY <1>1 DEF FeedStatus
<1>3. FeedPending = [c \in Conn |-> <<>>]
  BY <1>1 DEF FeedPending
<1>4. QED
  BY <1>2, <1>3 DEF F!Init, Init

\* What Feed sees of one connection.
Seen(c) == <<WriterUp(c), closed[c], held[c], queue[c], wire[c]>>

\* A step that changes nothing Feed sees is a stutter.
LEMMA Unseen ==
    ASSUME IInv, IInv', \A c \in Conn : UNCHANGED Seen(c)
    PROVE  UNCHANGED F!feedVars
<1>1. FeedStatus' = FeedStatus
  BY DEF FeedStatus, Seen
<1>2. FeedPending' = FeedPending
  BY DEF FeedPending, Seen
<1>3. wire' = wire
  <2>1. wire \in [Conn -> Seq(Message)] /\ wire' \in [Conn -> Seq(Message)]
    BY DEF IInv, TypeOK, ClientTypes
  <2>2. QED
    BY <2>1 DEF Seen
<1>4. QED
  BY <1>1, <1>2, <1>3 DEF F!feedVars

\* A step that changes one connection changes Feed at that connection only.
LEMMA OnlyAt ==
    ASSUME NEW c \in Conn, \A d \in Conn \ {c} : UNCHANGED Seen(d)
    PROVE  /\ FeedStatus' = [FeedStatus EXCEPT ![c] = FeedStatus'[c]]
           /\ FeedPending' = [FeedPending EXCEPT ![c] = FeedPending'[c]]
BY DEF FeedStatus, FeedPending, Seen

\* Sequences with one element in front.
LEMMA HeadTail ==
    ASSUME NEW S, NEW q \in Seq(S), NEW m \in S
    PROVE  /\ q # <<>> => <<Head(q)>> \o Tail(q) = q
           /\ <<m>> \o q # <<>>
           /\ Head(<<m>> \o q) = m
           /\ Tail(<<m>> \o q) = q
           /\ \A n \in S : <<m>> \o Append(q, n) = Append(<<m>> \o q, n)
OBVIOUS

\* Callers that do not reach enqueue, the host and the watchers are invisible.
LEMMA OthersAreUnseen ==
    ASSUME IInv, IInv', NEW c \in Conn,
           \/ Cancel \/ StopListening \/ UNCHANGED vars
           \/ \E d \in Conn : Accept(d) \/ Watch(d) \/ Handle(d) \/ ReadFails(d)
                               \/ Account(d)
           \/ \E d \in Publisher : Publish(d)
           \/ \E t \in Caller : Marshal(t) \/ SnapshotConns(t) \/ Visit(t) \/ Finish(t)
                                \/ Gone(t) \/ Full(t)
           \/ \E t \in Thread : Unregister(t) \/ HangUp(t)
    PROVE  UNCHANGED Seen(c)
<1> USE Threads DEF hostVars, connVars, queueVars, callVars, threadVars, clientVars,
   history,
        IInv, TypeOK, ThreadTypes, Seen, WriterUp
<1>1. CASE Cancel \/ StopListening \/ UNCHANGED vars
  BY <1>1 DEF Cancel, StopListening, vars
<1>2. ASSUME NEW d \in Conn, Accept(d) PROVE UNCHANGED Seen(c)
  BY <1>2 DEF Accept, Accepted
<1>3. ASSUME NEW d \in Conn, Watch(d) PROVE UNCHANGED Seen(c)
  BY <1>3 DEF Watch, WatcherCancels, WatcherDone, WatcherEnds
<1>4. ASSUME NEW d \in Conn, Handle(d) PROVE UNCHANGED Seen(c)
  BY <1>4 DEF Handle, GetProperties, EnableBLOB, Command, Reject, Ignore, Start, Reading
<1>5. ASSUME NEW d \in Conn, ReadFails(d) PROVE UNCHANGED Seen(c)
  BY <1>5 DEF ReadFails
<1>6. ASSUME NEW d \in Conn, Account(d) PROVE UNCHANGED Seen(c)
  BY <1>6 DEF Account, GiveBack
<1>7. ASSUME NEW d \in Publisher, Publish(d) PROVE UNCHANGED Seen(c)
  BY <1>7 DEF Publish, Start
<1>8. ASSUME NEW t \in Caller,
             Marshal(t) \/ SnapshotConns(t) \/ Visit(t) \/ Finish(t) \/ Gone(t) \/ Full(t)
      PROVE  UNCHANGED Seen(c)
  BY <1>8 DEF Marshal, SnapshotConns, Visit, Finish, Gone, Full, Refuse
<1>9. ASSUME NEW t \in Thread, Unregister(t) \/ HangUp(t) PROVE UNCHANGED Seen(c)
  BY <1>9 DEF Unregister, UnregisterInto, HangUp, Writers, Removing
<1>10. QED
  BY <1>1, <1>2, <1>3, <1>4, <1>5, <1>6, <1>7, <1>8, <1>9

\* enqueue is an offer, or invisible when the writer is gone.
LEMMA AdmitOffers ==
    ASSUME IInv, IInv', NEW t \in Caller, Admit(t)
    PROVE  UNCHANGED F!feedVars \/ F!Offer(cur[t])
<1> DEFINE c == cur[t]
<1> USE DEF hostVars, connVars, queueVars, callVars, threadVars, clientVars, history
<1>1. c \in Conn /\ msg[t] \in Message /\ queue[c] \in Seq(Message) /\ ~closed[c]
  BY Threads DEF Admit, IInv, TypeOK, ConnTypes, Targets, Callers
<1>2. queue' = [queue EXCEPT ![c] = Append(queue[c], msg[t])]
  BY <1>1 DEF Admit, Admitted, IInv, Teardown
<1>3. pc' = [pc EXCEPT ![t] = "visit"] /\ UNCHANGED <<closed, held, wire>>
  BY DEF Admit, Admitted
<1>4. \A d \in Conn : WriterUp(d)' = WriterUp(d)
  BY <1>3, Threads DEF WriterUp, IInv, TypeOK, ThreadTypes
<1>5. FeedStatus' = FeedStatus
  BY <1>3, <1>4 DEF FeedStatus
<1>6. CASE ~WriterUp(c)
  <2>1. FeedPending' = FeedPending
    BY <1>2, <1>3, <1>4, <1>6 DEF FeedPending, IInv, TypeOK, ConnTypes
  <2>2. QED
    BY <1>3, <1>5, <2>1 DEF F!feedVars
<1>7. CASE WriterUp(c)
  <2>1. FeedPending[c] \in Seq(Message) /\ FeedPending'[c] = Append(FeedPending[c], msg[t])
    <3>1. queue'[c] = Append(queue[c], msg[t])
      BY <1>1, <1>2 DEF IInv, TypeOK, ConnTypes
    <3>2. CASE held[c] = NoMsg
      BY <1>1, <1>3, <1>4, <1>7, <3>1, <3>2 DEF FeedPending
    <3>3. CASE held[c] # NoMsg
      <4>1. held[c] \in Message
        BY <1>1, <3>3 DEF IInv, TypeOK, ClientTypes
      <4>2. /\ FeedPending[c] = <<held[c]>> \o queue[c]
            /\ FeedPending'[c] = <<held[c]>> \o Append(queue[c], msg[t])
        BY <1>1, <1>3, <1>4, <1>7, <3>1, <3>3 DEF FeedPending
      <4>3. QED
        BY <1>1, <4>1, <4>2, HeadTail
    <3>4. QED
      BY <3>2, <3>3
  <2>2. FeedPending' = [FeedPending EXCEPT ![c] = Append(FeedPending[c], msg[t])]
    <3>1. \A d \in Conn \ {c} : UNCHANGED Seen(d)
      BY <1>2, <1>3, <1>4 DEF Seen, IInv, TypeOK, ConnTypes
    <3>2. QED
      BY <1>1, <2>1, <3>1, OnlyAt
  <2>3. FeedStatus[c] = "up"
    BY <1>1, <1>7 DEF FeedStatus
  <2>4. /\ FeedPending'[c] # <<>>
        /\ FeedPending'[c][Len(FeedPending'[c])] = msg[t]
    BY <1>1, <2>1, AppendProperties
  <2>5. QED
    BY <1>1, <1>3, <1>5, <2>2, <2>3, <2>4 DEF F!Offer
<1>8. QED
  BY <1>6, <1>7

\* The first close of a live queue is visible; later ones are not.
LEMMA CloseCloses ==
    ASSUME IInv, IInv', NEW t \in Thread, CloseQueue(t)
    PROVE  UNCHANGED F!feedVars \/ F!Close(cur[t])
<1> DEFINE c == cur[t]
<1> USE DEF hostVars, connVars, queueVars, callVars, threadVars, clientVars, history
<1>1. c \in Conn
  BY DEF CloseQueue, IInv, Targets, Removing
<1>2. UNCHANGED <<held, queue, wire>> /\ closed' = [closed EXCEPT ![c] = TRUE]
  BY DEF CloseQueue
<1>3. \A d \in Conn : WriterUp(d)' = WriterUp(d)
  BY Threads DEF CloseQueue, WriterUp, IInv, TypeOK, ThreadTypes, Writers, Removing
<1>4. FeedPending' = FeedPending
  BY <1>2, <1>3 DEF FeedPending
<1>5. CASE WriterUp(c) /\ ~closed[c]
  <2>1. FeedStatus[c] = "up" /\ FeedStatus'[c] = "closing"
    BY <1>1, <1>2, <1>3, <1>5 DEF FeedStatus, IInv, TypeOK, ConnTypes
  <2>2. \A d \in Conn \ {c} : UNCHANGED Seen(d)
    BY <1>2, <1>3 DEF Seen, IInv, TypeOK, ConnTypes
  <2>3. QED
    BY <1>1, <1>2, <1>4, <2>1, <2>2, OnlyAt DEF F!Close
<1>6. CASE ~(WriterUp(c) /\ ~closed[c])
  <2>1. FeedStatus' = FeedStatus
    BY <1>1, <1>2, <1>3, <1>6 DEF FeedStatus, IInv, TypeOK, ConnTypes
  <2>2. QED
    BY <1>2, <1>4, <2>1 DEF F!feedVars
<1>7. QED
  BY <1>5, <1>6

\* What the writer takes in hand is still pending.
LEMMA ReceiveStutters ==
    ASSUME IInv, IInv', NEW c \in Conn, Receive(c) PROVE UNCHANGED F!feedVars
<1> USE DEF hostVars, connVars, queueVars, callVars, threadVars, clientVars, history
<1>1. /\ queue[c] \in Seq(Message) /\ queue[c] # <<>> /\ held[c] = NoMsg
      /\ held'[c] = Head(queue[c]) /\ queue'[c] = Tail(queue[c])
      /\ UNCHANGED <<closed, wire>>
      /\ WriterUp(c) /\ WriterUp(c)'
  <2>1. queue[c] \in Seq(Message) /\ queue[c] # <<>>
    BY DEF Receive, Receiving, IInv, TypeOK, ConnTypes
  <2>2. held[c] = NoMsg
    BY DEF Receive, Receiving, IInv, Writers
  <2>3. held'[c] = Head(queue[c]) /\ queue'[c] = Tail(queue[c]) /\ UNCHANGED <<closed, wire>>
    BY DEF Receive, Received, IInv, TypeOK, ConnTypes, ClientTypes
  <2>4. WriterUp(c) /\ WriterUp(c)'
    BY Threads DEF Receive, Receiving, Received, WriterUp, IInv, TypeOK, ThreadTypes
  <2>5. QED
    BY <2>1, <2>2, <2>3, <2>4
<1>2. \A d \in Conn \ {c} : UNCHANGED Seen(d)
  BY Threads DEF Receive, Receiving, Received, Seen, WriterUp, IInv, TypeOK, ConnTypes,
     ThreadTypes, ClientTypes
<1>3. Head(queue[c]) \in Message /\ <<Head(queue[c])>> \o Tail(queue[c]) = queue[c]
  BY <1>1, HeadTail, HeadTailProperties
<1>4. FeedPending'[c] = FeedPending[c]
  BY <1>1, <1>3, NoMsgIsNone DEF FeedPending
<1>5. FeedStatus'[c] = FeedStatus[c]
  BY <1>1 DEF FeedStatus
<1>6. FeedPending' = FeedPending /\ FeedStatus' = FeedStatus
  <2>1. [FeedStatus EXCEPT ![c] = FeedStatus[c]] = FeedStatus
    BY DEF FeedStatus
  <2>2. [FeedPending EXCEPT ![c] = FeedPending[c]] = FeedPending
    BY DEF FeedPending
  <2>3. QED
    BY <1>2, <1>4, <1>5, <2>1, <2>2, OnlyAt
<1>7. QED
  BY <1>1, <1>6 DEF F!feedVars

\* A write delivers the oldest pending message.
LEMMA WriteDelivers ==
    ASSUME IInv, IInv', NEW c \in Conn, Write(c) PROVE F!Deliver(c)
<1> USE DEF hostVars, connVars, queueVars, callVars, threadVars, clientVars, history
<1>1. /\ queue[c] \in Seq(Message) /\ held[c] \in Message
      /\ held'[c] = NoMsg /\ UNCHANGED <<queue, closed>>
      /\ wire' = [wire EXCEPT ![c] = Append(@, held[c])]
      /\ WriterUp(c) /\ WriterUp(c)'
  BY Threads DEF Write, WriterUp, IInv, TypeOK, ConnTypes, ThreadTypes, ClientTypes,
     Writers
<1>2. \A d \in Conn \ {c} : UNCHANGED Seen(d)
  BY Threads DEF Write, Seen, WriterUp, IInv, TypeOK, ConnTypes, ThreadTypes,
     ClientTypes
<1>3. FeedPending[c] = <<held[c]>> \o queue[c] /\ FeedPending'[c] = queue[c]
  BY <1>1, NoMsgIsNone DEF FeedPending
<1>4. /\ FeedPending[c] # <<>> /\ Head(FeedPending[c]) = held[c]
      /\ Tail(FeedPending[c]) = queue[c]
  BY <1>1, <1>3, HeadTail
<1>5. FeedStatus'[c] = FeedStatus[c] /\ FeedStatus[c] # "cut"
  BY <1>1 DEF FeedStatus
<1>6. FeedStatus' = FeedStatus
  BY <1>2, <1>5, OnlyAt DEF FeedStatus
<1>7. FeedPending' = [FeedPending EXCEPT ![c] = Tail(FeedPending[c])]
  BY <1>2, <1>3, <1>4, OnlyAt
<1>8. QED
  BY <1>1, <1>4, <1>5, <1>6, <1>7 DEF F!Deliver

\* A writer that ends cuts the stream.
LEMMA WriterEndCuts ==
    ASSUME IInv, IInv', NEW c \in Conn, Drained(c) \/ WriteFails(c) PROVE F!Cut(c)
<1> USE DEF hostVars, connVars, queueVars, callVars, threadVars, clientVars, history
<1>1. WriterUp(c) /\ ~WriterUp(c)' /\ UNCHANGED wire
  BY Threads DEF Drained, WriteFails, WriterUp, IInv, TypeOK, ThreadTypes
<1>2. \A d \in Conn \ {c} : UNCHANGED Seen(d)
  BY Threads DEF Drained, WriteFails, Seen, WriterUp, IInv, TypeOK, ThreadTypes,
     ClientTypes
<1>3. /\ FeedStatus[c] # "cut" /\ FeedStatus'[c] = "cut"
      /\ FeedPending'[c] = <<>>
  BY <1>1 DEF FeedStatus, FeedPending
<1>4. QED
  BY <1>1, <1>2, <1>3, OnlyAt DEF F!Cut

\* Every step of the hub is a step of Feed or a stutter.
LEMMA FeedStep == IInv /\ IInv' /\ [Next]_vars => [F!Next]_(F!feedVars)
<1> SUFFICES ASSUME IInv, IInv', [Next]_vars, ~UNCHANGED F!feedVars PROVE F!Next
  OBVIOUS
<1>1. CASE \E t \in Caller : Admit(t)
  <2>1. PICK t \in Caller : Admit(t)
    BY <1>1
  <2>2. cur[t] \in Conn
    BY <2>1, Threads DEF Admit, IInv, Targets
  <2>3. QED
    BY <2>1, <2>2, AdmitOffers DEF F!Next
<1>2. CASE \E t \in Thread : CloseQueue(t)
  <2>1. PICK t \in Thread : CloseQueue(t)
    BY <1>2
  <2>2. cur[t] \in Conn
    BY <2>1 DEF CloseQueue, IInv, Targets, Removing
  <2>3. QED
    BY <2>1, <2>2, CloseCloses DEF F!Next
<1>3. CASE \E c \in Conn : Receive(c) \/ Write(c) \/ Drained(c) \/ WriteFails(c)
  BY <1>3, ReceiveStutters, WriteDelivers, WriterEndCuts DEF F!Next
<1>4. CASE \/ Cancel \/ StopListening \/ UNCHANGED vars
           \/ \E d \in Conn : Accept(d) \/ Watch(d) \/ Handle(d) \/ ReadFails(d)
                               \/ Account(d)
           \/ \E d \in Publisher : Publish(d)
           \/ \E t \in Caller : Marshal(t) \/ SnapshotConns(t) \/ Visit(t) \/ Finish(t)
                                \/ Gone(t) \/ Full(t)
           \/ \E t \in Thread : Unregister(t) \/ HangUp(t)
  <2>1. \A c \in Conn : UNCHANGED Seen(c)
    BY <1>4, OthersAreUnseen
  <2>2. QED
    BY <2>1, Unseen
<1>5. QED
  BY <1>1, <1>2, <1>3, <1>4 DEF Next, Send, RemoveConn, WriteLoop

\* Every client's stream implements Feed: what its socket takes is a prefix of
\* what was admitted for it, in order, without loss, repetition or late offers.
THEOREM ImplementsFeed == Spec => FeedRefined
<1>1. Init => F!Init
  BY FeedInit
<1>2. IInv /\ IInv' /\ [Next]_vars => [F!Next]_(F!feedVars)
  BY FeedStep
<1>3. QED
  BY <1>1, <1>2, Invariance, PTL DEF Spec, FeedRefined, F!Spec

-----------------------------------------------------------------------------
(* Induction, and the sums of sizes *)

\* A set of numbers that is not empty has a least one.
LEMMA Least ==
    ASSUME NEW T \in SUBSET Nat, T # {}
    PROVE  \E m \in T : \A k \in T : m <= k
<1>1. PICK R : R = {ss \in Nat \X Nat : ss[1] < ss[2]} /\ IsWellFoundedOn(R, Nat)
  <2>1. OpToRel(<, Nat) = {ss \in Nat \X Nat : ss[1] < ss[2]}
    BY DEF OpToRel
  <2>2. QED
    BY <2>1, NatLessThanWellFounded
<1>2. PICK m \in T : \A k \in T : <<k, m>> \notin R
  BY <1>1, WFMin
<1>3. ASSUME NEW k \in T PROVE m <= k
  <2>1. k \in Nat /\ m \in Nat
    OBVIOUS
  <2>2. ~(k < m)
    <3>1. SUFFICES ASSUME k < m PROVE FALSE
      OBVIOUS
    <3>2. <<k, m>> \in Nat \X Nat /\ <<k, m>>[1] < <<k, m>>[2]
      BY <2>1, <3>1
    <3>3. <<k, m>> \in R
      BY <1>1, <3>2
    <3>4. QED
      BY <1>2, <3>3
  <2>3. QED
    BY <2>1, <2>2
<1>4. QED
  BY <1>3

\* What is true of a number if it is of all smaller ones is true of all: induction, of a
\* set that stands for the predicate.
LEMMA Induction ==
    ASSUME NEW n \in Nat, NEW G,
           \A k \in 0..n : (\A j \in 0..(k - 1) : j \in G) => k \in G
    PROVE  \A k \in 0..n : k \in G
<1> DEFINE T == {k \in 0..n : k \notin G}
<1>1. SUFFICES ASSUME T # {} PROVE FALSE
  OBVIOUS
<1>2. T \in SUBSET Nat
  OBVIOUS
<1>3. PICK m \in T : \A k \in T : m <= k
  BY <1>1, <1>2, Least
<1>4. m \in 0..n /\ m \notin G
  OBVIOUS
<1>5. ASSUME NEW j \in 0..(m - 1) PROVE j \in G
  <2>1. j \in 0..n /\ ~(m <= j)
    BY <1>4
  <2>2. QED
    BY <1>3, <2>1
<1>6. QED
  BY <1>4, <1>5

\* f holds the partial sums of the sizes of s, up to the n-th.
Size(m) == SizeOf[m.kind]
Sums(f, s, n) == f = [i \in 0..n |-> IF i = 0 THEN 0 ELSE f[i - 1] + SizeOf[s[i].kind]]

\* Every message has a size, and none is empty.
LEMMA SizesAre == \A m \in Message : Size(m) \in Nat \ {0}
BY HubAssumption DEF HubAssumption, Message, Size

\* There are such sums, ...
LEMMA SumsExist ==
    ASSUME NEW s, NEW n \in Nat PROVE \E f : Sums(f, s, n)
<1> DEFINE G == {k \in 0..n : \E f : Sums(f, s, k)}
<1>1. ASSUME NEW k \in 0..n, \A j \in 0..(k - 1) : j \in G PROVE \E f : Sums(f, s, k)
  <2>1. CASE k = 0
    <3> DEFINE f == [i \in 0..0 |-> 0]
    <3>1. f = [i \in 0..0 |-> IF i = 0 THEN 0 ELSE f[i - 1] + SizeOf[s[i].kind]]
      <4>1. \A i \in 0..0 : i = 0
        OBVIOUS
      <4>2. QED
        BY <4>1
    <3>2. QED
      BY <2>1, <3>1 DEF Sums
  <2>2. CASE k > 0
    <3>1. k - 1 \in 0..(k - 1)
      BY <2>2
    <3>2. PICK g : Sums(g, s, k - 1)
      BY <1>1, <3>1
    <3> DEFINE f == [i \in 0..k |-> IF i = k THEN g[k - 1] + SizeOf[s[k].kind] ELSE g[i]]
    <3>3. ASSUME NEW i \in 0..k
          PROVE  f[i] = IF i = 0 THEN 0 ELSE f[i - 1] + SizeOf[s[i].kind]
      <4>1. CASE i = k
        BY <2>2, <4>1
      <4>2. CASE i # k
        <5>1. i \in 0..(k - 1)
          BY <4>2
        <5>2. g[i] = IF i = 0 THEN 0 ELSE g[i - 1] + SizeOf[s[i].kind]
          BY <3>2, <5>1 DEF Sums
        <5>3. i # 0 => i - 1 \in 0..k /\ i - 1 # k
          BY <5>1
        <5>4. QED
          BY <4>2, <5>2, <5>3
      <4>3. QED
        BY <4>1, <4>2
    <3>4. Sums(f, s, k)
      <4>1. f = [i \in 0..k |-> f[i]]
        OBVIOUS
      <4> HIDE DEF f
      <4>2. QED
        BY <3>3, <4>1 DEF Sums
    <3>5. QED
      BY <3>4
  <2>3. QED
    BY <2>1, <2>2
<1>2. \A k \in 0..n : (\A j \in 0..(k - 1) : j \in G) => k \in G
  BY <1>1
<1> HIDE DEF G
<1>3. n \in G
  BY <1>2, Induction
<1>4. QED
  BY <1>3 DEF G

\* ... the byte count is the last of them, ...
LEMMA BytesAre ==
    ASSUME NEW s \in Seq(Message) PROVE \E f : Sums(f, s, Len(s)) /\ Bytes(s) = f[Len(s)]
<1> DEFINE f == CHOOSE g : g = [i \in 0..Len(s) |-> IF i = 0 THEN 0 ELSE g[i - 1] + SizeOf[s[i].kind]]
<1>1. \E g : Sums(g, s, Len(s))
  BY SumsExist
<1>2. f = [i \in 0..Len(s) |-> IF i = 0 THEN 0 ELSE f[i - 1] + SizeOf[s[i].kind]]
  BY <1>1 DEF Sums
<1>3. Bytes(s) = f[Len(s)]
  BY DEF Bytes
<1>4. QED
  BY <1>2, <1>3 DEF Sums

\* ... and each of them is at least as many as the messages it is of.
LEMMA SumsGrow ==
    ASSUME NEW s \in Seq(Message), NEW f, Sums(f, s, Len(s))
    PROVE  \A i \in 0..Len(s) : f[i] \in Nat /\ f[i] >= i
<1> DEFINE G == {i \in 0..Len(s) : f[i] \in Nat /\ f[i] >= i}
<1>1. ASSUME NEW k \in 0..Len(s), \A j \in 0..(k - 1) : j \in G PROVE f[k] \in Nat /\ f[k] >= k
  <2>1. f[k] = IF k = 0 THEN 0 ELSE f[k - 1] + SizeOf[s[k].kind]
    BY DEF Sums
  <2>2. CASE k = 0
    BY <2>1, <2>2
  <2>3. CASE k # 0
    <3>1. k - 1 \in 0..(k - 1) /\ k \in 1..Len(s)
      BY <2>3
    <3>2. f[k - 1] \in Nat /\ f[k - 1] >= k - 1
      BY <1>1, <3>1
    <3>3. SizeOf[s[k].kind] \in Nat \ {0}
      <4>1. s[k] \in Message
        BY <3>1
      <4>2. QED
        BY <4>1, SizesAre DEF Size
    <3>4. QED
      BY <2>1, <2>3, <3>2, <3>3
  <2>4. QED
    BY <2>2, <2>3
<1>2. \A k \in 0..Len(s) : (\A j \in 0..(k - 1) : j \in G) => k \in G
  BY <1>1
<1>3. Len(s) \in Nat
  OBVIOUS
<1> HIDE DEF G
<1>4. \A k \in 0..Len(s) : k \in G
  BY <1>2, <1>3, Induction
<1>5. QED
  BY <1>4 DEF G

\* r has the messages of s after its first d.
Follows(r, d, s) == d + Len(s) <= Len(r) /\ \A i \in 1..Len(s) : r[d + i] = s[i]

\* Then the sums of r grow from there as those of s do.
LEMMA SumsShift ==
    ASSUME NEW r \in Seq(Message), NEW s \in Seq(Message), NEW f, NEW g, NEW d \in Nat,
           Sums(f, r, Len(r)), Sums(g, s, Len(s)), Follows(r, d, s)
    PROVE  f[d + Len(s)] = f[d] + g[Len(s)]
<1> DEFINE n == Len(s)
<1>0. n \in Nat /\ Len(r) \in Nat /\ d + n <= Len(r) /\ \A i \in 1..n : r[d + i] = s[i]
  BY DEF Follows
<1> DEFINE G == {i \in 0..n : f[d + i] = f[d] + g[i]}
<1>1. ASSUME NEW k \in 0..n, \A j \in 0..(k - 1) : j \in G PROVE f[d + k] = f[d] + g[k]
  <2>1. /\ d + k \in 0..Len(r) /\ k \in 0..Len(s) /\ d \in 0..Len(r)
        /\ f[d] \in Nat
    <3>1. /\ d + k \in 0..Len(r) /\ k \in 0..Len(s) /\ d \in 0..Len(r)
      BY <1>0
    <3>2. QED
      BY <3>1, SumsGrow
  <2>2. CASE k = 0
    <3>1. g[0] = 0
      BY <2>1, <2>2 DEF Sums
    <3>2. d + k = d
      BY <2>2
    <3>3. QED
      BY <2>1, <2>2, <3>1, <3>2
  <2>3. CASE k # 0
    <3>1. /\ k - 1 \in 0..(k - 1) /\ k \in 1..n /\ (d + k) - 1 = d + (k - 1) /\ d + k # 0
          /\ d + (k - 1) \in 0..Len(r) /\ k - 1 \in 0..Len(s) /\ d + k \in 1..Len(r)
      BY <1>0, <2>1, <2>3
    <3>2. f[d + (k - 1)] = f[d] + g[k - 1]
      BY <1>1, <3>1
    <3>3. f[d + k] = f[d + (k - 1)] + SizeOf[r[d + k].kind]
      BY <2>1, <3>1 DEF Sums
    <3>4. g[k] = g[k - 1] + SizeOf[s[k].kind]
      BY <2>1, <2>3 DEF Sums
    <3>5. r[d + k] = s[k]
      BY <1>0, <3>1
    <3>6. SizeOf[s[k].kind] \in Nat /\ g[k - 1] \in Nat
      <4>1. s[k] \in Message
        BY <3>1
      <4>2. QED
        BY <3>1, <4>1, SizesAre, SumsGrow DEF Size
    <3>7. QED
      BY <2>1, <3>2, <3>3, <3>4, <3>5, <3>6
  <2>4. QED
    BY <2>2, <2>3
<1>2. \A k \in 0..n : (\A j \in 0..(k - 1) : j \in G) => k \in G
  BY <1>1
<1> HIDE DEF G
<1>3. \A k \in 0..n : k \in G
  BY <1>0, <1>2, Induction
<1>4. n \in 0..n
  BY <1>0
<1>5. QED
  BY <1>3, <1>4 DEF G

\* So bytes are added with the messages, at either end, and no message is without any.
LEMMA BytesAdd ==
    ASSUME NEW s \in Seq(Message), NEW m \in Message
    PROVE  /\ Bytes(s) \in Nat /\ Bytes(s) >= Len(s)
           /\ Bytes(<<>>) = 0
           /\ Bytes(Append(s, m)) = Bytes(s) + Size(m)
           /\ Bytes(<<m>> \o s) = Size(m) + Bytes(s)
<1>1. PICK g : Sums(g, s, Len(s)) /\ Bytes(s) = g[Len(s)]
  BY BytesAre
<1>2. Len(s) \in Nat /\ Len(s) \in 0..Len(s) /\ Size(m) \in Nat /\ g[0] = 0
  BY <1>1, SizesAre DEF Sums
<1>3. g[Len(s)] \in Nat /\ g[Len(s)] >= Len(s)
  BY <1>1, <1>2, SumsGrow
<1>4. Bytes(<<>>) = 0
  <2>1. <<>> \in Seq(Message) /\ Len(<<>>) = 0
    OBVIOUS
  <2>2. PICK f : Sums(f, <<>>, 0) /\ Bytes(<<>>) = f[0]
    BY <2>1, BytesAre
  <2>3. QED
    BY <2>2 DEF Sums
<1>5. Bytes(Append(s, m)) = Bytes(s) + Size(m)
  <2> DEFINE r == Append(s, m)
             n == Len(s)
  <2>1. /\ r \in Seq(Message) /\ Len(r) = n + 1 /\ r[n + 1] = m
        /\ \A i \in 1..n : r[i] = s[i]
    BY <1>2
  <2> HIDE DEF r
  <2>2. PICK f : Sums(f, r, Len(r)) /\ Bytes(r) = f[Len(r)]
    BY <2>1, BytesAre
  <2>3. f[0] = 0
    BY <1>2, <2>1, <2>2 DEF Sums
  <2>4. f[n] = f[0] + g[n]
    <3>1. PICK d \in Nat : d = 0
      OBVIOUS
    <3>2. Follows(r, d, s)
      BY <1>2, <2>1, <3>1 DEF Follows
    <3>3. f[d + n] = f[d] + g[n]
      BY <1>1, <2>1, <2>2, <3>2, SumsShift
    <3>4. d + n = n
      BY <1>2, <3>1
    <3>5. QED
      BY <3>1, <3>3, <3>4
  <2>5. f[n + 1] = f[n] + SizeOf[r[n + 1].kind]
    <3>1. n + 1 \in 0..Len(r) /\ n + 1 # 0 /\ (n + 1) - 1 = n
      BY <1>2, <2>1
    <3>2. QED
      BY <2>2, <3>1 DEF Sums
  <2>6. f[n] = g[n]
    BY <1>2, <1>3, <2>3, <2>4
  <2>7. QED
    BY <1>1, <2>1, <2>2, <2>5, <2>6 DEF r, Size
<1>6. Bytes(<<m>> \o s) = Size(m) + Bytes(s)
  <2> DEFINE r == <<m>> \o s
             n == Len(s)
  <2>1. /\ r \in Seq(Message) /\ Len(r) = 1 + n /\ r[1] = m
        /\ \A i \in 1..n : r[1 + i] = s[i]
    <3>1. <<m>> \in Seq(Message) /\ Len(<<m>>) = 1 /\ <<m>>[1] = m
      OBVIOUS
    <3>2. /\ r \in Seq(Message) /\ Len(r) = 1 + n
          /\ \A i \in 1..(1 + n) : r[i] = IF i <= 1 THEN <<m>>[i] ELSE s[i - 1]
      BY <3>1, ConcatProperties
    <3> HIDE DEF r
    <3>3. ASSUME NEW i \in 1..n PROVE r[1 + i] = s[i]
      <4>1. 1 + i \in 1..(1 + n) /\ ~(1 + i <= 1) /\ (1 + i) - 1 = i
        BY <1>2
      <4>2. QED
        BY <3>2, <4>1
    <3>4. 1 \in 1..(1 + n)
      BY <1>2
    <3>5. r[1] = m
      BY <3>1, <3>2, <3>4
    <3>6. QED
      BY <3>2, <3>3, <3>5
  <2> HIDE DEF r
  <2>2. PICK f : Sums(f, r, Len(r)) /\ Bytes(r) = f[Len(r)]
    BY <2>1, BytesAre
  <2>3. f[1 + n] = f[1] + g[n]
    <3>1. PICK d \in Nat : d = 1
      OBVIOUS
    <3>2. Follows(r, d, s)
      BY <1>2, <2>1, <3>1 DEF Follows
    <3>3. f[d + n] = f[d] + g[n]
      BY <1>1, <2>1, <2>2, <3>2, SumsShift
    <3>4. QED
      BY <3>1, <3>3
  <2>4. f[1] = Size(m)
    <3>1. 0 \in 0..Len(r) /\ 1 \in 0..Len(r)
      BY <1>2, <2>1
    <3>2. f[0] = 0 /\ f[1] = f[0] + SizeOf[r[1].kind]
      BY <2>2, <3>1 DEF Sums
    <3>3. QED
      BY <1>2, <2>1, <3>2 DEF Size
  <2>5. QED
    BY <1>1, <2>1, <2>2, <2>3, <2>4 DEF r
<1>7. QED
  BY <1>1, <1>3, <1>4, <1>5, <1>6

-----------------------------------------------------------------------------
(* The budget *)

\* What a message for another connection, or no message at all, leaves alone.
Charge(c) == <<queue[c], qbytes[c], Unaccounted(c)>>

\* What is unaccounted is messages.
LEMMA UnaccountedIs ==
    ASSUME IInv, NEW c \in Conn
    PROVE  Unaccounted(c) \in Seq(Message) /\ queue[c] \in Seq(Message) /\ qbytes[c] \in Int
<1>1. queue[c] \in Seq(Message) /\ qbytes[c] \in Int
  BY DEF IInv, TypeOK, ConnTypes
<1>2. pc[Writer(c)] = "account" => held[c] \in Message
  BY DEF IInv, Writers
<1>3. pc[Writer(c)] = "account" => <<held[c]>> \o queue[c] \in Seq(Message)
  BY <1>1, <1>2
<1>4. QED
  BY <1>1, <1>3 DEF Unaccounted

\* No step but enqueue, receive and account charges or discharges a connection.
LEMMA OthersChargeNothing ==
    ASSUME IInv, NEW c \in Conn,
           \/ Cancel \/ StopListening \/ UNCHANGED vars
           \/ \E d \in Conn : Accept(d) \/ Watch(d) \/ Handle(d) \/ ReadFails(d)
                               \/ Drained(d) \/ Write(d) \/ WriteFails(d)
           \/ \E d \in Publisher : Publish(d)
           \/ \E t \in Caller : Marshal(t) \/ SnapshotConns(t) \/ Visit(t) \/ Finish(t)
                                \/ Gone(t) \/ Full(t)
           \/ \E t \in Thread : RemoveConn(t)
    PROVE  UNCHANGED Charge(c)
<1> DEFINE Same == /\ queue' = queue /\ qbytes' = qbytes
                   /\ pc'[Writer(c)] = "account" <=> pc[Writer(c)] = "account"
                   /\ pc[Writer(c)] = "account" => held'[c] = held[c]
<1> USE Threads DEF hostVars, connVars, queueVars, callVars, threadVars, clientVars, history,
        IInv, TypeOK, ThreadTypes
<1>1. CASE Cancel \/ StopListening \/ UNCHANGED vars
  <2>1. Same
    BY <1>1 DEF Cancel, StopListening, vars
  <2>2. QED
    BY <2>1 DEF Charge, Unaccounted
<1>2. ASSUME NEW d \in Conn, Accept(d) PROVE Same
  BY <1>2 DEF Accept, Accepted
<1>3. ASSUME NEW d \in Conn, Watch(d) PROVE Same
  BY <1>3 DEF Watch, WatcherCancels, WatcherDone, WatcherEnds
<1>4. ASSUME NEW d \in Conn, Handle(d) PROVE Same
  BY <1>4 DEF Handle, GetProperties, EnableBLOB, Command, Reject, Ignore, Start, Reading
<1>5. ASSUME NEW d \in Conn, ReadFails(d) PROVE Same
  BY <1>5 DEF ReadFails
<1>6. ASSUME NEW d \in Conn, Drained(d) \/ Write(d) \/ WriteFails(d) PROVE Same
  BY <1>6 DEF Drained, Write, WriteFails, ClientTypes
<1>7. ASSUME NEW d \in Publisher, Publish(d) PROVE Same
  BY <1>7 DEF Publish, Start
<1>8. ASSUME NEW t \in Caller,
             Marshal(t) \/ SnapshotConns(t) \/ Visit(t) \/ Finish(t) \/ Gone(t) \/ Full(t)
      PROVE  Same
  BY <1>8 DEF Marshal, SnapshotConns, Visit, Finish, Gone, Full, Refuse
<1>9. ASSUME NEW t \in Thread, RemoveConn(t) PROVE Same
  BY <1>9 DEF RemoveConn, Unregister, UnregisterInto, CloseQueue, HangUp, Writers, Removing
<1>10. ASSUME Same PROVE UNCHANGED Charge(c)
  BY <1>10 DEF Charge, Unaccounted
<1>11. QED
  BY <1>1, <1>2, <1>3, <1>4, <1>5, <1>6, <1>7, <1>8, <1>9, <1>10

\* The budget of one connection.
Within(c) ==
    /\ qbytes[c] = Bytes(Unaccounted(c))
    /\ Len(queue[c]) <= QueueMsgs
    /\ Bytes(Unaccounted(c)) > QueueBytes => Len(Unaccounted(c)) = 1

\* It goes with what it charges.
LEMMA WithinStays == ASSUME NEW c, Within(c), UNCHANGED Charge(c) PROVE Within(c)'
BY DEF Within, Charge

\* enqueue charges what it admits, and admits it into the budget or into nothing.
LEMMA AdmitWithin ==
    ASSUME IInv, NEW t \in Caller, Admit(t), NEW c \in Conn, c = cur[t], Within(c)
    PROVE  Within(c)' /\ \A d \in Conn \ {c} : UNCHANGED Charge(d)
<1>m. PICK m \in Message : m = msg[t]
  BY Threads DEF Admit, IInv, Callers
<1>u. PICK u : u = Unaccounted(c)
  OBVIOUS
<1> USE DEF hostVars, connVars, queueVars, callVars, threadVars, clientVars, history
<1>1. ~closed[c] /\ t # Writer(c)
  BY Threads DEF Admit, IInv, Targets, Callers
<1>2. u \in Seq(Message) /\ queue[c] \in Seq(Message) /\ qbytes[c] \in Int
  BY <1>u, UnaccountedIs
<1>3. /\ queue' = [queue EXCEPT ![c] = Append(queue[c], m)]
      /\ qbytes' = [qbytes EXCEPT ![c] = qbytes[c] + Size(m)]
      /\ pc' = [pc EXCEPT ![t] = "visit"] /\ held' = held
      /\ Len(queue[c]) < QueueMsgs
      /\ qbytes[c] > 0 => qbytes[c] + Size(m) <= QueueBytes
  <2>1. Admitted(t) /\ chan[c] = "open"
    BY <1>1 DEF Admit, IInv, Teardown
  <2>2. Size(m) \in Nat /\ QueueBytes \in Nat
    BY <1>1, SizesAre, HubAssumption DEF HubAssumption
  <2>3. qbytes[c] > 0 => qbytes[c] + Size(m) <= QueueBytes
    BY <1>m, <1>2, <2>1, <2>2 DEF Admitted, OverBudget, Size
  <2>4. QED
    BY <1>m, <2>1, <2>3 DEF Admitted, Size
<1>4. queue \in [Conn -> Seq(Message)] /\ qbytes \in [Conn -> Int] /\ DOMAIN pc = Thread
  BY DEF IInv, TypeOK, ConnTypes, ThreadTypes
<1>5. queue'[c] = Append(queue[c], m) /\ qbytes'[c] = qbytes[c] + Size(m)
  BY <1>1, <1>3, <1>4
<1>6. \A d \in Conn : pc'[Writer(d)] = pc[Writer(d)]
  BY <1>3, <1>4, Threads
<1>7. Unaccounted(c)' = Append(u, m)
  <2>1. CASE pc[Writer(c)] = "account"
    <3>1. held[c] \in Message
      BY <1>1, <2>1 DEF IInv, Writers
    <3>2. <<held[c]>> \o Append(queue[c], m) = Append(<<held[c]>> \o queue[c], m)
      BY <1>1, <1>2, <3>1, HeadTail
    <3>3. QED
      BY <1>u, <1>3, <1>5, <1>6, <2>1, <3>2 DEF Unaccounted
  <2>2. CASE pc[Writer(c)] # "account"
    BY <1>u, <1>5, <1>6, <2>2 DEF Unaccounted
  <2>3. QED
    BY <2>1, <2>2
<1>8. /\ Bytes(u) \in Nat /\ Bytes(u) >= Len(u) /\ Bytes(Append(u, m)) = Bytes(u) + Size(m)
      /\ Len(Append(u, m)) = Len(u) + 1 /\ Len(u) \in Nat
  <2>1. Bytes(u) \in Nat /\ Bytes(u) >= Len(u) /\ Bytes(Append(u, m)) = Bytes(u) + Size(m)
    BY <1>2, BytesAdd
  <2>2. Len(Append(u, m)) = Len(u) + 1 /\ Len(u) \in Nat
    BY <1>2
  <2>3. QED
    BY <2>1, <2>2
<1>9. Len(queue'[c]) <= QueueMsgs
  <2>1. Len(queue[c]) \in Nat /\ Len(queue'[c]) = Len(queue[c]) + 1 /\ QueueMsgs \in Nat
    BY <1>1, <1>2, <1>5, HubAssumption DEF HubAssumption
  <2>2. QED
    BY <1>3, <2>1
<1>10. Bytes(Append(u, m)) > QueueBytes => Len(Append(u, m)) = 1
  <2>1. qbytes[c] = Bytes(u) /\ Size(m) \in Nat /\ QueueBytes \in Nat
    BY <1>u, SizesAre, HubAssumption DEF Within, HubAssumption
  <2>2. QED
    BY <1>3, <1>8, <2>1
<1>11. qbytes'[c] = Bytes(Append(u, m))
  BY <1>u, <1>5, <1>8 DEF Within
<1>12. Within(c)'
  BY <1>7, <1>9, <1>10, <1>11 DEF Within
<1>13. \A d \in Conn \ {c} : UNCHANGED Charge(d)
  BY <1>3, <1>4, <1>6 DEF Charge, Unaccounted
<1>14. QED
  BY <1>12, <1>13

\* What the writer takes in hand it still has to account for.
LEMMA ReceiveWithin ==
    ASSUME IInv, NEW c \in Conn, Receive(c), Within(c)
    PROVE  Within(c)' /\ \A d \in Conn \ {c} : UNCHANGED Charge(d)
<1> USE DEF hostVars, connVars, queueVars, callVars, threadVars, clientVars, history
<1>1. queue[c] \in Seq(Message) /\ queue[c] # <<>> /\ pc[Writer(c)] = "recv"
  BY DEF Receive, Receiving, IInv, TypeOK, ConnTypes
<1>2. /\ held' = [held EXCEPT ![c] = Head(queue[c])] /\ queue' = [queue EXCEPT ![c] = Tail(queue[c])]
      /\ pc' = [pc EXCEPT ![Writer(c)] = "account"] /\ qbytes' = qbytes
  BY DEF Receive, Received
<1>3. queue \in [Conn -> Seq(Message)] /\ DOMAIN held = Conn /\ DOMAIN pc = Thread
  BY DEF IInv, TypeOK, ConnTypes, ThreadTypes, ClientTypes
<1>4. Unaccounted(c)' = Unaccounted(c)
  <2>1. held'[c] = Head(queue[c]) /\ queue'[c] = Tail(queue[c]) /\ pc'[Writer(c)] = "account"
    BY <1>2, <1>3, Threads
  <2>2. Head(queue[c]) \in Message /\ <<Head(queue[c])>> \o Tail(queue[c]) = queue[c]
    BY <1>1, HeadTail, HeadTailProperties
  <2>3. QED
    BY <1>1, <2>1, <2>2 DEF Unaccounted
<1>5. Len(queue'[c]) <= QueueMsgs
  <2>1. Len(queue'[c]) = Len(queue[c]) - 1 /\ Len(queue[c]) \in Nat
    BY <1>1, <1>2, <1>3, HeadTailProperties
  <2>2. QED
    BY <2>1, HubAssumption DEF Within, HubAssumption
<1>6. Within(c)'
  BY <1>2, <1>4, <1>5 DEF Within
<1>7. \A d \in Conn \ {c} : UNCHANGED Charge(d)
  BY <1>2, <1>3, Threads DEF Charge, Unaccounted
<1>8. QED
  BY <1>6, <1>7

\* The writer gives back what it received was charged.
LEMMA AccountWithin ==
    ASSUME IInv, NEW c \in Conn, Account(c), Within(c)
    PROVE  Within(c)' /\ \A d \in Conn \ {c} : UNCHANGED Charge(d)
<1> USE DEF hostVars, connVars, queueVars, callVars, threadVars, clientVars, history
<1>1. queue[c] \in Seq(Message) /\ pc[Writer(c)] = "account" /\ held[c] \in Message
  BY DEF Account, GiveBack, IInv, TypeOK, ConnTypes, Writers
<1>2. /\ qbytes' = [qbytes EXCEPT ![c] = qbytes[c] - Size(held[c])]
      /\ pc' = [pc EXCEPT ![Writer(c)] = "write"] /\ queue' = queue /\ held' = held
  BY DEF Account, GiveBack, Size
<1>3. qbytes \in [Conn -> Int] /\ DOMAIN pc = Thread
  BY DEF IInv, TypeOK, ConnTypes, ThreadTypes
<1>4. Unaccounted(c) = <<held[c]>> \o queue[c] /\ Unaccounted(c)' = queue[c]
  BY <1>1, <1>2, <1>3, Threads DEF Unaccounted
<1>5. /\ Bytes(<<held[c]>> \o queue[c]) = Size(held[c]) + Bytes(queue[c])
      /\ Bytes(queue[c]) \in Nat /\ Bytes(<<>>) = 0 /\ Size(held[c]) \in Nat
  BY <1>1, BytesAdd, SizesAre
<1>6. qbytes'[c] = Bytes(queue[c])
  <2>1. qbytes'[c] = qbytes[c] - Size(held[c]) /\ qbytes[c] = Size(held[c]) + Bytes(queue[c])
    BY <1>2, <1>3, <1>4, <1>5 DEF Within
  <2>2. QED
    BY <1>5, <2>1
<1>7. ~(Bytes(queue[c]) > QueueBytes)
  <2>1. SUFFICES ASSUME Bytes(queue[c]) > QueueBytes PROVE FALSE
    OBVIOUS
  <2>2. QueueBytes \in Nat
    BY HubAssumption DEF HubAssumption
  <2>3. Bytes(Unaccounted(c)) > QueueBytes
    BY <1>4, <1>5, <2>1, <2>2
  <2>4. Len(<<held[c]>> \o queue[c]) = 1
    BY <1>4, <2>3 DEF Within
  <2>5. queue[c] = <<>>
    BY <1>1, <2>4
  <2>6. QED
    BY <1>5, <2>1, <2>2, <2>5
<1>8. Within(c)'
  BY <1>2, <1>4, <1>6, <1>7 DEF Within
<1>9. \A d \in Conn \ {c} : UNCHANGED Charge(d)
  BY <1>2, <1>3, Threads DEF Charge, Unaccounted
<1>10. QED
  BY <1>8, <1>9

\* However senders and the writer interleave, c.qbytes counts what the queue and the
\* writer's hand hold, and a stalled client pins no more than the budget or one message
\* (enqueue and writeLoop, server.go).
THEOREM BudgetKept == Spec => []Budget
<1>1. Budget <=> \A c \in Conn : Within(c)
  BY DEF Budget, Within
<1>2. Init => Budget
  <2> SUFFICES ASSUME Init, NEW c \in Conn PROVE Within(c)
    BY <1>1
  <2>1. queue[c] = <<>> /\ qbytes[c] = 0 /\ pc[Writer(c)] # "account"
    BY Threads DEF Init, Writer, Thread
  <2>2. Bytes(<<>>) = 0
    <3>1. PICK f : Sums(f, <<>>, 0) /\ Bytes(<<>>) = f[0]
      <4>1. <<>> \in Seq(Message) /\ Len(<<>>) = 0
        OBVIOUS
      <4>2. QED
        BY <4>1, BytesAre
    <3>2. QED
      BY <3>1 DEF Sums
  <2>3. QED
    BY <2>1, <2>2, HubAssumption DEF Within, Unaccounted, HubAssumption
<1>3. ASSUME IInv, Budget, [Next]_vars PROVE Budget'
  <2> SUFFICES ASSUME NEW c \in Conn PROVE Within(c)'
    BY DEF Budget, Within
  <2>1. \A d \in Conn : Within(d)
    BY <1>1, <1>3
  <2>2. CASE \E t \in Caller : Admit(t)
    <3>1. PICK t \in Caller : Admit(t)
      BY <2>2
    <3>2. PICK d \in Conn : d = cur[t]
      BY <1>3, <3>1, Threads DEF Admit, IInv, Targets
    <3>3. Within(d)' /\ \A e \in Conn \ {d} : UNCHANGED Charge(e)
      BY <1>3, <2>1, <3>1, <3>2, AdmitWithin
    <3>4. QED
      BY <2>1, <3>3, WithinStays
  <2>3. CASE \E d \in Conn : Receive(d) \/ Account(d)
    <3>1. PICK d \in Conn : Receive(d) \/ Account(d)
      BY <2>3
    <3>2. Within(d)' /\ \A e \in Conn \ {d} : UNCHANGED Charge(e)
      BY <1>3, <2>1, <3>1, ReceiveWithin, AccountWithin
    <3>3. QED
      BY <2>1, <3>2, WithinStays
  <2>4. CASE \/ Cancel \/ StopListening \/ UNCHANGED vars
             \/ \E d \in Conn : Accept(d) \/ Watch(d) \/ Handle(d) \/ ReadFails(d)
                                 \/ Drained(d) \/ Write(d) \/ WriteFails(d)
             \/ \E d \in Publisher : Publish(d)
             \/ \E t \in Caller : Marshal(t) \/ SnapshotConns(t) \/ Visit(t) \/ Finish(t)
                                  \/ Gone(t) \/ Full(t)
             \/ \E t \in Thread : RemoveConn(t)
    BY <1>3, <2>1, <2>4, OthersChargeNothing, WithinStays
  <2>5. QED
    BY <1>3, <2>2, <2>3, <2>4 DEF Next, Send, WriteLoop
<1>4. QED
  BY <1>2, <1>3, Invariance, PTL DEF Spec

=============================================================================
