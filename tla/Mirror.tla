------------------------------- MODULE Mirror -------------------------------
(***************************************************************************)
(* A server's properties and a client's copy of them: threads of the       *)
(* server marshal a property (server/xml.go) and offer the message to a    *)
(* connection's stream, of which module Feed says what the hub promises;   *)
(* the client's read loop applies what arrives to its store                *)
(* (client/client.go).  A vector is its metadata, state and members'       *)
(* values; a number is an integer of a unit finer than the wire's format.  *)
(* A BLOB's payload is in module Blob; here it is the state that it tells. *)
(* The client has not asked for BLOBs alone.                               *)
(***************************************************************************)
EXTENDS Integers, Sequences, SequencesExt

CONSTANTS
    Prop,      \* the properties
    Meta,      \* Prop -> [type, perm, rule], as a driver made them
    Optional,  \* those that a driver lists and delists as it goes
    Readings,  \* the values that a driver may give its members
    Grain,     \* units of the last place the wire shows, 10^-6
    Peer,      \* the connection
    MaxWork    \* bound: what each thread has to publish in all

Types  == {"Number", "Switch", "Text", "Light", "BLOB"}
Thread == {"driver", "reader"}

ASSUME MirrorAssumption ==
    /\ Meta \in [Prop -> [type : Types, perm : {"ro", "wo", "rw"},
                          rule : {"OneOfMany", "AtMostOne", "AnyOfMany"}]]
    /\ Optional \subseteq Prop /\ IsFiniteSet(Prop)
    /\ Readings \subseteq Int /\ Grain \in Nat \ {0} /\ MaxWork \in [Thread -> Nat]

VARIABLES
    listed,    \* Properties() of the device
    state,     \* each property's state
    vals,      \* and its members' values
    pc,        \* where a thread is
    jobs,      \* <<kind, property>> pairs it has to publish
    msg,       \* the message it is publishing
    status, pending, delivered,  \* the stream, see module Feed
    store,     \* the client's store
    past,      \* history: the contents each property has had
    payloads,  \* history: the BLOB vectors that a payload was sent of
    overlap,   \* history: properties of which two publications overlapped
    spent      \* work done, for the bound

server == <<listed, state, vals, past, payloads>>
thread == <<pc, jobs, msg>>
stream == <<status, pending, delivered>>
vars   == <<server, thread, stream, store, overlap, spent>>

Absent  == [type |-> "absent"]
NoMsg   == [kind |-> "none"]
Content(p) == [state |-> state[p], vals |-> vals[p]]

(***************************************************************************)
(* Marshalling                                                             *)
(***************************************************************************)
numVal(x) == ((x + Grain \div 2) \div Grain) * Grain
Wire(p, v) == IF Meta[p].type = "Number" THEN [i \in DOMAIN v |-> numVal(v[i])] ELSE v

\* marshalDef: a switch has a rule, a light no permission, and a BLOB no value.
marshalDef(p) ==
    [kind |-> "def", prop |-> p, type |-> Meta[p].type,
     perm |-> IF Meta[p].type = "Light" THEN "" ELSE Meta[p].perm,
     rule |-> IF Meta[p].type = "Switch" THEN Meta[p].rule ELSE "",
     state |-> state[p],
     vals |-> IF Meta[p].type = "BLOB" THEN <<>> ELSE Wire(p, vals[p])]

\* marshalSet: state and all the members, except for a BLOB, which has no such message.
marshalSet(p) ==
    IF Meta[p].type = "BLOB" THEN NoMsg
    ELSE [kind |-> "set", prop |-> p, state |-> state[p], vals |-> Wire(p, vals[p])]

Marshalled(kind, p) ==
    CASE kind = "def" -> marshalDef(p)
      [] kind = "set" -> marshalSet(p)
      [] kind = "del" -> [kind |-> "del", prop |-> p]

\* blobSetXML: a payload says Ok, whatever the vector's state is.
blobSetXML(p) == [kind |-> "blob", prop |-> p, state |-> "Ok"]

Text == {"", "ro", "wo", "rw", "OneOfMany", "AtMostOne", "AnyOfMany"}
States == {"Idle", "Ok", "Busy"}
Message ==
    [kind : {"def"}, prop : Prop, type : Types, perm : Text, rule : Text, state : States, vals : Seq(Int)]
      \cup [kind : {"set"}, prop : Prop, state : States, vals : Seq(Int)]
      \cup [kind : {"del"}, prop : Prop]
      \cup [kind : {"blob"}, prop : Prop, state : {"Ok"}]

Hub == INSTANCE Feed WITH Conn <- {Peer}, Msg <- Message

Init ==
    /\ listed = Prop \ Optional
    /\ state = [p \in Prop |-> "Idle"]
    /\ \E r \in Readings : vals = [p \in Prop |-> <<r, r>>]
    /\ past = [p \in Prop |-> {Content(p)}] /\ payloads = {}
    /\ pc = [t \in Thread |-> "idle"] /\ jobs = [t \in Thread |-> <<>>]
    /\ msg = [t \in Thread |-> NoMsg]
    /\ Hub!Init
    /\ store = [p \in Prop |-> Absent]
    /\ overlap = {} /\ spent = [t \in Thread |-> 0]

(***************************************************************************)
(* What the server's threads have to publish                               *)
(***************************************************************************)
Begin(t, js) ==
    /\ pc[t] = "idle" /\ jobs[t] = <<>> /\ spent[t] < MaxWork[t]
    /\ spent' = [spent EXCEPT ![t] = @ + 1]
    /\ jobs' = [jobs EXCEPT ![t] = js]

\* The driver sets a property's state and a member, each under its lock, and updates.
Change(p) ==
    /\ p \in listed
    /\ Begin("driver", << <<"state", p>>, <<"value", p>>, <<"set", p>> >>)
    /\ UNCHANGED <<server, pc, msg, stream, store, overlap>>

SetState(p) ==
    /\ jobs["driver"] # <<>> /\ Head(jobs["driver"]) = <<"state", p>>
    /\ \E s \in {"Ok", "Busy"} : state' = [state EXCEPT ![p] = s]
    /\ past' = [past EXCEPT ![p] = @ \cup {[Content(p) EXCEPT !.state = state'[p]]}]
    /\ jobs' = [jobs EXCEPT !["driver"] = Tail(@)]
    /\ UNCHANGED <<listed, vals, payloads, pc, msg, stream, store, overlap, spent>>

SetValue(p) ==
    /\ jobs["driver"] # <<>> /\ Head(jobs["driver"]) = <<"value", p>>
    /\ \E i \in DOMAIN vals[p], r \in Readings : vals' = [vals EXCEPT ![p][i] = r]
    /\ past' = [past EXCEPT ![p] = @ \cup {[Content(p) EXCEPT !.vals = vals'[p]]}]
    /\ jobs' = [jobs EXCEPT !["driver"] = Tail(@)]
    /\ UNCHANGED <<listed, state, payloads, pc, msg, stream, store, overlap, spent>>

\* It lists an optional property and defines it, or delists and deletes it.
List(p) ==
    /\ p \in Optional
    /\ listed' = IF p \in listed THEN listed \ {p} ELSE listed \cup {p}
    /\ Begin("driver", << <<IF p \in listed THEN "del" ELSE "def", p>> >>)
    /\ UNCHANGED <<state, vals, past, payloads, pc, msg, stream, store, overlap>>

\* The read loop answers getProperties with the properties listed now.
GetProperties ==
    /\ LET all == SetToSeq(listed) IN Begin("reader", [i \in DOMAIN all |-> <<"def", all[i]>>])
    /\ UNCHANGED <<server, pc, msg, stream, store, overlap>>

\* It sends a payload of a BLOB vector that it has listed.
SendBLOB(p) ==
    /\ p \in listed /\ Meta[p].type = "BLOB"
    /\ pc["driver"] = "idle" /\ Begin("driver", <<>>)
    /\ msg' = [msg EXCEPT !["driver"] = blobSetXML(p)]
    /\ pc' = [pc EXCEPT !["driver"] = "offer"]
    /\ payloads' = payloads \cup {p}
    /\ UNCHANGED <<listed, state, vals, past, stream, store, overlap>>

\* Whether another thread is publishing p as it is, or is yet to define it again.
Overlaps(t, kind, p) ==
    \E u \in Thread \ {t} :
        \/ pc[u] = "offer" /\ msg[u].prop = p /\ msg[u].kind # "blob"
        \/ kind = "del" /\ <<"def", p>> \in ToSet(jobs[u])

\* Define, Update or Delete: the message is made from a snapshot of the property ...
Marshal(t) ==
    /\ pc[t] = "idle" /\ jobs[t] # <<>>
    /\ LET kind == Head(jobs[t])[1]
           p    == Head(jobs[t])[2]
           m    == Marshalled(kind, p)
       IN
         /\ kind \in {"def", "set", "del"}
         /\ msg' = [msg EXCEPT ![t] = m]
         /\ pc' = [pc EXCEPT ![t] = IF m = NoMsg THEN "idle" ELSE "offer"]
         /\ overlap' = IF Overlaps(t, kind, p) THEN overlap \cup {p} ELSE overlap
    /\ jobs' = [jobs EXCEPT ![t] = Tail(@)]
    /\ UNCHANGED <<server, stream, store, spent>>

\* What is sent of it.  Variant: the state is read when it is sent.
Snapshot_Torn(m) == IF m.kind # "del" THEN [m EXCEPT !.state = state[m.prop]] ELSE m
Snapshot(m) == m

\* ... and offered to the stream, unless that is closing, or the client's enableBLOB
\* policy does not let a payload through.
Offer(t) ==
    /\ pc[t] = "offer"
    /\ \/ /\ status[Peer] = "up"
          /\ pending' = [pending EXCEPT ![Peer] = Append(@, Snapshot(msg[t]))]
          /\ Hub!Offer(Peer)
       \/ (status[Peer] # "up" \/ msg[t].kind = "blob") /\ UNCHANGED stream
    /\ pc' = [pc EXCEPT ![t] = "idle"] /\ msg' = [msg EXCEPT ![t] = NoMsg]
    /\ UNCHANGED <<server, jobs, store, overlap, spent>>

(***************************************************************************)
(* The client                                                              *)
(***************************************************************************)
applyDef(m) == [store EXCEPT ![m.prop] =
    [type |-> m.type, perm |-> m.perm, rule |-> m.rule, state |-> m.state, vals |-> m.vals]]
\* A set of a property that is not in the store is dropped.
applySet(m) ==
    IF store[m.prop] = Absent THEN store
    ELSE [store EXCEPT ![m.prop].state = m.state, ![m.prop].vals = m.vals]
\* Variant: a deleted property is kept.
applyDel_Not(m) == store
applyDel(m) == [store EXCEPT ![m.prop] = Absent]
\* The read loop is through with a payload (client/blob.go).
applyBlobMeta(m) ==
    IF store[m.prop] = Absent THEN store ELSE [store EXCEPT ![m.prop].state = m.state]

Receive ==
    /\ Hub!Deliver(Peer)
    /\ LET m == Head(pending[Peer]) IN
         store' = CASE m.kind = "def" -> applyDef(m)
                    [] m.kind = "set" -> applySet(m)
                    [] m.kind = "del" -> applyDel(m)
                    [] m.kind = "blob" -> applyBlobMeta(m)
    /\ UNCHANGED <<server, thread, overlap, spent>>

\* The connection is torn down, and its writer ends.
Disconnect ==
    /\ Hub!Close(Peer) \/ Hub!Cut(Peer)
    /\ UNCHANGED <<server, thread, store, overlap, spent>>

Next ==
    \/ \E p \in Prop : Change(p) \/ SetState(p) \/ SetValue(p) \/ List(p) \/ SendBLOB(p)
    \/ GetProperties
    \/ \E t \in Thread : Marshal(t) \/ Offer(t)
    \/ Receive \/ Disconnect

Spec == Init /\ [][Next]_vars
=============================================================================
