-------------------------- MODULE MirrorProperties --------------------------
(***************************************************************************)
(* The properties of a client's copy of a server's properties (Mirror).    *)
(***************************************************************************)
EXTENDS Mirror

\* What a client may see of a property p whose content is c: a light has no permission,
\* only a switch has a rule, a BLOB shows no value, and a number is shown to half a unit
\* of its last place.
Close(a, b) == 2 * (a - b) \in -Grain..Grain
Shows(entry, p, c) ==
    /\ entry.type = Meta[p].type
    /\ entry.perm = IF entry.type = "Light" THEN "" ELSE Meta[p].perm
    /\ entry.rule = IF entry.type = "Switch" THEN Meta[p].rule ELSE ""
    /\ entry.state = c.state
    /\ CASE entry.type = "BLOB"   -> entry.vals = <<>>
         [] entry.type = "Number" -> \A i \in DOMAIN c.vals : Close(entry.vals[i], c.vals[i])
         [] OTHER                 -> entry.vals = c.vals

\* The contents that a client may see: those a property had and, once a payload of it
\* has been sent, the same in the state Ok that every payload tells (blobSetXML).
Told(p) == past[p] \cup IF p \in payloads THEN {[c EXCEPT !.state = "Ok"] : c \in past[p]} ELSE {}

\* However the threads that change, define and update a property interleave, what a
\* client holds of it is a content that it had at one moment: its state and all its
\* members together (Property.snapshot, applySet), but for the Ok of a payload.
ViewIsPast ==
    \A p \in Prop : store[p] # Absent => \E c \in Told(p) : Shows(store[p], p, c)

\* ... and without that exception.  The code does not keep this (README, Disagreements).
StateIsPast ==
    \A p \in Prop : store[p] # Absent => \E c \in past[p] : Shows(store[p], p, c)

\* Once everything is published and has arrived, a client that has asked for the
\* properties holds exactly those that are listed, as they are now; but for a property
\* of which two publications overlapped, and a BLOB vector's state, which no update
\* carries and a payload tells as Ok.
Settled == /\ status[Peer] = "up" /\ pending[Peer] = <<>> /\ spent["reader"] > 0
           /\ \A t \in Thread : pc[t] = "idle" /\ jobs[t] = <<>>
Converges ==
    Settled => \A p \in Prop \ overlap :
        IF p \notin listed THEN store[p] = Absent
        ELSE store[p] # Absent /\ (Meta[p].type = "BLOB" \/ Shows(store[p], p, Content(p)))

\* ... and for those too: a client holds what is listed and nothing else.
\* The code does not keep this (README, Disagreements).
HoldsWhatIsListed == Settled => \A p \in Prop : (store[p] # Absent) <=> (p \in listed)
=============================================================================
