---------------------------- MODULE MirrorProofs ----------------------------
(***************************************************************************)
(* Proofs about a client's copy of a server's properties, for any finite   *)
(* set of properties, any values and any amount of work.                   *)
(***************************************************************************)
EXTENDS MirrorProperties, FiniteSetTheorems, TLAPS

-----------------------------------------------------------------------------
(* What a message and an entry of the store say of a property *)

Pend == pending[Peer]

\* The values that a client is shown of a property whose members' values are v.
Sees(p, v) == IF Meta[p].type = "BLOB" THEN <<>> ELSE Wire(p, v)

\* m says that the property p has the state s and the values v.
Tells(m, p, s, v) == m.state = s /\ m.vals = Sees(p, v)

Contents == [state : States, vals : Seq(Int)]

EntryOf(p, c) ==
    [type |-> Meta[p].type,
     perm |-> IF Meta[p].type = "Light" THEN "" ELSE Meta[p].perm,
     rule |-> IF Meta[p].type = "Switch" THEN Meta[p].rule ELSE "",
     state |-> c.state, vals |-> Sees(p, c.vals)]

\* A message is made of one content that its property had.
MadeOf(m, c) ==
    /\ Tells(m, m.prop, c.state, c.vals)
    /\ m.kind = "def" => m.type = EntryOf(m.prop, c).type /\ m.perm = EntryOf(m.prop, c).perm
                           /\ m.rule = EntryOf(m.prop, c).rule
    /\ m.kind = "set" => Meta[m.prop].type # "BLOB"
Honest(m, pst, pds) ==
    /\ m.prop \in Prop /\ m.kind \in {"def", "set", "del", "blob"}
    /\ m.kind \in {"def", "set"} => \E c \in pst[m.prop] : MadeOf(m, c)
    /\ m.kind = "blob" => Meta[m.prop].type = "BLOB" /\ m.state = "Ok" /\ m.prop \in pds

-----------------------------------------------------------------------------
(* The invariant behind ViewIsPast *)

Kinds == {"state", "value", "def", "set", "del"}

Shape ==
    /\ listed \subseteq Prop /\ overlap \subseteq Prop
    /\ state \in [Prop -> States] /\ vals \in [Prop -> Seq(Int)]
    /\ past \in [Prop -> SUBSET Contents]
    /\ pc \in [Thread -> {"idle", "offer"}]
    /\ jobs \in [Thread -> Seq(Kinds \X Prop)]
    /\ spent \in [Thread -> Nat]
    /\ DOMAIN msg = Thread
    /\ status \in [{Peer} -> {"up", "closing", "cut"}]
    /\ pending \in [{Peer} -> Seq(Message)]
    /\ DOMAIN store = Prop

\* What a client may have been told of p.
Paid(c) == [c EXCEPT !.state = "Ok"]
Heard(p, pst, pds) == pst[p] \cup IF p \in pds THEN {Paid(c) : c \in pst[p]} ELSE {}
Stored(e, p, pst, pds) == e # Absent => \E c \in Heard(p, pst, pds) : e = EntryOf(p, c)

\* Each message on its way, and each entry of the store, is of a past content,
\* or says Ok for a payload.
AllHonest ==
    /\ \A p \in Prop : Content(p) \in past[p]
    /\ \A t \in Thread : pc[t] = "offer" => Honest(msg[t], past, payloads)
    /\ \A i \in DOMAIN Pend : Honest(Pend[i], past, payloads)
    /\ \A p \in Prop : Stored(store[p], p, past, payloads)

Base == Shape /\ AllHonest

-----------------------------------------------------------------------------
(* The invariant behind Converges *)

Is(m, p, kinds) == m.prop = p /\ m.kind \in kinds

\* With e in the store and q on the way, the client will have p.
WillHave(q, e, p) ==
    \/ \E i \in DOMAIN q : /\ Is(q[i], p, {"def"})
                           /\ \A j \in DOMAIN q : j > i => ~Is(q[j], p, {"del"})
    \/ e # Absent /\ \A j \in DOMAIN q : ~Is(q[j], p, {"del"})

\* What it will be told of p last is the state s and the values v.
WillShow(q, e, p, s, v) ==
    /\ \A i \in DOMAIN q :
         Is(q[i], p, {"def", "set"}) /\ (\A j \in DOMAIN q : j > i => ~Is(q[j], p, {"def", "set"}))
           => Tells(q[i], p, s, v)
    /\ e # Absent /\ (\A j \in DOMAIN q : ~Is(q[j], p, {"def", "set"})) => Tells(e, p, s, v)

\* What the driver's work ends with, and what the read loop has still to define.
Ends(js) == IF js = <<>> THEN <<"none", "none">> ELSE js[Len(js)]
Due == Ends(jobs["driver"])
Owed(p) == <<"def", p>> \in ToSet(jobs["reader"])
Offers(t, p, kinds) == pc[t] = "offer" /\ Is(msg[t], p, kinds)

\* The jobs of a thread: a change ends with its update, and everything else is one job.
Ordered(js) ==
    \A i \in DOMAIN js :
        IF js[i][1] \in {"state", "value"}
        THEN i < Len(js) /\ js[Len(js)] = <<"set", js[i][2]>>
        ELSE i = Len(js)
Work ==
    /\ Ordered(jobs["driver"])
    /\ pc["driver"] = "offer" => jobs["driver"] = <<>>
    /\ \A i \in DOMAIN jobs["reader"] : jobs["reader"][i][1] = "def"
    /\ pc["reader"] = "offer" => msg["reader"].kind = "def"

\* Listing goes before the definition, and delisting before the deletion.
Defining(p) == Due = <<"def", p>> \/ Offers("driver", p, {"def"})
Deleting(p) == Due = <<"del", p>> \/ Offers("driver", p, {"del"})
ListedFirst == \A p \in Prop : (Defining(p) => p \in listed) /\ (Deleting(p) => p \notin listed)

\* Of a property that is not in overlap, one publication is under way at a time.
OneAtATime ==
    \A p \in Prop \ overlap :
        /\ ~(Offers("driver", p, Kinds) /\ Offers("reader", p, Kinds))
        /\ Offers("driver", p, {"del"}) => ~Owed(p)

\* Some thread is about to define p, or the client will have it anyway.
Promised(p) == Owed(p) \/ Offers("reader", p, {"def"}) \/ Defining(p)
                 \/ WillHave(Pend, store[p], p)
HasListed ==
    \A p \in Prop \ overlap :
        /\ Promised(p) => p \in listed \/ Deleting(p)
        /\ p \in listed /\ spent["reader"] > 0 => Promised(p)

\* What was last said of p is how p is, unless an update is still to come.
ShowsCurrent ==
    \A p \in Prop \ overlap : Due # <<"set", p>> /\ Meta[p].type # "BLOB" =>
        /\ \A t \in Thread : Offers(t, p, {"def", "set"}) => Tells(msg[t], p, state[p], vals[p])
        /\ (\A t \in Thread : ~Offers(t, p, {"def", "set"}))
             => WillShow(Pend, store[p], p, state[p], vals[p])

Convergent == OneAtATime /\ (status[Peer] = "up" => HasListed /\ ShowsCurrent)

IInv == Base /\ Work /\ ListedFirst /\ Convergent

-----------------------------------------------------------------------------
(* Marshalling *)

\* The wire's rounding moves a number by half a unit of the last place at most.
LEMMA Rounded == \A x \in Int : Close(numVal(x), x)
<1> SUFFICES ASSUME NEW x \in Int PROVE Close(numVal(x), x)
  OBVIOUS
<1>1. Grain \in Nat /\ Grain > 0
  BY MirrorAssumption DEF MirrorAssumption
<1> DEFINE h == Grain \div 2
           y == x + h
           q == y \div Grain
<1>2. h \in Int /\ 2 * h <= Grain /\ Grain <= 2 * h + 1
  BY <1>1
<1>3. numVal(x) = q * Grain
  BY DEF numVal
<1> HIDE DEF h
<1>4. y \in Int /\ y = x + h
  BY <1>2
<1> HIDE DEF y
<1>5. q \in Int /\ q * Grain \in Int /\ q * Grain <= y /\ y < q * Grain + Grain
  BY <1>1, <1>4
<1> HIDE DEF q
<1>6. QED
  BY <1>1, <1>2, <1>3, <1>4, <1>5 DEF Close

\* A definition or an update is made of the content its property has.
LEMMA MarshalMade ==
    ASSUME Base, NEW p \in Prop, NEW kind \in {"def", "set", "del"}, Marshalled(kind, p) # NoMsg
    PROVE  /\ Honest(Marshalled(kind, p), past, payloads)
           /\ Is(Marshalled(kind, p), p, {kind})
           /\ kind # "del" => Tells(Marshalled(kind, p), p, state[p], vals[p])
           /\ kind = "set" => Meta[p].type # "BLOB"
<1>1. CASE kind = "def"
  <2>1. Marshalled(kind, p) = marshalDef(p)
    BY <1>1 DEF Marshalled
  <2>2. /\ marshalDef(p).prop = p /\ marshalDef(p).kind = "def"
        /\ MadeOf(marshalDef(p), Content(p))
    BY DEF marshalDef, MadeOf, Tells, Sees, EntryOf, Content
  <2>3. QED
    BY <1>1, <2>1, <2>2 DEF Honest, Base, AllHonest, Is, MadeOf, Content
<1>2. CASE kind = "set"
  <2>1. Marshalled(kind, p) = marshalSet(p) /\ Meta[p].type # "BLOB"
    BY <1>2 DEF Marshalled, marshalSet
  <2>2. /\ marshalSet(p).prop = p /\ marshalSet(p).kind = "set"
        /\ MadeOf(marshalSet(p), Content(p))
    BY <2>1 DEF marshalSet, MadeOf, Tells, Sees, Content
  <2>3. QED
    BY <1>2, <2>1, <2>2 DEF Honest, Base, AllHonest, Is, MadeOf, Content
<1>3. CASE kind = "del"
  BY <1>3 DEF Marshalled, Honest, Is
<1>4. QED
  BY <1>1, <1>2, <1>3

\* Only an update of a BLOB is no message.
LEMMA MarshalNone ==
    ASSUME NEW p \in Prop, NEW kind \in {"def", "set", "del"}
    PROVE  Marshalled(kind, p) = NoMsg <=> kind = "set" /\ Meta[p].type = "BLOB"
<1>1. marshalDef(p).kind = "def" /\ NoMsg.kind = "none"
  BY DEF marshalDef, NoMsg
<1>2. CASE kind = "def"
  BY <1>1, <1>2 DEF Marshalled
<1>3. CASE kind = "set"
  <2>1. Meta[p].type # "BLOB" => marshalSet(p).kind = "set"
    BY DEF marshalSet
  <2>2. Marshalled(kind, p) = marshalSet(p)
    BY <1>3 DEF Marshalled
  <2>3. QED
    BY <1>1, <1>3, <2>1, <2>2 DEF marshalSet
<1>4. CASE kind = "del"
  <2>1. Marshalled(kind, p).kind = "del"
    BY <1>4 DEF Marshalled
  <2>2. QED
    BY <1>1, <1>4, <2>1
<1>5. QED
  BY <1>2, <1>3, <1>4

\* What was made of a past content stays so.
LEMMA PastKept ==
    ASSUME NEW old, NEW new, NEW pds, NEW more, \A p \in Prop : old[p] \subseteq new[p], pds \subseteq more
    PROVE  /\ \A m : Honest(m, old, pds) => Honest(m, new, more)
           /\ \A e : \A p \in Prop : Stored(e, p, old, pds) => Stored(e, p, new, more)
<1>1. \A p \in Prop : Heard(p, old, pds) \subseteq Heard(p, new, more)
  BY DEF Heard
<1>2. QED
  BY <1>1 DEF Honest, Stored

\* An entry of the store is not Absent, whatever its content.
LEMMA EntryKnown == ASSUME NEW p \in Prop, NEW c PROVE EntryOf(p, c) # Absent
<1>1. EntryOf(p, c).type \in Types
  BY MirrorAssumption DEF MirrorAssumption, EntryOf
<1>2. Absent.type \notin Types
  BY DEF Absent, Types
<1>3. QED
  BY <1>1, <1>2

-----------------------------------------------------------------------------
(* The steps keep the base *)

\* The jobs of a getProperties are the definitions of what is listed.
LEMMA AllListed ==
    ASSUME Shape
    PROVE  LET all == SetToSeq(listed)
               js  == [i \in DOMAIN all |-> <<"def", all[i]>>]
           IN  js \in Seq(Kinds \X Prop) /\ ToSet(js) = {<<"def", p>> : p \in listed}
<1> DEFINE n   == Cardinality(listed)
           all == SetToSeq(listed)
           js  == [i \in DOMAIN all |-> <<"def", all[i]>>]
<1>1. IsFiniteSet(listed)
  BY MirrorAssumption, FS_Subset DEF MirrorAssumption, Shape
<1>2. n \in Nat /\ \E f \in Bijection(1..n, listed) : TRUE
  BY <1>1, FS_CardinalityType DEF ExistsBijection
<1>3. all \in [1..n -> listed] /\ IsInjective(all)
  <2>1. PICK f \in Bijection(1..n, listed) : TRUE
    BY <1>2
  <2>2. f \in [1..n -> listed] /\ IsInjective(f)
    BY <2>1 DEF Bijection, Injection
  <2>3. QED
    BY <2>2 DEF SetToSeq
<1>4. all \in Surjection(1..n, listed)
  <2>1. all \in Injection(1..n, listed)
    BY <1>3 DEF Injection
  <2>2. n = Cardinality(1..n)
    BY <1>2, FS_Interval
  <2>3. QED
    BY <1>1, <2>1, <2>2, FS_Injection
<1>5. \A p \in listed : \E i \in 1..n : all[i] = p
  BY <1>4 DEF Surjection
<1> HIDE DEF all, n
<1>6. DOMAIN js = 1..n /\ \A i \in 1..n : js[i] = <<"def", all[i]>> /\ all[i] \in listed
  BY <1>3
<1>7. js \in Seq(Kinds \X Prop)
  <2>1. \A i \in 1..n : js[i] \in Kinds \X Prop
    BY <1>6 DEF Shape, Kinds
  <2>2. js \in [1..n -> Kinds \X Prop]
    BY <1>6, <2>1
  <2>3. QED
    BY <1>2, <2>2
<1>8. ToSet(js) = {<<"def", p>> : p \in listed}
  BY <1>5, <1>6 DEF ToSet
<1>9. QED
  BY <1>7, <1>8 DEF all

\* A thread that begins work only gets jobs.
LEMMA BeginBase ==
    ASSUME Base, NEW t \in Thread, NEW js \in Seq(Kinds \X Prop), Begin(t, js),
           listed' \subseteq Prop, UNCHANGED <<state, vals, past, payloads, pc, msg, stream, store, overlap>>
    PROVE  Base'
<1>1. Shape'
  <2>1. jobs' \in [Thread -> Seq(Kinds \X Prop)]
    BY DEF Base, Shape, Begin
  <2>2. spent' \in [Thread -> Nat]
    BY DEF Base, Shape, Begin
  <2>3. QED
    BY <2>1, <2>2 DEF Base, Shape, stream
<1>2. AllHonest'
  BY DEF Base, AllHonest, Content, Pend, stream
<1>3. QED
  BY <1>1, <1>2 DEF Base

\* The driver's two kinds of work, and the read loop's.
LEMMA WorkBase == ASSUME Base, NEW p \in Prop, Change(p) \/ List(p) PROVE Base'
<1>1. CASE Change(p)
  <2> DEFINE js == << <<"state", p>>, <<"value", p>>, <<"set", p>> >>
  <2>1. js \in Seq(Kinds \X Prop)
    BY DEF Kinds
  <2>2. Begin("driver", js) /\ UNCHANGED <<server, pc, msg, stream, store, overlap>>
    BY <1>1 DEF Change
  <2> HIDE DEF js
  <2>3. QED
    BY <2>1, <2>2, BeginBase DEF server, Thread, Base, Shape
<1>2. CASE List(p)
  <2> DEFINE js == << <<IF p \in listed THEN "del" ELSE "def", p>> >>
  <2>1. js \in Seq(Kinds \X Prop)
    BY DEF Kinds
  <2>2. /\ Begin("driver", js) /\ listed' \subseteq Prop
        /\ UNCHANGED <<state, vals, past, payloads, pc, msg, stream, store, overlap>>
    BY <1>2 DEF List, Base, Shape
  <2> HIDE DEF js
  <2>3. QED
    BY <2>1, <2>2, BeginBase DEF Thread
<1>3. QED
  BY <1>1, <1>2

\* The definitions that the read loop owes are jobs like any other.
LEMMA GetPropertiesBase == ASSUME Base, GetProperties PROVE Base'
<1> DEFINE all == SetToSeq(listed)
           js  == [i \in DOMAIN all |-> <<"def", all[i]>>]
<1>1. js \in Seq(Kinds \X Prop)
  BY AllListed DEF Base
<1>2. Begin("reader", js) /\ UNCHANGED <<server, pc, msg, stream, store, overlap>>
  BY DEF GetProperties
<1> HIDE DEF js
<1>3. QED
  BY <1>1, <1>2, BeginBase DEF server, Thread, Base, Shape

\* The driver changes a property: what is on its way remains of the past.
LEMMA SetBase == ASSUME Base, NEW p \in Prop, SetState(p) \/ SetValue(p) PROVE Base'
<1>1. /\ state' \in [Prop -> States] /\ vals' \in [Prop -> Seq(Int)]
      /\ past' = [past EXCEPT ![p] = @ \cup {Content(p)'}]
      /\ \A q \in Prop \ {p} : Content(q)' = Content(q)
  <2>1. CASE SetState(p)
    <3>1. PICK s \in {"Ok", "Busy"} : state' = [state EXCEPT ![p] = s]
      BY <2>1 DEF SetState
    <3>2. vals' = vals /\ past' = [past EXCEPT ![p] = @ \cup {[Content(p) EXCEPT !.state = state'[p]]}]
      BY <2>1 DEF SetState
    <3>3. [Content(p) EXCEPT !.state = state'[p]] = Content(p)'
      BY <3>2 DEF Content
    <3>4. QED
      BY <3>1, <3>2, <3>3 DEF Base, Shape, States, Content
  <2>2. CASE SetValue(p)
    <3>1. PICK i \in DOMAIN vals[p], r \in Readings : vals' = [vals EXCEPT ![p][i] = r]
      BY <2>2 DEF SetValue
    <3>2. state' = state /\ past' = [past EXCEPT ![p] = @ \cup {[Content(p) EXCEPT !.vals = vals'[p]]}]
      BY <2>2 DEF SetValue
    <3>3. [Content(p) EXCEPT !.vals = vals'[p]] = Content(p)'
      BY <3>2 DEF Content
    <3>4. r \in Int
      BY MirrorAssumption DEF MirrorAssumption
    <3>5. vals' \in [Prop -> Seq(Int)]
      <4>1. vals[p] \in Seq(Int)
        BY DEF Base, Shape
      <4>2. [vals[p] EXCEPT ![i] = r] \in Seq(Int)
        BY <3>4, <4>1
      <4>3. QED
        BY <3>1, <4>2 DEF Base, Shape
    <3>6. \A q \in Prop \ {p} : vals'[q] = vals[q]
      BY <3>1 DEF Base, Shape
    <3>7. QED
      BY <3>2, <3>3, <3>5, <3>6 DEF Base, Shape, Content
  <2>3. QED
    BY <2>1, <2>2
<1>2. /\ UNCHANGED <<listed, payloads, pc, msg, status, pending, store, overlap, spent>>
      /\ jobs["driver"] # <<>> /\ jobs' = [jobs EXCEPT !["driver"] = Tail(@)]
  BY DEF SetState, SetValue, stream
<1>3. Content(p)' \in Contents
  BY <1>1 DEF Content, Contents
<1>4. Shape'
  <2>1. Tail(jobs["driver"]) \in Seq(Kinds \X Prop)
    BY <1>2 DEF Base, Shape, Thread
  <2>2. jobs' \in [Thread -> Seq(Kinds \X Prop)]
    BY <1>2, <2>1 DEF Base, Shape
  <2>3. past' \in [Prop -> SUBSET Contents]
    BY <1>1, <1>3 DEF Base, Shape
  <2>4. QED
    BY <1>1, <1>2, <2>2, <2>3 DEF Base, Shape
<1>5. \A q \in Prop : past[q] \subseteq past'[q]
  BY <1>1 DEF Base, Shape
<1>6. \A q \in Prop : Content(q)' \in past'[q]
  BY <1>1 DEF Base, Shape, AllHonest
<1>9. payloads \subseteq payloads'
  BY <1>2
<1>7. AllHonest'
  <2>1. \A t \in Thread : pc[t] = "offer" => Honest(msg[t], past', payloads')
    BY <1>5, <1>9, PastKept DEF Base, AllHonest
  <2>2. \A i \in DOMAIN Pend : Honest(Pend[i], past', payloads')
    BY <1>5, <1>9, PastKept DEF Base, AllHonest
  <2>3. \A q \in Prop : Stored(store[q], q, past', payloads')
    BY <1>5, <1>9, PastKept DEF Base, AllHonest
  <2>4. QED
    BY <1>2, <1>6, <2>1, <2>2, <2>3 DEF AllHonest, Pend
<1>8. QED
  BY <1>4, <1>7 DEF Base

\* A payload is sent of a BLOB vector.
LEMMA SendBLOBBase == ASSUME Base, NEW p \in Prop, SendBLOB(p) PROVE Base'
<1>1. /\ Meta[p].type = "BLOB" /\ Begin("driver", <<>>)
      /\ msg' = [msg EXCEPT !["driver"] = blobSetXML(p)]
      /\ pc' = [pc EXCEPT !["driver"] = "offer"]
      /\ payloads' = payloads \cup {p}
      /\ UNCHANGED <<listed, state, vals, past, stream, store, overlap>>
  BY DEF SendBLOB
<1>2. Shape'
  BY <1>1 DEF Base, Shape, Begin, Thread, stream
<1>3. Honest(blobSetXML(p), past', payloads')
  BY <1>1 DEF Honest, blobSetXML
<1>6. (\A q \in Prop : past[q] \subseteq past'[q]) /\ payloads \subseteq payloads'
  BY <1>1
<1>4. AllHonest'
  <2>1. \A t \in Thread : pc'[t] = "offer" => Honest(msg'[t], past', payloads')
    BY <1>1, <1>3, <1>6, PastKept DEF Base, Shape, AllHonest
  <2>2. \A i \in DOMAIN Pend : Honest(Pend[i], past', payloads')
    BY <1>6, PastKept DEF Base, AllHonest
  <2>3. \A q \in Prop : Stored(store[q], q, past', payloads')
    BY <1>6, PastKept DEF Base, AllHonest
  <2>4. QED
    BY <1>1, <2>1, <2>2, <2>3 DEF Base, AllHonest, Content, Pend, stream
<1>5. QED
  BY <1>2, <1>4 DEF Base

\* A message is made of the property as it is, ...
LEMMA MarshalBase == ASSUME Base, NEW t \in Thread, Marshal(t) PROVE Base'
<1> DEFINE kind == Head(jobs[t])[1]
           p    == Head(jobs[t])[2]
           m    == Marshalled(kind, p)
<1>1. /\ pc[t] = "idle" /\ jobs[t] # <<>> /\ kind \in {"def", "set", "del"}
      /\ msg' = [msg EXCEPT ![t] = m]
      /\ pc' = [pc EXCEPT ![t] = IF m = NoMsg THEN "idle" ELSE "offer"]
      /\ overlap' = IF Overlaps(t, kind, p) THEN overlap \cup {p} ELSE overlap
      /\ jobs' = [jobs EXCEPT ![t] = Tail(@)]
      /\ UNCHANGED <<server, stream, store, spent>>
  BY DEF Marshal
<1>2. Head(jobs[t]) \in Kinds \X Prop /\ Tail(jobs[t]) \in Seq(Kinds \X Prop)
  BY <1>1 DEF Base, Shape
<1>3. p \in Prop
  BY <1>2
<1> HIDE DEF kind, p
<1>4. m # NoMsg => Honest(m, past, payloads)
  BY <1>1, <1>3, MarshalMade
<1> HIDE DEF m
<1>5. Shape'
  BY <1>1, <1>2, <1>3 DEF Base, Shape, server, stream
<1>6. AllHonest'
  BY <1>1, <1>4 DEF Base, Shape, AllHonest, Content, Pend, server, stream
<1>7. QED
  BY <1>5, <1>6 DEF Base

\* ... it is what is sent, ...
LEMMA OfferBase == ASSUME Base, NEW t \in Thread, Offer(t) PROVE Base'
<1>1. /\ pc[t] = "offer" /\ pc' = [pc EXCEPT ![t] = "idle"]
      /\ msg' = [msg EXCEPT ![t] = NoMsg]
      /\ UNCHANGED <<server, jobs, store, overlap, spent>>
  BY DEF Offer
<1>2. Honest(msg[t], past, payloads)
  BY <1>1 DEF Base, AllHonest
<1>3. CASE /\ pending' = [pending EXCEPT ![Peer] = Append(@, Snapshot(msg[t]))]
           /\ Hub!Offer(Peer)
  <2>1. /\ pending' = [pending EXCEPT ![Peer] = Append(@, msg[t])]
        /\ Hub!Offer(Peer)
    BY <1>3 DEF Snapshot
  <2>2. pending[Peer] \in Seq(Message) /\ pending'[Peer] = Append(pending[Peer], msg[t])
    BY <2>1 DEF Base, Shape
  <2>3. pending'[Peer][Len(pending'[Peer])] = msg[t]
    BY <2>2
  <2>4. msg[t] \in Message /\ status' = status
    BY <2>1, <2>3 DEF Hub!Offer
  <2>5. Shape'
    BY <1>1, <2>1, <2>4 DEF Base, Shape, server
  <2>6. \A i \in DOMAIN Pend' : Honest(Pend'[i], past, payloads)
    BY <1>2, <2>2 DEF Base, AllHonest, Pend
  <2>7. AllHonest'
    BY <1>1, <2>6 DEF Base, Shape, AllHonest, Content, server
  <2>8. QED
    BY <2>5, <2>7 DEF Base
<1>4. CASE UNCHANGED stream
  <2>1. UNCHANGED stream
    BY <1>4
  <2>2. Shape'
    BY <1>1, <2>1 DEF Base, Shape, server, stream
  <2>3. AllHonest'
    BY <1>1, <2>1 DEF Base, Shape, AllHonest, Content, Pend, server, stream
  <2>4. QED
    BY <2>2, <2>3 DEF Base
<1>5. QED
  BY <1>3, <1>4 DEF Offer

\* ... and it is what the client's store takes from it.
Applied(m) == CASE m.kind = "def" -> applyDef(m)
                [] m.kind = "set" -> applySet(m)
                [] m.kind = "del" -> applyDel(m)
                [] m.kind = "blob" -> applyBlobMeta(m)

\* What an honest message makes of the store: it touches its own property, with a past content.
LEMMA AppliedStored ==
    ASSUME Base, NEW m, Honest(m, past, payloads)
    PROVE  /\ DOMAIN Applied(m) = Prop
           /\ \A p \in Prop : Stored(Applied(m)[p], p, past, payloads)
           /\ \A p \in Prop \ {m.prop} : Applied(m)[p] = store[p]
           /\ m.kind = "def" => Applied(m)[m.prop] # Absent
           /\ m.kind = "del" => Applied(m)[m.prop] = Absent
           /\ m.kind \in {"set", "blob"} => (Applied(m)[m.prop] # Absent <=> store[m.prop] # Absent)
           /\ m.kind # "blob" /\ Applied(m)[m.prop] # Absent =>
                \A s, v : Tells(Applied(m)[m.prop], m.prop, s, v) <=> Tells(m, m.prop, s, v)
<1> DEFINE p == m.prop
<1>1. /\ p \in Prop /\ m.kind \in {"def", "set", "del", "blob"} /\ DOMAIN store = Prop
      /\ \A q \in Prop : Stored(store[q], q, past, payloads)
  BY DEF Honest, Base, Shape, AllHonest
<1>2. CASE m.kind = "def"
  <2>1. PICK c \in past[p] : MadeOf(m, c)
    BY <1>2 DEF Honest
  <2>2. Applied(m) = [store EXCEPT ![p] = EntryOf(p, c)]
    BY <1>2, <2>1 DEF Applied, applyDef, MadeOf, Tells, EntryOf
  <2>3. EntryOf(p, c) # Absent
    BY <1>1, EntryKnown
  <2>4. EntryOf(p, c).state = m.state /\ EntryOf(p, c).vals = m.vals
    BY <2>1 DEF EntryOf, MadeOf, Tells
  <2> HIDE DEF p
  <2>5. \A s, v : Tells(EntryOf(p, c), p, s, v) <=> Tells(m, p, s, v)
    BY <2>4 DEF Tells
  <2>6. Applied(m)[p] = EntryOf(p, c) /\ \A q \in Prop \ {p} : Applied(m)[q] = store[q]
    BY <1>1, <2>2
  <2>7. \A q \in Prop : Stored(Applied(m)[q], q, past, payloads)
    BY <1>1, <2>1, <2>6 DEF Stored, Heard
  <2>8. QED
    BY <1>1, <1>2, <2>2, <2>3, <2>5, <2>6, <2>7 DEF p
<1>3. CASE m.kind = "set" /\ store[p] = Absent
  BY <1>1, <1>3 DEF Applied, applySet
<1>4. CASE m.kind = "set" /\ store[p] # Absent
  <2>1. PICK c \in past[p] : MadeOf(m, c)
    BY <1>4 DEF Honest
  <2>2. PICK c0 \in Heard(p, past, payloads) : store[p] = EntryOf(p, c0)
    BY <1>1, <1>4 DEF Stored
  <2>3. Applied(m) = [store EXCEPT ![p].state = m.state, ![p].vals = m.vals]
    BY <1>4 DEF Applied, applySet
  <2>4. Applied(m) = [store EXCEPT ![p] = [[@ EXCEPT !.state = m.state] EXCEPT !.vals = m.vals]]
    BY <1>1, <2>3
  <2>5. [[store[p] EXCEPT !.state = m.state] EXCEPT !.vals = m.vals] = EntryOf(p, c)
    <3>1. m.state = c.state /\ m.vals = Sees(p, c.vals)
      BY <2>1 DEF MadeOf, Tells
    <3> HIDE DEF p
    <3>2. [[EntryOf(p, c0) EXCEPT !.state = c.state] EXCEPT !.vals = Sees(p, c.vals)] = EntryOf(p, c)
      <4> DEFINE a == Meta[p].type
                 b == IF Meta[p].type = "Light" THEN "" ELSE Meta[p].perm
                 r == IF Meta[p].type = "Switch" THEN Meta[p].rule ELSE ""
      <4>1. \A d : EntryOf(p, d) = [type |-> a, perm |-> b, rule |-> r, state |-> d.state, vals |-> Sees(p, d.vals)]
        BY DEF EntryOf
      <4> HIDE DEF a, b, r
      <4>2. ASSUME NEW x, NEW s, NEW v
            PROVE  /\ [[type |-> a, perm |-> b, rule |-> r, state |-> x, vals |-> v] EXCEPT !.state = s]
                         = [type |-> a, perm |-> b, rule |-> r, state |-> s, vals |-> v]
                   /\ [[type |-> a, perm |-> b, rule |-> r, state |-> s, vals |-> x] EXCEPT !.vals = v]
                         = [type |-> a, perm |-> b, rule |-> r, state |-> s, vals |-> v]
        OBVIOUS
      <4>3. [EntryOf(p, c0) EXCEPT !.state = c.state]
              = [type |-> a, perm |-> b, rule |-> r, state |-> c.state, vals |-> Sees(p, c0.vals)]
        BY <4>1, <4>2
      <4>4. [[type |-> a, perm |-> b, rule |-> r, state |-> c.state, vals |-> Sees(p, c0.vals)]
               EXCEPT !.vals = Sees(p, c.vals)] = EntryOf(p, c)
        BY <4>1, <4>2
      <4>5. QED
        BY <4>3, <4>4, Zenon
    <3>3. QED
      BY <2>2, <3>1, <3>2
  <2>6. EntryOf(p, c) # Absent
    BY <1>1, EntryKnown
  <2>7. EntryOf(p, c).state = m.state /\ EntryOf(p, c).vals = m.vals
    BY <2>1 DEF EntryOf, MadeOf, Tells
  <2> HIDE DEF p
  <2>8. \A s, v : Tells(EntryOf(p, c), p, s, v) <=> Tells(m, p, s, v)
    BY <2>7 DEF Tells
  <2>9. /\ Applied(m)[p] = EntryOf(p, c) /\ DOMAIN Applied(m) = Prop
        /\ \A q \in Prop \ {p} : Applied(m)[q] = store[q]
    BY <1>1, <2>4, <2>5
  <2>10. \A q \in Prop : Stored(Applied(m)[q], q, past, payloads)
    BY <1>1, <2>1, <2>9 DEF Stored, Heard
  <2>11. QED
    BY <1>1, <1>4, <2>6, <2>8, <2>9, <2>10 DEF p
<1>5. CASE m.kind = "del"
  BY <1>1, <1>5 DEF Applied, applyDel, Stored
<1>6. CASE m.kind = "blob" /\ store[p] = Absent
  BY <1>1, <1>6 DEF Applied, applyBlobMeta
<1>7. CASE m.kind = "blob" /\ store[p] # Absent
  <2>1. PICK c \in Heard(p, past, payloads) : store[p] = EntryOf(p, c)
    BY <1>1, <1>7 DEF Stored
  <2>2. m.state = "Ok" /\ p \in payloads
    BY <1>7 DEF Honest
  <2>3. Applied(m) = [store EXCEPT ![p].state = "Ok"]
    BY <1>7, <2>2 DEF Applied, applyBlobMeta
  <2> HIDE DEF p
  <2>4. \A x \in Contents : Paid(x) \in Contents /\ Paid(x).state = "Ok" /\ Paid(x).vals = x.vals
    BY DEF Paid, Contents, States
  <2>5. past[p] \subseteq Contents
    BY <1>1 DEF Base, Shape
  <2>6. c \in Contents /\ Paid(c) \in Heard(p, past, payloads)
    <3>1. CASE c \in past[p]
      BY <2>2, <2>5, <3>1 DEF Heard
    <3>2. CASE c \notin past[p]
      <4>1. PICK d \in past[p] : c = Paid(d)
        BY <2>1, <2>2, <3>2 DEF Heard
      <4>2. Paid(c) = c
        BY <2>4, <2>5, <4>1 DEF Paid, Contents
      <4>3. QED
        BY <2>1, <2>4, <2>5, <4>1, <4>2
    <3>3. QED
      BY <3>1, <3>2
  <2>7. [EntryOf(p, c) EXCEPT !.state = "Ok"] = EntryOf(p, Paid(c))
    <3>1. Paid(c).state = "Ok" /\ Paid(c).vals = c.vals
      BY <2>4, <2>6
    <3>2. EntryOf(p, Paid(c)) = [type |-> EntryOf(p, c).type, perm |-> EntryOf(p, c).perm,
             rule |-> EntryOf(p, c).rule, state |-> "Ok", vals |-> EntryOf(p, c).vals]
      BY <3>1 DEF EntryOf
    <3>3. EntryOf(p, c) = [type |-> EntryOf(p, c).type, perm |-> EntryOf(p, c).perm,
             rule |-> EntryOf(p, c).rule, state |-> EntryOf(p, c).state, vals |-> EntryOf(p, c).vals]
      BY DEF EntryOf
    <3>4. QED
      BY <3>2, <3>3
  <2>8. EntryOf(p, Paid(c)) # Absent
    BY <1>1, EntryKnown
  <2>9. /\ Applied(m)[p] = EntryOf(p, Paid(c)) /\ DOMAIN Applied(m) = Prop
        /\ \A q \in Prop \ {p} : Applied(m)[q] = store[q]
    BY <1>1, <2>1, <2>3, <2>7
  <2>10. \A q \in Prop : Stored(Applied(m)[q], q, past, payloads)
    BY <1>1, <2>6, <2>9 DEF Stored
  <2>11. QED
    BY <1>1, <1>7, <2>8, <2>9, <2>10 DEF p
<1>8. QED
  BY <1>1, <1>2, <1>3, <1>4, <1>5, <1>6, <1>7

\* What the client receives, and what a torn-down connection loses.
LEMMA ReceiveBase == ASSUME Base, Receive PROVE Base'
<1> DEFINE m == Head(Pend)
<1>1. /\ Hub!Deliver(Peer) /\ store' = Applied(m)
      /\ UNCHANGED <<server, thread, overlap, spent>>
  BY DEF Receive, Pend, Applied
<1>2. Pend \in Seq(Message) /\ Pend # <<>> /\ pending' = [pending EXCEPT ![Peer] = Tail(@)] /\ status' = status
  BY <1>1 DEF Base, Shape, Pend, Hub!Deliver
<1>3. Pend' = Tail(Pend) /\ m = Pend[1] /\ 1 \in DOMAIN Pend /\ Tail(Pend) \in Seq(Message)
  BY <1>2 DEF Base, Shape, Pend
<1>4. Honest(m, past, payloads)
  BY <1>3 DEF Base, AllHonest
<1> HIDE DEF m
<1>5. Shape'
  <2>1. pending' \in [{Peer} -> Seq(Message)]
    BY <1>2, <1>3 DEF Base, Shape, Pend
  <2>2. DOMAIN store' = Prop
    BY <1>1, <1>4, AppliedStored
  <2>3. QED
    BY <1>1, <1>2, <2>1, <2>2 DEF Base, Shape, server, thread
<1>6. \A i \in DOMAIN Pend' : Honest(Pend'[i], past, payloads)
  BY <1>2, <1>3 DEF Base, AllHonest
<1>7. \A p \in Prop : Stored(store'[p], p, past, payloads)
  BY <1>1, <1>4, AppliedStored
<1>8. AllHonest'
  BY <1>1, <1>6, <1>7 DEF Base, AllHonest, Content, server, thread
<1>9. QED
  BY <1>5, <1>8 DEF Base

\* The connection's end loses messages and changes nothing else.
LEMMA DisconnectBase == ASSUME Base, Disconnect PROVE Base'
<1>1. /\ UNCHANGED <<server, thread, store, overlap, spent>>
      /\ status' \in [{Peer} -> {"up", "closing", "cut"}]
      /\ pending' = pending \/ pending' = [pending EXCEPT ![Peer] = <<>>]
  BY DEF Disconnect, Hub!Close, Hub!Cut, Base, Shape
<1>2. pending' \in [{Peer} -> Seq(Message)] /\ (Pend' = Pend \/ Pend' = <<>>)
  <2>1. pending \in [{Peer} -> Seq(Message)] /\ <<>> \in Seq(Message)
    BY DEF Base, Shape
  <2>2. CASE pending' = pending
    BY <2>1, <2>2 DEF Pend
  <2>3. CASE pending' = [pending EXCEPT ![Peer] = <<>>]
    BY <2>1, <2>3 DEF Pend
  <2>4. QED
    BY <1>1, <2>2, <2>3
<1>3. Shape'
  BY <1>1, <1>2 DEF Base, Shape, server, thread
<1>4. AllHonest'
  BY <1>1, <1>2 DEF Base, AllHonest, Content, server, thread
<1>5. QED
  BY <1>3, <1>4 DEF Base

\* The properties begin with one content each, and nothing is said of them.
LEMMA InitBase == Init => Base
<1> SUFFICES ASSUME Init PROVE Base
  OBVIOUS
<1>1. PICK r \in Readings : vals = [p \in Prop |-> <<r, r>>]
  BY DEF Init
<1>2. r \in Int
  BY MirrorAssumption DEF MirrorAssumption
<1>3. <<r, r>> \in Seq(Int)
  BY <1>2
<1>4. vals \in [Prop -> Seq(Int)] /\ state \in [Prop -> States]
  BY <1>1, <1>3 DEF Init, States
<1>5. \A p \in Prop : Content(p) \in Contents
  BY <1>4 DEF Content, Contents
<1>6. past = [p \in Prop |-> {Content(p)}]
  BY DEF Init
<1>7. /\ status = [c \in {Peer} |-> "up"] /\ pending = [c \in {Peer} |-> <<>>]
      /\ pc = [t \in Thread |-> "idle"] /\ jobs = [t \in Thread |-> <<>>]
      /\ msg = [t \in Thread |-> NoMsg] /\ spent = [t \in Thread |-> 0]
      /\ store = [p \in Prop |-> Absent] /\ listed = Prop \ Optional /\ overlap = {}
  BY DEF Init, Hub!Init
<1>8. Pend = <<>> /\ pending \in [{Peer} -> Seq(Message)] /\ jobs \in [Thread -> Seq(Kinds \X Prop)]
  BY <1>7 DEF Pend
<1>9. Shape
  BY <1>4, <1>5, <1>6, <1>7, <1>8 DEF Shape
<1>10. AllHonest
  BY <1>6, <1>7, <1>8 DEF AllHonest, Stored
<1>11. QED
  BY <1>9, <1>10 DEF Base

\* Every step keeps what is on its way and in the store of the past.
LEMMA NextBase == Base /\ [Next]_vars => Base'
<1> SUFFICES ASSUME Base, [Next]_vars PROVE Base'
  OBVIOUS
<1>1. ASSUME NEW p \in Prop, Change(p) \/ List(p) PROVE Base'
  BY <1>1, WorkBase
<1>2. ASSUME NEW p \in Prop, SetState(p) \/ SetValue(p) PROVE Base'
  BY <1>2, SetBase
<1>3. CASE GetProperties
  BY <1>3, GetPropertiesBase
<1>4. ASSUME NEW t \in Thread, Marshal(t) PROVE Base'
  BY <1>4, MarshalBase
<1>10. ASSUME NEW p \in Prop, SendBLOB(p) PROVE Base'
  BY <1>10, SendBLOBBase
<1>5. ASSUME NEW t \in Thread, Offer(t) PROVE Base'
  BY <1>5, OfferBase
<1>6. CASE Receive
  BY <1>6, ReceiveBase
<1>7. CASE Disconnect
  BY <1>7, DisconnectBase
<1>8. CASE UNCHANGED vars
  BY <1>8 DEF vars, server, thread, stream, Base, Shape, AllHonest, Content, Pend
<1>9. QED
  BY <1>1, <1>2, <1>3, <1>4, <1>5, <1>6, <1>7, <1>8, <1>10 DEF Next

\* The base holds for ever.
LEMMA BaseInvariance == Spec => []Base
BY InitBase, NextBase, PTL DEF Spec

\* An entry made of a content shows that content, within the wire's rounding.
LEMMA EntryShows ==
    ASSUME NEW p \in Prop, NEW c \in Contents PROVE Shows(EntryOf(p, c), p, c)
<1> DEFINE e == EntryOf(p, c)
<1>1. /\ e.type = Meta[p].type /\ e.state = c.state /\ e.vals = Sees(p, c.vals)
      /\ e.perm = IF e.type = "Light" THEN "" ELSE Meta[p].perm
      /\ e.rule = IF e.type = "Switch" THEN Meta[p].rule ELSE ""
  BY DEF EntryOf
<1> HIDE DEF e
<1>2. CASE e.type = "BLOB"
  <2>1. Shows(e, p, c)
    BY <1>1, <1>2 DEF Shows, Sees
  <2>2. QED
    BY <2>1 DEF e
<1>3. CASE e.type = "Number"
  <2>1. c.vals \in Seq(Int)
    BY DEF Contents
  <2>2. \A i \in DOMAIN c.vals : e.vals[i] = numVal(c.vals[i]) /\ c.vals[i] \in Int
    <3>1. Sees(p, c.vals) = [i \in DOMAIN c.vals |-> numVal(c.vals[i])]
      BY <1>1, <1>3 DEF Sees, Wire
    <3>2. \A i \in DOMAIN c.vals : c.vals[i] \in Int
      BY <2>1
    <3>3. e.vals = [i \in DOMAIN c.vals |-> numVal(c.vals[i])]
      BY <1>1, <3>1
    <3>4. QED
      BY <3>2, <3>3
  <2>3. \A i \in DOMAIN c.vals : Close(e.vals[i], c.vals[i])
    BY <2>2, Rounded
  <2>4. Shows(e, p, c)
    BY <1>1, <1>3, <2>3 DEF Shows
  <2>5. QED
    BY <2>4 DEF e
<1>4. CASE e.type \notin {"BLOB", "Number"}
  <2>1. Shows(e, p, c)
    BY <1>1, <1>4 DEF Shows, Sees, Wire
  <2>2. QED
    BY <2>1 DEF e
<1>5. QED
  BY <1>2, <1>3, <1>4

\* However the threads that change, define and update a property interleave, whatever
\* a client holds of it is one content that it had, or that with the Ok of a payload:
\* marshalDef and marshalSet (server/xml.go) work on a snapshot, applySet replaces state
\* and members together, and applyBlobMeta takes the state that every payload tells.
THEOREM NeverTorn == Spec => []ViewIsPast
<1>1. Base => ViewIsPast
  <2> SUFFICES ASSUME Base, NEW p \in Prop, store[p] # Absent
               PROVE  \E c \in Told(p) : Shows(store[p], p, c)
    BY DEF ViewIsPast
  <2>1. PICK c \in Heard(p, past, payloads) : store[p] = EntryOf(p, c)
    BY DEF Base, AllHonest, Stored
  <2>2. c \in Contents
    <3>1. past[p] \subseteq Contents
      BY DEF Base, Shape
    <3>2. \A d \in Contents : Paid(d) \in Contents
      BY DEF Paid, Contents, States
    <3>3. QED
      BY <3>1, <3>2 DEF Heard
  <2>3. c \in Told(p)
    BY <2>1 DEF Told, Heard, Paid
  <2>4. QED
    BY <2>1, <2>2, <2>3, EntryShows
<1>2. QED
  BY <1>1, BaseInvariance, PTL

-----------------------------------------------------------------------------
(* What a sequence of messages comes to *)

\* A message that is sent decides for its property.
LEMMA AppendWill ==
    ASSUME NEW q \in Seq(Message), NEW m \in Message, NEW e, NEW p
    PROVE  /\ Is(m, p, {"def"}) => WillHave(Append(q, m), e, p)
           /\ Is(m, p, {"del"}) => ~WillHave(Append(q, m), e, p)
           /\ ~Is(m, p, {"def", "del"}) => (WillHave(Append(q, m), e, p) <=> WillHave(q, e, p))
           /\ \A s, v : Is(m, p, {"def", "set"}) /\ Tells(m, p, s, v)
                        => WillShow(Append(q, m), e, p, s, v)
           /\ \A s, v : ~Is(m, p, {"def", "set"}) /\ WillShow(q, e, p, s, v)
                        => WillShow(Append(q, m), e, p, s, v)
<1> DEFINE a == Append(q, m)
           n == Len(q) + 1
<1>1. /\ n \in Nat /\ DOMAIN q = 1..Len(q) /\ Len(q) \in Nat /\ DOMAIN a = 1..n
      /\ a[n] = m /\ \A i \in DOMAIN q : a[i] = q[i] /\ i < n /\ i \in DOMAIN a
      /\ \A i \in DOMAIN a : i = n \/ i \in DOMAIN q
      /\ n \in DOMAIN a
  OBVIOUS
<1> HIDE DEF a
<1>2. Is(m, p, {"def"}) => WillHave(a, e, p)
  <2>1. Is(m, p, {"def"}) => Is(a[n], p, {"def"}) /\ \A j \in DOMAIN a : ~(j > n)
    BY <1>1
  <2>2. QED
    BY <1>1, <2>1 DEF WillHave
<1>3. Is(m, p, {"del"}) => ~WillHave(a, e, p)
  <2> SUFFICES ASSUME Is(m, p, {"del"}) PROVE ~WillHave(a, e, p)
    OBVIOUS
  <2>1. ~Is(a[n], p, {"def"}) /\ Is(a[n], p, {"del"})
    BY <1>1 DEF Is
  <2>2. \A i \in DOMAIN a : Is(a[i], p, {"def"}) => n > i
    BY <1>1, <2>1
  <2>3. QED
    BY <1>1, <2>1, <2>2 DEF WillHave
<1>4. ~Is(m, p, {"def", "del"}) => (WillHave(a, e, p) <=> WillHave(q, e, p))
  <2> SUFFICES ASSUME ~Is(m, p, {"def", "del"}) PROVE WillHave(a, e, p) <=> WillHave(q, e, p)
    OBVIOUS
  <2>1. ~Is(a[n], p, {"def"}) /\ ~Is(a[n], p, {"del"})
    BY <1>1 DEF Is
  <2>2. \A i \in DOMAIN q : \A k : Is(a[i], p, k) <=> Is(q[i], p, k)
    BY <1>1
  <2>3. ASSUME NEW i \in DOMAIN q
        PROVE  (\A j \in DOMAIN a : j > i => ~Is(a[j], p, {"del"}))
                 <=> (\A j \in DOMAIN q : j > i => ~Is(q[j], p, {"del"}))
    BY <1>1, <2>1, <2>2
  <2>4. (\A j \in DOMAIN a : ~Is(a[j], p, {"del"})) <=> (\A j \in DOMAIN q : ~Is(q[j], p, {"del"}))
    BY <1>1, <2>1, <2>2
  <2>5. QED
    BY <1>1, <2>1, <2>2, <2>3, <2>4 DEF WillHave
<1>5. ASSUME NEW s, NEW v, Is(m, p, {"def", "set"}), Tells(m, p, s, v)
      PROVE  WillShow(a, e, p, s, v)
  <2>1. Is(a[n], p, {"def", "set"}) /\ Tells(a[n], p, s, v)
    BY <1>1, <1>5
  <2>2. \A i \in DOMAIN a : i # n => n > i
    BY <1>1
  <2>3. QED
    BY <1>1, <2>1, <2>2 DEF WillShow
<1>6. ASSUME NEW s, NEW v, ~Is(m, p, {"def", "set"}), WillShow(q, e, p, s, v)
      PROVE  WillShow(a, e, p, s, v)
  <2>1. ~Is(a[n], p, {"def", "set"})
    BY <1>1, <1>6
  <2>2. \A i \in DOMAIN q : a[i] = q[i] /\ i \in DOMAIN a
    BY <1>1
  <2>3. ASSUME NEW i \in DOMAIN a, Is(a[i], p, {"def", "set"}),
               \A j \in DOMAIN a : j > i => ~Is(a[j], p, {"def", "set"})
        PROVE  Tells(a[i], p, s, v)
    <3>1. i \in DOMAIN q
      BY <1>1, <2>1, <2>3
    <3>2. QED
      BY <1>6, <2>2, <2>3, <3>1 DEF WillShow
  <2>4. ASSUME e # Absent, \A j \in DOMAIN a : ~Is(a[j], p, {"def", "set"})
        PROVE  Tells(e, p, s, v)
    BY <1>6, <2>2, <2>4 DEF WillShow
  <2>5. QED
    BY <2>3, <2>4 DEF WillShow
<1>7. QED
  BY <1>2, <1>3, <1>4, <1>5, <1>6 DEF a

\* What the client will have and show does not change by receiving the next message.
LEMMA TailWill ==
    ASSUME NEW q \in Seq(Message), q # <<>>, NEW e, NEW f, NEW p,
           Is(q[1], p, {"def"}) => f # Absent,
           Is(q[1], p, {"del"}) => f = Absent,
           Is(q[1], p, {"set", "blob"}) => (f # Absent <=> e # Absent),
           q[1].prop # p => f = e,
           q[1].kind \in {"def", "set", "del", "blob"}
    PROVE  /\ WillHave(Tail(q), f, p) <=> WillHave(q, e, p)
           /\ ~Is(q[1], p, {"blob"}) => \A s, v :
                /\ Is(q[1], p, {"def", "set"}) /\ f # Absent =>
                     (Tells(f, p, s, v) <=> Tells(q[1], p, s, v))
                /\ WillShow(q, e, p, s, v)
                => WillShow(Tail(q), f, p, s, v)
<1> DEFINE r == Tail(q)
<1>1. /\ Len(q) \in Nat /\ Len(q) >= 1 /\ DOMAIN q = 1..Len(q) /\ DOMAIN r = 1..(Len(q) - 1)
      /\ \A i \in DOMAIN r : r[i] = q[i + 1] /\ i + 1 \in DOMAIN q /\ i \in Nat /\ 1 < i + 1
      /\ \A i \in DOMAIN q : i = 1 \/ (i - 1 \in DOMAIN r /\ r[i - 1] = q[i])
      /\ 1 \in DOMAIN q
  OBVIOUS
<1> HIDE DEF r
<1>2. \A k : (\A j \in DOMAIN r : ~Is(r[j], p, k)) <=> (\A j \in DOMAIN q : j > 1 => ~Is(q[j], p, k))
  <2> TAKE k
  <2>1. ASSUME \A j \in DOMAIN r : ~Is(r[j], p, k), NEW j \in DOMAIN q, j > 1 PROVE ~Is(q[j], p, k)
    BY <1>1, <2>1
  <2>2. ASSUME \A j \in DOMAIN q : j > 1 => ~Is(q[j], p, k), NEW j \in DOMAIN r PROVE ~Is(r[j], p, k)
    BY <1>1, <2>2
  <2>3. QED
    BY <2>1, <2>2
<1>3. \A k : \A i \in DOMAIN r :
         (\A j \in DOMAIN r : j > i => ~Is(r[j], p, k))
           <=> (\A j \in DOMAIN q : j > i + 1 => ~Is(q[j], p, k))
  <2> TAKE k
  <2> TAKE i \in DOMAIN r
  <2>1. ASSUME \A j \in DOMAIN r : j > i => ~Is(r[j], p, k), NEW j \in DOMAIN q, j > i + 1
        PROVE  ~Is(q[j], p, k)
    <3>1. j - 1 \in DOMAIN r /\ r[j - 1] = q[j] /\ j - 1 > i
      BY <1>1, <2>1
    <3>2. QED
      BY <2>1, <3>1
  <2>2. ASSUME \A j \in DOMAIN q : j > i + 1 => ~Is(q[j], p, k), NEW j \in DOMAIN r, j > i
        PROVE  ~Is(r[j], p, k)
    <3>1. j + 1 \in DOMAIN q /\ r[j] = q[j + 1] /\ j + 1 > i + 1
      BY <1>1, <2>2
    <3>2. QED
      BY <2>2, <3>1
  <2>3. QED
    BY <2>1, <2>2
<1>4. WillHave(r, f, p) <=> WillHave(q, e, p)
  <2> DEFINE None(s) == \A j \in DOMAIN s : ~Is(s[j], p, {"del"})
             Comes(s) == \E i \in DOMAIN s : /\ Is(s[i], p, {"def"})
                                             /\ \A j \in DOMAIN s : j > i => ~Is(s[j], p, {"del"})
  <2>1. Comes(q) <=> Comes(r) \/ (Is(q[1], p, {"def"}) /\ None(r))
    <3>1. ASSUME Comes(q) PROVE Comes(r) \/ (Is(q[1], p, {"def"}) /\ None(r))
      <4>1. PICK i \in DOMAIN q : /\ Is(q[i], p, {"def"})
                                  /\ \A j \in DOMAIN q : j > i => ~Is(q[j], p, {"del"})
        BY <3>1
      <4>2. CASE i = 1
        BY <1>2, <4>1, <4>2
      <4>3. CASE i # 1
        <5>1. i - 1 \in DOMAIN r /\ r[i - 1] = q[i] /\ (i - 1) + 1 = i
          BY <1>1, <4>3
        <5>2. \A j \in DOMAIN r : j > i - 1 => ~Is(r[j], p, {"del"})
          BY <1>3, <4>1, <5>1
        <5>3. QED
          BY <4>1, <5>1, <5>2
      <4>4. QED
        BY <4>2, <4>3
    <3>2. ASSUME Comes(r) PROVE Comes(q)
      <4>1. PICK i \in DOMAIN r : /\ Is(r[i], p, {"def"})
                                  /\ \A j \in DOMAIN r : j > i => ~Is(r[j], p, {"del"})
        BY <3>2
      <4>2. i + 1 \in DOMAIN q /\ Is(q[i + 1], p, {"def"})
        BY <1>1, <4>1
      <4>3. \A j \in DOMAIN q : j > i + 1 => ~Is(q[j], p, {"del"})
        BY <1>3, <4>1
      <4>4. QED
        BY <4>2, <4>3
    <3>3. ASSUME Is(q[1], p, {"def"}), None(r) PROVE Comes(q)
      BY <1>1, <1>2, <3>3
    <3>4. QED
      BY <3>1, <3>2, <3>3
  <2>2. None(q) <=> None(r) /\ ~Is(q[1], p, {"del"})
    <3>1. \A j \in DOMAIN q : j = 1 \/ j > 1
      BY <1>1
    <3>2. QED
      BY <1>1, <1>2, <3>1
  <2>3. q[1].prop = p => Is(q[1], p, {"def"}) \/ Is(q[1], p, {"set", "blob"}) \/ Is(q[1], p, {"del"})
    BY DEF Is
  <2>4. /\ q[1].prop # p => ~Is(q[1], p, {"def"}) /\ ~Is(q[1], p, {"del"})
        /\ Is(q[1], p, {"set", "blob"}) => ~Is(q[1], p, {"def"}) /\ ~Is(q[1], p, {"del"})
        /\ Is(q[1], p, {"def"}) => ~Is(q[1], p, {"del"})
    BY DEF Is
  <2>5. WillHave(q, e, p) <=> Comes(q) \/ (e # Absent /\ None(q))
    BY DEF WillHave
  <2>6. WillHave(r, f, p) <=> Comes(r) \/ (f # Absent /\ None(r))
    BY DEF WillHave
  <2> HIDE DEF None, Comes
  <2>7. QED
    BY <2>1, <2>2, <2>3, <2>4, <2>5, <2>6
<1>5. ASSUME NEW s, NEW v, WillShow(q, e, p, s, v), ~Is(q[1], p, {"blob"}),
             Is(q[1], p, {"def", "set"}) /\ f # Absent => (Tells(f, p, s, v) <=> Tells(q[1], p, s, v))
      PROVE  WillShow(r, f, p, s, v)
  <2>1. ASSUME NEW i \in DOMAIN r, Is(r[i], p, {"def", "set"}),
               \A j \in DOMAIN r : j > i => ~Is(r[j], p, {"def", "set"})
        PROVE  Tells(r[i], p, s, v)
    <3>1. i + 1 \in DOMAIN q /\ r[i] = q[i + 1]
      BY <1>1
    <3>2. \A j \in DOMAIN q : j > i + 1 => ~Is(q[j], p, {"def", "set"})
      BY <1>3, <2>1
    <3>3. QED
      BY <1>5, <2>1, <3>1, <3>2 DEF WillShow
  <2>2. ASSUME f # Absent, \A j \in DOMAIN r : ~Is(r[j], p, {"def", "set"})
        PROVE  Tells(f, p, s, v)
    <3>1. \A j \in DOMAIN q : j > 1 => ~Is(q[j], p, {"def", "set"})
      BY <1>2, <2>2
    <3>2. CASE Is(q[1], p, {"def", "set"})
      BY <1>1, <1>5, <2>2, <3>1, <3>2 DEF WillShow
    <3>3. CASE ~Is(q[1], p, {"def", "set"})
      <4>1. q[1].prop # p
        BY <1>5, <2>2, <3>3 DEF Is
      <4>2. \A j \in DOMAIN q : ~Is(q[j], p, {"def", "set"})
        <5>1. \A j \in DOMAIN q : j = 1 \/ j > 1
          BY <1>1
        <5>2. QED
          BY <3>1, <3>3, <5>1
      <4>3. QED
        BY <1>5, <2>2, <4>1, <4>2 DEF WillShow
    <3>4. QED
      BY <3>2, <3>3
  <2>3. QED
    BY <2>1, <2>2 DEF WillShow
<1>6. QED
  BY <1>4, <1>5 DEF r

-----------------------------------------------------------------------------
(* The driver's jobs *)

\* A change is three jobs, of which the last is due until it is taken; everything else
\* is one.
LEMMA OrderedHead ==
    ASSUME NEW js \in Seq(Kinds \X Prop), js # <<>>, Ordered(js)
    PROVE  /\ Ordered(Tail(js))
           /\ Head(js)[1] \in {"state", "value"} =>
                Ends(js) = <<"set", Head(js)[2]>> /\ Ends(Tail(js)) = Ends(js)
           /\ Head(js)[1] \notin {"state", "value"} => Ends(js) = Head(js) /\ Tail(js) = <<>>
<1>1. /\ Len(js) \in Nat /\ Len(js) >= 1 /\ Head(js) = js[1] /\ DOMAIN js = 1..Len(js)
      /\ Len(Tail(js)) = Len(js) - 1 /\ DOMAIN Tail(js) = 1..(Len(js) - 1)
      /\ \A i \in 1..(Len(js) - 1) : Tail(js)[i] = js[i + 1] /\ i + 1 \in DOMAIN js
  OBVIOUS
<1>2. Ordered(Tail(js))
  <2> SUFFICES ASSUME NEW i \in DOMAIN Tail(js)
               PROVE  IF Tail(js)[i][1] \in {"state", "value"}
                      THEN i < Len(Tail(js)) /\ Tail(js)[Len(Tail(js))] = <<"set", Tail(js)[i][2]>>
                      ELSE i = Len(Tail(js))
    BY DEF Ordered
  <2>1. i \in 1..(Len(js) - 1) /\ Tail(js)[i] = js[i + 1] /\ i + 1 \in DOMAIN js
    BY <1>1
  <2>2. CASE Tail(js)[i][1] \in {"state", "value"}
    <3>1. i + 1 < Len(js) /\ js[Len(js)] = <<"set", js[i + 1][2]>>
      BY <2>1, <2>2 DEF Ordered
    <3>2. Tail(js)[Len(js) - 1] = js[(Len(js) - 1) + 1]
      BY <1>1, <2>1, <3>1
    <3>3. (Len(js) - 1) + 1 = Len(js) /\ i < Len(js) - 1
      BY <1>1, <2>1, <3>1
    <3>4. QED
      BY <1>1, <2>1, <2>2, <3>1, <3>2, <3>3
  <2>3. CASE Tail(js)[i][1] \notin {"state", "value"}
    <3>1. i + 1 = Len(js)
      BY <2>1, <2>3 DEF Ordered
    <3>2. QED
      BY <1>1, <2>1, <2>3, <3>1
  <2>4. QED
    BY <2>2, <2>3
<1>3. ASSUME Head(js)[1] \in {"state", "value"}
      PROVE  Ends(js) = <<"set", Head(js)[2]>> /\ Ends(Tail(js)) = Ends(js)
  <2>1. 1 < Len(js) /\ js[Len(js)] = <<"set", Head(js)[2]>>
    BY <1>1, <1>3 DEF Ordered
  <2>2. Tail(js)[Len(js) - 1] = js[(Len(js) - 1) + 1] /\ (Len(js) - 1) + 1 = Len(js)
    BY <1>1, <2>1
  <2>3. Tail(js) # <<>>
    <3>1. 1 \in DOMAIN Tail(js)
      BY <1>1, <2>1
    <3>2. 1 \notin DOMAIN <<>>
      OBVIOUS
    <3>3. QED
      BY <3>1, <3>2, Zenon
  <2>4. QED
    BY <1>1, <2>1, <2>2, <2>3 DEF Ends
<1>4. ASSUME Head(js)[1] \notin {"state", "value"}
      PROVE  Ends(js) = Head(js) /\ Tail(js) = <<>>
  <2>1. Len(js) = 1
    BY <1>1, <1>4 DEF Ordered
  <2>2. QED
    BY <1>1, <2>1 DEF Ends
<1>5. QED
  BY <1>2, <1>3, <1>4

-----------------------------------------------------------------------------
(* The steps keep what the client will come to *)

Settling == Work /\ ListedFirst /\ Convergent

\* A driver that has nothing to do begins: what it is to end with is due.
LEMMA DriverBegins ==
    ASSUME Base, NEW js \in Seq(Kinds \X Prop), Begin("driver", js), UNCHANGED <<pc, msg>>
    PROVE  /\ Due = <<"none", "none">> /\ Due' = Ends(js)
           /\ \A t \in Thread, q \in Prop : \A ks : Offers(t, q, ks)' <=> Offers(t, q, ks)
           /\ \A q \in Prop : (Owed(q)' <=> Owed(q)) /\ ~Offers("driver", q, Kinds)
                              /\ ~Offers("driver", q, {"def"}) /\ ~Offers("driver", q, {"del"})
           /\ spent'["reader"] = spent["reader"] /\ jobs'["reader"] = jobs["reader"]
           /\ jobs'["driver"] = js /\ pc["driver"] = "idle"
<1>1. /\ pc["driver"] = "idle" /\ jobs["driver"] = <<>> /\ jobs'["driver"] = js
      /\ jobs'["reader"] = jobs["reader"] /\ spent'["reader"] = spent["reader"]
  BY DEF Begin, Base, Shape, Thread
<1>2. Due = <<"none", "none">> /\ Due' = Ends(js)
  BY <1>1 DEF Due, Ends
<1>3. \A q \in Prop : Owed(q)' <=> Owed(q)
  BY <1>1 DEF Owed, ToSet
<1>4. QED
  BY <1>1, <1>2, <1>3 DEF Offers

\* A change that begins makes its property's update due.
LEMMA ChangeSettling == ASSUME Base, Settling, NEW p \in Prop, Change(p) PROVE Settling'
<1> DEFINE js == << <<"state", p>>, <<"value", p>>, <<"set", p>> >>
<1>1. js \in Seq(Kinds \X Prop) /\ Ordered(js) /\ Ends(js) = <<"set", p>>
  BY DEF Kinds, Ordered, Ends
<1>2. /\ Begin("driver", js)
      /\ UNCHANGED <<listed, state, vals, past, pc, msg, status, pending, store, overlap>>
  BY DEF Change, server, stream
<1> HIDE DEF js
<1>3. /\ Due = <<"none", "none">> /\ Due' = <<"set", p>>
      /\ \A t \in Thread, q \in Prop : \A ks : Offers(t, q, ks)' <=> Offers(t, q, ks)
      /\ \A q \in Prop : Owed(q)' <=> Owed(q)
      /\ spent'["reader"] = spent["reader"] /\ jobs'["reader"] = jobs["reader"]
      /\ jobs'["driver"] = js /\ pc["driver"] = "idle"
  BY <1>1, <1>2, DriverBegins
<1>4. Work'
  BY <1>1, <1>2, <1>3 DEF Settling, Work
<1>5. \A q \in Prop : (Defining(q)' <=> Defining(q)) /\ (Deleting(q)' <=> Deleting(q))
  BY <1>3 DEF Defining, Deleting, Thread
<1>6. ListedFirst'
  BY <1>2, <1>5 DEF Settling, ListedFirst
<1>7. \A q \in Prop : Promised(q)' <=> Promised(q)
  BY <1>2, <1>3, <1>5 DEF Promised, Pend, Thread
<1>8. OneAtATime'
  BY <1>2, <1>3 DEF Settling, Convergent, OneAtATime, Thread
<1>9. status[Peer] = "up" => HasListed'
  BY <1>2, <1>3, <1>5, <1>7 DEF Settling, Convergent, HasListed
<1>10. status[Peer] = "up" => ShowsCurrent'
  <2>1. \A q \in Prop : WillShow(Pend, store[q], q, state[q], vals[q])'
                           <=> WillShow(Pend, store[q], q, state[q], vals[q])
    BY <1>2 DEF Pend
  <2>2. QED
    BY <1>2, <1>3, <2>1 DEF Settling, Convergent, ShowsCurrent
<1>11. QED
  BY <1>2, <1>4, <1>6, <1>8, <1>9, <1>10 DEF Settling, Convergent

\* A property that is listed is to be defined, and one that is delisted to be deleted.
LEMMA ListSettling == ASSUME Base, Settling, NEW p \in Prop, List(p) PROVE Settling'
<1> DEFINE k  == IF p \in listed THEN "del" ELSE "def"
           js == << <<k, p>> >>
<1>1. js \in Seq(Kinds \X Prop) /\ Ordered(js) /\ Ends(js) = <<k, p>>
  BY DEF Kinds, Ordered, Ends
<1>2. /\ Begin("driver", js)
      /\ listed' = IF p \in listed THEN listed \ {p} ELSE listed \cup {p}
      /\ UNCHANGED <<state, vals, past, pc, msg, status, pending, store, overlap>>
  BY DEF List, stream
<1>3. k \in {"def", "del"} /\ (k = "def" <=> p \in listed') /\ \A q \in Prop \ {p} : q \in listed' <=> q \in listed
  BY <1>2
<1> HIDE DEF js, k
<1>4. /\ Due = <<"none", "none">> /\ Due' = <<k, p>>
      /\ \A t \in Thread, q \in Prop : \A ks : Offers(t, q, ks)' <=> Offers(t, q, ks)
      /\ \A q \in Prop : (Owed(q)' <=> Owed(q)) /\ ~Offers("driver", q, Kinds)
                         /\ ~Offers("driver", q, {"def"}) /\ ~Offers("driver", q, {"del"})
      /\ spent'["reader"] = spent["reader"] /\ jobs'["reader"] = jobs["reader"]
      /\ jobs'["driver"] = js /\ pc["driver"] = "idle"
  BY <1>1, <1>2, DriverBegins
<1>5. Work'
  BY <1>1, <1>2, <1>4 DEF Settling, Work
<1>6. \A q \in Prop : /\ ~Defining(q) /\ ~Deleting(q)
                      /\ Defining(q)' <=> (q = p /\ k = "def")
                      /\ Deleting(q)' <=> (q = p /\ k = "del")
  BY <1>3, <1>4 DEF Defining, Deleting, Thread
<1>7. ListedFirst'
  BY <1>3, <1>6 DEF ListedFirst
<1>8. \A q \in Prop : Promised(q)' <=> Promised(q) \/ Defining(q)'
  BY <1>2, <1>4, <1>6 DEF Promised, Pend, Thread
<1>9. OneAtATime'
  BY <1>2, <1>4 DEF Settling, Convergent, OneAtATime, Thread
<1>10. status[Peer] = "up" => HasListed'
  BY <1>2, <1>3, <1>4, <1>6, <1>8 DEF Settling, Convergent, HasListed
<1>11. status[Peer] = "up" => ShowsCurrent'
  <2>1. \A q \in Prop : WillShow(Pend, store[q], q, state[q], vals[q])'
                           <=> WillShow(Pend, store[q], q, state[q], vals[q])
    BY <1>2 DEF Pend
  <2>2. QED
    BY <1>2, <1>4, <2>1 DEF Settling, Convergent, ShowsCurrent
<1>12. QED
  BY <1>2, <1>5, <1>7, <1>9, <1>10, <1>11 DEF Settling, Convergent

\* A property changes only while its update is due.
LEMMA SetSettling == ASSUME Base, Settling, NEW p \in Prop, SetState(p) \/ SetValue(p) PROVE Settling'
<1> DEFINE js == jobs["driver"]
<1>1. /\ js # <<>> /\ Head(js)[1] \in {"state", "value"} /\ Head(js)[2] = p
      /\ jobs' = [jobs EXCEPT !["driver"] = Tail(@)]
      /\ UNCHANGED <<listed, pc, msg, status, pending, store, overlap, spent>>
      /\ \A q \in Prop \ {p} : state'[q] = state[q] /\ vals'[q] = vals[q]
  BY DEF SetState, SetValue, stream, Base, Shape
<1>2. js \in Seq(Kinds \X Prop) /\ jobs'["driver"] = Tail(js) /\ jobs'["reader"] = jobs["reader"]
  BY <1>1 DEF Base, Shape, Thread
<1>3. Ordered(Tail(js)) /\ Due = <<"set", p>> /\ Due' = <<"set", p>>
  <2>1. Ordered(js)
    BY DEF Settling, Work
  <2>2. Ends(js) = <<"set", p>> /\ Ends(Tail(js)) = Ends(js) /\ Ordered(Tail(js))
    BY <1>1, <1>2, <2>1, OrderedHead
  <2>3. QED
    BY <1>2, <2>2 DEF Due
<1>4. \A t \in Thread, q \in Prop : \A ks : Offers(t, q, ks)' <=> Offers(t, q, ks)
  BY <1>1 DEF Offers
<1>5. \A q \in Prop : Owed(q)' <=> Owed(q)
  BY <1>2 DEF Owed, ToSet
<1>6. Work'
  <2>1. pc["driver"] # "offer"
    BY <1>1 DEF Settling, Work
  <2>2. QED
    BY <1>1, <1>2, <1>3, <2>1 DEF Settling, Work
<1> HIDE DEF js
<1>7. \A q \in Prop : (Defining(q)' <=> Defining(q)) /\ (Deleting(q)' <=> Deleting(q))
  BY <1>3, <1>4 DEF Defining, Deleting, Thread
<1>8. ListedFirst'
  BY <1>1, <1>7 DEF Settling, ListedFirst
<1>9. \A q \in Prop : Promised(q)' <=> Promised(q)
  BY <1>1, <1>4, <1>5, <1>7 DEF Promised, Pend, Thread
<1>10. OneAtATime'
  BY <1>1, <1>4, <1>5 DEF Settling, Convergent, OneAtATime, Thread
<1>11. status[Peer] = "up" => HasListed'
  BY <1>1, <1>7, <1>9 DEF Settling, Convergent, HasListed
<1>12. status[Peer] = "up" => ShowsCurrent'
  <2> SUFFICES ASSUME status[Peer] = "up", NEW q \in Prop \ overlap, Due' # <<"set", q>>, Meta[q].type # "BLOB"
               PROVE  /\ \A t \in Thread : Offers(t, q, {"def", "set"})' => Tells(msg'[t], q, state'[q], vals'[q])
                      /\ (\A t \in Thread : ~Offers(t, q, {"def", "set"})')
                           => WillShow(Pend', store'[q], q, state'[q], vals'[q])
    BY <1>1 DEF ShowsCurrent
  <2>1. q # p /\ Due # <<"set", q>>
    BY <1>3
  <2>2. /\ state'[q] = state[q] /\ vals'[q] = vals[q] /\ msg' = msg /\ Pend' = Pend /\ store' = store
    BY <1>1, <2>1 DEF Pend
  <2>3. QED
    BY <1>4, <2>1, <2>2 DEF Settling, Convergent, ShowsCurrent
<1>13. QED
  BY <1>1, <1>6, <1>8, <1>10, <1>11, <1>12 DEF Settling, Convergent

\* A payload says nothing of whether its vector is there.
LEMMA SendBLOBSettling == ASSUME Base, Settling, NEW p \in Prop, SendBLOB(p) PROVE Settling'
<1>1. /\ pc["driver"] = "idle" /\ Begin("driver", <<>>)
      /\ msg' = [msg EXCEPT !["driver"] = blobSetXML(p)]
      /\ pc' = [pc EXCEPT !["driver"] = "offer"]
      /\ UNCHANGED <<listed, state, vals, status, pending, store, overlap>>
  BY DEF SendBLOB, stream
<1>2. /\ jobs' = jobs /\ jobs["driver"] = <<>> /\ spent'["reader"] = spent["reader"]
  BY <1>1 DEF Begin, Base, Shape, Thread
<1>3. /\ msg'["driver"].kind = "blob" /\ msg'["reader"] = msg["reader"]
      /\ pc'["reader"] = pc["reader"]
  BY <1>1 DEF blobSetXML, Base, Shape, Thread
<1>4. \A t \in Thread, q \in Prop : \A ks : "blob" \notin ks => (Offers(t, q, ks)' <=> Offers(t, q, ks))
  BY <1>1, <1>3 DEF Offers, Is, Thread
<1>5. \A t \in Thread, q \in Prop :
        /\ Offers(t, q, Kinds)' <=> Offers(t, q, Kinds)
        /\ Offers(t, q, {"def"})' <=> Offers(t, q, {"def"})
        /\ Offers(t, q, {"del"})' <=> Offers(t, q, {"del"})
        /\ Offers(t, q, {"def", "set"})' <=> Offers(t, q, {"def", "set"})
  BY <1>4 DEF Kinds
<1>6. Due' = Due /\ \A q \in Prop : Owed(q)' <=> Owed(q)
  BY <1>2 DEF Due, Owed
<1>7. \A q \in Prop : (Defining(q)' <=> Defining(q)) /\ (Deleting(q)' <=> Deleting(q))
  BY <1>5, <1>6 DEF Defining, Deleting, Thread
<1>8. Work' /\ ListedFirst'
  <2>1. Work'
    BY <1>2, <1>3 DEF Settling, Work
  <2>2. ListedFirst'
    BY <1>1, <1>7 DEF Settling, ListedFirst
  <2>3. QED
    BY <2>1, <2>2
<1>9. OneAtATime'
  BY <1>1, <1>5, <1>6 DEF Settling, Convergent, OneAtATime, Thread
<1>10. status[Peer] = "up" => HasListed'
  <2>1. \A q \in Prop : Promised(q)' <=> Promised(q)
    BY <1>1, <1>5, <1>6, <1>7 DEF Promised, Pend, Thread
  <2>2. QED
    BY <1>1, <1>2, <1>7, <2>1 DEF Settling, Convergent, HasListed
<1>11. status[Peer] = "up" => ShowsCurrent'
  <2> SUFFICES ASSUME status[Peer] = "up", NEW q \in Prop \ overlap, Due # <<"set", q>>, Meta[q].type # "BLOB"
               PROVE  /\ \A t \in Thread : Offers(t, q, {"def", "set"})' => Tells(msg'[t], q, state[q], vals[q])
                      /\ (\A t \in Thread : ~Offers(t, q, {"def", "set"})')
                           => WillShow(Pend', store[q], q, state[q], vals[q])
    BY <1>1, <1>6 DEF ShowsCurrent
  <2>1. /\ \A t \in Thread : Offers(t, q, {"def", "set"}) => Tells(msg[t], q, state[q], vals[q])
        /\ (\A t \in Thread : ~Offers(t, q, {"def", "set"}))
             => WillShow(Pend, store[q], q, state[q], vals[q])
    BY DEF Settling, Convergent, ShowsCurrent
  <2>2. \A t \in Thread : Offers(t, q, {"def", "set"}) => msg'[t] = msg[t]
    BY <1>1, <1>3 DEF Offers, Thread
  <2>3. Pend' = Pend
    BY <1>1 DEF Pend
  <2>4. QED
    BY <1>5, <2>1, <2>2, <2>3
<1>12. QED
  BY <1>1, <1>8, <1>9, <1>10, <1>11 DEF Settling, Convergent

\* The read loop owes exactly what is listed.
LEMMA GetPropertiesSettling == ASSUME Base, Settling, GetProperties PROVE Settling'
<1> DEFINE all == SetToSeq(listed)
           js  == [i \in DOMAIN all |-> <<"def", all[i]>>]
<1>1. js \in Seq(Kinds \X Prop) /\ ToSet(js) = {<<"def", p>> : p \in listed}
  BY AllListed DEF Base
<1>2. /\ Begin("reader", js)
      /\ UNCHANGED <<listed, state, vals, pc, msg, status, pending, store, overlap>>
  BY DEF GetProperties, server, stream
<1>3. \A i \in DOMAIN js : js[i][1] = "def"
  OBVIOUS
<1> HIDE DEF js
<1>4. /\ pc["reader"] = "idle" /\ jobs["reader"] = <<>> /\ jobs'["reader"] = js
      /\ jobs'["driver"] = jobs["driver"]
  BY <1>2 DEF Begin, Base, Shape, Thread
<1>5. Due' = Due
  BY <1>4 DEF Due
<1>6. \A t \in Thread, q \in Prop : \A ks : Offers(t, q, ks)' <=> Offers(t, q, ks)
  BY <1>2 DEF Offers
<1>7. \A q \in Prop : ~Owed(q) /\ (Owed(q)' <=> q \in listed)
  <2>1. ToSet(<<>>) = {}
    BY DEF ToSet
  <2>2. QED
    BY <1>1, <1>4, <2>1 DEF Owed
<1>8. Work'
  BY <1>2, <1>3, <1>4 DEF Settling, Work
<1>9. \A q \in Prop : (Defining(q)' <=> Defining(q)) /\ (Deleting(q)' <=> Deleting(q))
  BY <1>5, <1>6 DEF Defining, Deleting, Thread
<1>10. ListedFirst'
  BY <1>2, <1>9 DEF Settling, ListedFirst
<1>11. \A q \in Prop : Promised(q)' <=> Promised(q) \/ q \in listed
  BY <1>2, <1>6, <1>7, <1>9 DEF Promised, Pend, Thread
<1>12. OneAtATime'
  <2>1. \A q \in Prop : Offers("driver", q, {"del"}) => q \notin listed
    BY DEF Settling, ListedFirst, Deleting
  <2>2. QED
    BY <1>2, <1>6, <1>7, <2>1 DEF Settling, Convergent, OneAtATime, Thread
<1>13. status[Peer] = "up" => HasListed'
  BY <1>2, <1>9, <1>11 DEF Settling, Convergent, HasListed
<1>14. status[Peer] = "up" => ShowsCurrent'
  <2>1. \A q \in Prop : WillShow(Pend, store[q], q, state[q], vals[q])'
                           <=> WillShow(Pend, store[q], q, state[q], vals[q])
    BY <1>2 DEF Pend
  <2>2. QED
    BY <1>2, <1>5, <1>6, <2>1 DEF Settling, Convergent, ShowsCurrent
<1>15. QED
  BY <1>2, <1>8, <1>10, <1>12, <1>13, <1>14 DEF Settling, Convergent

\* The job that a thread takes next.
JKind(t) == Head(jobs[t])[1]
JProp(t) == Head(jobs[t])[2]
Spoken(t) == ~(JKind(t) = "set" /\ Meta[JProp(t)].type = "BLOB")

\* What marshalling changes, for either thread.
LEMMA MarshalWork ==
    ASSUME Base, Settling, NEW t \in Thread, Marshal(t)
    PROVE  /\ /\ JProp(t) \in Prop /\ JKind(t) \in {"def", "set", "del"}
              /\ Head(jobs[t]) = <<JKind(t), JProp(t)>> /\ (t = "reader" => JKind(t) = "def")
              /\ jobs[t] \in Seq(Kinds \X Prop) /\ jobs[t] # <<>> /\ jobs'[t] = Tail(jobs[t])
           /\ \A u \in Thread \ {t} : /\ jobs'[u] = jobs[u] /\ msg'[u] = msg[u] /\ pc'[u] = pc[u]
                                      /\ \A q \in Prop : \A ks : Offers(u, q, ks)' <=> Offers(u, q, ks)
           /\ \A q \in Prop : \A ks :
                /\ ~Offers(t, q, ks)
                /\ Offers(t, q, ks)' <=> q = JProp(t) /\ JKind(t) \in ks /\ Spoken(t)
           /\ pc'[t] = "offer" => msg'[t].kind = JKind(t)
           /\ Spoken(t) /\ JKind(t) # "del" => Tells(msg'[t], JProp(t), state[JProp(t)], vals[JProp(t)])
           /\ overlap \subseteq overlap'
           /\ JProp(t) \notin overlap' => ~Overlaps(t, JKind(t), JProp(t))
           /\ UNCHANGED <<listed, state, vals, status, pending, store, spent>>
<1> DEFINE kind == JKind(t)
           p    == JProp(t)
           m    == Marshalled(kind, p)
<1>1. /\ pc[t] = "idle" /\ jobs[t] # <<>> /\ kind \in {"def", "set", "del"}
      /\ msg' = [msg EXCEPT ![t] = m]
      /\ pc' = [pc EXCEPT ![t] = IF m = NoMsg THEN "idle" ELSE "offer"]
      /\ overlap' = IF Overlaps(t, kind, p) THEN overlap \cup {p} ELSE overlap
      /\ jobs' = [jobs EXCEPT ![t] = Tail(@)]
      /\ UNCHANGED <<listed, state, vals, status, pending, store, spent>>
  BY DEF Marshal, server, stream, JKind, JProp
<1>2. /\ jobs[t] \in Seq(Kinds \X Prop) /\ Head(jobs[t]) \in Kinds \X Prop
      /\ Head(jobs[t]) = jobs[t][1] /\ 1 \in DOMAIN jobs[t]
  BY <1>1 DEF Base, Shape
<1>3. p \in Prop /\ (t = "reader" => kind = "def") /\ Head(jobs[t]) = <<kind, p>>
  BY <1>2 DEF Settling, Work, JKind, JProp
<1>4. jobs'[t] = Tail(jobs[t]) /\ \A u \in Thread \ {t} : jobs'[u] = jobs[u]
  BY <1>1 DEF Base, Shape
<1> HIDE DEF kind, p
<1>5. m = NoMsg <=> kind = "set" /\ Meta[p].type = "BLOB"
  BY <1>1, <1>3, MarshalNone
<1>6. m # NoMsg => /\ m.prop = p /\ m.kind = kind
                   /\ kind # "del" => Tells(m, p, state[p], vals[p])
  BY <1>1, <1>3, MarshalMade DEF Is
<1> HIDE DEF m
<1>7. /\ msg'[t] = m /\ pc'[t] = (IF m = NoMsg THEN "idle" ELSE "offer")
      /\ \A u \in Thread \ {t} : msg'[u] = msg[u] /\ pc'[u] = pc[u]
  BY <1>1 DEF Base, Shape
<1>8. \A q \in Prop : \A ks : ~Offers(t, q, ks)
  BY <1>1 DEF Offers
<1>9. Spoken(t) <=> m # NoMsg
  BY <1>5 DEF Spoken, kind, p
<1>10. \A q \in Prop : \A ks : Offers(t, q, ks)' <=> q = p /\ kind \in ks /\ Spoken(t)
  BY <1>6, <1>7, <1>9 DEF Offers, Is
<1>11. \A u \in Thread \ {t}, q \in Prop : \A ks : Offers(u, q, ks)' <=> Offers(u, q, ks)
  BY <1>7 DEF Offers
<1>12. pc'[t] = "offer" => msg'[t].kind = kind
  BY <1>6, <1>7
<1>13. Spoken(t) /\ kind # "del" => Tells(msg'[t], p, state[p], vals[p])
  BY <1>6, <1>7, <1>9
<1>14. QED
  BY <1>1, <1>2, <1>3, <1>4, <1>7, <1>8, <1>10, <1>11, <1>12, <1>13 DEF kind, p

\* The driver's message: if another is under way its property is in overlap, and else
\* it tells how the property is.
LEMMA DriverMarshals == ASSUME Base, Settling, Marshal("driver") PROVE Settling'
<1> DEFINE kind == JKind("driver")
           p    == JProp("driver")
<1>1. "driver" \in Thread /\ "reader" \in Thread \ {"driver"} /\ Thread = {"driver", "reader"}
  BY DEF Thread
<1>2. /\ p \in Prop /\ kind \in {"def", "set", "del"} /\ Head(jobs["driver"]) = <<kind, p>>
      /\ jobs["driver"] \in Seq(Kinds \X Prop) /\ jobs["driver"] # <<>>
      /\ jobs'["driver"] = Tail(jobs["driver"])
  BY <1>1, MarshalWork
<1>3. /\ jobs'["reader"] = jobs["reader"] /\ msg'["reader"] = msg["reader"] /\ pc'["reader"] = pc["reader"]
      /\ \A q \in Prop : \A ks : Offers("reader", q, ks)' <=> Offers("reader", q, ks)
  BY <1>1, MarshalWork
<1>4. \A q \in Prop : \A ks : /\ ~Offers("driver", q, ks)
                              /\ Offers("driver", q, ks)' <=> q = p /\ kind \in ks /\ Spoken("driver")
  BY <1>1, MarshalWork
<1>5. /\ overlap \subseteq overlap' /\ (p \notin overlap' => ~Overlaps("driver", kind, p))
      /\ Spoken("driver") /\ kind # "del" => Tells(msg'["driver"], p, state[p], vals[p])
      /\ UNCHANGED <<listed, state, vals, status, pending, store, spent>>
  BY <1>1, MarshalWork
<1>6. jobs'["driver"] = <<>> /\ Due = <<kind, p>> /\ Due' = <<"none", "none">>
  <2>1. Ordered(jobs["driver"])
    BY DEF Settling, Work
  <2>2. Ends(jobs["driver"]) = <<kind, p>> /\ Tail(jobs["driver"]) = <<>>
    BY <1>2, <2>1, OrderedHead
  <2>3. QED
    BY <1>2, <2>2 DEF Due, Ends
<1> HIDE DEF kind, p
<1>7. \A q \in Prop : Owed(q)' <=> Owed(q)
  BY <1>3 DEF Owed, ToSet
<1>8. Work'
  <2>1. Ordered(<<>>)
    BY DEF Ordered
  <2>2. QED
    BY <1>3, <1>6, <2>1 DEF Settling, Work
<1>9. \A q \in Prop : (Defining(q)' <=> Defining(q) /\ kind = "def") /\ (Deleting(q)' <=> Deleting(q) /\ kind = "del")
                    /\ (Defining(q) => kind = "def") /\ (Deleting(q) => kind = "del")
  <2> TAKE q \in Prop
  <2>1. Defining(q) <=> q = p /\ kind = "def"
    BY <1>4, <1>6 DEF Defining
  <2>2. Deleting(q) <=> q = p /\ kind = "del"
    BY <1>4, <1>6 DEF Deleting
  <2>3. kind # "set" => Spoken("driver")
    BY DEF Spoken, kind
  <2>4. Defining(q)' <=> q = p /\ kind = "def"
    BY <1>4, <1>6, <2>3 DEF Defining
  <2>5. Deleting(q)' <=> q = p /\ kind = "del"
    BY <1>4, <1>6, <2>3 DEF Deleting
  <2>6. QED
    BY <2>1, <2>2, <2>4, <2>5
<1>10. ListedFirst'
  BY <1>5, <1>9 DEF Settling, ListedFirst
<1>11. \A q \in Prop : Promised(q)' <=> Promised(q)
  <2> TAKE q \in Prop
  <2>1. WillHave(Pend, store[q], q)' <=> WillHave(Pend, store[q], q)
    BY <1>5 DEF Pend
  <2>2. Offers("reader", q, {"def"})' <=> Offers("reader", q, {"def"})
    BY <1>3
  <2>3. QED
    BY <1>7, <1>9, <2>1, <2>2 DEF Promised
<1>12. p \notin overlap' => ~Offers("reader", p, Kinds) /\ (kind = "del" => ~Owed(p))
  BY <1>1, <1>5 DEF Overlaps, Offers, Is, Owed, Kinds
<1>13. OneAtATime'
  <2> SUFFICES ASSUME NEW q \in Prop \ overlap'
               PROVE  /\ ~(Offers("driver", q, Kinds)' /\ Offers("reader", q, Kinds)')
                      /\ Offers("driver", q, {"del"})' => ~Owed(q)'
    BY DEF OneAtATime
  <2>1. CASE q # p
    BY <1>4, <2>1
  <2>2. CASE q = p
    <3>1. Offers("driver", q, {"del"})' => kind = "del"
      BY <1>4
    <3>2. ~Offers("reader", q, Kinds)'
      BY <1>3, <1>12, <2>2
    <3>3. QED
      BY <1>7, <1>12, <2>2, <3>1, <3>2
  <2>3. QED
    BY <2>1, <2>2
<1>14. status[Peer] = "up" => HasListed'
  <2>1. \A q \in Prop : Deleting(q)' <=> Deleting(q)
    BY <1>9
  <2>2. QED
    BY <1>5, <1>11, <2>1 DEF Settling, Convergent, HasListed
<1>15. status[Peer] = "up" => ShowsCurrent'
  <2> SUFFICES ASSUME status[Peer] = "up", NEW q \in Prop \ overlap', Meta[q].type # "BLOB"
               PROVE  /\ \A t \in Thread : Offers(t, q, {"def", "set"})' => Tells(msg'[t], q, state'[q], vals'[q])
                      /\ (\A t \in Thread : ~Offers(t, q, {"def", "set"})')
                           => WillShow(Pend', store'[q], q, state'[q], vals'[q])
    BY DEF ShowsCurrent
  <2>1. state' = state /\ vals' = vals /\ Pend' = Pend /\ store' = store /\ q \in Prop \ overlap
    BY <1>5 DEF Pend
  <2>2. CASE ~(q = p /\ kind # "del")
    <3>1. Due # <<"set", q>>
      BY <1>6, <2>2
    <3>2. ~Offers("driver", q, {"def", "set"})' /\ ~Offers("driver", q, {"def", "set"})
      BY <1>2, <1>4, <2>2
    <3>3. Offers("reader", q, {"def", "set"})' <=> Offers("reader", q, {"def", "set"})
      BY <1>3
    <3>4. QED
      BY <1>1, <1>3, <2>1, <3>1, <3>2, <3>3 DEF Settling, Convergent, ShowsCurrent
  <2>3. CASE q = p /\ kind # "del"
    <3>1. Spoken("driver")
      BY <2>3 DEF Spoken, p
    <3>2. Offers("driver", q, {"def", "set"})'
      BY <1>2, <1>4, <2>3, <3>1
    <3>3. ~Offers("reader", q, Kinds)
      BY <1>12, <2>3
    <3>4. ~Offers("reader", q, {"def", "set"})'
      BY <1>3, <3>3 DEF Offers, Is, Kinds
    <3>5. Tells(msg'["driver"], q, state'[q], vals'[q])
      BY <1>5, <2>1, <2>3, <3>1
    <3>6. QED
      BY <1>1, <3>2, <3>4, <3>5
  <2>4. QED
    BY <2>2, <2>3
<1>16. QED
  BY <1>5, <1>8, <1>10, <1>13, <1>14, <1>15 DEF Settling, Convergent

\* The read loop's definition likewise.
LEMMA ReaderMarshals == ASSUME Base, Settling, Marshal("reader") PROVE Settling'
<1> DEFINE js == jobs["reader"]
           p  == JProp("reader")
<1>1. "reader" \in Thread /\ "driver" \in Thread \ {"reader"} /\ Thread = {"driver", "reader"}
  BY DEF Thread
<1>2. /\ p \in Prop /\ JKind("reader") = "def" /\ Head(js) = <<"def", p>>
      /\ js \in Seq(Kinds \X Prop) /\ js # <<>> /\ jobs'["reader"] = Tail(js)
  BY <1>1, MarshalWork
<1>3. /\ jobs'["driver"] = jobs["driver"] /\ msg'["driver"] = msg["driver"] /\ pc'["driver"] = pc["driver"]
      /\ \A q \in Prop : \A ks : Offers("driver", q, ks)' <=> Offers("driver", q, ks)
  BY <1>1, MarshalWork
<1>4. Spoken("reader")
  BY <1>2 DEF Spoken
<1>5. \A q \in Prop : \A ks : ~Offers("reader", q, ks) /\ (Offers("reader", q, ks)' <=> q = p /\ "def" \in ks)
  <2>1. \A q \in Prop : \A ks : ~Offers("reader", q, ks) /\ (Offers("reader", q, ks)' <=>
           q = p /\ JKind("reader") \in ks /\ Spoken("reader"))
    BY <1>1, MarshalWork
  <2>2. QED
    BY <1>2, <1>4, <2>1
<1>6. /\ overlap \subseteq overlap' /\ (p \notin overlap' => ~Overlaps("reader", "def", p))
      /\ Tells(msg'["reader"], p, state[p], vals[p])
      /\ pc'["reader"] = "offer" => msg'["reader"].kind = "def"
      /\ UNCHANGED <<listed, state, vals, status, pending, store, spent>>
  <2>1. /\ overlap \subseteq overlap' /\ (p \notin overlap' => ~Overlaps("reader", JKind("reader"), p))
        /\ Spoken("reader") /\ JKind("reader") # "del" => Tells(msg'["reader"], p, state[p], vals[p])
        /\ pc'["reader"] = "offer" => msg'["reader"].kind = JKind("reader")
        /\ UNCHANGED <<listed, state, vals, status, pending, store, spent>>
    BY <1>1, MarshalWork
  <2>2. QED
    BY <1>2, <1>4, <2>1
<1>7. /\ Head(js) = js[1] /\ 1 \in DOMAIN js
      /\ \A i \in DOMAIN Tail(js) : Tail(js)[i] = js[i + 1] /\ i + 1 \in DOMAIN js
      /\ \A i \in DOMAIN js : i = 1 \/ (i - 1 \in DOMAIN Tail(js) /\ Tail(js)[i - 1] = js[i])
  BY <1>2
<1>8. Owed(p) /\ (\A q \in Prop : Owed(q)' => Owed(q)) /\ \A q \in Prop \ {p} : Owed(q) => Owed(q)'
  <2>1. \A q \in Prop : (Owed(q) <=> \E i \in DOMAIN js : js[i] = <<"def", q>>)
                     /\ (Owed(q)' <=> \E i \in DOMAIN Tail(js) : Tail(js)[i] = <<"def", q>>)
    BY <1>2 DEF Owed, ToSet
  <2> HIDE DEF js
  <2>2. Owed(p)
    BY <1>2, <1>7, <2>1
  <2>3. ASSUME NEW q \in Prop, Owed(q)' PROVE Owed(q)
    BY <1>7, <2>1, <2>3
  <2>4. ASSUME NEW q \in Prop \ {p}, Owed(q) PROVE Owed(q)'
    <3>1. PICK i \in DOMAIN js : js[i] = <<"def", q>>
      BY <2>1, <2>4
    <3>2. i # 1
      BY <1>2, <1>7, <3>1
    <3>3. QED
      BY <1>7, <2>1, <3>1, <3>2
  <2>5. QED
    BY <2>2, <2>3, <2>4
<1>9. Work'
  <2>1. \A i \in DOMAIN Tail(js) : Tail(js)[i][1] = "def"
    BY <1>7 DEF Settling, Work
  <2>2. QED
    BY <1>2, <1>3, <1>6, <2>1 DEF Settling, Work
<1> HIDE DEF p, js
<1>10. Due' = Due
  BY <1>3 DEF Due
<1>11. \A q \in Prop : (Defining(q)' <=> Defining(q)) /\ (Deleting(q)' <=> Deleting(q))
  BY <1>3, <1>10 DEF Defining, Deleting
<1>12. ListedFirst'
  BY <1>6, <1>11 DEF Settling, ListedFirst
<1>13. \A q \in Prop : Promised(q)' <=> Promised(q)
  <2> TAKE q \in Prop
  <2>1. WillHave(Pend, store[q], q)' <=> WillHave(Pend, store[q], q)
    BY <1>6 DEF Pend
  <2>2. ~Offers("reader", q, {"def"}) /\ (Offers("reader", q, {"def"})' <=> q = p)
    BY <1>5
  <2>3. QED
    BY <1>8, <1>11, <2>1, <2>2 DEF Promised
<1>14. p \notin overlap' => ~Offers("driver", p, Kinds)
  BY <1>1, <1>6 DEF Overlaps, Offers, Is, Kinds
<1>15. OneAtATime'
  <2> SUFFICES ASSUME NEW q \in Prop \ overlap'
               PROVE  /\ ~(Offers("driver", q, Kinds)' /\ Offers("reader", q, Kinds)')
                      /\ Offers("driver", q, {"del"})' => ~Owed(q)'
    BY DEF OneAtATime
  <2>1. Offers("driver", q, {"del"})' => ~Owed(q)'
    <3>1. Offers("driver", q, {"del"})' <=> Offers("driver", q, {"del"})
      BY <1>3
    <3>2. QED
      BY <1>6, <1>8, <3>1 DEF Settling, Convergent, OneAtATime
  <2>2. ~(Offers("driver", q, Kinds)' /\ Offers("reader", q, Kinds)')
    BY <1>3, <1>5, <1>14
  <2>3. QED
    BY <2>1, <2>2
<1>16. status[Peer] = "up" => HasListed'
  BY <1>6, <1>11, <1>13 DEF Settling, Convergent, HasListed
<1>17. status[Peer] = "up" => ShowsCurrent'
  <2> SUFFICES ASSUME status[Peer] = "up", NEW q \in Prop \ overlap', Due # <<"set", q>>, Meta[q].type # "BLOB"
               PROVE  /\ \A t \in Thread : Offers(t, q, {"def", "set"})' => Tells(msg'[t], q, state'[q], vals'[q])
                      /\ (\A t \in Thread : ~Offers(t, q, {"def", "set"})')
                           => WillShow(Pend', store'[q], q, state'[q], vals'[q])
    BY <1>10 DEF ShowsCurrent
  <2>1. state' = state /\ vals' = vals /\ Pend' = Pend /\ store' = store /\ q \in Prop \ overlap
    BY <1>6 DEF Pend
  <2>2. Offers("driver", q, {"def", "set"})' <=> Offers("driver", q, {"def", "set"})
    BY <1>3
  <2>3. CASE q # p
    <3>1. ~Offers("reader", q, {"def", "set"})' /\ ~Offers("reader", q, {"def", "set"})
      BY <1>5, <2>3
    <3>2. QED
      BY <1>1, <1>3, <2>1, <2>2, <3>1 DEF Settling, Convergent, ShowsCurrent
  <2>4. CASE q = p
    <3>1. Offers("reader", q, {"def", "set"})'
      BY <1>5, <2>4
    <3>2. ~Offers("driver", q, Kinds)
      BY <1>14, <2>4
    <3>3. ~Offers("driver", q, {"def", "set"})'
      BY <2>2, <3>2 DEF Offers, Is, Kinds
    <3>4. Tells(msg'["reader"], q, state'[q], vals'[q])
      BY <1>6, <2>1, <2>4
    <3>5. QED
      BY <1>1, <3>1, <3>3, <3>4
  <2>5. QED
    BY <2>3, <2>4
<1>18. QED
  BY <1>6, <1>9, <1>12, <1>15, <1>16, <1>17 DEF Settling, Convergent

\* A message that is sent stands for what it was made of.
LEMMA OfferSettling == ASSUME Base, Settling, NEW t \in Thread, Offer(t) PROVE Settling'
<1> DEFINE m == msg[t]
           p == m.prop
<1>1. /\ pc[t] = "offer" /\ pc' = [pc EXCEPT ![t] = "idle"]
      /\ UNCHANGED <<listed, state, vals, jobs, store, overlap, spent>>
      /\ msg' = [msg EXCEPT ![t] = NoMsg]
  BY DEF Offer, server
<1>2. Honest(m, past, payloads) /\ p \in Prop /\ m.kind \in {"def", "set", "del", "blob"} /\ (t = "reader" => m.kind = "def")
  <2>1. Honest(m, past, payloads) /\ (t = "reader" => m.kind = "def")
    BY <1>1 DEF Base, AllHonest, Settling, Work
  <2>2. QED
    BY <2>1 DEF Honest
<1>3. /\ status' = status
      /\ status[Peer] = "up" => Pend \in Seq(Message)
                                /\ \/ m \in Message /\ Pend' = Append(Pend, m)
                                   \/ m.kind = "blob" /\ Pend' = Pend
  <2>1. CASE /\ pending' = [pending EXCEPT ![Peer] = Append(@, Snapshot(m))]
             /\ Hub!Offer(Peer)
    <3>1. pending' = [pending EXCEPT ![Peer] = Append(@, m)] /\ Hub!Offer(Peer)
      BY <2>1 DEF Snapshot
    <3>2. pending[Peer] \in Seq(Message) /\ pending'[Peer] = Append(pending[Peer], m)
      BY <3>1 DEF Base, Shape
    <3>3. pending'[Peer][Len(pending'[Peer])] = m
      BY <3>2
    <3>4. QED
      BY <3>1, <3>2, <3>3 DEF Hub!Offer, Pend
  <2>2. CASE (status[Peer] # "up" \/ m.kind = "blob") /\ UNCHANGED stream
    BY <2>2 DEF stream, Pend, Base, Shape
  <2>3. QED
    BY <2>1, <2>2 DEF Offer
<1>4. Thread = {"driver", "reader"}
  BY DEF Thread
<1>5. /\ \A q \in Prop : \A ks : (Offers(t, q, ks) <=> q = p /\ m.kind \in ks) /\ ~Offers(t, q, ks)'
      /\ \A u \in Thread \ {t}, q \in Prop : \A ks : Offers(u, q, ks)' <=> Offers(u, q, ks)
  <2>1. pc'[t] = "idle" /\ \A u \in Thread \ {t} : pc'[u] = pc[u] /\ msg'[u] = msg[u]
    BY <1>1 DEF Base, Shape
  <2>2. QED
    BY <1>1, <2>1 DEF Offers, Is
<1>15. ASSUME status[Peer] = "up", NEW q \in Prop
       PROVE  /\ Is(m, q, {"def"}) => WillHave(Pend', store[q], q)
              /\ Is(m, q, {"del"}) => ~WillHave(Pend', store[q], q)
              /\ ~Is(m, q, {"def", "del"}) => (WillHave(Pend', store[q], q) <=> WillHave(Pend, store[q], q))
              /\ \A s, v : Is(m, q, {"def", "set"}) /\ Tells(m, q, s, v)
                           => WillShow(Pend', store[q], q, s, v)
              /\ \A s, v : ~Is(m, q, {"def", "set"}) /\ WillShow(Pend, store[q], q, s, v)
                           => WillShow(Pend', store[q], q, s, v)
  <2>1. CASE m.kind = "blob" /\ Pend' = Pend
    BY <2>1 DEF Is
  <2>2. CASE m \in Message /\ Pend' = Append(Pend, m)
    <3> HIDE DEF m
    <3>1. Pend \in Seq(Message)
      BY <1>3, <1>15
    <3>2. QED
      BY <2>2, <3>1, AppendWill
  <2>3. QED
    BY <1>3, <1>15, <2>1, <2>2
<1> HIDE DEF m, p
<1>6. \A u \in Thread, q \in Prop : \A ks : Offers(u, q, ks)' => Offers(u, q, ks)
  BY <1>5
<1>7. Due' = Due /\ (\A q \in Prop : Owed(q)' <=> Owed(q)) /\ (t = "driver" => Due = <<"none", "none">>)
  BY <1>1 DEF Due, Owed, Ends, Settling, Work
<1>8. Work'
  <2>1. pc'["driver"] = "offer" => pc["driver"] = "offer"
    BY <1>1, <1>4 DEF Base, Shape
  <2>2. pc'["reader"] = "offer" => msg'["reader"].kind = "def"
    BY <1>1, <1>4 DEF Base, Shape, Settling, Work
  <2>3. QED
    BY <1>1, <2>1, <2>2 DEF Settling, Work
<1>9. \A q \in Prop : /\ (Defining(q)' => Defining(q)) /\ (Deleting(q)' => Deleting(q))
                      /\ t = "driver" => ~Defining(q)' /\ ~Deleting(q)'
                      /\ t = "driver" => (Defining(q) <=> q = p /\ m.kind = "def")
                                         /\ (Deleting(q) <=> q = p /\ m.kind = "del")
                      /\ t = "reader" => (Defining(q)' <=> Defining(q)) /\ (Deleting(q)' <=> Deleting(q))
  <2> TAKE q \in Prop
  <2>1. CASE t = "driver"
    <3>1. /\ Due # <<"def", q>> /\ Due # <<"del", q>> /\ Due' # <<"def", q>> /\ Due' # <<"del", q>>
      BY <1>7, <2>1
    <3>2. QED
      BY <1>5, <2>1, <3>1 DEF Defining, Deleting
  <2>2. CASE t = "reader"
    BY <1>4, <1>5, <1>7, <2>2 DEF Defining, Deleting
  <2>3. QED
    BY <1>4, <2>1, <2>2
<1>10. ListedFirst'
  BY <1>1, <1>9 DEF Settling, ListedFirst
<1>11. OneAtATime'
  BY <1>1, <1>4, <1>6, <1>7 DEF Settling, Convergent, OneAtATime
<1>12. ASSUME status[Peer] = "up" PROVE HasListed'
  <2> SUFFICES ASSUME NEW q \in Prop \ overlap
               PROVE  /\ Promised(q)' => q \in listed \/ Deleting(q)'
                      /\ q \in listed /\ spent["reader"] > 0 => Promised(q)'
    BY <1>1 DEF HasListed
  <2>1. store' = store
    BY <1>1
  <2>2. HasListed /\ (Promised(q) => q \in listed \/ Deleting(q))
          /\ (q \in listed /\ spent["reader"] > 0 => Promised(q))
    BY <1>12 DEF Settling, Convergent, HasListed
  <2>3. /\ Is(m, q, {"def"}) => WillHave(Pend, store[q], q)'
        /\ Is(m, q, {"del"}) => ~WillHave(Pend, store[q], q)'
        /\ ~Is(m, q, {"def", "del"}) => (WillHave(Pend, store[q], q)' <=> WillHave(Pend, store[q], q))
    BY <1>12, <1>15, <2>1
  <2>4. /\ Is(m, q, {"def"}) <=> q = p /\ m.kind = "def"
        /\ Is(m, q, {"del"}) <=> q = p /\ m.kind = "del"
        /\ Is(m, q, {"def", "del"}) <=> q = p /\ m.kind \in {"def", "del"}
    BY DEF Is, p
  <2>5. CASE q = p /\ m.kind = "def"
    <3>1. Promised(q)'
      BY <2>3, <2>4, <2>5 DEF Promised
    <3>2. Promised(q)
      BY <1>4, <1>5, <1>9, <2>5 DEF Promised
    <3>3. Deleting(q) => Deleting(q)'
      BY <1>4, <1>9, <2>5
    <3>4. QED
      BY <2>2, <3>1, <3>2, <3>3
  <2>6. CASE q = p /\ m.kind = "del"
    <3>1. t = "driver"
      BY <1>2, <1>4, <2>6
    <3>2. q \notin listed
      BY <1>9, <2>6, <3>1 DEF Settling, ListedFirst
    <3>3. Offers("driver", q, {"del"}) /\ Offers("driver", q, Kinds)
      BY <1>5, <2>6, <3>1 DEF Kinds
    <3>4. ~Owed(q) /\ ~Offers("reader", q, Kinds)
      BY <3>3 DEF Settling, Convergent, OneAtATime
    <3>5. ~Offers("reader", q, {"def"})'
      BY <1>4, <1>6, <3>4 DEF Offers, Is, Kinds
    <3>6. ~Promised(q)'
      BY <1>7, <1>9, <2>3, <2>4, <2>6, <3>1, <3>4, <3>5 DEF Promised
    <3>7. QED
      BY <3>2, <3>6
  <2>7. CASE ~(q = p /\ m.kind \in {"def", "del"})
    <3>1. (Defining(q)' <=> Defining(q)) /\ (Deleting(q)' <=> Deleting(q))
      BY <1>4, <1>9, <2>7
    <3>2. Offers("reader", q, {"def"})' <=> Offers("reader", q, {"def"})
      BY <1>4, <1>5, <2>7
    <3>3. Promised(q)' <=> Promised(q)
      BY <1>7, <2>3, <2>4, <2>7, <3>1, <3>2 DEF Promised
    <3>4. QED
      BY <2>2, <3>1, <3>3
  <2>8. QED
    BY <2>5, <2>6, <2>7
<1>13. ASSUME status[Peer] = "up" PROVE ShowsCurrent'
  <2> SUFFICES ASSUME NEW q \in Prop \ overlap, Due # <<"set", q>>, Meta[q].type # "BLOB"
               PROVE  /\ \A u \in Thread : Offers(u, q, {"def", "set"})' => Tells(msg'[u], q, state[q], vals[q])
                      /\ (\A u \in Thread : ~Offers(u, q, {"def", "set"})')
                           => WillShow(Pend', store[q], q, state[q], vals[q])
    BY <1>1, <1>7 DEF ShowsCurrent
  <2>2. /\ \A u \in Thread : Offers(u, q, {"def", "set"}) => Tells(msg[u], q, state[q], vals[q])
        /\ (\A u \in Thread : ~Offers(u, q, {"def", "set"}))
             => WillShow(Pend, store[q], q, state[q], vals[q])
    BY <1>13 DEF Settling, Convergent, ShowsCurrent
  <2>3. \A u \in Thread : Offers(u, q, {"def", "set"})' =>
           Offers(u, q, {"def", "set"}) /\ msg'[u] = msg[u]
    BY <1>1, <1>5 DEF Base, Shape
  <2>4. Is(m, q, {"def", "set"}) <=> q = p /\ m.kind \in {"def", "set"}
    BY DEF Is, p
  <2>5. CASE q = p /\ m.kind \in {"def", "set"}
    <3>1. Offers(t, q, {"def", "set"})
      BY <1>5, <2>5
    <3>2. Tells(m, q, state[q], vals[q])
      BY <2>2, <3>1 DEF m
    <3>3. QED
      BY <1>13, <1>15, <2>2, <2>3, <2>4, <2>5, <3>2
  <2>6. CASE ~(q = p /\ m.kind \in {"def", "set"})
    <3>1. \A u \in Thread : Offers(u, q, {"def", "set"})' <=> Offers(u, q, {"def", "set"})
      BY <1>5, <2>6
    <3>2. QED
      BY <1>13, <1>15, <2>2, <2>3, <2>4, <2>6, <3>1
  <2>7. QED
    BY <2>5, <2>6
<1>14. QED
  BY <1>3, <1>8, <1>10, <1>11, <1>12, <1>13 DEF Settling, Convergent

\* The client receives what it was to have.
LEMMA ReceiveSettling == ASSUME Base, Settling, Receive PROVE Settling'
<1> DEFINE m == Head(Pend)
<1>1. /\ Hub!Deliver(Peer) /\ store' = Applied(m)
      /\ UNCHANGED <<listed, state, vals, pc, jobs, msg, overlap, spent>>
  BY DEF Receive, Pend, Applied, server, thread
<1>2. /\ Pend \in Seq(Message) /\ Pend # <<>> /\ status' = status
      /\ pending' = [pending EXCEPT ![Peer] = Tail(@)] /\ pending \in [{Peer} -> Seq(Message)]
  BY <1>1 DEF Base, Shape, Pend, Hub!Deliver
<1>3. Pend' = Tail(Pend) /\ m = Pend[1] /\ 1 \in DOMAIN Pend
  BY <1>2 DEF Pend
<1>4. /\ Honest(m, past, payloads) /\ m.prop \in Prop /\ m.kind \in {"def", "set", "del", "blob"}
      /\ m.kind = "blob" => Meta[m.prop].type = "BLOB"
  BY <1>3 DEF Base, AllHonest, Honest
<1> HIDE DEF m
<1>5. /\ \A q \in Prop \ {m.prop} : store'[q] = store[q]
      /\ m.kind = "def" => store'[m.prop] # Absent
      /\ m.kind = "del" => store'[m.prop] = Absent
      /\ m.kind \in {"set", "blob"} => (store'[m.prop] # Absent <=> store[m.prop] # Absent)
      /\ m.kind # "blob" /\ store'[m.prop] # Absent =>
           \A s, v : Tells(store'[m.prop], m.prop, s, v) <=> Tells(m, m.prop, s, v)
  BY <1>1, <1>4, AppliedStored
<1>6. ASSUME NEW q \in Prop
      PROVE  /\ WillHave(Pend, store[q], q)' <=> WillHave(Pend, store[q], q)
             /\ Meta[q].type # "BLOB" =>
                  \A s, v : WillShow(Pend, store[q], q, s, v) => WillShow(Pend', store'[q], q, s, v)
  <2>1. /\ Is(Pend[1], q, {"def"}) => store'[q] # Absent
        /\ Is(Pend[1], q, {"del"}) => store'[q] = Absent
        /\ Is(Pend[1], q, {"set", "blob"}) => (store'[q] # Absent <=> store[q] # Absent)
        /\ Pend[1].prop # q => store'[q] = store[q]
        /\ Pend[1].kind \in {"def", "set", "del", "blob"}
        /\ Meta[q].type # "BLOB" => ~Is(Pend[1], q, {"blob"})
    BY <1>3, <1>4, <1>5 DEF Is
  <2>2. \A s, v : Is(Pend[1], q, {"def", "set"}) /\ store'[q] # Absent
                    => (Tells(store'[q], q, s, v) <=> Tells(Pend[1], q, s, v))
    BY <1>3, <1>5 DEF Is
  <2>3. /\ WillHave(Tail(Pend), store'[q], q) <=> WillHave(Pend, store[q], q)
        /\ ~Is(Pend[1], q, {"blob"}) => \A s, v :
             /\ Is(Pend[1], q, {"def", "set"}) /\ store'[q] # Absent =>
                  (Tells(store'[q], q, s, v) <=> Tells(Pend[1], q, s, v))
             /\ WillShow(Pend, store[q], q, s, v)
             => WillShow(Tail(Pend), store'[q], q, s, v)
    BY <1>2, <2>1, TailWill
  <2>4. QED
    BY <1>3, <2>1, <2>2, <2>3
<1>7. /\ Due' = Due /\ \A q \in Prop : Owed(q)' <=> Owed(q)
      /\ \A t \in Thread, q \in Prop : \A ks : Offers(t, q, ks)' <=> Offers(t, q, ks)
  BY <1>1 DEF Due, Owed, Offers
<1>8. \A q \in Prop : (Defining(q)' <=> Defining(q)) /\ (Deleting(q)' <=> Deleting(q))
  BY <1>7 DEF Defining, Deleting, Thread
<1>9. Work' /\ ListedFirst' /\ OneAtATime'
  <2>1. Work'
    BY <1>1 DEF Settling, Work
  <2>2. ListedFirst'
    BY <1>1, <1>8 DEF Settling, ListedFirst
  <2>3. OneAtATime'
    BY <1>1, <1>7 DEF Settling, Convergent, OneAtATime, Thread
  <2>4. QED
    BY <2>1, <2>2, <2>3
<1>10. status[Peer] = "up" => HasListed'
  <2>1. \A q \in Prop : Promised(q)' <=> Promised(q)
    BY <1>6, <1>7, <1>8 DEF Promised, Thread
  <2>2. QED
    BY <1>1, <1>8, <2>1 DEF Settling, Convergent, HasListed
<1>11. status[Peer] = "up" => ShowsCurrent'
  <2> SUFFICES ASSUME status[Peer] = "up", NEW q \in Prop \ overlap, Due # <<"set", q>>, Meta[q].type # "BLOB"
               PROVE  /\ \A t \in Thread : Offers(t, q, {"def", "set"})' => Tells(msg'[t], q, state[q], vals[q])
                      /\ (\A t \in Thread : ~Offers(t, q, {"def", "set"})')
                           => WillShow(Pend', store'[q], q, state[q], vals[q])
    BY <1>1, <1>7 DEF ShowsCurrent
  <2>1. /\ \A t \in Thread : Offers(t, q, {"def", "set"}) => Tells(msg[t], q, state[q], vals[q])
        /\ (\A t \in Thread : ~Offers(t, q, {"def", "set"}))
             => WillShow(Pend, store[q], q, state[q], vals[q])
    BY DEF Settling, Convergent, ShowsCurrent
  <2>2. msg' = msg
    BY <1>1
  <2>3. QED
    BY <1>6, <1>7, <2>1, <2>2
<1>12. QED
  BY <1>2, <1>9, <1>10, <1>11 DEF Settling, Convergent

\* Of a connection that ends nothing is promised.
LEMMA DisconnectSettling == ASSUME Base, Settling, Disconnect PROVE Settling'
<1>1. UNCHANGED <<listed, state, vals, pc, jobs, msg, store, overlap, spent>> /\ status'[Peer] # "up"
  BY DEF Disconnect, Hub!Close, Hub!Cut, server, thread, Base, Shape
<1>2. Work' /\ ListedFirst'
  BY <1>1 DEF Settling, Work, ListedFirst, Defining, Deleting, Due, Offers
<1>3. OneAtATime'
  BY <1>1 DEF Settling, Convergent, OneAtATime, Offers, Owed
<1>4. QED
  BY <1>1, <1>2, <1>3 DEF Settling, Convergent

\* A connection that begins has been promised nothing.
LEMMA InitSettling == Init => Settling
<1> SUFFICES ASSUME Init PROVE Settling
  OBVIOUS
<1>1. /\ status = [c \in {Peer} |-> "up"] /\ pending = [c \in {Peer} |-> <<>>]
      /\ pc = [t \in Thread |-> "idle"] /\ jobs = [t \in Thread |-> <<>>]
      /\ spent = [t \in Thread |-> 0] /\ store = [p \in Prop |-> Absent]
  BY DEF Init, Hub!Init
<1>2. /\ Pend = <<>> /\ jobs["driver"] = <<>> /\ jobs["reader"] = <<>>
      /\ pc["driver"] = "idle" /\ pc["reader"] = "idle" /\ spent["reader"] = 0
      /\ \A p \in Prop : store[p] = Absent
  BY <1>1 DEF Pend, Thread
<1>3. DOMAIN Pend = {} /\ DOMAIN jobs["driver"] = {} /\ DOMAIN jobs["reader"] = {} /\ ToSet(jobs["reader"]) = {}
  BY <1>2 DEF ToSet
<1>4. \A t \in Thread, p \in Prop : \A ks : ~Offers(t, p, ks)
  BY <1>2 DEF Thread, Offers
<1>5. \A p \in Prop : ~Defining(p) /\ ~Deleting(p) /\ ~Owed(p)
  BY <1>2, <1>3, <1>4 DEF Defining, Deleting, Due, Ends, Thread, Owed
<1>6. \A p \in Prop : ~WillHave(Pend, store[p], p) /\ \A s, v : WillShow(Pend, store[p], p, s, v)
  BY <1>2, <1>3 DEF WillHave, WillShow
<1>7. Work
  BY <1>2, <1>3 DEF Work, Ordered
<1>8. ListedFirst /\ OneAtATime
  BY <1>4, <1>5 DEF ListedFirst, OneAtATime, Thread
<1>9. HasListed
  BY <1>2, <1>4, <1>5, <1>6 DEF HasListed, Promised, Thread
<1>10. ShowsCurrent
  BY <1>4, <1>6 DEF ShowsCurrent
<1>11. QED
  BY <1>7, <1>8, <1>9, <1>10 DEF Settling, Convergent

\* Every step keeps what the client will come to.
LEMMA NextSettling == Base /\ Settling /\ [Next]_vars => Settling'
<1> SUFFICES ASSUME Base, Settling, [Next]_vars PROVE Settling'
  OBVIOUS
<1>1. ASSUME NEW p \in Prop, Change(p) PROVE Settling'
  BY <1>1, ChangeSettling
<1>2. ASSUME NEW p \in Prop, SetState(p) \/ SetValue(p) PROVE Settling'
  BY <1>2, SetSettling
<1>3. ASSUME NEW p \in Prop, List(p) PROVE Settling'
  BY <1>3, ListSettling
<1>11. ASSUME NEW p \in Prop, SendBLOB(p) PROVE Settling'
  BY <1>11, SendBLOBSettling
<1>4. CASE GetProperties
  BY <1>4, GetPropertiesSettling
<1>5. ASSUME NEW t \in Thread, Marshal(t) PROVE Settling'
  BY <1>5, DriverMarshals, ReaderMarshals DEF Thread
<1>6. ASSUME NEW t \in Thread, Offer(t) PROVE Settling'
  BY <1>6, OfferSettling
<1>7. CASE Receive
  BY <1>7, ReceiveSettling
<1>8. CASE Disconnect
  BY <1>8, DisconnectSettling
<1>9. CASE UNCHANGED vars
  <2>1. UNCHANGED <<listed, state, vals, pc, jobs, msg, status, pending, store, overlap, spent>>
    BY <1>9 DEF vars, server, thread, stream
  <2>2. Work' /\ ListedFirst'
    BY <2>1 DEF Settling, Work, ListedFirst, Defining, Deleting, Due, Offers
  <2>3. OneAtATime'
    BY <2>1 DEF Settling, Convergent, OneAtATime, Offers, Owed
  <2>4. status[Peer] = "up" => HasListed'
    BY <2>1 DEF Settling, Convergent, HasListed, Promised, Defining, Deleting, Due, Offers, Owed, Pend
  <2>5. status[Peer] = "up" => ShowsCurrent'
    BY <2>1 DEF Settling, Convergent, ShowsCurrent, Due, Offers, Pend
  <2>6. QED
    BY <2>1, <2>2, <2>3, <2>4, <2>5 DEF Settling, Convergent
<1>10. QED
  BY <1>1, <1>2, <1>3, <1>4, <1>5, <1>6, <1>7, <1>8, <1>9, <1>11 DEF Next

\* The invariant holds for ever.
LEMMA Invariance == Spec => []IInv
<1>1. Init => IInv
  BY InitBase, InitSettling DEF IInv, Settling
<1>2. IInv /\ [Next]_vars => IInv'
  BY NextBase, NextSettling DEF IInv, Settling
<1>3. QED
  BY <1>1, <1>2, PTL DEF Spec

\* Once everything is published and has arrived, a client that has asked for the
\* properties holds exactly what is listed, as it is now, but for properties of which
\* two publications overlapped: Define, Update and Delete (server/server.go) each take
\* their snapshot before they offer it, and the client applies what comes in order.
THEOREM EndsInStep == Spec => []Converges
<1>1. IInv => Converges
  <2> SUFFICES ASSUME IInv, Settled, NEW p \in Prop \ overlap
               PROVE  IF p \notin listed THEN store[p] = Absent
                      ELSE store[p] # Absent /\ (Meta[p].type = "BLOB" \/ Shows(store[p], p, Content(p)))
    BY DEF Converges
  <2>1. /\ status[Peer] = "up" /\ Pend = <<>> /\ spent["reader"] > 0
        /\ \A t \in Thread : pc[t] = "idle" /\ jobs[t] = <<>>
    BY DEF Settled, Pend
  <2>2. DOMAIN Pend = {} /\ Due = <<"none", "none">> /\ ToSet(jobs["reader"]) = {}
    BY <2>1 DEF Due, Ends, ToSet, Thread
  <2>3. \A t \in Thread : \A ks : ~Offers(t, p, ks)
    BY <2>1 DEF Offers
  <2>4. ~Defining(p) /\ ~Deleting(p) /\ ~Owed(p)
    BY <2>2, <2>3 DEF Defining, Deleting, Owed, Thread
  <2>5. WillHave(Pend, store[p], p) <=> store[p] # Absent
    BY <2>2 DEF WillHave
  <2>6. Promised(p) <=> store[p] # Absent
    BY <2>3, <2>4, <2>5 DEF Promised, Thread
  <2>7. HasListed /\ ShowsCurrent
    BY <2>1 DEF IInv, Convergent
  <2>8. CASE p \notin listed
    BY <2>4, <2>6, <2>7, <2>8 DEF HasListed
  <2>9. CASE p \in listed
    <3>1. store[p] # Absent
      BY <2>1, <2>6, <2>7, <2>9 DEF HasListed
    <3>2. ASSUME Meta[p].type # "BLOB" PROVE Shows(store[p], p, Content(p))
      <4>1. Due # <<"set", p>>
        BY <2>2
      <4>2. WillShow(Pend, store[p], p, state[p], vals[p])
        BY <2>3, <2>7, <3>2, <4>1 DEF ShowsCurrent
      <4>3. Tells(store[p], p, state[p], vals[p])
        BY <2>2, <3>1, <4>2 DEF WillShow
      <4>4. PICK c \in Heard(p, past, payloads) : store[p] = EntryOf(p, c)
        BY <3>1 DEF IInv, Base, AllHonest, Stored
      <4>5. EntryOf(p, c).state = state[p] /\ EntryOf(p, c).vals = Sees(p, vals[p])
        BY <4>3, <4>4 DEF Tells
      <4>6. EntryOf(p, c) = EntryOf(p, Content(p))
        BY <4>5 DEF EntryOf, Content
      <4>7. Content(p) \in Contents
        BY DEF IInv, Base, Shape, Content, Contents
      <4>8. QED
        BY <4>4, <4>6, <4>7, EntryShows
    <3>3. QED
      BY <2>9, <3>1, <3>2
  <2>10. QED
    BY <2>8, <2>9
<1>2. QED
  BY <1>1, Invariance, PTL
=============================================================================
