----------------------------- MODULE BlobProofs -----------------------------
(***************************************************************************)
(* Proofs about the client's BLOB reading, for any sinks and devices, any  *)
(* sizes, and any number of payloads, however they are cut into tokens.    *)
(***************************************************************************)
EXTENDS BlobProperties, TLAPS

-----------------------------------------------------------------------------
(* The invariant *)

Reading == {"blob", "tee", "write", "result", "finish"}

Shape ==
    /\ at \in {"top", "vector", "reap", "lost"} \cup Reading
    /\ wide \in Sink \cup {Nil} /\ own \in [Device -> Sink \cup {Nil}] /\ device \in Device
    /\ cur \in 0..MaxPayload /\ (cur = 0 => at \notin Reading \cup {"reap"})
    /\ fn \in Sink \cup {Nil} /\ used \in [Payload -> Sink \cup {Nil}]
    /\ w \in BOOLEAN /\ werr \in BOOLEAN /\ err \in BOOLEAN /\ done \in BOOLEAN /\ spoilt \in BOOLEAN
    /\ n \in 0..3 /\ total \in Int /\ out \in Int
    /\ info.size \in Nat
    /\ got \in [Payload -> Int] /\ chars \in [Payload -> Nat] /\ pad \in [Payload -> 0..2]
    /\ ends \in [Payload -> Seq({"close", "abort"})]

\* Of the payloads to come there is nothing.
Fresh ==
    \A p \in Payload : p > cur =>
        used[p] = Nil /\ got[p] = 0 /\ ends[p] = <<>> /\ chars[p] = 0 /\ pad[p] = 0

\* What is decoded is what whole quads stand for, and the rest of the characters is kept.
Decoded(p) == 3 * (chars[p] \div 4) - pad[p]
Counted ==
    cur > 0 =>
        /\ n = chars[cur] % 4 /\ total = Decoded(cur)
        /\ ~done => pad[cur] = 0
        /\ fn # Nil => chars[cur] = 0 /\ total = 0 /\ got[cur] = 0 /\ used[cur] = Nil
        /\ IF at \in {"tee", "write"} THEN fn = Nil ELSE out = 0
        /\ at \in {"result", "finish"} /\ ~err => n = 0

\* A writer that has not failed has all that was decoded, but for what is to be handed on.
Delivering ==
    cur > 0 /\ used[cur] # Nil /\ Kind[used[cur]] # "none" /\ ~werr
      => w /\ got[cur] + out = total

\* A payload's writer is ended when its reading is, unless the connection is lost.
Over == at \in {"top", "vector"} \/ (at = "reap" /\ ~err)
EndedInTime ==
    \A p \in Payload :
        /\ Len(ends[p]) <= 1
        /\ p = cur /\ at \in Reading => ends[p] = <<>>
        /\ p < cur \/ (p = cur /\ Over) => (Ends(p) => Len(ends[p]) = 1)

\* By then a wrong size has been counted.
SizeCounted ==
    cur > 0 /\ Over /\ info.size > 0 /\ ~info.compressed /\ total # info.size => cur \in soft

IInv == /\ Shape /\ Fresh /\ Counted /\ Delivering /\ EndedInTime /\ SizeCounted
        /\ DeliveredWhole /\ EngagedForData

-----------------------------------------------------------------------------
(* The steps keep it *)

\* Decoding quads as they come is decoding the whole.
LEMMA Quads ==
    ASSUME NEW c \in Nat, NEW k \in Nat
    PROVE  /\ (c + k) % 4 = ((c % 4) + k) % 4
           /\ (c + k) \div 4 = (c \div 4) + (((c % 4) + k) \div 4)
           /\ (c % 4) \in 0..3 /\ (((c % 4) + k) % 4) \in 0..3
           /\ (((c % 4) + k) \div 4) \in Nat /\ (c \div 4) \in Nat
           /\ (c % 4) + k = 4 * (((c % 4) + k) \div 4) + (((c % 4) + k) % 4)
OBVIOUS

\* Nothing has been read.
LEMMA InitIInv == Init => IInv
<1> SUFFICES ASSUME Init PROVE IInv
  OBVIOUS
<1>1. \A p \in Payload : ends[p] = <<>> /\ used[p] = Nil /\ got[p] = 0 /\ chars[p] = 0 /\ pad[p] = 0
  BY DEF Init
<1>2. Shape
  <2>1. ends \in [Payload -> Seq({"close", "abort"})]
    <3>1. <<>> \in Seq({"close", "abort"})
      OBVIOUS
    <3>2. QED
      BY <3>1 DEF Init
  <2>2. cur \in 0..MaxPayload /\ MaxPayload \in Nat
    BY BlobAssumption DEF Init, BlobAssumption
  <2>3. info.size \in Nat
    BY DEF Init
  <2>4. got \in [Payload -> Int] /\ chars \in [Payload -> Nat] /\ pad \in [Payload -> 0..2]
    BY DEF Init
  <2>5. used \in [Payload -> Sink \cup {Nil}] /\ own \in [Device -> Sink \cup {Nil}]
    BY DEF Init
  <2>6. w \in BOOLEAN /\ werr \in BOOLEAN /\ err \in BOOLEAN /\ done \in BOOLEAN /\ spoilt \in BOOLEAN
    BY Zenon DEF Init
  <2>7. n \in 0..3 /\ total \in Int /\ out \in Int /\ at = "top" /\ "top" \notin Reading \cup {"reap"}
    BY DEF Init, Reading
  <2>8. wide \in Sink \cup {Nil} /\ fn \in Sink \cup {Nil} /\ device \in Device
    BY DEF Init
  <2>9. QED
    BY <2>1, <2>2, <2>3, <2>4, <2>5, <2>6, <2>7, <2>8 DEF Shape
<1>3. Fresh
  BY <1>1 DEF Fresh
<1>4. Counted /\ Delivering /\ SizeCounted /\ EngagedForData
  BY DEF Init, Counted, Delivering, SizeCounted, EngagedForData
<1>5. EndedInTime
  BY <1>1 DEF Init, EndedInTime, Ends
<1>6. DeliveredWhole
  BY <1>1 DEF DeliveredWhole, Ends
<1>7. QED
  BY <1>2, <1>3, <1>4, <1>5, <1>6 DEF IInv

\* While a payload is read it is one of those counted, and has not been ended.
LEMMA AtPayload ==
    ASSUME IInv, at \in Reading \cup {"reap"}
    PROVE  cur \in Payload /\ cur > 0 /\ (at \in Reading => ends[cur] = <<>>)
<1>1. cur \in Payload /\ cur > 0
  BY BlobAssumption DEF BlobAssumption, IInv, Shape, Payload
<1>2. QED
  BY <1>1 DEF IInv, EndedInTime

\* What one payload's decoder and writer hold.
Core == <<fn, used, w, werr, n, done, total, out, got, chars, pad, ends, cur, info>>

\* A step that moves on, and decodes, hands on and ends nothing.
LEMMA MovesOn ==
    ASSUME IInv, UNCHANGED Core, Shape', soft \subseteq soft', spoilt => spoilt',
           at' \in Reading => at \in Reading,
           IF at' \in {"tee", "write"} THEN fn = Nil ELSE out = 0 \/ cur = 0,
           at' \in {"result", "finish"} /\ ~err' => n = 0,
           Over' => Over
    PROVE  IInv'
<1>1. Fresh' /\ Delivering' /\ DeliveredWhole'
  BY DEF IInv, Core, Fresh, Delivering, DeliveredWhole, Ends
<1>2. Counted'
  BY DEF IInv, Core, Counted, Decoded
<1>3. EndedInTime'
  BY DEF IInv, Core, EndedInTime, Ends
<1>4. SizeCounted'
  <2>1. SizeCounted /\ soft \subseteq soft' /\ cur' = cur /\ info' = info /\ total' = total /\ (Over' => Over)
    BY DEF IInv, Core
  <2>2. QED
    BY <2>1 DEF SizeCounted
<1>5. EngagedForData'
  BY DEF IInv, Core, EngagedForData
<1>6. QED
  BY <1>1, <1>2, <1>3, <1>4, <1>5 DEF IInv

\* The steps that only move on.
LEMMA StillKeeps ==
    ASSUME IInv,
           \/ Register \/ (\E d \in Device : StartVector(d)) \/ EndVector \/ StreamBreaks
           \/ Blank \/ EndBlob \/ Result \/ Stop \/ Return \/ TeeFails \/ inflater
    PROVE  IInv'
<1> USE DEF sinks, b64, infl, meta, hist, sent
<1>1. UNCHANGED Core /\ soft \subseteq soft' /\ (spoilt => spoilt')
  <2>1. soft \subseteq soft'
    <3>1. soft' = soft \/ soft' = soft \cup {cur}
      BY DEF Register, BlobSink, BlobSinkFor, StartVector, EndVector, StreamBreaks, Blank, EndBlob, Result,
             Stop, Return, TeeFails, inflater, Inflate, InflateEnds
    <3>2. QED
      BY <3>1
  <2>5. spoilt => spoilt'
    <3>1. spoilt' = spoilt \/ spoilt' = TRUE \/ spoilt' = (spoilt \/ n # 0)
      BY DEF Register, BlobSink, BlobSinkFor, StartVector, EndVector, StreamBreaks, Blank, EndBlob, Result,
             Stop, Return, TeeFails, inflater, Inflate, InflateEnds
    <3>2. QED
      BY <3>1, Zenon
  <2>2. UNCHANGED <<fn, used, w, werr, n, done, total, out>>
    BY DEF Register, BlobSink, BlobSinkFor, StartVector, EndVector, StreamBreaks, Blank, EndBlob, Result,
           Stop, Return, TeeFails, inflater, Inflate, InflateEnds
  <2>3. UNCHANGED <<got, chars, pad, ends, cur, info>>
    BY DEF Register, BlobSink, BlobSinkFor, StartVector, EndVector, StreamBreaks, Blank, EndBlob, Result,
           Stop, Return, TeeFails, inflater, Inflate, InflateEnds
  <2>4. QED
    BY <2>1, <2>2, <2>3, <2>5 DEF Core
<1>2. at' \in {"top", "vector", "reap", "lost"} \cup Reading
  BY DEF IInv, Shape, Reading, Register, BlobSink, BlobSinkFor, StartVector, EndVector, StreamBreaks,
         Blank, EndBlob, Result, Stop, Return, TeeFails, inflater, Inflate, InflateEnds
<1>3. err' \in BOOLEAN /\ spoilt' \in BOOLEAN /\ device' \in Device
  BY DEF IInv, Shape, Register, BlobSink, BlobSinkFor, StartVector, EndVector, StreamBreaks,
         Blank, EndBlob, Result, Stop, Return, TeeFails, inflater, Inflate, InflateEnds
<1>4. wide' \in Sink \cup {Nil} /\ own' \in [Device -> Sink \cup {Nil}]
  BY DEF IInv, Shape, Register, BlobSink, BlobSinkFor, StartVector, EndVector, StreamBreaks,
         Blank, EndBlob, Result, Stop, Return, TeeFails, inflater, Inflate, InflateEnds
<1>5. at' \in Reading \cup {"reap"} => at \in Reading \cup {"reap"}
  BY DEF Reading, Register, BlobSink, BlobSinkFor, StartVector, EndVector, StreamBreaks,
         Blank, EndBlob, Result, Stop, Return, TeeFails, inflater, Inflate, InflateEnds
<1>6. (at' \in Reading => at \in Reading) /\ (Over' => Over)
  BY DEF Reading, Over, Register, BlobSink, BlobSinkFor, StartVector, EndVector, StreamBreaks,
         Blank, EndBlob, Result, Stop, Return, TeeFails, inflater, Inflate, InflateEnds
<1>7. IF at' \in {"tee", "write"} THEN fn = Nil ELSE out = 0 \/ cur = 0
  <2>1. at' \in {"tee", "write"} <=> at \in {"tee", "write"}
    BY DEF Register, BlobSink, BlobSinkFor, StartVector, EndVector, StreamBreaks,
           Blank, EndBlob, Result, Stop, Return, TeeFails, inflater, Inflate, InflateEnds
  <2>2. cur > 0 \/ cur = 0
    BY DEF IInv, Shape
  <2>3. CASE at \in {"tee", "write"}
    BY <2>1, <2>3, AtPayload DEF IInv, Counted, Reading
  <2>4. CASE at \notin {"tee", "write"}
    BY <2>1, <2>2, <2>4 DEF IInv, Counted
  <2>5. QED
    BY <2>3, <2>4
<1>8. at' \in {"result", "finish"} /\ ~err' => n = 0
  <2>1. at' \in {"result", "finish"} /\ ~err' => n = 0 \/ (at \in {"result", "finish"} /\ ~err)
    BY DEF Register, BlobSink, BlobSinkFor, StartVector, EndVector, StreamBreaks,
           Blank, EndBlob, Result, Stop, Return, TeeFails, inflater, Inflate, InflateEnds
  <2>2. at \in {"result", "finish"} /\ ~err => n = 0
    BY AtPayload DEF IInv, Counted, Reading
  <2>3. QED
    BY <2>1, <2>2
<1>9. Shape'
  BY <1>1, <1>2, <1>3, <1>4, <1>5 DEF IInv, Shape, Core
<1>10. QED
  BY <1>1, <1>6, <1>7, <1>8, <1>9, MovesOn

\* A payload begins: its writer is engaged if its size is declared.
LEMMA StartBlobKeeps ==
    ASSUME IInv, NEW size \in Sizes, NEW z \in BOOLEAN, StartBlob(size, z) PROVE IInv'
<1> DEFINE f == sinkFor(device)
<1>1. /\ at = "vector" /\ at' = "blob" /\ cur' = cur + 1 /\ cur < MaxPayload /\ info' = [size |-> size, compressed |-> z]
      /\ werr' = FALSE /\ n' = 0 /\ done' = FALSE /\ total' = 0 /\ out' = 0 /\ err' = FALSE
      /\ UNCHANGED <<wide, own, device, got, ends, chars, pad, soft, spoilt>>
  BY DEF StartBlob, sinks
<1>2. size \in Nat /\ MaxPayload \in Nat /\ cur \in 0..MaxPayload
  BY BlobAssumption DEF BlobAssumption, IInv, Shape
<1>3. f \in Sink \cup {Nil}
  BY DEF sinkFor, IInv, Shape
<1> HIDE DEF f
<1>4. cur' \in Payload /\ cur' > cur /\ cur' > 0 /\ \A p \in Payload : p < cur' => p <= cur
  BY <1>1, <1>2 DEF Payload
<1>5. used[cur'] = Nil /\ got[cur'] = 0 /\ ends[cur'] = <<>> /\ chars[cur'] = 0 /\ pad[cur'] = 0
  BY <1>4 DEF IInv, Fresh
<1>6. /\ fn' \in Sink \cup {Nil} /\ w' \in BOOLEAN /\ used' \in [Payload -> Sink \cup {Nil}]
      /\ \A p \in Payload : p # cur' => used'[p] = used[p]
      /\ used'[cur'] # Nil => size > 0 /\ fn' = Nil /\ (Kind[used'[cur']] # "none" => w')
  <2>1. CASE size > 0
    <3>1. used' = [used EXCEPT ![cur'] = f] /\ w' = (f # Nil /\ Kind[f] # "none") /\ fn' = Nil
      BY <1>1, <2>1 DEF StartBlob, engage, f
    <3>2. QED
      BY <1>3, <1>4, <2>1, <3>1 DEF IInv, Shape
  <2>2. CASE ~(size > 0)
    <3>1. used' = used /\ w' = FALSE /\ fn' = f
      BY <2>2 DEF StartBlob, f
    <3>2. QED
      BY <1>3, <1>5, <3>1 DEF IInv, Shape
  <2>3. QED
    BY <2>1, <2>2
<1>7. Shape'
  <2>1. info'.size \in Nat /\ cur' \in 0..MaxPayload /\ cur' # 0
    BY <1>1, <1>2, <1>4
  <2>2. n' \in 0..3 /\ total' \in Int /\ out' \in Int /\ at' \in Reading
    BY <1>1 DEF Reading
  <2>3. QED
    BY <1>1, <1>6, <2>1, <2>2 DEF IInv, Shape
<1>8. Fresh'
  BY <1>1, <1>4, <1>6 DEF IInv, Shape, Fresh
<1>9. Counted'
  <2>1. 0 % 4 = 0 /\ 0 \div 4 = 0
    OBVIOUS
  <2>2. fn' # Nil => used'[cur'] = Nil
    BY <1>6
  <2>3. QED
    BY <1>1, <1>5, <2>1, <2>2 DEF Counted, Decoded
<1>10. Delivering'
  BY <1>1, <1>5, <1>6 DEF Delivering
<1>11. EndedInTime'
  <2>1. \A p \in Payload : Len(ends'[p]) <= 1 /\ (p = cur' => ends'[p] = <<>>)
    BY <1>1, <1>5 DEF IInv, EndedInTime
  <2>2. \A p \in Payload : p <= cur => p < cur \/ p = cur
    BY <1>2 DEF Payload
  <2>3. \A p \in Payload : p < cur' => (Ends(p)' => Len(ends'[p]) = 1)
    <3> SUFFICES ASSUME NEW p \in Payload, p < cur', Ends(p)' PROVE Len(ends'[p]) = 1
      OBVIOUS
    <3>1. p < cur \/ (p = cur /\ Over)
      BY <1>1, <1>4, <2>2 DEF Over
    <3>2. Ends(p)
      BY <1>2, <1>4, <1>6 DEF Ends, Payload
    <3>3. QED
      BY <1>1, <3>1, <3>2 DEF IInv, EndedInTime
  <2>4. ~Over'
    BY <1>1 DEF Over
  <2>5. QED
    BY <2>1, <2>3, <2>4 DEF EndedInTime
<1>12. SizeCounted'
  BY <1>1 DEF SizeCounted, Over
<1>13. DeliveredWhole'
  <2>1. <<"close">> # <<>>
    OBVIOUS
  <2>2. QED
    BY <1>1, <1>5, <1>6, <2>1 DEF IInv, DeliveredWhole, Ends
<1>14. EngagedForData'
  <2>1. info'.size = size
    BY <1>1
  <2>2. QED
    BY <1>1, <1>2, <1>5, <1>6, <2>1 DEF EngagedForData
<1>15. QED
  BY <1>7, <1>8, <1>9, <1>10, <1>11, <1>12, <1>13, <1>14 DEF IInv

\* A writer is engaged before there is anything to hand on.
LEMMA EngageKeeps ==
    ASSUME IInv, at = "blob", EngageAtData
    PROVE  /\ fn' = Nil /\ w' \in BOOLEAN /\ used' \in [Payload -> Sink \cup {Nil}]
           /\ \A p \in Payload : p # cur => used'[p] = used[p]
           /\ used'[cur] # Nil /\ Kind[used'[cur]] # "none" /\ ~werr => w' /\ got[cur] = total
           /\ cur \in Payload /\ cur > 0 /\ ends[cur] = <<>> /\ out = 0
<1>1. cur \in Payload /\ cur > 0 /\ ends[cur] = <<>> /\ out = 0
  BY AtPayload DEF Reading, IInv, Counted
<1>2. CASE fn # Nil
  <2>1. used' = [used EXCEPT ![cur] = fn] /\ w' = (Kind[fn] # "none") /\ fn' = Nil
    BY <1>2 DEF EngageAtData, Engages, engage
  <2>2. got[cur] = 0 /\ total = 0 /\ fn \in Sink
    BY <1>1, <1>2 DEF IInv, Counted, Shape
  <2>3. QED
    BY <1>1, <2>1, <2>2 DEF IInv, Shape
<1>3. CASE fn = Nil
  <2>1. UNCHANGED <<used, w, fn>>
    BY <1>3 DEF EngageAtData, Engages
  <2>2. used[cur] # Nil /\ Kind[used[cur]] # "none" /\ ~werr => w /\ got[cur] + 0 = total
    BY <1>1 DEF IInv, Delivering
  <2>3. got[cur] \in Int
    BY <1>1 DEF IInv, Shape
  <2>4. QED
    BY <1>1, <1>3, <2>1, <2>2, <2>3 DEF IInv, Shape
<1>4. QED
  BY <1>2, <1>3

\* A token of data is decoded, and what it completes is to be handed on.
LEMMA DataKeeps ==
    ASSUME IInv, NEW k \in Chars, NEW z \in 0..2, Data(k, z) PROVE IInv'
<1> DEFINE q == (n + k) \div 4
           c == chars[cur]
           d == IF q = 0 THEN 0 ELSE 3 * q - z
<1>1. /\ at = "blob" /\ k > 0 /\ ~done /\ (z > 0 => (n + k) % 4 = 0) /\ EngageAtData
      /\ out' = d /\ total' = total + d /\ n' = (n + k) % 4
      /\ done' \in BOOLEAN /\ (done' <=> z > 0) /\ at' \in {"blob", "tee", "write"} /\ (at' = "blob" => d = 0)
      /\ chars' = [chars EXCEPT ![cur] = @ + k] /\ pad' = [pad EXCEPT ![cur] = z]
      /\ UNCHANGED <<wide, own, device, werr, cur, info, got, ends, err, soft, spoilt>>
  <2>1. at' = CASE d = 0 -> "blob" [] d > 0 /\ ic # "none" /\ ~broken -> "tee" [] OTHER -> "write"
    BY DEF Data, Pending, Bytes
  <2>2. at' \in {"blob", "tee", "write"} /\ (at' = "blob" => d = 0)
    <3> HIDE DEF d
    <3>1. CASE d = 0
      BY <2>1, <3>1
    <3>2. CASE d # 0
      BY <2>1, <3>2
    <3>3. QED
      BY <3>1, <3>2
  <2>3. done' = (z > 0)
    BY DEF Data
  <2>4. done' \in BOOLEAN /\ (done' <=> z > 0)
    <3>1. (z > 0) \in BOOLEAN
      OBVIOUS
    <3>2. QED
      BY <2>3, <3>1, Zenon
  <2>5. /\ at = "blob" /\ k > 0 /\ ~done /\ (z > 0 => (n + k) % 4 = 0) /\ EngageAtData
        /\ out' = d /\ total' = total + d /\ n' = (n + k) % 4
        /\ chars' = [chars EXCEPT ![cur] = @ + k] /\ pad' = [pad EXCEPT ![cur] = z]
        /\ UNCHANGED <<wide, own, device, werr, cur, info, got, ends, err, soft, spoilt>>
    BY DEF Data, Pending, Bytes, sinks, meta
  <2>6. QED
    BY <2>2, <2>4, <2>5
<1>2. /\ fn' = Nil /\ w' \in BOOLEAN /\ used' \in [Payload -> Sink \cup {Nil}]
      /\ \A p \in Payload : p # cur => used'[p] = used[p]
      /\ used'[cur] # Nil /\ Kind[used'[cur]] # "none" /\ ~werr => w' /\ got[cur] = total
      /\ cur \in Payload /\ cur > 0 /\ ends[cur] = <<>> /\ out = 0
  BY <1>1, EngageKeeps
<1>3. k \in Nat /\ c \in Nat /\ n = c % 4 /\ total = 3 * (c \div 4) - pad[cur] /\ pad[cur] = 0
  BY <1>1, <1>2, BlobAssumption DEF BlobAssumption, IInv, Shape, Counted, Decoded
<1>4. /\ (c + k) % 4 = (n + k) % 4 /\ (c + k) \div 4 = (c \div 4) + q
      /\ q \in Nat /\ ((n + k) % 4) \in 0..3 /\ (c \div 4) \in Nat
      /\ n + k = 4 * q + ((n + k) % 4)
  BY <1>3, Quads
<1> HIDE DEF q, c
<1>5. /\ chars' \in [Payload -> Nat] /\ pad' \in [Payload -> 0..2]
      /\ chars'[cur] = c + k /\ pad'[cur] = z
      /\ \A p \in Payload : p # cur => chars'[p] = chars[p] /\ pad'[p] = pad[p]
  <2>1. c + k \in Nat /\ chars \in [Payload -> Nat]
    BY <1>3 DEF IInv, Shape
  <2>4. chars' = [chars EXCEPT ![cur] = c + k]
    BY <1>1 DEF c
  <2>2. pad' = [pad EXCEPT ![cur] = z] /\ pad \in [Payload -> 0..2]
    BY <1>1 DEF IInv, Shape
  <2>3. QED
    BY <1>2, <2>1, <2>2, <2>4
<1>6. d = 3 * q - z
  <2>1. q = 0 => z = 0
    <3> SUFFICES ASSUME q = 0, z # 0 PROVE FALSE
      OBVIOUS
    <3>1. (n + k) % 4 = 0 /\ n + k = 0
      BY <1>1, <1>4
    <3>2. n \in Nat
      BY <1>2 DEF IInv, Shape
    <3>3. QED
      BY <1>1, <1>3, <3>1, <3>2
  <2>2. QED
    BY <2>1
<1> HIDE DEF d
<1>7. total \in Int /\ d \in Int /\ total' = 3 * ((c + k) \div 4) - z
  BY <1>1, <1>3, <1>4, <1>6
<1>8. Shape'
  <2>1. n' \in 0..3 /\ total' \in Int /\ out' \in Int /\ at' \in Reading /\ cur # 0
    BY <1>1, <1>2, <1>4, <1>7 DEF Reading
  <2>2. QED
    BY <1>1, <1>2, <1>5, <2>1 DEF IInv, Shape
<1>9. Fresh'
  BY <1>1, <1>2, <1>5 DEF IInv, Shape, Fresh
<1>10. Counted'
  <2>1. n' = chars'[cur] % 4 /\ total' = Decoded(cur)'
    BY <1>1, <1>4, <1>5, <1>7 DEF Decoded
  <2>2. ~done' => pad'[cur] = 0
    BY <1>1, <1>5
  <2>3. at' \notin {"result", "finish"} /\ (at' \notin {"tee", "write"} => out' = 0)
    BY <1>1
  <2>4. QED
    BY <1>1, <1>2, <2>1, <2>2, <2>3 DEF Counted, Decoded
<1>11. Delivering'
  BY <1>1, <1>2, <1>7 DEF Delivering
<1>12. EndedInTime'
  <2>1. ~Over'
    BY <1>1 DEF Over
  <2>2. \A p \in Payload : p < cur => p # cur
    BY <1>2 DEF Payload
  <2>3. QED
    BY <1>1, <1>2, <2>1, <2>2 DEF IInv, EndedInTime, Ends
<1>13. SizeCounted'
  BY <1>1 DEF SizeCounted, Over
<1>14. DeliveredWhole'
  <2>1. <<"close">> # <<>>
    OBVIOUS
  <2>2. QED
    BY <1>1, <1>2, <1>5, <2>1 DEF IInv, DeliveredWhole, Ends
<1>15. EngagedForData'
  <2>1. chars'[cur] > 0
    BY <1>1, <1>3, <1>5
  <2>2. QED
    BY <1>1, <1>2, <2>1 DEF EngagedForData
<1>16. QED
  BY <1>8, <1>9, <1>10, <1>11, <1>12, <1>13, <1>14, <1>15 DEF IInv

\* Malformed data ends the payload.
LEMMA MalformedKeeps == ASSUME IInv, Malformed PROVE IInv'
<1>1. /\ at = "blob" /\ at' = "reap" /\ EngageAtData /\ err' = TRUE /\ spoilt' = TRUE
      /\ UNCHANGED <<wide, own, device, werr, n, done, total, out, cur, info, got, ends, chars, pad, soft>>
  BY DEF Malformed, sinks, meta, sent
<1>2. /\ fn' = Nil /\ w' \in BOOLEAN /\ used' \in [Payload -> Sink \cup {Nil}]
      /\ \A p \in Payload : p # cur => used'[p] = used[p]
      /\ used'[cur] # Nil /\ Kind[used'[cur]] # "none" /\ ~werr => w' /\ got[cur] = total
      /\ cur \in Payload /\ cur > 0 /\ ends[cur] = <<>> /\ out = 0
  BY <1>1, EngageKeeps
<1>3. Shape'
  BY <1>1, <1>2 DEF IInv, Shape, Reading
<1>4. Fresh'
  BY <1>1, <1>2 DEF IInv, Shape, Fresh
<1>5. Counted'
  BY <1>1, <1>2 DEF IInv, Counted, Decoded
<1>6. Delivering'
  BY <1>1, <1>2 DEF IInv, Shape, Delivering
<1>7. EndedInTime'
  <2>1. ~Over' /\ at' \notin Reading
    BY <1>1 DEF Over, Reading
  <2>2. \A p \in Payload : p < cur => p # cur
    BY <1>2 DEF Payload
  <2>3. QED
    BY <1>1, <1>2, <2>1, <2>2 DEF IInv, EndedInTime, Ends
<1>8. SizeCounted'
  BY <1>1 DEF SizeCounted, Over
<1>9. DeliveredWhole'
  <2>1. <<"close">> # <<>>
    OBVIOUS
  <2>2. QED
    BY <1>1, <1>2, <2>1 DEF IInv, DeliveredWhole, Ends
<1>10. EngagedForData'
  BY <1>1, <1>2 DEF EngagedForData
<1>11. QED
  BY <1>3, <1>4, <1>5, <1>6, <1>7, <1>8, <1>9, <1>10 DEF IInv

\* A writer takes what there is, or fails.
LEMMA WriteKeeps == ASSUME IInv, Write \/ WriteFails PROVE IInv'
<1>1. /\ at = "write" /\ at' = "blob" /\ out' = 0
      /\ UNCHANGED <<wide, own, device, n, done, total, cur, info, used, ends, chars, pad, fn, soft, spoilt>>
  BY DEF Write, WriteFails, Demote, sinks, meta, hist, sent
<1>2. cur \in Payload /\ cur > 0 /\ ends[cur] = <<>>
  BY <1>1, AtPayload DEF Reading
<1>3. /\ w' \in BOOLEAN /\ werr' \in BOOLEAN /\ err' \in BOOLEAN /\ got' \in [Payload -> Int]
      /\ \A p \in Payload : p # cur => got'[p] = got[p]
      /\ fn # Nil => got'[cur] = 0
      /\ used[cur] # Nil /\ Kind[used[cur]] # "none" /\ ~werr' => w' /\ got'[cur] = total
  <2>1. CASE Write
    <3>1. got' = (IF w THEN [got EXCEPT ![cur] = @ + out] ELSE got) /\ UNCHANGED <<w, werr, err>>
      BY <2>1 DEF Write
    <3>2. got[cur] \in Int /\ out \in Int /\ got \in [Payload -> Int]
      BY <1>2 DEF IInv, Shape
    <3>3. used[cur] # Nil /\ Kind[used[cur]] # "none" /\ ~werr => w /\ got[cur] + out = total
      BY <1>2 DEF IInv, Delivering
    <3>4. fn # Nil => got[cur] = 0 /\ total = 0 /\ used[cur] = Nil
      BY <1>2 DEF IInv, Counted
    <3>5. fn = Nil
      BY <1>1, <1>2 DEF IInv, Counted
    <3>6. QED
      BY <1>2, <3>1, <3>2, <3>3, <3>4, <3>5 DEF IInv, Shape
  <2>2. CASE WriteFails
    <3>1. w' = FALSE /\ werr' = TRUE /\ err' = FALSE /\ got' = got
      BY <2>2 DEF WriteFails, Demote, hist
    <3>2. QED
      BY <1>2, <3>1 DEF IInv, Shape, Counted
  <2>3. QED
    BY <2>1, <2>2
<1>4. Shape'
  BY <1>1, <1>2, <1>3 DEF IInv, Shape, Reading
<1>5. Fresh'
  BY <1>1, <1>2, <1>3 DEF IInv, Shape, Fresh
<1>6. Counted'
  BY <1>1, <1>2, <1>3 DEF IInv, Counted, Decoded
<1>7. Delivering'
  BY <1>1, <1>2, <1>3 DEF IInv, Shape, Delivering
<1>8. EndedInTime'
  <2>1. ~Over'
    BY <1>1 DEF Over
  <2>2. \A p \in Payload : p < cur => p # cur
    BY <1>2 DEF Payload
  <2>3. QED
    BY <1>1, <1>2, <2>1, <2>2 DEF IInv, EndedInTime, Ends
<1>9. SizeCounted'
  BY <1>1 DEF SizeCounted, Over
<1>10. DeliveredWhole'
  <2>1. <<"close">> # <<>>
    OBVIOUS
  <2>2. QED
    BY <1>1, <1>2, <1>3, <2>1 DEF IInv, DeliveredWhole, Ends
<1>11. EngagedForData'
  BY <1>1 DEF IInv, EngagedForData
<1>12. QED
  BY <1>4, <1>5, <1>6, <1>7, <1>8, <1>9, <1>10, <1>11 DEF IInv

\* The end of a payload: its writer is closed if it has everything, and else aborted.
LEMMA FinishKeeps == ASSUME IInv, Finish PROVE IInv'
<1> DEFINE k == Kind[used[cur]]
           called == IF used[cur] = Nil THEN <<>> ELSE Ending(k)
<1>1. /\ at = "finish" /\ at' = "reap" /\ (err' = err \/ err' = TRUE)
      /\ ends' = [ends EXCEPT ![cur] = @ \o called]
      /\ soft' = IF WrongSize \/ werr THEN soft \cup {cur} ELSE soft
      /\ UNCHANGED <<wide, own, device, w, werr, n, done, total, out, cur, info, used, got, chars, pad, fn, spoilt>>
  BY DEF Finish, sinks, b64, meta, sent
<1>2. cur \in Payload /\ cur > 0 /\ ends[cur] = <<>>
  BY <1>1, AtPayload DEF Reading
<1>a. (used[cur] = Nil => called = <<>>) /\ (used[cur] # Nil => called = Ending(k))
  OBVIOUS
<1>b. Ends(cur) <=> (used[cur] # Nil /\ k \in {"closer", "aborter"})
  BY DEF Ends
<1> HIDE DEF k, called
<1>3. /\ called \in {<<>>, <<"close">>, <<"abort">>}
      /\ Ends(cur) => called \in {<<"close">>, <<"abort">>}
      /\ called = <<"close">> /\ k = "aborter" => ~err /\ ~werr
  <2>1. <<"close">> # <<"abort">> /\ <<"close">> # <<>>
    OBVIOUS
  <2>2. CASE used[cur] = Nil
    <3>1. called = <<>> /\ ~Ends(cur)
      BY <2>2, <1>a, <1>b
    <3>2. called # <<"close">>
      BY <2>1, <3>1
    <3>3. QED
      BY <3>1, <3>2
  <2>3. CASE used[cur] # Nil
    <3>1. called = Ending(k)
      BY <2>3, <1>a
    <3>2. Ends(cur) <=> k \in {"closer", "aborter"}
      BY <2>3, <1>b
    <3>3. CASE k \notin {"closer", "aborter"}
      <4>1. called = <<>> /\ ~Ends(cur)
        BY <3>1, <3>2, <3>3 DEF Ending
      <4>2. called # <<"close">>
        BY <2>1, <4>1
      <4>3. QED
        BY <4>1, <4>2
    <3>4. CASE k \in {"closer", "aborter"} /\ Failed
      <4>1. called = (IF k = "aborter" THEN <<"abort">> ELSE <<"close">>)
        BY <3>1, <3>4 DEF Ending, abortSink
      <4>2. CASE k = "aborter"
        <5>1. called = <<"abort">> /\ called # <<"close">>
          BY <2>1, <4>1, <4>2
        <5>2. QED
          BY <5>1
      <4>3. CASE k # "aborter"
        BY <4>1, <4>3
      <4>4. QED
        BY <4>2, <4>3
    <3>5. CASE k \in {"closer", "aborter"} /\ ~Failed
      <4>1. called = <<"close">>
        BY <3>1, <3>5 DEF Ending
      <4>2. QED
        BY <3>2, <3>5, <4>1 DEF Failed
    <3>6. QED
      BY <3>3, <3>4, <3>5
  <2>4. QED
    BY <2>2, <2>3
<1>c. called \in Seq({"close", "abort"}) /\ <<>> \o called = called
  <2>1. <<>> \in Seq({"close", "abort"}) /\ <<"close">> \in Seq({"close", "abort"})
        /\ <<"abort">> \in Seq({"close", "abort"})
    OBVIOUS
  <2>2. called \in Seq({"close", "abort"})
    BY <1>3, <2>1
  <2>3. QED
    BY <2>2
<1>4. ends'[cur] = called /\ \A p \in Payload : p # cur => ends'[p] = ends[p]
  BY <1>1, <1>2, <1>c DEF IInv, Shape
<1>5. ends' \in [Payload -> Seq({"close", "abort"})] /\ Len(called) <= 1 /\ (Ends(cur) => Len(called) = 1)
  <2>1. Len(<<>>) = 0 /\ Len(<<"close">>) = 1 /\ Len(<<"abort">>) = 1
    OBVIOUS
  <2>2. ends' \in [Payload -> Seq({"close", "abort"})]
    <3>1. ends' = [ends EXCEPT ![cur] = called]
      BY <1>1, <1>2, <1>c DEF IInv, Shape
    <3>2. QED
      BY <3>1, <1>c DEF IInv, Shape
  <2>3. Len(called) <= 1
    <3>1. called = <<>> \/ called = <<"close">> \/ called = <<"abort">>
      BY <1>3
    <3>2. Len(called) = 0 \/ Len(called) = 1
      BY <2>1, <3>1, Zenon
    <3>3. QED
      BY <3>2
  <2>4. Ends(cur) => Len(called) = 1
    BY <1>3, <2>1
  <2>5. QED
    BY <2>2, <2>3, <2>4
<1>6. err' \in BOOLEAN /\ (~err' => ~err)
  BY <1>1, Zenon DEF IInv, Shape
<1>7. Shape'
  <2>1. at' \in {"reap"} /\ cur # 0
    BY <1>1, <1>2
  <2>2. QED
    BY <1>1, <1>5, <1>6, <2>1 DEF IInv, Shape
<1>8. Fresh'
  BY <1>1, <1>2, <1>4 DEF IInv, Fresh, Payload
<1>9. Counted' /\ Delivering'
  BY <1>1 DEF IInv, Counted, Decoded, Delivering
<1>10. EndedInTime'
  <2>1. at' \notin Reading
    BY <1>1 DEF Reading
  <2>2. \A p \in Payload : Ends(p)' <=> Ends(p)
    BY <1>1 DEF Ends
  <2>3. QED
    BY <1>1, <1>4, <1>5, <2>1, <2>2 DEF IInv, EndedInTime
<1>11. SizeCounted'
  <2> SUFFICES ASSUME cur' > 0, Over', info'.size > 0, ~info'.compressed, total' # info'.size
               PROVE  cur' \in soft'
    BY DEF SizeCounted
  <2>1. ~err
    BY <1>1, <1>6 DEF Over
  <2>2. WrongSize
    BY <1>1, <2>1 DEF WrongSize
  <2>3. QED
    BY <1>1, <2>2
<1>12. DeliveredWhole'
  <2> SUFFICES ASSUME NEW p \in Payload, Ends(p)', Kind[used'[p]] = "aborter", ends'[p] = <<"close">>
               PROVE  chars'[p] % 4 = 0 /\ got'[p] = 3 * (chars'[p] \div 4) - pad'[p]
    BY DEF DeliveredWhole
  <2>1. CASE p = cur
    <3>1. ~err /\ ~werr
      <4>1. k = "aborter" /\ called = <<"close">>
        BY <1>1, <1>4, <2>1 DEF k
      <4>2. QED
        BY <1>3, <4>1
    <3>2. n = 0 /\ out = 0 /\ n = chars[cur] % 4 /\ total = Decoded(cur)
      BY <1>1, <1>2, <3>1 DEF IInv, Counted
    <3>3. used[cur] # Nil /\ Kind[used[cur]] # "none"
      BY <1>1, <2>1 DEF Ends
    <3>4. got[cur] + out = total /\ got[cur] \in Int
      BY <1>2, <3>1, <3>3 DEF IInv, Delivering, Shape
    <3>5. QED
      BY <1>1, <2>1, <3>2, <3>4 DEF Decoded
  <2>2. CASE p # cur
    BY <1>1, <1>4, <2>2 DEF IInv, DeliveredWhole, Ends
  <2>3. QED
    BY <2>1, <2>2
<1>13. EngagedForData'
  BY <1>1 DEF IInv, EngagedForData
<1>14. QED
  BY <1>7, <1>8, <1>9, <1>10, <1>11, <1>12, <1>13 DEF IInv

\* Every step keeps the invariant, which therefore holds for ever.
LEMMA Invariance == Spec => []IInv
<1>1. IInv /\ [Next]_vars => IInv'
  <2> SUFFICES ASSUME IInv, [Next]_vars PROVE IInv'
    OBVIOUS
  <2>1. CASE UNCHANGED vars
    <3>1. UNCHANGED Core /\ UNCHANGED <<wide, own, at, device, err, soft, spoilt>>
      BY <2>1 DEF vars, sinks, b64, infl, meta, hist, sent, Core
    <3>2. /\ at' \in Reading => at \in Reading
          /\ Over' => Over
          /\ at' \in {"result", "finish"} /\ ~err' => n = 0
          /\ IF at' \in {"tee", "write"} THEN fn = Nil ELSE out = 0 \/ cur = 0
      <4>1. cur > 0 \/ (cur = 0 /\ at \notin Reading)
        BY DEF IInv, Shape
      <4>2. QED
        BY <3>1, <4>1 DEF IInv, Counted, Over, Reading
    <3>3. Shape'
      BY <3>1 DEF IInv, Shape, Core
    <3>4. QED
      BY <3>1, <3>2, <3>3, MovesOn
  <2>2. CASE Token
    BY <2>2, StillKeeps, StartBlobKeeps, MalformedKeeps, DataKeeps DEF Token
  <2>3. CASE readOneBlob
    BY <2>3, StillKeeps, WriteKeeps, FinishKeeps DEF readOneBlob
  <2>4. QED
    BY <2>1, <2>2, <2>3, StillKeeps DEF Next
<1>2. QED
  BY <1>1, InitIInv, PTL DEF Spec

\* Each payload's writer is ended once, before anything else is read; one that can be
\* aborted is closed only with all of its bytes, however the payload was cut into tokens
\* and quads; a wrong size is counted; and no sink is given an empty update
\* (b64Writer.Write, readOneBlob and abortSink, client/blob.go).
THEOREM WholeOrNotAtAll == Spec => []ClosedIsWhole
<1>1. IInv => ClosedIsWhole
  <2> SUFFICES ASSUME IInv PROVE EndedOnce /\ WrongSizeIsCounted
    BY DEF IInv, ClosedIsWhole
  <2>1. EndedOnce
    <3> SUFFICES ASSUME NEW p \in 1..cur
                 PROVE  Len(ends[p]) <= 1 /\ (at \in {"top", "vector"} /\ Ends(p) => Len(ends[p]) = 1)
      BY DEF EndedOnce
    <3>1. p \in Payload /\ (p < cur \/ p = cur)
      BY BlobAssumption DEF BlobAssumption, IInv, Shape, Payload
    <3>2. QED
      BY <3>1 DEF IInv, EndedInTime, Over
  <2>2. WrongSizeIsCounted
    BY DEF IInv, SizeCounted, Counted, Decoded, Over, WrongSizeIsCounted
  <2>3. QED
    BY <2>1, <2>2
<1>2. QED
  BY <1>1, Invariance, PTL

-----------------------------------------------------------------------------
(* The connection, and the goroutine *)

\* A sink whose writes fail costs its payload and never the connection, which is lost only
\* if the stream broke or brought malformed data: the failed writer is demoted and the
\* payload read on (readOneBlob, client/blob.go).  A failing Close is another matter: its
\* error is returned.
THEOREM WritesSpareStream ==
    ASSUME "close" \notin Fails PROVE Spec => []SinkSparesStream
<1> DEFINE Inv == (err \/ at = "lost") => spoilt
<1>1. Init => Inv
  BY DEF Init
<1>2. Inv /\ [Next]_vars => Inv'
  <2> SUFFICES ASSUME Inv, [Next]_vars PROVE Inv'
    OBVIOUS
  <2> USE DEF sinks, b64, infl, meta, hist, sent
  <2>1. CASE Register \/ inflater \/ UNCHANGED vars
    BY <2>1 DEF Register, BlobSink, BlobSinkFor, inflater, Inflate, InflateEnds, vars
  <2>2. ASSUME NEW d \in Device, StartVector(d) PROVE Inv'
    BY <2>2 DEF StartVector
  <2>3. CASE EndVector \/ StreamBreaks \/ Blank \/ Malformed
    BY <2>3 DEF EndVector, StreamBreaks, Blank, Malformed
  <2>4. ASSUME NEW size \in Sizes, NEW z \in BOOLEAN, StartBlob(size, z) PROVE Inv'
    BY <2>4 DEF StartBlob
  <2>5. ASSUME NEW k \in Chars, NEW z \in 0..2, Data(k, z) PROVE Inv'
    <3>1. err' = err /\ spoilt' = spoilt /\ at' \in {"blob", "tee", "write"}
      BY <2>5, Zenon DEF Data
    <3>2. QED
      BY <3>1
  <2>6. CASE EndBlob
    <3>1. err' = (n # 0) /\ spoilt' = (spoilt \/ n # 0) /\ at' # "lost"
      BY <2>6 DEF EndBlob
    <3>2. QED
      BY <3>1, Zenon
  <2>7. CASE Write \/ Result \/ Stop \/ TeeFails
    BY <2>7 DEF Write, Result, Stop, TeeFails
  <2>8. CASE WriteFails
    BY <2>8 DEF WriteFails, Demote
  <2>9. CASE Finish
    BY <2>9 DEF Finish
  <2>10. CASE Return
    BY <2>10 DEF Return
  <2>11. QED
    BY <2>1, <2>2, <2>3, <2>4, <2>5, <2>6, <2>7, <2>8, <2>9, <2>10 DEF Next, Token, readOneBlob
<1>3. Inv => SinkSparesStream
  BY DEF SinkSparesStream
<1>4. QED
  BY <1>1, <1>2, <1>3, PTL DEF Spec

\* Whatever ends a payload, its inflater's goroutine has ended before anything else is
\* read and before the connection is given up: ic.stop is deferred (client/blob.go).
THEOREM NoInflaterLeft == Spec => []InflaterReaped
<1>1. Init => InflaterReaped
  BY DEF Init, InflaterReaped
<1>2. InflaterReaped /\ [Next]_vars => InflaterReaped'
  <2> SUFFICES ASSUME InflaterReaped, [Next]_vars PROVE InflaterReaped'
    OBVIOUS
  <2> USE DEF sinks, b64, infl, meta, hist, sent, InflaterReaped
  <2>1. CASE Register \/ inflater \/ UNCHANGED vars
    BY <2>1 DEF Register, BlobSink, BlobSinkFor, inflater, Inflate, InflateEnds, vars
  <2>2. ASSUME NEW d \in Device, StartVector(d) PROVE InflaterReaped'
    BY <2>2 DEF StartVector
  <2>3. CASE EndVector \/ StreamBreaks \/ Blank \/ Malformed \/ EndBlob
    BY <2>3 DEF EndVector, StreamBreaks, Blank, Malformed, EndBlob
  <2>4. ASSUME NEW size \in Sizes, NEW z \in BOOLEAN, StartBlob(size, z) PROVE InflaterReaped'
    BY <2>4 DEF StartBlob
  <2>5. ASSUME NEW k \in Chars, NEW z \in 0..2, Data(k, z) PROVE InflaterReaped'
    <3>1. at' \in {"blob", "tee", "write"}
      BY <2>5, Zenon DEF Data
    <3>2. QED
      BY <3>1
  <2>6. CASE Write \/ WriteFails \/ Result \/ Finish \/ Stop \/ TeeFails
    BY <2>6 DEF Write, WriteFails, Demote, Result, Finish, Stop, TeeFails
  <2>7. CASE Return
    BY <2>7 DEF Return, Reaped
  <2>8. QED
    BY <2>1, <2>2, <2>3, <2>4, <2>5, <2>6, <2>7 DEF Next, Token, readOneBlob
<1>3. QED
  BY <1>1, <1>2, PTL DEF Spec
=============================================================================
