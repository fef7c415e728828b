------------------------- MODULE CanTxAloneProofs --------------------------
(***************************************************************************)
(* Proof about CanTx: a call of can2_data_packet and Can2Send_MultiMessages*)
(* that no other call overlaps, and that loses no frame, brings its        *)
(* command to the PTC.                                                     *)
(***************************************************************************)
EXTENDS CanTxProofs

\* The five frames in buf are those of p.
Holds(buf, p) == \A k \in Frame, g \in Part : buf[k][g] = p[k][g]

\* The first m fields of command c stand in buf, zeros in all other places.
Begun(buf, c, m) ==
  LET n == PreProcess_CanOrder(c.order) IN
  \A k \in Frame, g \in Part :
    buf[k][g] = IF \E j \in 1..m : Fields(n)[j] = <<k, g>> THEN Plain(c)[k][g]
                                                            ELSE ZeroFrame[g]

\* A task sends nothing before its packet is complete.
Unsent ==
  /\ \A t \in Tasks : call[t] = Idle => sent[t] = 0
  /\ call["screen"] # Idle /\ at # NumFields + 2 => sent["screen"] = 0

\* The packet that can_task is sending alone lies in the buffer.
CanAlone ==
  whole /\ call["can"] # Idle =>
    call["screen"] = Idle /\ Holds(can2_tbuf, Packet(call["can"]))

\* What screen_task has packed by now lies in the buffer, if it is alone.
ScreenAlone ==
  whole /\ call["screen"] # Idle =>
    /\ call["can"] = Idle
    /\ at <= NumFields + 2
    /\ at <= NumFields => Begun(can2_tbuf, call["screen"], at)
    /\ at = NumFields + 1 => /\ Holds(can2_tbuf, Plain(call["screen"]))
                             /\ crc = Digest(Plain(call["screen"]), FrameNum("screen"))
    /\ at = NumFields + 2 => Holds(can2_tbuf, Packet(call["screen"]))

\* The PTC has collected just the frames sent so far, and at the end has taken
\* the message.
Arriving ==
  \A t \in Tasks : whole /\ Ready(t) =>
    /\ sent[t] <= FrameNum(t)
    /\ 0 < sent[t] /\ sent[t] < FrameNum(t) =>
         Len(rx) = sent[t] /\ \A k \in 1..sent[t] : rx[k] = can2_tbuf[k]
    /\ sent[t] = FrameNum(t) => told = Digest(Plain(call[t]), FrameNum(t))

Alone == Unsent /\ CanAlone /\ ScreenAlone /\ Arriving
-----------------------------------------------------------------------------
(***************************************************************************)
(* Packing.                                                                *)
(***************************************************************************)
\* The segment bytes stand in the list of fields, too.
LEMMA SegFields ==
  ASSUME NEW n \in 2..5
  PROVE  /\ Len(Fields(n)) \in 4..9
         /\ Fields(n)[3] = <<2, "seg">>
         /\ n > 2 => 7 <= Len(Fields(n)) /\ Fields(n)[6] = <<3, "seg">>
         /\ n > 3 => 8 <= Len(Fields(n)) /\ Fields(n)[8] = <<4, "seg">>
         /\ n > 4 => 9 <= Len(Fields(n)) /\ Fields(n)[9] = <<5, "seg">>
<1>1. CASE n = 2
  BY <1>1 DEF Fields, HeadFields
<1>2. CASE n = 3
  BY <1>2 DEF Fields, HeadFields, BodyFields
<1>3. CASE n = 4
  BY <1>3 DEF Fields, HeadFields, BodyFields
<1>4. CASE n = 5
  BY <1>4 DEF Fields, HeadFields, BodyFields
<1> QED
  BY <1>1, <1>2, <1>3, <1>4

\* Whatever can2_data_packet leaves out is zero in the packet: the segment bytes
\* of the first frame and of the frames behind the last one included.
LEMMA LeftOut ==
  ASSUME NEW c \in Cmds, NEW n, n = PreProcess_CanOrder(c.order),
         NEW k \in Frame, NEW g \in Part,
         \A j \in 1..Len(Fields(n)) : Fields(n)[j] # <<k, g>>
  PROVE  Plain(c)[k][g] = ZeroFrame[g]
<1>0. n \in 2..5
  BY FrameCount
<1>1. /\ ~(k = 1 /\ g = "a") /\ ~(k = 1 /\ g = "b") /\ ~(k = 2 /\ g = "a")
      /\ n > 2 => ~(k = 2 /\ g = "b") /\ ~(k = 3 /\ g = "a")
  BY <1>0, FieldList
<1>2. CASE g = "seg"
  <2>1. /\ k # 2 /\ (n > 2 => k # 3) /\ (n > 3 => k # 4) /\ (n > 4 => k # 5)
    <3>1. /\ Fields(n)[3] # <<k, "seg">>
          /\ n > 2 => Fields(n)[6] # <<k, "seg">>
          /\ n > 3 => Fields(n)[8] # <<k, "seg">>
          /\ n > 4 => Fields(n)[9] # <<k, "seg">>
      BY <1>0, <1>2, SegFields
    <3>2. /\ Fields(n)[3] = <<2, "seg">>
          /\ n > 2 => Fields(n)[6] = <<3, "seg">>
          /\ n > 3 => Fields(n)[8] = <<4, "seg">>
          /\ n > 4 => Fields(n)[9] = <<5, "seg">>
      BY <1>0, SegFields
    <3> QED
      BY <3>1, <3>2
  <2>2. k = 1 \/ k > n
    BY <1>0, <2>1 DEF Frame
  <2>3. Plain(c)[k].seg = Segment(k, n)
    BY DEF Plain
  <2>4. Segment(k, n) = 0
    BY <2>2 DEF Segment
  <2> QED
    BY <1>2, <2>3, <2>4 DEF ZeroFrame
<1>3. CASE g = "a"
  BY <1>0, <1>1, <1>3 DEF Plain, ZeroFrame, Frame
<1>4. CASE g = "b"
  BY <1>0, <1>1, <1>4 DEF Plain, ZeroFrame, Frame
<1> QED
  BY <1>2, <1>3, <1>4 DEF Part

LEMMA BegunClear ==
  ASSUME NEW c \in Cmds
  PROVE  Begun([k \in Frame |-> ZeroFrame], c, 0)
<1>1. \A n : ~ \E j \in 1..0 : n
  OBVIOUS
<1> QED
  BY <1>1 DEF Begun

\* With all fields written the packet is complete but for its CRC.
LEMMA BegunEnds ==
  ASSUME NEW c \in Cmds, NEW buf, NEW n, n = PreProcess_CanOrder(c.order),
         Begun(buf, c, Len(Fields(n)))
  PROVE  Holds(buf, Plain(c))
<1>1. SUFFICES ASSUME NEW k \in Frame, NEW g \in Part
               PROVE  buf[k][g] = Plain(c)[k][g]
  BY DEF Holds
<1>2. buf[k][g] = IF \E j \in 1..Len(Fields(n)) : Fields(n)[j] = <<k, g>>
                  THEN Plain(c)[k][g] ELSE ZeroFrame[g]
  BY DEF Begun
<1>3. CASE \E j \in 1..Len(Fields(n)) : Fields(n)[j] = <<k, g>>
  BY <1>2, <1>3
<1>4. CASE ~ \E j \in 1..Len(Fields(n)) : Fields(n)[j] = <<k, g>>
  <2>1. Plain(c)[k][g] = ZeroFrame[g]
    BY <1>4, LeftOut
  <2> QED
    BY <1>2, <1>4, <2>1
<1> QED
  BY <1>3, <1>4

LEMMA BegunIs ==
  ASSUME NEW c, NEW buf, NEW m,
         \A k \in Frame, g \in Part :
           buf[k][g] = IF \E j \in 1..m : Fields(PreProcess_CanOrder(c.order))[j] = <<k, g>>
                       THEN Plain(c)[k][g] ELSE ZeroFrame[g]
  PROVE  Begun(buf, c, m)
BY DEF Begun

LEMMA BegunStep ==
  ASSUME NEW c \in Cmds, NEW buf, Shaped(buf), NEW n, n = PreProcess_CanOrder(c.order),
         NEW m \in Nat, m < Len(Fields(n)), Begun(buf, c, m), NEW x, x = Fields(n)[m + 1],
         NEW new, new = [buf EXCEPT ![x[1]][x[2]] = Plain(c)[x[1]][x[2]]]
  PROVE  Begun(new, c, m + 1)
<1>0. n \in 2..5 /\ Len(Fields(n)) \in Nat
  BY FrameCount, FieldList
<1>1. PICK k \in 1..n, f \in Part : x = <<k, f>>
  <2>1. m + 1 \in 1..Len(Fields(n))
    BY <1>0
  <2> QED
    BY <1>0, <2>1, FieldPlaces DEF Part
<1>2. k \in Frame /\ new = [buf EXCEPT ![k][f] = Plain(c)[k][f]]
  BY <1>0, <1>1 DEF Frame
<1>3. /\ new[k][f] = Plain(c)[k][f]
      /\ \A j \in Frame, g \in Part : (j # k \/ g # f) => new[j][g] = buf[j][g]
  BY <1>2 DEF Shaped
<1>4. ASSUME NEW j \in Frame, NEW g \in Part
      PROVE  new[j][g] = IF \E i \in 1..(m + 1) : Fields(n)[i] = <<j, g>>
                         THEN Plain(c)[j][g] ELSE ZeroFrame[g]
  <2>1. CASE j = k /\ g = f
    <3>1. m + 1 \in 1..(m + 1) /\ Fields(n)[m + 1] = <<j, g>>
      BY <1>1, <2>1
    <3> QED
      BY <1>3, <2>1, <3>1
  <2>2. CASE ~(j = k /\ g = f)
    <3>1. new[j][g] = buf[j][g]
      BY <1>3, <2>2
    <3>2. Fields(n)[m + 1] # <<j, g>>
      BY <1>1, <2>2
    <3>3. (\E i \in 1..(m + 1) : Fields(n)[i] = <<j, g>>)
             <=> (\E i \in 1..m : Fields(n)[i] = <<j, g>>)
      BY <3>2
    <3>4. buf[j][g] = IF \E i \in 1..m : Fields(n)[i] = <<j, g>>
                      THEN Plain(c)[j][g] ELSE ZeroFrame[g]
      BY DEF Begun
    <3> QED
      BY <3>1, <3>3, <3>4
  <2> QED
    BY <2>1, <2>2
<1> DEFINE next == m + 1
<1>5. \A j \in Frame, g \in Part :
        new[j][g] = IF \E i \in 1..next : Fields(PreProcess_CanOrder(c.order))[i] = <<j, g>>
                    THEN Plain(c)[j][g] ELSE ZeroFrame[g]
  BY <1>4
<1> HIDE DEF next
<1>6. Begun(new, c, next)
  BY <1>5, BegunIs
<1> QED
  BY <1>6 DEF next

\* The CRC is computed over the plain packet ...
LEMMA PlainDigest ==
  ASSUME NEW c \in Cmds, NEW n, n = PreProcess_CanOrder(c.order),
         NEW buf, Holds(buf, Plain(c))
  PROVE  Digest(buf, n) = Digest(Plain(c), n)
<1>0. n \in 2..5
  BY FrameCount
<1>1. ASSUME NEW x \in Covered(n) PROVE buf[x[1]][x[2]] = Plain(c)[x[1]][x[2]]
  <2>1. x[1] \in Frame /\ x[2] \in Part
    BY <1>0 DEF Covered, Frame, Part
  <2> QED
    BY <2>1 DEF Holds
<1> QED
  BY <1>1 DEF Digest

\* ... and completes it.
LEMMA SealEnds ==
  ASSUME NEW c \in Cmds, NEW n, n = PreProcess_CanOrder(c.order),
         NEW buf, Shaped(buf), Holds(buf, Plain(c)),
         NEW new, new = [buf EXCEPT ![n].b = <<"crc", Digest(Plain(c), n)>>]
  PROVE  Holds(new, Packet(c))
<1>0. n \in Frame
  BY FrameCount DEF Frame
<1>1. /\ new[n].b = <<"crc", Digest(Plain(c), n)>>
      /\ \A j \in Frame, g \in Part : (j # n \/ g # "b") => new[j][g] = buf[j][g]
  BY <1>0 DEF Shaped, Part
<1>2. SUFFICES ASSUME NEW j \in Frame, NEW g \in Part
               PROVE  new[j][g] = Packet(c)[j][g]
  BY DEF Holds
<1>3. CASE j = n /\ g = "b"
  BY <1>1, <1>3, PacketShaped
<1>4. CASE ~(j = n /\ g = "b")
  <2>1. new[j][g] = Plain(c)[j][g]
    BY <1>1, <1>4 DEF Holds
  <2>2. Packet(c)[j][g] = Plain(c)[j][g]
    BY <1>4, PacketShaped DEF Part
  <2> QED
    BY <2>1, <2>2
<1> QED
  BY <1>3, <1>4
-----------------------------------------------------------------------------
(***************************************************************************)
(* Sending.                                                                *)
(***************************************************************************)
\* The first frame opens a message at the PTC, the last one closes it, and no
\* other frame does either.
LEMMA PacketSeg ==
  ASSUME NEW c \in Cmds, NEW n, n = PreProcess_CanOrder(c.order), NEW k \in 1..n
  PROVE  /\ Packet(c)[k].seg \in Nat
         /\ Packet(c)[k].seg = 0 <=> k = 1
         /\ Packet(c)[k].seg >= 128 <=> k = n
<1>0. n \in 2..5 /\ k \in Frame
  BY FrameCount DEF Frame
<1>1. Packet(c)[k].seg = Plain(c)[k].seg
  BY <1>0, PacketShaped
<1>2. Plain(c)[k].seg = Segment(k, n)
  BY <1>0 DEF Plain
<1>3. /\ Segment(k, n) \in Nat /\ (Segment(k, n) = 0 <=> k = 1)
      /\ (Segment(k, n) >= 128 <=> k = n)
  BY <1>0 DEF Segment
<1> QED
  BY <1>1, <1>2, <1>3

\* What the PTC has collected after the next frame.
LEMMA CollectNext ==
  ASSUME Received, NEW c \in Cmds, NEW n, n = PreProcess_CanOrder(c.order),
         Holds(can2_tbuf, Packet(c)), NEW i \in 1..n,
         i > 1 => Len(rx) = i - 1 /\ \A k \in 1..(i - 1) : rx[k] = can2_tbuf[k],
         NEW fs, fs = Collect(can2_tbuf[i])
  PROVE  /\ Len(fs) = i /\ fs # <<>>
         /\ \A k \in 1..i : fs[k] = can2_tbuf[k]
<1> DEFINE f == can2_tbuf[i]
<1>0. n \in 2..5 /\ i \in Frame
  BY FrameCount DEF Frame
<1>1. f.seg = Packet(c)[i].seg
  BY <1>0 DEF Holds, Part
<1>2. f.seg = 0 <=> i = 1
  BY <1>1, PacketSeg
<1> HIDE DEF f
<1>3. CASE i = 1
  <2>1. fs = <<f>>
    BY <1>2, <1>3 DEF Collect, f
  <2>2. Len(<<f>>) = 1 /\ <<f>>[1] = f /\ <<f>> # <<>>
    OBVIOUS
  <2> QED
    BY <1>3, <2>1, <2>2 DEF f
<1>4. CASE i > 1
  <2>1. PICK S : rx \in Seq(S)
    BY DEF Received
  <2>2. Len(rx) = i - 1 /\ \A k \in 1..(i - 1) : rx[k] = can2_tbuf[k]
    BY <1>4
  <2>3. rx # <<>> /\ Len(rx) < 5 /\ f.seg # 0
    <3>1. Len(<<>>) = 0
      OBVIOUS
    <3> QED
      BY <1>0, <1>2, <1>4, <2>2, <3>1
  <2>4. fs = Append(rx, f)
    BY <2>3 DEF Collect, f
  <2>5. rx \in Seq(S \cup {f})
    <3>1. /\ Len(rx) \in Nat /\ rx = [k \in 1..Len(rx) |-> rx[k]]
          /\ \A k \in 1..Len(rx) : rx[k] \in S
      BY <2>1
    <3>2. rx \in [1..Len(rx) -> S \cup {f}]
      BY <3>1
    <3> QED
      BY <3>1, <3>2
  <2>6. /\ Len(fs) = Len(rx) + 1 /\ fs[Len(rx) + 1] = f
        /\ \A k \in 1..Len(rx) : fs[k] = rx[k]
    BY <2>4, <2>5
  <2>7. Len(fs) = i /\ fs[i] = f /\ \A k \in 1..(i - 1) : fs[k] = can2_tbuf[k]
    BY <1>0, <2>2, <2>6
  <2>8. fs # <<>>
    <3>1. Len(<<>>) = 0
      OBVIOUS
    <3> QED
      BY <1>4, <2>7, <3>1
  <2> QED
    BY <1>0, <2>7, <2>8 DEF f
<1> QED
  BY <1>3, <1>4

\* The PTC takes the message with the last frame, for its CRC is right.
LEMMA CollectLast ==
  ASSUME NEW c \in Cmds, NEW n, n = PreProcess_CanOrder(c.order),
         Holds(can2_tbuf, Packet(c)),
         NEW fs, Len(fs) = n, fs # <<>>, \A k \in 1..n : fs[k] = can2_tbuf[k]
  PROVE  /\ Digest(fs, Len(fs)) = Digest(Plain(c), n)
         /\ CrcRight(fs, can2_tbuf[n])
<1>0. n \in 2..5 /\ n \in Frame
  BY FrameCount DEF Frame
<1>1. ASSUME NEW x \in Covered(n) PROVE fs[x[1]][x[2]] = Plain(c)[x[1]][x[2]]
  <2>1. PICK k \in 1..n, g \in {"a", "b"} : x = <<k, g>> /\ ~(k = n /\ g = "b")
    BY DEF Covered
  <2>2. k \in Frame /\ g \in Part
    BY <1>0 DEF Frame, Part
  <2>3. fs[k][g] = Packet(c)[k][g]
    BY <2>2 DEF Holds
  <2>4. Packet(c)[k][g] = Plain(c)[k][g]
    BY <2>1, <2>2, PacketShaped
  <2> QED
    BY <2>1, <2>3, <2>4
<1>2. Digest(fs, n) = Digest(Plain(c), n)
  BY <1>1 DEF Digest
<1>3. can2_tbuf[n].b = <<"crc", Digest(Plain(c), n)>>
  <2>1. can2_tbuf[n].b = Packet(c)[n].b
    BY <1>0 DEF Holds, Part
  <2> QED
    BY <2>1, PacketShaped
<1> QED
  BY <1>2, <1>3 DEF CrcRight
-----------------------------------------------------------------------------
(***************************************************************************)
(* The invariant Alone.                                                    *)
(***************************************************************************)
LEMMA CallFrames ==
  ASSUME IInv, NEW t \in Tasks, call[t] # Idle
  PROVE  /\ call[t] \in Cmds
         /\ FrameNum(t) = PreProcess_CanOrder(call[t].order)
         /\ FrameNum(t) \in 2..5
<1>1. call[t] \in Cmds
  BY DEF IInv, Calls, Tasks, Cmds
<1> QED
  BY <1>1, FrameCount DEF FrameNum

\* Two calls under way are not alone.
LEMMA NotBoth ==
  ASSUME Alone, whole, NEW t \in Tasks, call[t] # Idle
  PROVE  call[Other(t)] = Idle
BY DEF Alone, CanAlone, ScreenAlone, Tasks, Other

LEMMA AloneInit ==
  ASSUME Init PROVE Alone
BY DEF Init, Alone, Unsent, CanAlone, ScreenAlone, Arriving, Tasks

LEMMA CanPackAlone ==
  ASSUME IInv, Alone, NEW c \in CanCmds, CanPack(c)
  PROVE  Alone'
<1>0. c \in Cmds /\ c # Idle /\ PreProcess_CanOrder(c.order) \in 2..5
  BY FrameCount DEF Cmds
<1>1. /\ call["can"] = Idle /\ call' = [call EXCEPT !["can"] = c]
      /\ can2_tbuf' = Packet(c) /\ at' = at /\ crc' = crc /\ sent' = sent
      /\ whole' = (call["screen"] = Idle)
  BY DEF CanPack, Begin, Other
<1>2. call'["can"] = c /\ call'["screen"] = call["screen"]
  BY <1>1 DEF IInv, Calls, Tasks
<1>3. sent["can"] = 0 /\ (call["screen"] = Idle => sent["screen"] = 0)
  BY <1>1 DEF Alone, Unsent, Tasks
<1>4. Unsent'
  BY <1>0, <1>1, <1>2, <1>3 DEF Alone, Unsent, Tasks, NumFields, FrameNum
<1>5. CanAlone'
  BY <1>1, <1>2 DEF CanAlone, Holds
<1>6. ScreenAlone'
  BY <1>1, <1>2 DEF ScreenAlone
<1>7. Arriving'
  <2>1. FrameNum("can")' \in 2..5 /\ sent'["can"] = 0
    BY <1>0, <1>1, <1>2, <1>3 DEF FrameNum
  <2>2. ASSUME whole' PROVE ~Ready("screen")'
    BY <1>1, <1>2, <2>2 DEF Ready
  <2> QED
    BY <2>1, <2>2 DEF Arriving, Tasks
<1> QED
  BY <1>4, <1>5, <1>6, <1>7 DEF Alone

LEMMA ScreenClearAlone ==
  ASSUME IInv, Alone, NEW c \in ScreenCmds, ScreenClear(c)
  PROVE  Alone'
<1>0. c \in Cmds /\ c # Idle /\ PreProcess_CanOrder(c.order) \in 2..5
  BY FrameCount DEF Cmds
<1>1. /\ call["screen"] = Idle /\ call' = [call EXCEPT !["screen"] = c]
      /\ can2_tbuf' = [k \in Frame |-> ZeroFrame] /\ at' = 0 /\ sent' = sent
      /\ whole' = (call["can"] = Idle)
  BY DEF ScreenClear, Begin, Other, IInv, Calls
<1>2. call'["screen"] = c /\ call'["can"] = call["can"]
  BY <1>1 DEF IInv, Calls, Tasks
<1>3. sent["screen"] = 0 /\ (call["can"] = Idle => sent["can"] = 0)
  BY <1>1 DEF Alone, Unsent, Tasks
<1>4. NumFields' \in 4..9
  BY <1>0, <1>2, FieldList DEF FrameNum, NumFields
<1>5. \A m \in 4..9 : 0 <= m /\ 0 <= m + 2 /\ 0 # m + 1 /\ 0 # m + 2
  OBVIOUS
<1>6. 0 <= NumFields' /\ 0 <= NumFields' + 2 /\ 0 # NumFields' + 1 /\ 0 # NumFields' + 2
  BY <1>4, <1>5
<1>7. Unsent'
  BY <1>1, <1>2, <1>3 DEF Unsent, Tasks
<1>8. CanAlone'
  BY <1>1, <1>2 DEF CanAlone
<1>9. ScreenAlone'
  <2>1. Begun(can2_tbuf', c, 0)
    BY <1>0, <1>1, BegunClear
  <2> QED
    BY <1>1, <1>2, <1>6, <2>1 DEF ScreenAlone, Begun
<1>10. Arriving'
  <2>1. ~Ready("screen")'
    BY <1>1, <1>6 DEF Ready
  <2>2. ASSUME whole' PROVE ~Ready("can")'
    BY <1>1, <1>2, <2>2 DEF Ready
  <2> QED
    BY <2>1, <2>2 DEF Arriving, Tasks
<1> QED
  BY <1>7, <1>8, <1>9, <1>10 DEF Alone

\* The steps of screen_task's packing change nothing while can_task is alone.
LEMMA ScreenPackAlone ==
  ASSUME IInv, Alone, call["screen"] # Idle, at \in Nat, at < NumFields + 2,
         at' = at + 1, UNCHANGED <<call, sent, rx, told, whole>>,
         ScreenAlone'
  PROVE  Alone'
<1>1. NumFields \in 4..9 /\ FrameNum("screen") \in 2..5
  BY ScreenFrames DEF IInv
<1>2. NumFields' = NumFields /\ FrameNum("screen")' = FrameNum("screen")
  BY DEF NumFields, FrameNum
<1>3. sent["screen"] = 0
  BY <1>1 DEF Alone, Unsent
<1>4. Unsent'
  BY <1>3 DEF Alone, Unsent, Tasks
<1>5. CanAlone'
  BY DEF Alone, CanAlone
<1>6. Arriving'
  <2>1. ASSUME whole' PROVE ~Ready("can")'
    BY <2>1 DEF Alone, ScreenAlone, Ready
  <2>2. sent'["screen"] = 0 /\ FrameNum("screen")' \in 2..5
    BY <1>1, <1>2, <1>3
  <2> QED
    BY <2>1, <2>2 DEF Arriving, Tasks
<1> QED
  BY <1>4, <1>5, <1>6 DEF Alone

LEMMA ScreenWriteAlone ==
  ASSUME IInv, Alone, ScreenWrite
  PROVE  Alone'
<1> DEFINE c == call["screen"]
           n == FrameNum("screen")
<1>0. /\ c # Idle /\ c \in Cmds /\ n = PreProcess_CanOrder(c.order)
      /\ NumFields \in 4..9 /\ NumFields = Len(Fields(n)) /\ at \in Nat /\ at < NumFields
  BY ScreenFrames DEF ScreenWrite, IInv, Calls
<1>1. /\ at' = at + 1 /\ UNCHANGED <<call, crc, sent, rx, told, whole>>
      /\ LET x == Fields(n)[at + 1]
         IN can2_tbuf' = [can2_tbuf EXCEPT ![x[1]][x[2]] = Plain(c)[x[1]][x[2]]]
  BY DEF ScreenWrite
<1>2. NumFields' = NumFields /\ call'["screen"] = c /\ Shaped(can2_tbuf)
  BY <1>1 DEF NumFields, FrameNum, IInv, Sealed
<1>3. whole => call["can"] = Idle /\ Begun(can2_tbuf, c, at)
  BY <1>0 DEF Alone, ScreenAlone
<1> HIDE DEF c, n
<1>4. whole => Begun(can2_tbuf', c, at + 1)
  BY <1>0, <1>1, <1>2, <1>3, BegunStep
<1>5. at' <= NumFields /\ at' <= NumFields + 2 /\ at' # NumFields + 1 /\ at' # NumFields + 2
  BY <1>0, <1>1
<1>6. whole => Begun(can2_tbuf', c, at')
  BY <1>1, <1>4
<1>7. ScreenAlone'
  BY <1>1, <1>2, <1>3, <1>5, <1>6 DEF ScreenAlone, Begun
<1> QED
  BY <1>0, <1>1, <1>7, ScreenPackAlone DEF c

LEMMA ScreenCrcAlone ==
  ASSUME IInv, Alone, ScreenCrc
  PROVE  Alone'
<1> DEFINE c == call["screen"]
           n == FrameNum("screen")
<1>0. /\ c # Idle /\ c \in Cmds /\ n = PreProcess_CanOrder(c.order)
      /\ NumFields \in 4..9 /\ NumFields = Len(Fields(n)) /\ at = NumFields
  BY ScreenFrames DEF ScreenCrc, IInv, Calls
<1>1. /\ at' = at + 1 /\ UNCHANGED <<can2_tbuf, call, sent, rx, told, whole>>
      /\ crc' = Digest(can2_tbuf, n)
  BY DEF ScreenCrc
<1>2. NumFields' = NumFields /\ call'["screen"] = c /\ FrameNum("screen")' = n
  BY <1>1 DEF NumFields, FrameNum
<1>3. whole => call["can"] = Idle /\ Begun(can2_tbuf, c, at)
  BY <1>0 DEF Alone, ScreenAlone
<1> HIDE DEF c, n
<1>4. whole => Holds(can2_tbuf, Plain(c))
  BY <1>0, <1>3, BegunEnds
<1>5. whole => crc' = Digest(Plain(c), n)
  BY <1>0, <1>1, <1>4, PlainDigest
<1>6. at' <= NumFields + 2 /\ ~(at' <= NumFields) /\ at' # NumFields + 2
  BY <1>0, <1>1
<1>7. ScreenAlone'
  BY <1>1, <1>2, <1>3, <1>4, <1>5, <1>6 DEF ScreenAlone, Holds
<1> QED
  BY <1>0, <1>1, <1>7, ScreenPackAlone DEF c

LEMMA ScreenSealAlone ==
  ASSUME IInv, Alone, ScreenSeal
  PROVE  Alone'
<1> DEFINE c == call["screen"]
           n == FrameNum("screen")
<1>0. /\ c # Idle /\ c \in Cmds /\ n = PreProcess_CanOrder(c.order)
      /\ NumFields \in 4..9 /\ at = NumFields + 1
  BY ScreenFrames DEF ScreenSeal, IInv, Calls
<1>1. /\ at' = at + 1 /\ UNCHANGED <<call, sent, rx, told, whole>>
      /\ can2_tbuf' = [can2_tbuf EXCEPT ![n].b = <<"crc", crc>>]
  BY DEF ScreenSeal
<1>2. NumFields' = NumFields /\ call'["screen"] = c /\ Shaped(can2_tbuf)
  BY <1>1 DEF NumFields, FrameNum, IInv, Sealed
<1>3. whole => /\ call["can"] = Idle /\ Holds(can2_tbuf, Plain(c))
               /\ crc = Digest(Plain(c), n)
  BY <1>0 DEF Alone, ScreenAlone
<1> HIDE DEF c, n
<1>4. whole => Holds(can2_tbuf', Packet(c))
  BY <1>0, <1>1, <1>2, <1>3, SealEnds
<1>5. at' <= NumFields + 2 /\ ~(at' <= NumFields) /\ at' # NumFields + 1
  BY <1>0, <1>1
<1>6. ScreenAlone'
  BY <1>1, <1>2, <1>3, <1>4, <1>5 DEF ScreenAlone, Holds
<1> QED
  BY <1>0, <1>1, <1>6, ScreenPackAlone DEF c

\* A frame that is delivered is the next one that the PTC waits for.
LEMMA SendFrameAlone ==
  ASSUME IInv, Received, Alone, NEW t \in Tasks, NEW d \in BOOLEAN, SendFrame(t, d)
  PROVE  Alone'
<1> DEFINE c  == call[t]
           n  == FrameNum(t)
           i  == sent[t] + 1
           f  == can2_tbuf[i]
           fs == Collect(f)
<1>1. /\ Ready(t) /\ c # Idle /\ sent[t] < n /\ sent' = [sent EXCEPT ![t] = i]
      /\ UNCHANGED <<can2_tbuf, call, at, crc>>
  BY DEF SendFrame, Ready
<1>2. whole' => whole /\ d
  BY Zenon DEF SendFrame
<1>3. d => /\ rx' = (IF f.seg >= 128 THEN <<>> ELSE fs)
           /\ told' = IF f.seg >= 128 /\ CrcRight(fs, f) THEN Digest(fs, Len(fs)) ELSE told
  BY DEF SendFrame, Receive
<1>4. c \in Cmds /\ n = PreProcess_CanOrder(c.order) /\ n \in 2..5
  BY <1>1, CallFrames
<1>5. sent \in [Tasks -> 0..5] /\ i \in 1..n /\ sent'[t] = i
      /\ \A u \in Tasks : u # t => sent'[u] = sent[u]
  <2>1. sent \in [Tasks -> 0..5]
    BY DEF IInv, Calls
  <2> QED
    BY <1>1, <1>4, <2>1
<1>6. FrameNum(t)' = n /\ NumFields' = NumFields /\ \A u \in Tasks : Ready(u)' <=> Ready(u)
  BY <1>1 DEF FrameNum, NumFields, Ready
<1>7. Unsent'
  BY <1>1, <1>5, <1>6 DEF Alone, Unsent, Ready, Tasks
<1>8. CanAlone' /\ ScreenAlone'
  <2>1. CanAlone'
    BY <1>1, <1>2 DEF Alone, CanAlone, Holds
  <2>2. FrameNum("screen")' = FrameNum("screen")
    BY <1>1 DEF FrameNum
  <2>3. ScreenAlone'
    BY <1>1, <1>2, <1>6, <2>2 DEF Alone, ScreenAlone, Holds, Begun
  <2> QED
    BY <2>1, <2>3
<1>9. Arriving'
  <2>1. SUFFICES ASSUME whole'
                 PROVE  Arriving'
    BY DEF Arriving
  <2>2. whole /\ d
    BY <1>2, <2>1
  <2>3. Holds(can2_tbuf, Packet(c))
    BY <1>1, <2>2 DEF Alone, CanAlone, ScreenAlone, Ready, Tasks
  <2>4. i > 1 => Len(rx) = i - 1 /\ \A k \in 1..(i - 1) : rx[k] = can2_tbuf[k]
    <3>1. 0 < sent[t] => Len(rx) = sent[t] /\ \A k \in 1..sent[t] : rx[k] = can2_tbuf[k]
      BY <1>1, <2>2 DEF Alone, Arriving
    <3>2. i - 1 = sent[t] /\ (i > 1 <=> 0 < sent[t])
      BY <1>5
    <3> QED
      BY <3>1, <3>2
  <2> HIDE DEF c, n, i
  <2>5. Len(fs) = i /\ fs # <<>> /\ \A k \in 1..i : fs[k] = can2_tbuf[k]
    BY <1>4, <1>5, <2>3, <2>4, CollectNext
  <2>6. f.seg >= 128 <=> i = n
    <3>1. i \in Frame
      BY <1>4, <1>5 DEF Frame
    <3>2. f.seg = Packet(c)[i].seg
      BY <2>3, <3>1 DEF Holds, Part
    <3> QED
      BY <1>4, <1>5, <3>2, PacketSeg
  <2>7. i = n => CrcRight(fs, f) /\ Digest(fs, Len(fs)) = Digest(Plain(c), n)
    BY <1>4, <2>3, <2>5, CollectLast
  <2> HIDE DEF f, fs
  <2>8. i < n => Len(rx') = i /\ \A k \in 1..i : rx'[k] = can2_tbuf'[k]
    BY <1>1, <1>3, <1>4, <1>5, <2>2, <2>5, <2>6
  <2>9. i = n => told' = Digest(Plain(c), n)
    BY <1>3, <2>2, <2>6, <2>7
  <2>10. call[Other(t)] = Idle /\ call' = call
    BY <1>1, <2>2, NotBoth DEF c
  <2>11. \A u \in Tasks : Ready(u)' => u = t
    BY <2>10 DEF Ready, Tasks, Other
  <2>12. /\ sent'[t] <= FrameNum(t)'
         /\ sent'[t] < FrameNum(t)' =>
              Len(rx') = sent'[t] /\ \A k \in 1..sent'[t] : rx'[k] = can2_tbuf'[k]
         /\ sent'[t] = FrameNum(t)' => told' = Digest(Plain(call'[t]), FrameNum(t)')
    BY <1>4, <1>5, <1>6, <2>8, <2>9, <2>10 DEF c
  <2> QED
    BY <2>11, <2>12 DEF Arriving
<1> QED
  BY <1>7, <1>8, <1>9 DEF Alone

LEMMA ReturnAlone ==
  ASSUME IInv, Alone, NEW t \in Tasks, Return(t)
  PROVE  Alone'
<1>1. /\ call[t] # Idle /\ call' = [call EXCEPT ![t] = Idle]
      /\ sent' = [sent EXCEPT ![t] = 0]
      /\ at' = (IF t = "screen" THEN 0 ELSE at)
      /\ whole' = whole
  BY DEF Return, Ready
<1>2. /\ call'[t] = Idle /\ call'[Other(t)] = call[Other(t)]
      /\ sent'[t] = 0 /\ sent'[Other(t)] = sent[Other(t)]
  BY <1>1 DEF IInv, Calls, Tasks, Other
<1>3. whole' => \A u \in Tasks : call'[u] = Idle
  BY <1>1, <1>2, NotBoth DEF Tasks, Other
<1>4. Unsent'
  <2>1. CASE t = "screen"
    BY <1>2, <2>1 DEF Alone, Unsent, Tasks, Other
  <2>2. CASE t = "can"
    BY <1>1, <1>2, <2>2 DEF Alone, Unsent, Tasks, Other, NumFields, FrameNum
  <2> QED
    BY <2>1, <2>2 DEF Tasks
<1> QED
  BY <1>3, <1>4 DEF Alone, CanAlone, ScreenAlone, Arriving, Ready, Tasks

LEMMA AloneNext ==
  ASSUME IInv, Received, Alone, [Next]_vars
  PROVE  Alone'
<1>1. CASE UNCHANGED vars
  BY <1>1 DEF vars, Alone, Unsent, CanAlone, ScreenAlone, Arriving, Ready, NumFields,
     FrameNum, Holds, Begun
<1> QED
  BY <1>1, CanPackAlone, ScreenClearAlone, ScreenWriteAlone, ScreenCrcAlone,
     ScreenSealAlone, SendFrameAlone, ReturnAlone DEF Next
-----------------------------------------------------------------------------
\* The message that a packet's CRC vouches for says what the command says.
LEMMA PlainCarries ==
  ASSUME NEW c \in Cmds, NEW n, n = PreProcess_CanOrder(c.order)
  PROVE  Carries(Digest(Plain(c), n), c)
<1> DEFINE m == Digest(Plain(c), n)
<1>0. n \in 2..5 /\ c.order \in Orders
  BY FrameCount
<1>1. DataLen(c.order) > 0 => n > 2
  BY <1>0 DEF DataLen, PreProcess_CanOrder, Orders
<1>2. DOMAIN m = Covered(n) /\ \A x \in Covered(n) : m[x] = Plain(c)[x[1]][x[2]]
  BY DEF Digest
<1>3. /\ <<1, "a">> \in Covered(n) /\ <<1, "b">> \in Covered(n) /\ <<2, "a">> \in Covered(n)
      /\ n > 2 => <<2, "b">> \in Covered(n) /\ <<3, "a">> \in Covered(n)
  BY <1>0 DEF Covered
<1>4. /\ Plain(c)[1].a = <<"order", c.order>> /\ Plain(c)[1].b = <<"code", HeadCode(c)>>
      /\ Plain(c)[2].a = <<"len", DataLen(c.order)>>
  BY DEF Plain, Frame
<1>5. n > 2 => Plain(c)[2].b = <<"data1", c.data>> /\ Plain(c)[3].a = <<"data2", c.data>>
  BY DEF Plain, Frame
<1> HIDE DEF m
<1>6. /\ m[<<1, "a">>] = Plain(c)[1].a /\ m[<<1, "b">>] = Plain(c)[1].b
      /\ m[<<2, "a">>] = Plain(c)[2].a
      /\ n > 2 => m[<<2, "b">>] = Plain(c)[2].b /\ m[<<3, "a">>] = Plain(c)[3].a
  BY <1>2, <1>3
<1>7. Carries(m, c)
  BY <1>1, <1>2, <1>3, <1>4, <1>5, <1>6 DEF Carries
<1> QED
  BY <1>7 DEF m

\* For every command, whatever calls came before and whatever the PTC had
\* collected from them: a call of can2_data_packet and Can2Send_MultiMessages
\* that no other call overlaps and that loses no frame returns with its command
\* at the PTC.
THEOREM TxAloneArrives == Spec => AloneArrives
<1> DEFINE Arrives == \A t \in Tasks : Return(t) /\ whole => Carries(told, call[t])
<1>1. Init => Alone
  BY AloneInit
<1>2. IInv /\ Received /\ Alone /\ [Next]_vars => Alone'
  BY AloneNext
<1>3. IInv /\ Alone => Arrives
  <2>1. SUFFICES ASSUME IInv, Alone, NEW t \in Tasks, Return(t), whole
                 PROVE  Carries(told, call[t])
    OBVIOUS
  <2>2. Ready(t) /\ sent[t] = FrameNum(t) /\ call[t] # Idle
    BY <2>1 DEF Return, Ready
  <2>3. told = Digest(Plain(call[t]), FrameNum(t))
    BY <2>1, <2>2 DEF Alone, Arriving
  <2> QED
    BY <2>1, <2>2, <2>3, CallFrames, PlainCarries
<1> QED
  BY <1>1, <1>2, <1>3, Invariance, PTL DEF Spec, AloneArrives
=============================================================================
