---------------------------- MODULE CanTxProofs ----------------------------
(***************************************************************************)
(* Proofs about CanTx: the transmission with its shared buffer implements  *)
(* CanLink, for every set of commands and any number of losses.            *)
(***************************************************************************)
EXTENDS CanTx, TLAPS

\* Every command has between two and five frames, so that frame n exists.
LEMMA FrameCount ==
  ASSUME NEW c \in Cmds
  PROVE  /\ PreProcess_CanOrder(c.order) \in 2..5
         /\ c # Idle
         /\ c.order \in Orders
<1>1. c.order \in Orders
  BY TxAssumption
<1>2. c # Idle
  BY <1>1 DEF Idle, Orders
<1>3. PreProcess_CanOrder(c.order) \in 2..5
  BY <1>1 DEF PreProcess_CanOrder, DataLen, Orders
<1> QED
  BY <1>1, <1>2, <1>3

\* can2_data_packet writes fields of its own frames only, and never the CRC's.
LEMMA FieldPlaces ==
  ASSUME NEW n \in 2..5
  PROVE  /\ Len(Fields(n)) \in Nat
         /\ \A j \in 1..Len(Fields(n)) :
              \E k \in 1..n, f \in {"seg", "a", "b"} :
                 Fields(n)[j] = <<k, f>> /\ <<k, f>> # <<n, "b">>
<1>1. CASE n = 2
  BY <1>1 DEF Fields, HeadFields
<1>2. CASE n = 3
  BY <1>2 DEF Fields, HeadFields, BodyFields
<1>3. CASE n = 4
  BY <1>3 DEF Fields, HeadFields, BodyFields
<1>4. CASE n = 5
  BY <1>4 DEF Fields, HeadFields, BodyFields
<1> QED
  BY <1>1, <1>2, <1>3, <1>4

\* Where the payload fields of a packet of more than two frames stand in its list.
LEMMA FieldList ==
  ASSUME NEW n \in 2..5
  PROVE  /\ Len(Fields(n)) \in 4..9
         /\ Fields(n)[1] = <<1, "a">> /\ Fields(n)[2] = <<1, "b">>
         /\ Fields(n)[4] = <<2, "a">>
         /\ n > 2 => /\ Len(Fields(n)) \in 7..9
                     /\ Fields(n)[5] = <<2, "b">> /\ Fields(n)[7] = <<3, "a">>
<1>1. CASE n = 2
  BY <1>1 DEF Fields, HeadFields
<1>2. CASE n = 3
  BY <1>2 DEF Fields, HeadFields, BodyFields
<1>3. CASE n = 4
  BY <1>3 DEF Fields, HeadFields, BodyFields
<1>4. CASE n = 5
  BY <1>4 DEF Fields, HeadFields, BodyFields
<1> QED
  BY <1>1, <1>2, <1>3, <1>4

\* What it does not write is zero in its packet: the memset has put it there.
LEMMA UnwrittenIsZero ==
  ASSUME NEW c \in Cmds, NEW n, n = PreProcess_CanOrder(c.order),
         NEW k \in 1..n, NEW f \in {"a", "b"}, ~(k = n /\ f = "b"),
         \A j \in 1..Len(Fields(n)) : Fields(n)[j] # <<k, f>>
  PROVE  Plain(c)[k][f] = Zero
<1>0. n \in 2..5
  BY FrameCount
<1>1. /\ ~(k = 1 /\ f = "a") /\ ~(k = 1 /\ f = "b") /\ ~(k = 2 /\ f = "a")
      /\ n > 2 => ~(k = 2 /\ f = "b") /\ ~(k = 3 /\ f = "a")
  BY <1>0, FieldList
<1>2. k \in Frame /\ k # 1
  BY <1>0, <1>1 DEF Frame
<1>3. CASE f = "a"
  BY <1>0, <1>1, <1>2, <1>3 DEF Plain
<1>4. CASE f = "b"
  BY <1>0, <1>1, <1>2, <1>4 DEF Plain
<1> QED
  BY <1>3, <1>4
-----------------------------------------------------------------------------
(***************************************************************************)
(* The buffer and the packets.                                             *)
(***************************************************************************)
Part == {"seg", "a", "b"}

\* Five frames, each with its three parts.
Shaped(buf) == DOMAIN buf = Frame /\ \A k \in Frame : DOMAIN buf[k] = Part

\* The part b of a frame is no CRC.
NoCrc(frame) == frame.b[1] # "crc"

LEMMA ZeroShaped ==
  /\ Shaped([k \in Frame |-> ZeroFrame])
  /\ \A k \in Frame : NoCrc([j \in Frame |-> ZeroFrame][k])
BY DEF Shaped, ZeroFrame, Part, NoCrc, Zero

LEMMA PlainShaped ==
  ASSUME NEW c \in Cmds
  PROVE  Shaped(Plain(c)) /\ \A k \in Frame : NoCrc(Plain(c)[k])
<1>1. Shaped(Plain(c))
  BY DEF Shaped, Plain, Part
<1>2. ASSUME NEW k \in Frame PROVE NoCrc(Plain(c)[k])
  <2>1. Plain(c)[k].b \in {<<"code", HeadCode(c)>>, <<"data1", c.data>>, <<"0", "0">>}
    BY DEF Plain, Zero
  <2> QED
    BY <2>1 DEF NoCrc
<1> QED
  BY <1>1, <1>2

\* Packet(c) differs from Plain(c) in the CRC only.
LEMMA PacketShaped ==
  ASSUME NEW c \in Cmds, NEW n, n = PreProcess_CanOrder(c.order)
  PROVE  /\ Shaped(Packet(c))
         /\ Packet(c)[n].b = <<"crc", Digest(Plain(c), n)>>
         /\ \A k \in Frame : k # n => Packet(c)[k].b = Plain(c)[k].b
         /\ \A k \in Frame : Packet(c)[k].a = Plain(c)[k].a /\ Packet(c)[k].seg = Plain(c)[k].seg
<1>1. n \in Frame
  BY FrameCount DEF Frame
<1>2. Packet(c) = [Plain(c) EXCEPT ![n].b = <<"crc", Digest(Plain(c), n)>>]
  BY DEF Packet
<1>3. Shaped(Plain(c))
  BY PlainShaped
<1> QED
  BY <1>1, <1>2, <1>3 DEF Shaped, Part

\* What stands in front of the CRC is the command's image.
LEMMA CoveredImage ==
  ASSUME NEW c \in Cmds, NEW n, n = PreProcess_CanOrder(c.order),
         NEW k \in 1..n, NEW f \in {"a", "b"}, ~(k = n /\ f = "b")
  PROVE  Plain(c)[k][f] = Image[c][<<k, f>>]
<1>1. n \in 2..5 /\ k \in Frame
  BY FrameCount DEF Frame
<1>2. Image[c][<<k, f>>] = Packet(c)[k][f]
  BY <1>1 DEF Image
<1>3. CASE f = "a"
  BY <1>1, <1>2, <1>3, PacketShaped
<1>4. CASE f = "b"
  BY <1>1, <1>2, <1>4, PacketShaped
<1> QED
  BY <1>3, <1>4

\* A written field changes nothing else.
LEMMA WriteField ==
  ASSUME NEW buf, Shaped(buf), NEW k \in Frame, NEW f \in Part, NEW v,
         NEW new, new = [buf EXCEPT ![k][f] = v]
  PROVE  /\ Shaped(new)
         /\ new[k][f] = v
         /\ \A j \in Frame, g \in Part : (j # k \/ g # f) => new[j][g] = buf[j][g]
BY DEF Shaped

\* The CRC of a packet vouches for the command alone.
LEMMA OwnDigest ==
  ASSUME NEW c \in Cmds, NEW n, n = PreProcess_CanOrder(c.order), NEW S, c \in S
  PROVE  Link!IsMixture(Digest(Plain(c), n), S)
<1>1. SUFFICES ASSUME NEW x \in Covered(n)
               PROVE  Digest(Plain(c), n)[x] = Image[c][x]
  BY DEF Link!IsMixture, Digest
<1>2. PICK k \in 1..n, f \in {"a", "b"} : x = <<k, f>> /\ ~(k = n /\ f = "b")
  BY DEF Covered
<1>3. Digest(Plain(c), n)[x] = Plain(c)[k][f]
  BY <1>2 DEF Digest
<1>0. n \in 2..5
  BY FrameCount
<1>4. Plain(c)[k][f] = Image[c][<<k, f>>]
  <2>1. ~(k = n /\ f = "b")
    BY <1>2
  <2>2. CASE f = "a"
    BY <1>0, <2>1, <2>2, CoveredImage
  <2>3. CASE f = "b"
    BY <1>0, <2>1, <2>3, CoveredImage
  <2> QED
    BY <2>2, <2>3
<1> QED
  BY <1>2, <1>3, <1>4

LEMMA MixtureGrows ==
  ASSUME NEW m, NEW S, NEW T, S \subseteq T, Link!IsMixture(m, S)
  PROVE  Link!IsMixture(m, T)
BY DEF Link!IsMixture
-----------------------------------------------------------------------------
(***************************************************************************)
(* The inductive invariant.                                                *)
(***************************************************************************)
\* Whose calls are under way, and how far they are.
Calls ==
  /\ call = [t \in Tasks |-> call[t]]
  /\ call["can"] \in CanCmds \cup {Idle}
  /\ call["screen"] \in ScreenCmds \cup {Idle}
  /\ mix \subseteq Cmds
  /\ \A t \in Tasks : call[t] # Idle => call[t] \in mix
  /\ sent \in [Tasks -> 0..5]
  /\ at \in 0..12
  /\ call["screen"] = Idle => at = 0

\* Every CRC in the buffer vouches for a mixture of the busy period's commands.
Sealed ==
  /\ Shaped(can2_tbuf)
  /\ (\E t \in Tasks : call[t] # Idle) =>
       \A k \in Frame : can2_tbuf[k].b[1] = "crc" => Link!IsMixture(can2_tbuf[k].b[2], mix)

\* While screen_task packs, each byte its CRC will cover comes from a command of
\* the period, or is a zero that screen_task has still to overwrite or to leave.
Packing ==
  call["screen"] # Idle /\ at <= NumFields =>
    \A k \in 1..FrameNum("screen"), f \in {"a", "b"} :
      ~(k = FrameNum("screen") /\ f = "b") =>
        \/ \E c \in mix : can2_tbuf[k][f] = Image[c][<<k, f>>]
        \/ /\ can2_tbuf[k][f] = Zero
           /\ \A j \in 1..at : Fields(FrameNum("screen"))[j] # <<k, f>>

\* Between computing the CRC and storing it.
Computed ==
  call["screen"] # Idle /\ at = NumFields + 1 => Link!IsMixture(crc, mix)

IInv == Calls /\ Sealed /\ Packing /\ Computed

LEMMA ScreenFrames ==
  ASSUME Calls, call["screen"] # Idle
  PROVE  /\ call["screen"] \in Cmds
         /\ FrameNum("screen") = PreProcess_CanOrder(call["screen"].order)
         /\ FrameNum("screen") \in 2..5
         /\ NumFields \in 4..9
         /\ NumFields = Len(Fields(FrameNum("screen")))
<1>1. call["screen"] \in Cmds
  BY DEF Calls, Cmds
<1>2. FrameNum("screen") \in 2..5
  BY <1>1, FrameCount DEF FrameNum
<1>3. NumFields \in 4..9
  BY <1>2, FieldList DEF NumFields
<1> QED
  BY <1>1, <1>2, <1>3 DEF FrameNum, NumFields

LEMMA IInvInit ==
  ASSUME Init PROVE IInv
<1>1. Calls
  BY DEF Init, Calls, Tasks
<1>2. Sealed
  BY ZeroShaped DEF Init, Sealed, Tasks
<1> QED
  BY <1>1, <1>2 DEF Init, IInv, Packing, Computed, Tasks

\* can_task replaces the whole buffer by its packet.
LEMMA CanPackKeeps ==
  ASSUME IInv, NEW c \in CanCmds, CanPack(c)
  PROVE  IInv'
<1>0. c \in Cmds /\ c # Idle
  BY FrameCount DEF Cmds
<1>1. /\ call["can"] = Idle /\ call' = [call EXCEPT !["can"] = c]
      /\ mix' = mix \cup {c} /\ can2_tbuf' = Packet(c)
      /\ at' = at /\ crc' = crc /\ sent' = sent
  BY DEF CanPack, Begin
<1>2. /\ call'["can"] = c /\ call'["screen"] = call["screen"]
      /\ call' = [t \in Tasks |-> call'[t]]
  BY <1>1 DEF IInv, Calls, Tasks
<1>3. Calls'
  BY <1>0, <1>1, <1>2 DEF IInv, Calls, Tasks, Cmds
<1>4. Sealed'
  <2>1. ASSUME NEW k \in Frame, Packet(c)[k].b[1] = "crc"
        PROVE  Link!IsMixture(Packet(c)[k].b[2], mix')
    <3>1. k = PreProcess_CanOrder(c.order)
      BY <1>0, <2>1, PlainShaped, PacketShaped DEF NoCrc
    <3>2. Packet(c)[k].b[2] = Digest(Plain(c), k)
      BY <1>0, <3>1, PacketShaped
    <3> QED
      BY <1>0, <1>1, <3>1, <3>2, OwnDigest
  <2> QED
    BY <1>0, <1>1, <2>1, PacketShaped DEF Sealed
<1>5. Packing'
  <2>1. SUFFICES ASSUME call["screen"] # Idle,
                        NEW k \in 1..FrameNum("screen"), NEW f \in {"a", "b"}
                 PROVE  Packet(c)[k][f] = Image[c][<<k, f>>]
    BY <1>1, <1>2 DEF Packing, FrameNum, NumFields
  <2>2. k \in Frame
    BY <2>1, ScreenFrames DEF IInv, Frame
  <2> QED
    BY <1>0, <2>2 DEF Image
<1>6. Computed'
  BY <1>1, <1>2, MixtureGrows DEF IInv, Computed, FrameNum, NumFields
<1> QED
  BY <1>3, <1>4, <1>5, <1>6 DEF IInv

LEMMA ScreenClearKeeps ==
  ASSUME IInv, NEW c \in ScreenCmds, ScreenClear(c)
  PROVE  IInv'
<1>0. c \in Cmds /\ c # Idle
  BY FrameCount DEF Cmds
<1>1. /\ call["screen"] = Idle /\ call' = [call EXCEPT !["screen"] = c]
      /\ mix' = mix \cup {c} /\ can2_tbuf' = [k \in Frame |-> ZeroFrame]
      /\ at' = at /\ crc' = crc /\ sent' = sent /\ at = 0
  BY DEF ScreenClear, Begin, IInv, Calls
<1>2. /\ call'["screen"] = c /\ call'["can"] = call["can"]
      /\ call' = [t \in Tasks |-> call'[t]]
  BY <1>1 DEF IInv, Calls, Tasks
<1>3. Calls'
  BY <1>0, <1>1, <1>2 DEF IInv, Calls, Tasks, Cmds
<1>4. Sealed'
  BY <1>1, ZeroShaped DEF Sealed, NoCrc
<1>5. FrameNum("screen")' \in 2..5 /\ NumFields' \in 4..9
  BY <1>0, <1>2, FrameCount, FieldList DEF FrameNum, NumFields
<1>6. Packing'
  <2>1. SUFFICES ASSUME NEW k \in Frame, NEW f \in {"a", "b"}
                 PROVE  [j \in Frame |-> ZeroFrame][k][f] = Zero
    BY <1>1, <1>5 DEF Packing, Frame
  <2> QED
    BY DEF ZeroFrame
<1>7. Computed'
  <2>0. \A m \in 4..9 : 0 # m + 1
    OBVIOUS
  <2>1. at' # NumFields' + 1
    BY <1>1, <1>5, <2>0
  <2> QED
    BY <2>1 DEF Computed
<1> QED
  BY <1>3, <1>4, <1>6, <1>7 DEF IInv

\* One field: it comes from screen_task's own command.
LEMMA ScreenWriteKeeps ==
  ASSUME IInv, ScreenWrite
  PROVE  IInv'
<1> DEFINE c == call["screen"]
           n == FrameNum("screen")
<1>0. /\ c # Idle /\ c \in Cmds /\ c \in mix /\ n = PreProcess_CanOrder(c.order)
      /\ n \in 2..5 /\ NumFields \in 4..9 /\ NumFields = Len(Fields(n)) /\ at < NumFields
      /\ at \in Nat
  BY ScreenFrames DEF ScreenWrite, IInv, Calls, Tasks
<1>a. LET x == Fields(n)[at + 1]
      IN can2_tbuf' = [can2_tbuf EXCEPT ![x[1]][x[2]] = Plain(c)[x[1]][x[2]]]
  BY DEF ScreenWrite
<1>b. at' = at + 1 /\ UNCHANGED <<call, crc, sent, mix>>
  BY DEF ScreenWrite
<1>7. FrameNum("screen")' = n /\ NumFields' = NumFields
  BY <1>b DEF FrameNum, NumFields
<1>c. Packing => \A k \in 1..n, f \in {"a", "b"} :
                   ~(k = n /\ f = "b") =>
                     \/ \E d \in mix : can2_tbuf[k][f] = Image[d][<<k, f>>]
                     \/ /\ can2_tbuf[k][f] = Zero
                        /\ \A j \in 1..at : Fields(n)[j] # <<k, f>>
  <2>1. c # Idle /\ at <= NumFields
    BY <1>0
  <2> QED
    BY <2>1 DEF Packing
<1> HIDE DEF c, n
<1>1. PICK k \in 1..n, f \in Part : Fields(n)[at + 1] = <<k, f>> /\ ~(k = n /\ f = "b")
  <2>1. at + 1 \in 1..Len(Fields(n))
    BY <1>0
  <2> QED
    BY <1>0, <2>1, FieldPlaces DEF Part
<1>2. can2_tbuf' = [can2_tbuf EXCEPT ![k][f] = Plain(c)[k][f]]
  <2>1. Fields(n)[at + 1][1] = k /\ Fields(n)[at + 1][2] = f
    BY <1>1
  <2> QED
    BY <1>a, <2>1
<1>3. k \in Frame
  BY <1>0 DEF Frame
<1>4. /\ Shaped(can2_tbuf')
      /\ can2_tbuf'[k][f] = Plain(c)[k][f]
      /\ \A j \in Frame, g \in Part : (j # k \/ g # f) => can2_tbuf'[j][g] = can2_tbuf[j][g]
  <2>1. Shaped(can2_tbuf)
    BY DEF IInv, Sealed
  <2> QED
    BY <1>2, <1>3, <2>1 DEF Shaped
<1>5. Calls'
  <2>0. \A m \in 4..9, i \in Nat : i < m => i + 1 \in 0..12
    OBVIOUS
  <2>1. at' \in 0..12
    BY <1>0, <1>b, <2>0
  <2> QED
    BY <1>0, <1>b, <2>1 DEF IInv, Calls, c, Tasks
<1>6. Sealed'
  <2>1. ASSUME NEW j \in Frame PROVE can2_tbuf'[j].b = can2_tbuf[j].b \/ NoCrc(can2_tbuf'[j])
    BY <1>0, <1>3, <1>4, PlainShaped DEF Part, NoCrc
  <2> QED
    BY <1>b, <1>4, <2>1 DEF IInv, Sealed, NoCrc
<1>8. Packing'
  <2>1. SUFFICES ASSUME NEW j \in 1..n, NEW g \in {"a", "b"}, ~(j = n /\ g = "b")
                 PROVE  \/ \E d \in mix : can2_tbuf'[j][g] = Image[d][<<j, g>>]
                        \/ /\ can2_tbuf'[j][g] = Zero
                           /\ \A i \in 1..(at + 1) : Fields(n)[i] # <<j, g>>
    BY <1>b, <1>7 DEF Packing
  <2>2. CASE j = k /\ g = f
    BY <1>0, <1>4, <2>1, <2>2, CoveredImage
  <2>3. CASE ~(j = k /\ g = f)
    <3>1. can2_tbuf'[j][g] = can2_tbuf[j][g]
      BY <1>0, <1>4, <2>3 DEF Frame, Part
    <3>2. \/ \E d \in mix : can2_tbuf[j][g] = Image[d][<<j, g>>]
          \/ /\ can2_tbuf[j][g] = Zero
             /\ \A i \in 1..at : Fields(n)[i] # <<j, g>>
      BY <1>c, <2>1 DEF IInv
    <3>3. Fields(n)[at + 1] # <<j, g>>
      BY <1>1, <2>3
    <3> QED
      BY <1>0, <3>1, <3>2, <3>3
  <2> QED
    BY <2>2, <2>3
<1>9. Computed'
  BY <1>0, <1>b, <1>7 DEF Computed
<1> QED
  BY <1>5, <1>6, <1>8, <1>9 DEF IInv

\* What screen_task computes the CRC over is a mixture: the zeros that are left
\* are zeros of its own packet.
LEMMA ScreenCrcKeeps ==
  ASSUME IInv, ScreenCrc
  PROVE  IInv'
<1> DEFINE c == call["screen"]
           n == FrameNum("screen")
<1>0. /\ c # Idle /\ c \in Cmds /\ c \in mix /\ n = PreProcess_CanOrder(c.order)
      /\ n \in 2..5 /\ NumFields \in 4..9 /\ NumFields = Len(Fields(n)) /\ at = NumFields
  BY ScreenFrames DEF ScreenCrc, IInv, Calls, Tasks
<1>1. /\ crc' = Digest(can2_tbuf, n) /\ at' = at + 1
      /\ UNCHANGED <<can2_tbuf, call, sent, mix>>
  BY DEF ScreenCrc
<1>2. FrameNum("screen")' = n /\ NumFields' = NumFields
  BY <1>1 DEF FrameNum, NumFields
<1>3. \A k \in 1..n, f \in {"a", "b"} :
        ~(k = n /\ f = "b") =>
          \/ \E d \in mix : can2_tbuf[k][f] = Image[d][<<k, f>>]
          \/ /\ can2_tbuf[k][f] = Zero
             /\ \A j \in 1..at : Fields(n)[j] # <<k, f>>
  <2>1. c # Idle /\ at <= NumFields
    BY <1>0
  <2> QED
    BY <2>1 DEF IInv, Packing
<1> HIDE DEF c, n
<1>4. Link!IsMixture(crc', mix')
  <2>1. SUFFICES ASSUME NEW x \in Covered(n)
                 PROVE  \E d \in mix : Digest(can2_tbuf, n)[x] = Image[d][x]
    BY <1>1 DEF Link!IsMixture, Digest
  <2>2. PICK k \in 1..n, f \in {"a", "b"} : x = <<k, f>> /\ ~(k = n /\ f = "b")
    BY DEF Covered
  <2>3. Digest(can2_tbuf, n)[x] = can2_tbuf[k][f]
    BY <2>2 DEF Digest
  <2>4. CASE \E d \in mix : can2_tbuf[k][f] = Image[d][<<k, f>>]
    BY <2>2, <2>3, <2>4
  <2>5. CASE /\ can2_tbuf[k][f] = Zero
             /\ \A j \in 1..Len(Fields(n)) : Fields(n)[j] # <<k, f>>
    <3>0. ~(k = n /\ f = "b")
      BY <2>2
    <3>1. Plain(c)[k][f] = Zero
      <4>1. CASE f = "a"
        BY <1>0, <2>5, <4>1, UnwrittenIsZero
      <4>2. CASE f = "b"
        <5>1. k # n
          BY <3>0, <4>2
        <5>2. n = PreProcess_CanOrder(c.order) /\ c \in Cmds
          BY <1>0
        <5>3. \A j \in 1..Len(Fields(n)) : Fields(n)[j] # <<k, "b">>
          BY <2>5, <4>2
        <5>4. Plain(c)[k]["b"] = Zero
          BY <5>1, <5>2, <5>3, UnwrittenIsZero
        <5> QED
          BY <4>2, <5>4
      <4> QED
        BY <4>1, <4>2
    <3>2. Plain(c)[k][f] = Image[c][<<k, f>>]
      <4>1. CASE f = "a"
        BY <1>0, <4>1, CoveredImage
      <4>2. CASE f = "b"
        BY <1>0, <3>0, <4>2, CoveredImage
      <4> QED
        BY <4>1, <4>2
    <3> QED
      BY <1>0, <2>2, <2>3, <2>5, <3>1, <3>2
  <2> QED
    BY <1>0, <1>3, <2>2, <2>4, <2>5
<1>5. at' \in 0..12 /\ ~(at' <= NumFields)
  <2>1. \A m \in 4..9 : m + 1 \in 0..12 /\ ~(m + 1 <= m)
    OBVIOUS
  <2> QED
    BY <1>0, <1>1, <2>1
<1>6. Calls'
  BY <1>0, <1>1, <1>5 DEF IInv, Calls, Tasks, c
<1>7. Sealed'
  BY <1>1 DEF IInv, Sealed
<1>8. Packing'
  BY <1>2, <1>5 DEF Packing
<1> QED
  BY <1>4, <1>6, <1>7, <1>8 DEF IInv, Computed

LEMMA ScreenSealKeeps ==
  ASSUME IInv, ScreenSeal
  PROVE  IInv'
<1> DEFINE n == FrameNum("screen")
<1>0. /\ call["screen"] # Idle /\ n \in 2..5 /\ NumFields \in 4..9 /\ at = NumFields + 1
  BY ScreenFrames DEF ScreenSeal, IInv, Calls, Tasks
<1>1. /\ can2_tbuf' = [can2_tbuf EXCEPT ![n].b = <<"crc", crc>>] /\ at' = at + 1
      /\ UNCHANGED <<call, sent, mix>>
  BY DEF ScreenSeal
<1>2. FrameNum("screen")' = n /\ NumFields' = NumFields
  BY <1>1 DEF FrameNum, NumFields
<1>3. Link!IsMixture(crc, mix)
  BY <1>0 DEF IInv, Computed
<1>4. Shaped(can2_tbuf)
  BY DEF IInv, Sealed
<1> HIDE DEF n
<1>5. n \in Frame
  BY <1>0 DEF Frame
<1>6. /\ Shaped(can2_tbuf') /\ can2_tbuf'[n].b = <<"crc", crc>>
      /\ \A k \in Frame : k # n => can2_tbuf'[k].b = can2_tbuf[k].b
  BY <1>1, <1>4, <1>5 DEF Shaped, Part
<1>7. at' \in 0..12 /\ ~(at' <= NumFields) /\ at' # NumFields + 1
  <2>1. \A m \in 4..9 : m + 1 + 1 \in 0..12 /\ ~(m + 1 + 1 <= m) /\ m + 1 + 1 # m + 1
    OBVIOUS
  <2> QED
    BY <1>0, <1>1, <2>1
<1>8. Calls'
  BY <1>0, <1>1, <1>7 DEF IInv, Calls, Tasks
<1>9. Sealed'
  <2>1. SUFFICES ASSUME NEW k \in Frame, can2_tbuf'[k].b[1] = "crc"
                 PROVE  Link!IsMixture(can2_tbuf'[k].b[2], mix)
    BY <1>1, <1>6 DEF Sealed
  <2>2. CASE k = n
    <3>1. can2_tbuf'[k].b[2] = crc
      BY <1>6, <2>2
    <3> QED
      BY <1>3, <3>1
  <2>3. CASE k # n
    BY <1>0, <1>6, <2>1, <2>3 DEF IInv, Sealed, Tasks
  <2> QED
    BY <2>2, <2>3
<1> QED
  BY <1>2, <1>7, <1>8, <1>9 DEF IInv, Packing, Computed

LEMMA SendFrameKeeps ==
  ASSUME IInv, NEW t \in Tasks, NEW d \in BOOLEAN, SendFrame(t, d)
  PROVE  IInv'
<1>1. /\ UNCHANGED <<can2_tbuf, call, at, crc, mix>>
      /\ sent' = [sent EXCEPT ![t] = @ + 1] /\ sent[t] < FrameNum(t) /\ call[t] # Idle
  BY DEF SendFrame, Ready
<1>2. FrameNum(t) \in 2..5
  BY <1>1, FrameCount DEF IInv, Calls, Tasks, Cmds, FrameNum
<1>3. sent' \in [Tasks -> 0..5]
  <2>1. sent \in [Tasks -> 0..5]
    BY DEF IInv, Calls
  <2>2. sent[t] + 1 \in 0..5
    BY <1>1, <1>2, <2>1
  <2> QED
    BY <1>1, <2>1, <2>2
<1>4. Calls'
  BY <1>1, <1>3 DEF IInv, Calls
<1> QED
  BY <1>1, <1>4 DEF IInv, Sealed, Packing, Computed, NumFields, FrameNum

LEMMA ReturnKeeps ==
  ASSUME IInv, NEW t \in Tasks, Return(t)
  PROVE  IInv'
<1>1. /\ UNCHANGED <<can2_tbuf, crc>> /\ call' = [call EXCEPT ![t] = Idle]
      /\ sent' = [sent EXCEPT ![t] = 0]
      /\ at' = IF t = "screen" THEN 0 ELSE at
      /\ mix' = mix \/ (call[Other(t)] = Idle /\ mix' = {})
  BY DEF Return
<1>2. /\ call' = [u \in Tasks |-> call'[u]] /\ call'[t] = Idle
      /\ call'[Other(t)] = call[Other(t)]
  BY <1>1 DEF IInv, Calls, Tasks, Other
<1>3. Calls'
  <2>1. sent' \in [Tasks -> 0..5] /\ at' \in 0..12
    BY <1>1 DEF IInv, Calls
  <2> QED
    BY <1>1, <1>2, <2>1 DEF IInv, Calls, Tasks, Other
<1>4. CASE call[Other(t)] = Idle
  BY <1>1, <1>2, <1>3, <1>4 DEF IInv, Sealed, Packing, Computed, Tasks, Other
<1>5. CASE call[Other(t)] # Idle /\ mix' = mix
  <2>1. Sealed'
    BY <1>1, <1>5 DEF IInv, Sealed, Tasks, Other
  <2>2. CASE t = "can"
    <3>1. call'["screen"] = call["screen"] /\ at' = at
      BY <1>1, <1>2, <2>2 DEF Other
    <3> QED
      BY <1>1, <1>3, <1>5, <2>1, <3>1 DEF IInv, Packing, Computed, NumFields, FrameNum
  <2>3. CASE t = "screen"
    BY <1>2, <1>3, <2>1, <2>3 DEF IInv, Packing, Computed
  <2> QED
    BY <2>2, <2>3 DEF Tasks
<1> QED
  BY <1>1, <1>4, <1>5

LEMMA IInvNext ==
  ASSUME IInv, [Next]_vars
  PROVE  IInv'
<1>1. CASE UNCHANGED vars
  BY <1>1 DEF vars, IInv, Calls, Sealed, Packing, Computed, NumFields, FrameNum
<1> QED
  BY <1>1, CanPackKeeps, ScreenClearKeeps, ScreenWriteKeeps, ScreenCrcKeeps,
     ScreenSealKeeps, SendFrameKeeps, ReturnKeeps DEF Next
-----------------------------------------------------------------------------
(***************************************************************************)
(* Every step is a step of CanLink, or changes nothing of it.              *)
(***************************************************************************)
\* The PTC keeps a sequence of at most five frames.
Received == (\E S : rx \in Seq(S)) /\ Len(rx) <= 5

LEMMA CollectShape ==
  ASSUME Received, NEW f
  PROVE  /\ \E S : Collect(f) \in Seq(S)
         /\ Len(Collect(f)) \in 0..5
         /\ Collect(f) = <<>> \/ Len(Collect(f)) >= 1
<1>1. PICK S : rx \in Seq(S)
  BY DEF Received
<1>2. rx \in Seq(S \cup {f}) /\ Len(rx) \in 0..5
  <2>1. /\ Len(rx) \in Nat /\ rx = [i \in 1..Len(rx) |-> rx[i]]
        /\ \A i \in 1..Len(rx) : rx[i] \in S
    BY <1>1
  <2>2. rx \in [1..Len(rx) -> S \cup {f}]
    BY <2>1
  <2> QED
    BY <2>1, <2>2 DEF Received
<1>3. CASE Collect(f) = <<f>>
  <2>1. <<f>> \in Seq({f}) /\ Len(<<f>>) = 1
    OBVIOUS
  <2>2. Collect(f) \in Seq({f}) /\ Len(Collect(f)) = 1
    BY <1>3, <2>1
  <2>3. \E T : Collect(f) \in Seq(T)
    BY <2>2
  <2> QED
    BY <2>2, <2>3
<1>4. CASE Collect(f) = Append(rx, f) /\ Len(rx) < 5
  BY <1>2, <1>4
<1>5. CASE Collect(f) = <<>>
  BY <1>5
<1> QED
  BY <1>3, <1>4, <1>5 DEF Collect

LEMMA ReceivedNext ==
  ASSUME Received, [Next]_vars
  PROVE  Received'
<1>1. CASE rx' = rx
  BY <1>1 DEF Received
<1>2. CASE rx' = <<>>
  <2>1. <<>> \in Seq({}) /\ Len(<<>>) <= 5
    OBVIOUS
  <2> QED
    BY <1>2, <2>1 DEF Received
<1>3. ASSUME NEW f, rx' = Collect(f) PROVE Received'
  <2>1. (\E S : Collect(f) \in Seq(S)) /\ Len(Collect(f)) \in 0..5
    BY CollectShape
  <2>2. \E S : rx' \in Seq(S)
    BY <1>3, <2>1
  <2>3. Len(rx') <= 5
    <3>1. Len(rx') = Len(Collect(f))
      BY <1>3
    <3>2. \A m \in 0..5 : m <= 5
      OBVIOUS
    <3> QED
      BY <2>1, <3>1, <3>2
  <2> QED
    BY <2>2, <2>3 DEF Received
<1> QED
  BY <1>1, <1>2, <1>3 DEF Next, vars, CanPack, ScreenClear, Begin, ScreenWrite, ScreenCrc,
     ScreenSeal, SendFrame, Receive, Return

LEMMA Simulation ==
  ASSUME IInv, Received, [Next]_vars
  PROVE  [Link!Next]_<<call, mix, told>>
<1>1. ASSUME NEW c \in CanCmds, CanPack(c) PROVE Link!Next
  <2>1. c \in Cmds /\ "can" \in Tasks
    BY DEF Cmds, Tasks
  <2>2. Link!Begin("can", c)
    BY <1>1 DEF CanPack, Begin, Link!Begin
  <2> QED
    BY <2>1, <2>2 DEF Link!Next
<1>2. ASSUME NEW c \in ScreenCmds, ScreenClear(c) PROVE Link!Next
  <2>1. c \in Cmds /\ "screen" \in Tasks
    BY DEF Cmds, Tasks
  <2>2. Link!Begin("screen", c)
    BY <1>2 DEF ScreenClear, Begin, Link!Begin
  <2> QED
    BY <2>1, <2>2 DEF Link!Next
<1>3. CASE ScreenWrite \/ ScreenCrc \/ ScreenSeal
  BY <1>3 DEF ScreenWrite, ScreenCrc, ScreenSeal
<1>4. ASSUME NEW t \in Tasks, NEW d \in BOOLEAN, SendFrame(t, d)
      PROVE  [Link!Next]_<<call, mix, told>>
  <2> DEFINE f  == can2_tbuf[sent[t] + 1]
             fs == Collect(f)
  <2>1. UNCHANGED <<call, mix>> /\ call[t] # Idle /\ sent[t] < FrameNum(t)
    BY <1>4 DEF SendFrame, Ready
  <2>2. sent[t] + 1 \in Frame
    <3>1. FrameNum(t) \in 2..5
      BY <2>1, FrameCount DEF IInv, Calls, Tasks, Cmds, FrameNum
    <3>2. sent[t] \in 0..5
      BY DEF IInv, Calls
    <3> QED
      BY <2>1, <3>1, <3>2 DEF Frame
  <2>3. CASE told' = told
    BY <2>1, <2>3
  <2>4. CASE told' = Digest(fs, Len(fs)) /\ CrcRight(fs, f)
    <3>1. f.b[1] = "crc" /\ f.b[2] = told'
      BY <2>4 DEF CrcRight
    <3>2. Link!IsMixture(told', mix)
      BY <2>1, <2>2, <3>1 DEF IInv, Sealed
    <3>3. mix # {}
      BY <2>1 DEF IInv, Calls
    <3>4. CASE told' # <<>>
      BY <2>1, <3>2, <3>3, <3>4 DEF Link!Next, Link!Take
    <3>5. told' # <<>>
      <4>1. Len(fs) \in 1..5
        BY <2>4, CollectShape DEF CrcRight
      <4>2. DOMAIN told' = Covered(Len(fs))
        BY <2>4 DEF Digest
      <4>3. <<1, "a">> \in Covered(Len(fs))
        <5>1. \A m \in 1..5 : <<1, "a">> \in Covered(m)
          BY DEF Covered
        <5> QED
          BY <4>1, <5>1
      <4> QED
        BY <4>2, <4>3
    <3> QED
      BY <3>4, <3>5
  <2> QED
    BY <1>4, <2>3, <2>4 DEF SendFrame, Receive
<1>5. ASSUME NEW t \in Tasks, Return(t) PROVE Link!Next
  <2>1. Tasks \ {t} = {Other(t)}
    BY DEF Tasks, Other
  <2>2. Link!End(t)
    BY <1>5, <2>1 DEF Return, Ready, Link!End
  <2> QED
    BY <2>2 DEF Link!Next
<1>6. CASE UNCHANGED vars
  BY <1>6 DEF vars
<1> QED
  BY <1>1, <1>2, <1>3, <1>4, <1>5, <1>6 DEF Next
-----------------------------------------------------------------------------
(***************************************************************************)
(* The theorems.                                                           *)
(***************************************************************************)
LEMMA Invariance == Spec => [](IInv /\ Received)
<1>1. Init => IInv /\ Received
  <2>1. <<>> \in Seq({}) /\ Len(<<>>) <= 5
    OBVIOUS
  <2> QED
    BY <2>1, IInvInit DEF Init, Received
<1>2. IInv /\ Received /\ [Next]_vars => (IInv /\ Received)'
  BY IInvNext, ReceivedNext
<1> QED
  BY <1>1, <1>2, PTL DEF Spec

\* Whatever the commands, however often they overlap and whichever frames get
\* lost: can2_data_packet and Can2Send_MultiMessages implement CanLink.
THEOREM TxRefinesLink == Spec => RefinesLink
<1>1. Init => Link!Init
  BY DEF Init, Link!Init
<1>2. IInv /\ Received /\ [Next]_vars => [Link!Next]_<<call, mix, told>>
  BY Simulation
<1> QED
  BY <1>1, <1>2, Invariance, PTL DEF Spec, RefinesLink, Link!Spec

\* A start reaches the PTC only out of a busy period with a start in it.
THEOREM TxStartIsMeant == Spec => StartIsMeant
<1> DEFINE Meant == told' # told /\ IsStart(told')
                      => \E c \in mix : c.order = "RCONTROL" /\ c.codel = "START"
<1>1. ASSUME IInv, Received, [Next]_vars PROVE Meant
  <2>1. SUFFICES ASSUME told' # told, IsStart(told')
                 PROVE  \E c \in mix : c.order = "RCONTROL" /\ c.codel = "START"
    OBVIOUS
  <2>2. [Link!Next]_<<call, mix, told>>
    BY <1>1, Simulation
  <2>3. Link!IsMixture(told', mix)
    BY <2>1, <2>2 DEF Link!Next, Link!Begin, Link!End, Link!Take, IsStart
  <2>4. PICK c \in mix : told'[<<1, "b">>] = Image[c][<<1, "b">>]
    BY <2>1, <2>3 DEF Link!IsMixture, IsStart
  <2>5. c \in Cmds
    BY <1>1 DEF IInv, Calls
  <2>6. Image[c][<<1, "b">>] = <<"code", HeadCode(c)>>
    <3>1. 1 \in Frame /\ PreProcess_CanOrder(c.order) # 1
      BY <2>5, FrameCount DEF Frame
    <3>2. Packet(c)[1].b = Plain(c)[1].b
      BY <2>5, <3>1, PacketShaped
    <3>3. Plain(c)[1].b = <<"code", HeadCode(c)>>
      BY <3>1 DEF Plain
    <3> QED
      BY <2>5, <3>1, <3>2, <3>3 DEF Image
  <2>7. HeadCode(c) = "START"
    BY <2>1, <2>4, <2>6 DEF IsStart
  <2> QED
    BY <2>7 DEF HeadCode
<1> QED
  BY <1>1, Invariance, PTL DEF Spec, StartIsMeant

\* Segment bytes of eight bits.
Segs == \A k \in Frame : can2_tbuf[k].seg \in 0..255

LEMMA SegsNext ==
  ASSUME IInv, Segs, [Next]_vars
  PROVE  Segs'
<1>1. ASSUME NEW c \in Cmds, NEW k \in Frame PROVE Plain(c)[k].seg \in 0..255
  <2>1. PreProcess_CanOrder(c.order) \in 2..5
    BY <1>1, FrameCount
  <2>2. Plain(c)[k].seg = Segment(k, PreProcess_CanOrder(c.order))
    BY <1>1 DEF Plain
  <2> QED
    BY <1>1, <2>1, <2>2 DEF Segment, Frame
<1>2. ASSUME NEW c \in CanCmds, CanPack(c) PROVE Segs'
  <2>1. c \in Cmds /\ can2_tbuf' = Packet(c)
    BY <1>2 DEF CanPack, Cmds
  <2>2. \A k \in Frame : Packet(c)[k].seg = Plain(c)[k].seg
    BY <2>1, PacketShaped
  <2> QED
    BY <1>1, <2>1, <2>2 DEF Segs
<1>3. ASSUME NEW c \in ScreenCmds, ScreenClear(c) PROVE Segs'
  BY <1>3 DEF ScreenClear, Segs, ZeroFrame
<1>4. CASE ScreenWrite
  <2> DEFINE c == call["screen"]
             n == FrameNum("screen")
             x == Fields(n)[at + 1]
  <2>1. c # Idle /\ c \in Cmds /\ n \in 2..5 /\ at + 1 \in 1..Len(Fields(n))
    <3>1. /\ c # Idle /\ c \in Cmds /\ n \in 2..5
          /\ NumFields \in 4..9 /\ NumFields = Len(Fields(n)) /\ at < NumFields /\ at \in 0..12
      BY <1>4, ScreenFrames DEF ScreenWrite, IInv, Calls
    <3> QED
      BY <3>1
  <2>2. can2_tbuf' = [can2_tbuf EXCEPT ![x[1]][x[2]] = Plain(c)[x[1]][x[2]]]
    BY <1>4 DEF ScreenWrite
  <2>3. x[1] \in Frame /\ x[2] \in Part
    BY <2>1, FieldPlaces DEF Frame, Part
  <2>4. Shaped(can2_tbuf)
    BY DEF IInv, Sealed
  <2> HIDE DEF x, c, n
  <2>5. \A k \in Frame : can2_tbuf'[k].seg = can2_tbuf[k].seg \/ can2_tbuf'[k].seg = Plain(c)[k].seg
    BY <2>2, <2>3, <2>4 DEF Shaped, Part
  <2> QED
    BY <1>1, <2>1, <2>5 DEF Segs
<1>5. CASE ScreenSeal
  <2>1. FrameNum("screen") \in Frame
    BY <1>5, ScreenFrames DEF ScreenSeal, IInv, Frame
  <2>2. Shaped(can2_tbuf)
    BY DEF IInv, Sealed
  <2>3. \A k \in Frame : can2_tbuf'[k].seg = can2_tbuf[k].seg
    BY <1>5, <2>1, <2>2 DEF ScreenSeal, Shaped, Part
  <2> QED
    BY <2>3 DEF Segs
<1>6. CASE can2_tbuf' = can2_tbuf
  BY <1>6 DEF Segs
<1> QED
  BY <1>2, <1>3, <1>4, <1>5, <1>6 DEF Next, vars, ScreenCrc, SendFrame, Return

\* The variables keep their types; the segment bytes fit in eight bits.
THEOREM TxTypeOK == Spec => []TypeOK
<1> DEFINE J == IInv /\ Received /\ Segs /\ whole \in BOOLEAN
<1>1. Init => J
  <2>1. Init => Segs
    BY DEF Init, Segs, ZeroFrame
  <2>2. <<>> \in Seq({}) /\ Len(<<>>) <= 5
    OBVIOUS
  <2> QED
    BY <2>1, <2>2, IInvInit DEF Init, Received
<1>2. J /\ [Next]_vars => J'
  <2>1. ASSUME whole \in BOOLEAN, [Next]_vars PROVE whole' \in BOOLEAN
    BY <2>1, Zenon DEF Next, vars, CanPack, ScreenClear, Begin, ScreenWrite, ScreenCrc,
       ScreenSeal, SendFrame, Return
  <2> QED
    BY <2>1, IInvNext, ReceivedNext, SegsNext
<1>3. J => TypeOK
  BY DEF IInv, Calls, Sealed, Shaped, Received, Segs, TypeOK
<1> QED
  BY <1>1, <1>2, <1>3, PTL DEF Spec
=============================================================================
