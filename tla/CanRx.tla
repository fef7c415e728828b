-------------------------------- MODULE CanRx --------------------------------
(***************************************************************************)
(* Reception of the PTC's replies (HARDWARE/CAN/can.c).                    *)
(*                                                                         *)
(* A reply of the PTC is split into CAN frames of eight bytes: one segment *)
(* byte and seven bytes of payload.  CAN1_RX0_IRQHandler hands every frame *)
(* to Can_ReadData, which copies the payloads one after the other into     *)
(* can_temp and calls Candata_analysis when the closing frame arrives.     *)
(*                                                                         *)
(* The controller runs with automatic retransmission off (CAN_NART), so a  *)
(* frame can be lost; frames are never reordered.  A payload is abstracted *)
(* to its provenance <<m, k>>: frame k of reply m.                         *)
(***************************************************************************)
EXTENDS Integers, Sequences

CONSTANTS
  Reply,      \* the replies the PTC may send
  Func,       \* Func[m]: the function code in byte 3 of reply m
  Frames,     \* Frames[m]: the number of CAN frames of reply m
  BurstLoss   \* TRUE: the bus may lose two consecutive frames

FuncCodes == {"CONFIG", "LINK", "SEEKVALUE", "SEEKSTAT", "OTHER"}

\* Replies have 2..6 frames: a SEEKVALUE reply ends with its CRC in bytes 40
\* and 41 and is the longest one Candata_analysis reads.  A SEEKSTAT reply
\* carries its CRC in bytes 33 and 34, hence has five frames.
ASSUME ReplyAssumption ==
  /\ Func \in [Reply -> FuncCodes]
  /\ Frames \in [Reply -> 2..6]
  /\ \A m \in Reply : Func[m] = "SEEKSTAT" => Frames[m] = 5
  /\ BurstLoss \in BOOLEAN

Frame == Reply \X (0..5)

\* A slot of seven zero bytes: the initial value, and what memset leaves.
Zero == <<>>

\* Where the seven bytes of a slot, or a value read from it, come from.
Origin == Frame \cup {Zero}

\* can_temp is declared with 50 bytes: seven slots of seven bytes, and a byte
\* that is never read.
Slots == 0..6

VARIABLES
  flag_canrev,   \* 0 until the first frame of the PTC has been seen
  revframe_pos,  \* number of slots filled
  can_temp,      \* reassembly buffer, by slot
  tbufHit,       \* a copy ran past can_temp into can2_tbuf, which follows it
  status,        \* origin of g_PTC_State, g_pfc_State, ... (slots 1, 2 and 3)
  analog,        \* origin of the measured values (slots 1 to 4)
  maxI,          \* origin of Output_MAX_i (slot 2)
  s_set_statu,   \* SetPTCData.s_set_statu
  cur, k,        \* the bus: the reply being sent and its next frame
  lost,          \* the bus: the previous frame was lost
  clean          \* every frame of cur sent so far was received

rxVars  == <<flag_canrev, revframe_pos, can_temp, tbufHit>>
ptcVars == <<status, analog, maxI, s_set_statu>>
busVars == <<cur, k, lost, clean>>
vars    == <<rxVars, ptcVars, busVars>>

Cleared == [s \in Slots |-> Zero]

Init ==
  /\ flag_canrev = 0
  /\ revframe_pos = 0
  /\ can_temp = Cleared
  /\ tbufHit = FALSE
  /\ status = <<Zero, Zero, Zero>>
  /\ analog = <<Zero, Zero, Zero, Zero>>
  /\ maxI = Zero
  /\ s_set_statu = FALSE
  /\ cur \in Reply
  /\ k = 0
  /\ lost = FALSE
  /\ clean = TRUE
-----------------------------------------------------------------------------
(***************************************************************************)
(* The segment byte: 0 opens a reply, 0x80 + k closes it, k in between.    *)
(***************************************************************************)
Opens(f)  == f[2] = 0
Closes(f) == f[2] = Frames[f[1]] - 1

\* memcpy of a payload to slot p - 1.  From slot 7 on it leaves can_temp: the
\* linker places can2_tbuf right behind it, so the transmit buffer is hit.
Copy(t, p, f) == IF p - 1 \in Slots THEN [t EXCEPT ![p - 1] = f] ELSE t

\* CRC16_XMODEM over bytes 0..32 against bytes 33 and 34: five slots that come,
\* in order, from one SEEKSTAT reply.
CrcOk(t) == \A s \in 0..4 : t[s] = <<t[0][1], s>>

(***************************************************************************)
(* Candata_analysis.  The CRC of a SEEKVALUE reply is computed and then    *)
(* ignored; CONFIG and LINK replies carry none that is looked at.          *)
(***************************************************************************)
Candata_analysis(t) ==
  LET func == Func[t[0][1]] IN
  /\ s_set_statu' = (s_set_statu \/ func = "CONFIG")
  /\ maxI' = IF func = "LINK" THEN t[2] ELSE maxI
  /\ analog' = IF func = "SEEKVALUE" THEN <<t[1], t[2], t[3], t[4]>> ELSE analog
  /\ status' = IF func = "SEEKSTAT" /\ CrcOk(t)
               THEN <<t[1], t[2], t[3]>> ELSE status

FirstPosKeeps(f) ==              \* mutant: only an empty buffer is opened anew
  IF Opens(f) /\ revframe_pos = 0 THEN 1
  ELSE IF revframe_pos \in 1..127 THEN revframe_pos + 1
  ELSE revframe_pos

\* Where the first of the two copies of Can_ReadData leaves revframe_pos.
FirstPos(f) == IF Opens(f) THEN 1
               ELSE IF revframe_pos \in 1..127 THEN revframe_pos + 1
               ELSE revframe_pos

\* can_temp after that copy.
FirstTemp(f) == IF FirstPos(f) # revframe_pos \/ Opens(f)
                THEN Copy(can_temp, FirstPos(f), f) ELSE can_temp

(***************************************************************************)
(* Can_ReadData on frame f.  A closing frame is copied twice: once by the  *)
(* first branch and once more, one slot further, before the analysis.      *)
(***************************************************************************)
Can_ReadData(f) ==
  LET p == FirstPos(f)
      t == FirstTemp(f) IN
  \/ /\ flag_canrev = 0
     /\ UNCHANGED <<revframe_pos, can_temp, tbufHit, ptcVars>>
  \/ /\ flag_canrev = 1
     /\ Closes(f) /\ p \in 1..7
     /\ Candata_analysis(Copy(t, p + 1, f))
     /\ tbufHit' = (tbufHit \/ p + 1 > 7)
     /\ revframe_pos' = 0
     /\ can_temp' = Cleared
  \/ /\ flag_canrev = 1
     /\ ~(Closes(f) /\ p \in 1..7)
     /\ revframe_pos' = p
     /\ can_temp' = t
     /\ tbufHit' = (tbufHit \/ p > 7)
     /\ UNCHANGED ptcVars

CAN1_RX0_IRQHandlerCounts(f) ==  \* mutant: counts the frames instead of flagging one
  /\ Can_ReadData(f)
  /\ flag_canrev' = flag_canrev + 1

\* CAN1_RX0_IRQHandler: only the PTC's identifier 0x10207EF8 gets here.
CAN1_RX0_IRQHandler(f) ==
  /\ Can_ReadData(f)
  /\ flag_canrev' = 1
-----------------------------------------------------------------------------
\* The PTC moves on to the next frame, or to the first frame of any reply.
Advance ==
  IF k + 1 < Frames[cur]
  THEN k' = k + 1 /\ cur' = cur
  ELSE k' = 0 /\ cur' \in Reply

\* The frame on the bus reaches the CSU and raises the receive interrupt.
Deliver ==
  /\ CAN1_RX0_IRQHandler(<<cur, k>>)
  /\ lost' = FALSE
  /\ clean' = IF k + 1 = Frames[cur] THEN TRUE ELSE flag_canrev = 1 /\ clean
  /\ Advance

\* The frame is lost.  Unless BurstLoss, the one before it was not.
Lose ==
  /\ BurstLoss \/ ~lost
  /\ lost' = TRUE
  /\ clean' = (k + 1 = Frames[cur])
  /\ Advance
  /\ UNCHANGED <<rxVars, ptcVars>>

\* Set_ptcdata clears the confirmation before it sends a configuration.
ClearSetStatu ==
  /\ s_set_statu
  /\ s_set_statu' = FALSE
  /\ UNCHANGED <<rxVars, status, analog, maxI, busVars>>

Next == Deliver \/ Lose \/ ClearSetStatu

Spec == Init /\ [][Next]_vars
-----------------------------------------------------------------------------
(***************************************************************************)
(* Properties.                                                             *)
(***************************************************************************)
\* The variables of the receive path keep their types; revframe_pos, a u8,
\* never passes the 0x80 that Can_ReadData tests.
TypeOK ==
  /\ flag_canrev \in {0, 1}
  /\ revframe_pos \in 0..128
  /\ can_temp \in [Slots -> Origin]
  /\ tbufHit \in BOOLEAN
  /\ status \in Seq(Origin)
  /\ analog \in Seq(Origin)
  /\ maxI \in Origin
  /\ s_set_statu \in BOOLEAN
  /\ cur \in Reply
  /\ k \in 0..(Frames[cur] - 1)
  /\ lost \in BOOLEAN
  /\ clean \in BOOLEAN

\* Can_ReadData has no test of the segment number, so a lost closing frame
\* lets the next reply run on behind the old one.  As long as the bus never
\* loses two consecutive frames, the copies nevertheless stay inside can_temp
\* and never reach the transmit buffer can2_tbuf behind it.
RxInBounds == ~BurstLoss => ~tbufHit

\* Whatever the analysis takes over comes from the reply whose closing frame has
\* just arrived: as long as the bus never loses two consecutive frames, no frame
\* that an earlier, broken reply left in can_temp is taken for one of it, although
\* Can_ReadData looks at no segment number, clears can_temp only behind an
\* analysis, and only the status is protected by its CRC.  (With losses inside a
\* reply its values may be read from the wrong slots, but from its own.)
OneReply ==
  [][~BurstLoss =>
       /\ s_set_statu' /\ ~s_set_statu => Func[cur] = "CONFIG"
       /\ maxI' # maxI => Func[cur] = "LINK" /\ maxI'[1] = cur
       /\ analog' # analog =>
            /\ Func[cur] = "SEEKVALUE"
            /\ Frames[cur] = 6 => \A n \in 1..4 : analog'[n][1] = cur
       /\ status' # status =>
            /\ Func[cur] = "SEEKSTAT"
            /\ \A n \in 1..3 : status'[n][1] = cur]_vars

\* What the analysis of an undamaged reply m leaves behind.
Applied(m) ==
  /\ Func[m] = "SEEKSTAT" => status' = <<<<m, 1>>, <<m, 2>>, <<m, 3>>>>
  /\ Func[m] = "SEEKVALUE" /\ Frames[m] = 6 =>
       analog' = <<<<m, 1>>, <<m, 2>>, <<m, 3>>, <<m, 4>>>>
  /\ Func[m] = "CONFIG" => s_set_statu'

\* The reception recovers by itself: a reply all of whose frames arrive is
\* analysed and applied, whatever an earlier loss left in can_temp (only the
\* very first frame after a reset is dropped, by flag_canrev).
CleanReplyApplied ==
  [][Deliver /\ clean /\ flag_canrev = 1 /\ k + 1 = Frames[cur]
       => Applied(cur)]_vars
=============================================================================
