------------------------------- MODULE CanTx -------------------------------
(***************************************************************************)
(* CAN transmission (HARDWARE/CAN/can.c): can2_data_packet lays a command  *)
(* out in can2_tbuf, Can2Send_MultiMessages sends the buffer frame by      *)
(* frame with a delay of 20 ms behind each.                                *)
(*                                                                         *)
(* can_task and screen_task use the one buffer without a lock.  can_task   *)
(* has the higher priority: it packs undisturbed and screen_task moves     *)
(* only while can_task is blocked.  screen_task can be preempted between   *)
(* any two of its writes.                                                  *)
(*                                                                         *)
(* A frame is [seg, a, b]: the segment byte and the two parts of its       *)
(* payload that are written separately.  The CRC of a packet is            *)
(* represented by what it is computed over.                                *)
(***************************************************************************)
EXTENDS Integers, Sequences

CONSTANTS
  CanCmds,     \* the commands of can_task
  ScreenCmds,  \* the commands of screen_task
  MaxLoss      \* bound: the frames the bus may lose

Tasks == {"can", "screen"}

Cmds == CanCmds \cup ScreenCmds

Orders == {"SEEK", "SETNUM", "CONFIG", "LINK", "RCONTROL", "SEEKVALUE", "SEEKSTAT"}

Idle == [order |-> "none", codel |-> "none", data |-> "none"]

\* A command: the arguments order, append_codel and data of can2_data_packet.
ASSUME TxAssumption ==
  /\ \A c \in Cmds : /\ DOMAIN c = {"order", "codel", "data"}
                     /\ c = [order |-> c.order, codel |-> c.codel, data |-> c.data]
                     /\ c.order \in Orders
  /\ MaxLoss \in Nat

VARIABLES
  can2_tbuf,  \* the five frames of the buffer
  call,       \* the command each task is transmitting, or Idle
  at,         \* screen_task: the number of fields it has written
  crc,        \* screen_task: its variable crc
  sent,       \* i of Can2Send_MultiMessages: the frames each task has sent
  rx,         \* the PTC: the frames since the last opening frame
  told,       \* the PTC: the message taken last in this busy period
  lost,       \* the number of frames lost so far
  mix,        \* history: the commands of the present busy period
  whole       \* history: the call under way is alone and has lost no frame

vars == <<can2_tbuf, call, at, crc, sent, rx, told, lost, mix, whole>>
-----------------------------------------------------------------------------
(***************************************************************************)
(* The layout of a packet.                                                 *)
(***************************************************************************)
DataLen(order) == CASE order = "CONFIG" -> 21
                    [] order \in {"SETNUM", "RCONTROL"} -> 6
                    [] order = "SEEKSTAT" -> 14
                    [] OTHER -> 0

PreProcessTooShort(order) == (DataLen(order) + 14) \div 7    \* mutant: no rounding up

\* The number of frames: header, data and CRC in payloads of seven bytes.
PreProcess_CanOrder(order) ==
  LET len == DataLen(order) IN
  IF (len + 14) % 7 # 0 THEN (len + 14) \div 7 + 1 ELSE (len + 14) \div 7

Zero == <<"0", "0">>

ZeroFrame == [seg |-> 0, a |-> Zero, b |-> Zero]

Frame == 1..5

\* The bytes 5 to 7 of the first frame: only a remote control carries append_codel.
HeadCodeStart(c) == IF c.order = "SEEKSTAT" THEN "01" ELSE "START"   \* mutant

HeadCode(c) == CASE c.order = "RCONTROL" -> c.codel
                 [] c.order = "SEEKSTAT" -> "01"
                 [] OTHER -> "0"

SegmentWide(k, n) ==            \* mutant: the closing mark is multiplied
  IF k = 1 \/ k > n THEN 0 ELSE IF k = n THEN 128 * (k - 1) ELSE k - 1

Segment(k, n) == IF k = 1 \/ k > n THEN 0 ELSE IF k = n THEN 128 + k - 1 ELSE k - 1

\* The packet before its CRC is filled in.  Frame 2 begins with the length; the
\* data follows in frames 2 and 3; a packet of two frames has none.
Plain(c) ==
  LET n == PreProcess_CanOrder(c.order) IN
  [k \in Frame |->
    [seg |-> Segment(k, n),
     a   |-> CASE k = 1 -> <<"order", c.order>>
               [] k = 2 -> <<"len", DataLen(c.order)>>
               [] k = 3 /\ n > 2 -> <<"data2", c.data>>
               [] OTHER -> Zero,
     b   |-> CASE k = 1 -> <<"code", HeadCode(c)>>
               [] k = 2 /\ n > 2 -> <<"data1", c.data>>
               [] OTHER -> Zero]]

\* The positions that the CRC of n frames covers: all payload in front of it.
Covered(n) == ((1..n) \X {"a", "b"}) \ {<<n, "b">>}

\* What CRC16_XMODEM sees in the frames fs (different contents: different CRCs).
Digest(fs, n) == [x \in Covered(n) |-> fs[x[1]][x[2]]]

Packet(c) ==
  LET n == PreProcess_CanOrder(c.order) IN
  [Plain(c) EXCEPT ![n].b = <<"crc", Digest(Plain(c), n)>>]

Image == [c \in Cmds |-> [x \in Frame \X {"a", "b"} |-> Packet(c)[x[1]][x[2]]]]

Link == INSTANCE CanLink WITH Nothing <- <<>>
-----------------------------------------------------------------------------
FrameNum(t) == PreProcess_CanOrder(call[t].order)

\* The fields of n frames in the order in which can2_data_packet writes them: the
\* first frame, then one case of the switch.
HeadFields == << <<1, "a">>, <<1, "b">>, <<2, "seg">>, <<2, "a">> >>

BodyFields == << <<2, "b">>, <<3, "seg">>, <<3, "a">> >>

Fields(n) == CASE n = 2 -> HeadFields
               [] n = 3 -> HeadFields \o BodyFields
               [] n = 4 -> HeadFields \o BodyFields \o << <<4, "seg">> >>
               [] n = 5 -> HeadFields \o BodyFields \o << <<4, "seg">>, <<5, "seg">> >>

\* The steps of screen_task's packing: the fields, then the CRC twice.
NumFields == Len(Fields(FrameNum("screen")))

\* The packet of task t lies in the buffer, as far as t is concerned.
Ready(t) == call[t] # Idle /\ (t = "screen" => at = NumFields + 2)

Other(t) == IF t = "can" THEN "screen" ELSE "can"

\* screen_task runs while can_task is blocked: between calls, or in the delay
\* behind a frame.
ScreenRuns == call["can"] = Idle \/ sent["can"] > 0

Begin(t, c) ==
  /\ call[t] = Idle
  /\ call' = [call EXCEPT ![t] = c]
  /\ mix' = mix \cup {c}
  /\ whole' = (call[Other(t)] = Idle)
  /\ UNCHANGED <<sent, rx, told, lost>>

\* can_task packs without being interrupted.
CanPackKeepsCode(c) ==          \* mutant: the code of an earlier packet stays
  /\ Begin("can", c)
  /\ LET n == PreProcess_CanOrder(c.order)
         p == [Plain(c) EXCEPT ![1].b = can2_tbuf[1].b]
     IN can2_tbuf' = [p EXCEPT ![n].b = <<"crc", Digest(p, n)>>]
  /\ UNCHANGED <<at, crc>>

CanPack(c) ==
  /\ Begin("can", c)
  /\ can2_tbuf' = Packet(c)
  /\ UNCHANGED <<at, crc>>

\* screen_task clears the buffer, and then writes it field by field.
ScreenClear(c) ==
  /\ ScreenRuns
  /\ Begin("screen", c)
  /\ can2_tbuf' = [k \in Frame |-> ZeroFrame]
  /\ UNCHANGED <<at, crc>>

ScreenWrite ==
  /\ ScreenRuns /\ call["screen"] # Idle /\ at < NumFields
  /\ LET x == Fields(FrameNum("screen"))[at + 1]
     IN can2_tbuf' = [can2_tbuf EXCEPT ![x[1]][x[2]] = Plain(call["screen"])[x[1]][x[2]]]
  /\ at' = at + 1
  /\ UNCHANGED <<call, crc, sent, rx, told, lost, mix, whole>>

\* The CRC is computed over the buffer as it is by now ...
ScreenCrc ==
  /\ ScreenRuns /\ call["screen"] # Idle /\ at = NumFields
  /\ crc' = Digest(can2_tbuf, FrameNum("screen"))
  /\ at' = at + 1
  /\ UNCHANGED <<can2_tbuf, call, sent, rx, told, lost, mix, whole>>

\* ... and written behind the data.
ScreenSeal ==
  /\ ScreenRuns /\ call["screen"] # Idle /\ at = NumFields + 1
  /\ can2_tbuf' = [can2_tbuf EXCEPT ![FrameNum("screen")].b = <<"crc", crc>>]
  /\ at' = at + 1
  /\ crc' = <<>>
  /\ UNCHANGED <<call, sent, rx, told, lost, mix, whole>>
-----------------------------------------------------------------------------
(***************************************************************************)
(* The PTC.  An opening frame (segment 0) starts a message, a closing one  *)
(* (0x80 and more) ends it; the message is taken if its CRC is right.      *)
(* More than five frames are no message.                                   *)
(***************************************************************************)
Collect(f) == CASE f.seg = 0 -> <<f>>
                [] f.seg # 0 /\ rx # <<>> /\ Len(rx) < 5 -> Append(rx, f)
                [] OTHER -> <<>>

CrcRight(fs, f) == fs # <<>> /\ f.b = <<"crc", Digest(fs, Len(fs))>>

Receive(f) ==
  LET fs == Collect(f) IN
  /\ rx' = IF f.seg >= 128 THEN <<>> ELSE fs
  /\ told' = IF f.seg >= 128 /\ CrcRight(fs, f) THEN Digest(fs, Len(fs)) ELSE told

\* Can2Send_MultiMessages: one frame, copied from the buffer as it is by now;
\* CAN_NART forbids a repetition, so the frame may be lost.  Then the delay.
SendFrame(t, delivered) ==
  /\ Ready(t) /\ sent[t] < FrameNum(t)
  /\ t = "screen" => ScreenRuns
  /\ sent' = [sent EXCEPT ![t] = @ + 1]
  /\ IF delivered
     THEN Receive(can2_tbuf[sent[t] + 1]) /\ UNCHANGED lost
     ELSE lost < MaxLoss /\ lost' = lost + 1 /\ UNCHANGED <<rx, told>>
  /\ whole' = (whole /\ delivered)
  /\ UNCHANGED <<can2_tbuf, call, at, crc, mix>>

Return(t) ==
  /\ Ready(t) /\ sent[t] = FrameNum(t)
  /\ t = "screen" => ScreenRuns
  /\ call' = [call EXCEPT ![t] = Idle]
  /\ sent' = [sent EXCEPT ![t] = 0]
  /\ at' = IF t = "screen" THEN 0 ELSE at
  /\ IF call[Other(t)] = Idle THEN mix' = {} /\ told' = <<>>
                              ELSE UNCHANGED <<mix, told>>
  /\ UNCHANGED <<can2_tbuf, crc, rx, lost, whole>>

Init ==
  /\ can2_tbuf = [k \in Frame |-> ZeroFrame]
  /\ call = [t \in Tasks |-> Idle]
  /\ at = 0
  /\ crc = <<>>
  /\ sent = [t \in Tasks |-> 0]
  /\ rx = <<>>
  /\ told = <<>>
  /\ lost = 0
  /\ mix = {}
  /\ whole = FALSE

Next ==
  \/ \E c \in CanCmds : CanPack(c)
  \/ \E c \in ScreenCmds : ScreenClear(c)
  \/ ScreenWrite
  \/ ScreenCrc
  \/ ScreenSeal
  \/ \E t \in Tasks, d \in BOOLEAN : SendFrame(t, d)
  \/ \E t \in Tasks : Return(t)

Spec == Init /\ [][Next]_vars
-----------------------------------------------------------------------------
(***************************************************************************)
(* Properties.                                                             *)
(***************************************************************************)
TypeOK ==
  /\ DOMAIN can2_tbuf = Frame
  /\ \A k \in Frame : can2_tbuf[k].seg \in 0..255
  /\ call["can"] \in CanCmds \cup {Idle} /\ call["screen"] \in ScreenCmds \cup {Idle}
  /\ at \in 0..12
  /\ sent \in [Tasks -> 0..5]
  /\ Len(rx) <= 5
  /\ mix \subseteq Cmds
  /\ whole \in BOOLEAN

\* can2_tbuf is packed by two tasks, the CRC vouches for any mixture, and frames
\* get lost: still the PTC takes nothing but mixtures of commands whose calls
\* belong to one busy period, and exactly the command when there is only one.
RefinesLink == Link!Spec

IsStart(m) == /\ {<<1, "a">>, <<1, "b">>} \subseteq DOMAIN m
              /\ m[<<1, "a">>] = <<"order", "RCONTROL">>
              /\ m[<<1, "b">>] = <<"code", "START">>

\* The PTC takes a start only while a call that packs a start is under way, or
\* one that overlapped such a call: a stop never turns into a start by itself.
StartIsMeant ==
  [][told' # told /\ IsStart(told')
     => \E c \in mix : c.order = "RCONTROL" /\ c.codel = "START"]_vars

\* What the PTC reads in message m: order, code, length and all of the data.
Carries(m, c) ==
  /\ {<<1, "a">>, <<1, "b">>, <<2, "a">>} \subseteq DOMAIN m
  /\ m[<<1, "a">>] = <<"order", c.order>>
  /\ m[<<1, "b">>] = <<"code", HeadCode(c)>>
  /\ m[<<2, "a">>] = <<"len", DataLen(c.order)>>
  /\ DataLen(c.order) > 0 =>
       /\ {<<2, "b">>, <<3, "a">>} \subseteq DOMAIN m
       /\ m[<<2, "b">>] = <<"data1", c.data>>
       /\ m[<<3, "a">>] = <<"data2", c.data>>

\* A call that is alone and loses no frame is taken by the PTC with all that its
\* command says, whatever fragments of other messages the PTC had collected.
AloneArrives ==
  [][\A t \in Tasks : Return(t) /\ whole => Carries(told, call[t])]_vars
=============================================================================
