--------------------------- MODULE CsuPowerProofs ---------------------------
(***************************************************************************)
(* Proofs about CsuPower, for every number of retries, every size of the   *)
(* queue and every set of signals and screen commands.                     *)
(***************************************************************************)
EXTENDS CsuPower, TLAPS

(***************************************************************************)
(* The inductive invariant.  What can lead to a start traces back to a     *)
(* request: the two buffers that may hold POWERON, the acknowledgement     *)
(* that precedes the screen's start, and poweron itself.                   *)
(***************************************************************************)
Starting == pc.can \in {"on", "on_tx"}

StartTraced ==
  /\ buf.scan = "POWERON" => startReq
  /\ buf.screen = "POWERON" => startReq
  /\ pc.screen = "ack_on" => startReq
  /\ Starting => startReq

\* A transmission is begun only while attempts are left.
TxLabels == {"on_tx", "off_tx", "cfg_tx"}

AttemptsLeft == \A t \in {"can", "screen"} : pc[t] \in TxLabels => i[t] < RETRY

\* The stop of scan_task has rewritten its buffer.
StopWritten == "OFF" \notin Cmds \cup PortCmds /\ SYSTEM_POWER_ = "OFF" => buf.scan # "POWERON"

IInv == TypeOK /\ AttemptsLeft /\ NoUnwrittenMessage /\ StartTraced /\ StopWritten /\ NoSpontaneousStart

USE DEF stateVars, msgVars, ptcVars, cfgVars, Labels, Buffers
-----------------------------------------------------------------------------
(***************************************************************************)
(* Types.                                                                  *)
(***************************************************************************)
\* Posting keeps the types of the message queue and of the program counters.
LEMMA PostType ==
  ASSUME TypeOK, NEW b \in Senders, NEW t \in {"scan", "screen"}, NEW l,
         PostThen(b, t, l),
         t = "scan" => l \in {"read", "decide", "offcheck"},
         t = "screen" => l \in ScreenPc
  PROVE  /\ pc' \in Labels
         /\ canQ' \in Seq(Senders) /\ Len(canQ') <= TASK_CAN_NUM
         /\ canMsg' \in Senders
<1>1. pc' \in Labels
  BY DEF TypeOK, PostThen, CanPc, SharedPc
<1>2. canMsg' \in Senders
  BY DEF TypeOK, PostThen
<1>3. canQ' \in Seq(Senders) /\ Len(canQ') <= TASK_CAN_NUM
  <2>1. canQ \in Seq(Senders) /\ Len(canQ) <= TASK_CAN_NUM /\ TASK_CAN_NUM \in Nat
    BY PowerAssumption DEF TypeOK
  <2>2. canQ' = canQ \/ (canQ' = Append(canQ, b) /\ Len(canQ) < TASK_CAN_NUM)
    BY DEF PostThen
  <2>3. Append(canQ, b) \in Seq(Senders) /\ Len(Append(canQ, b)) = Len(canQ) + 1
    BY <2>1
  <2>4. QED
    BY <2>1, <2>2, <2>3
<1>4. QED
  BY <1>1, <1>2, <1>3

\* A task that moves on stays within its labels.
LEMMA GotoType ==
  ASSUME TypeOK, NEW t \in {"scan", "can", "screen"}, NEW l, Goto(t, l),
         t = "scan" => l \in {"read", "decide", "offcheck"},
         t = "can" => l \in CanPc,
         t = "screen" => l \in ScreenPc
  PROVE  pc' \in Labels
BY DEF TypeOK, Goto

LEMMA InitType == Init => TypeOK
<1> SUFFICES ASSUME Init PROVE TypeOK
  OBVIOUS
<1>1. pc \in Labels
  BY DEF Init, CanPc, ScreenPc, SharedPc
<1>2. i \in [can : 0..RETRY, screen : 0..RETRY]
  BY PowerAssumption DEF Init
<1>3. canQ \in Seq(Senders) /\ Len(canQ) <= TASK_CAN_NUM
  BY PowerAssumption DEF Init
<1>4. buf \in Buffers
  BY DEF Init
<1>5. QED
  BY <1>1, <1>2, <1>3, <1>4 DEF Init, TypeOK, Senders, Codes

\* The last test that fires exists, so the code is that of an asserted signal.
LEMMA LastFired ==
  ASSUME NEW S \in SUBSET (1..8), S # {}
  PROVE  \E n \in S : \A m \in S : m <= n
<1>1. SUFFICES ASSUME ~ \E n \in S : \A m \in S : m <= n PROVE FALSE
  OBVIOUS
<1>2. \A m \in S : m \in Int /\ 1 <= m /\ m <= 8
  OBVIOUS
<1>3. \A m \in S : m <= 7
  BY <1>1, <1>2
<1>4. \A m \in S : m <= 6
  BY <1>1, <1>2, <1>3
<1>5. \A m \in S : m <= 5
  BY <1>1, <1>2, <1>4
<1>6. \A m \in S : m <= 4
  BY <1>1, <1>2, <1>5
<1>7. \A m \in S : m <= 3
  BY <1>1, <1>2, <1>6
<1>8. \A m \in S : m <= 2
  BY <1>1, <1>2, <1>7
<1>9. \A m \in S : m <= 1
  BY <1>1, <1>2, <1>8
<1>10. \A m \in S : m <= 0
  BY <1>1, <1>2, <1>9
<1>11. \E m \in S : TRUE
  OBVIOUS
<1>12. QED
  BY <1>2, <1>10, <1>11

LEMMA WarningCodeType ==
  ASSUME NEW io \in SUBSET Signals
  PROVE  WarningCode(io) \in Codes
<1> DEFINE fired == {n \in 1..8 : TempOrder[n] \in io}
           last == CHOOSE n \in fired : \A m \in fired : m <= n
<1>1. CASE fired = {}
  BY <1>1 DEF WarningCode, Codes
<1>2. CASE fired # {}
  <2>1. last \in fired
    <3>1. fired \in SUBSET (1..8)
      OBVIOUS
    <3> HIDE DEF fired
    <3>2. \E n \in fired : \A m \in fired : m <= n
      BY <1>2, <3>1, LastFired
    <3>3. QED
      BY <3>2
  <2>2. TempOrder[last] \in Signals
    BY <2>1
  <2>3. WarningCode(io) = TempOrder[last]
    BY <1>2 DEF WarningCode
  <2>4. QED
    BY <2>2, <2>3 DEF Codes
<1>3. QED
  BY <1>1, <1>2

LEMMA ScanType ==
  ASSUME TypeOK, ScanTask
  PROVE  TypeOK'
<1>1. ASSUME NEW io \in SUBSET Signals, ScanSample(io) PROVE TypeOK'
  <2>1. pc' \in Labels
    BY <1>1, GotoType DEF ScanSample
  <2>2. QED
    BY <1>1, <2>1 DEF ScanSample, TypeOK
<1>2. CASE ScanDecide
  <2>1. warning_code' \in Codes
    BY <1>2, WarningCodeType DEF ScanDecide, read_io, TypeOK
  <2>2. fault_code' \in Codes
    BY <1>2 DEF ScanDecide, read_io, FaultCode, TypeOK, Codes, Contactors
  <2>3. System_State' \in {"STANDBY", "RUNNING", "WARNING", "FAULT", "SHUTDOWN"}
    BY <1>2 DEF ScanDecide, read_io, StateAfter, TypeOK
  <2>4. SYSTEM_POWER_' \in {"HOLD", "ON", "RUNING", "OFF"}
    BY <1>2 DEF ScanDecide, read_io, PowerAfter, PowerAfterRun, TypeOK
  <2>5. startReq' \in BOOLEAN
    BY <1>2, Zenon DEF ScanDecide, read_io, TypeOK
  <2>6. buf' \in Buffers
    BY <1>2 DEF ScanDecide, ScanPost, TypeOK
  <2>7. /\ pc' \in Labels
        /\ canQ' \in Seq(Senders) /\ Len(canQ') <= TASK_CAN_NUM
        /\ canMsg' \in Senders
    <3>1. CASE \E l \in {"read", "offcheck"} : PostThen("scan", "scan", l)
      BY <3>1, PostType DEF Senders
    <3>2. CASE Goto("scan", "read") /\ UNCHANGED msgVars
      BY <3>2, GotoType DEF TypeOK
    <3>3. QED
      BY <1>2, <3>1, <3>2 DEF ScanDecide, ScanPost
  <2>8. QED
    BY <1>2, <2>1, <2>2, <2>3, <2>4, <2>5, <2>6, <2>7 DEF ScanDecide, TypeOK
<1>3. CASE ScanOffCheck
  <2>1. /\ pc' \in Labels
        /\ canQ' \in Seq(Senders) /\ Len(canQ') <= TASK_CAN_NUM
        /\ canMsg' \in Senders
    <3>1. CASE PostThen("scan", "scan", "read")
      BY <3>1, PostType DEF Senders
    <3>2. CASE Goto("scan", "read") /\ UNCHANGED msgVars
      BY <3>2, GotoType DEF TypeOK
    <3>3. QED
      BY <1>3, <3>1, <3>2 DEF ScanOffCheck
  <2>2. buf' \in Buffers
    BY <1>3 DEF ScanOffCheck, TypeOK
  <2>3. QED
    BY <1>3, <2>1, <2>2 DEF ScanOffCheck, TypeOK
<1>4. QED
  BY <1>1, <1>2, <1>3 DEF ScanTask

\* The procedures shared by can_task and screen_task.
LEMMA SharedType ==
  ASSUME TypeOK, AttemptsLeft, NEW t \in {"can", "screen"}, Shared(t)
  PROVE  TypeOK'
<1> USE DEF SharedPc, CanPc, ScreenPc
<1>1. CASE LoopTest(t)
  <2>1. i' \in [can : 0..RETRY, screen : 0..RETRY]
    BY <1>1, PowerAssumption DEF LoopTest, TypeOK
  <2>2. pc' \in Labels
    <3>1. t = "screen" => pc[t] = "off"
      BY <1>1 DEF LoopTest, TypeOK
    <3>2. pc[t] \in {"on", "off", "cfg"}
      BY <1>1 DEF LoopTest
    <3>3. Goto(t, Transmission(pc[t])) \/ Goto(t, BehindLoop(pc[t]))
      BY <1>1 DEF LoopTest
    <3>4. Transmission(pc[t]) \in CanPc /\ BehindLoop(pc[t]) \in CanPc
      BY <3>2 DEF Transmission, BehindLoop
    <3>5. t = "screen" => Transmission(pc[t]) \in ScreenPc /\ BehindLoop(pc[t]) \in ScreenPc
      BY <3>1 DEF Transmission, BehindLoop
    <3>6. QED
      BY <3>3, <3>4, <3>5, GotoType
  <2>3. QED
    BY <1>1, <2>1, <2>2 DEF LoopTest, TypeOK
<1>2. ASSUME NEW p \in {"running", "stopped"}, PowerOffTx(t, p) PROVE TypeOK'
  <2>1. i' \in [can : 0..RETRY, screen : 0..RETRY]
    BY <1>2, PowerAssumption DEF PowerOffTx, Attempt, AttemptsLeft, TxLabels, TypeOK
  <2>2. pc' \in Labels
    BY <1>2, GotoType DEF PowerOffTx
  <2>3. QED
    BY <1>2, <2>1, <2>2 DEF PowerOffTx, TypeOK
<1>3. CASE LoopIf(t)
  <2>1. pc' \in Labels
    <3>1. t = "screen" => pc[t] # "on_if"
      BY DEF TypeOK
    <3>2. QED
      BY <1>3, <3>1, GotoType DEF LoopIf
  <2>2. QED
    BY <1>3, <2>1 DEF LoopIf, TypeOK
<1>4. CASE PowerOffReset(t)
  <2>1. pc' \in Labels
    BY <1>4, GotoType DEF PowerOffReset
  <2>2. QED
    BY <1>4, <2>1 DEF PowerOffReset, TypeOK, Codes
<1>5. CASE DataAlarm(t)
  <2>1. pc' \in Labels
    BY <1>5, GotoType DEF DataAlarm
  <2>2. QED
    BY <1>5, <2>1 DEF DataAlarm, TypeOK
<1>6. CASE DataCheck(t)
  <2>1. pc' \in Labels
    BY <1>6, GotoType DEF DataCheck, AfterData
  <2>2. QED
    BY <1>6, <2>1 DEF DataCheck, TypeOK
<1>7. CASE DataTest(t)
  <2>1. pc' \in Labels
    BY <1>7, GotoType DEF DataTest, AfterData
  <2>2. QED
    BY <1>7, <2>1 DEF DataTest, TypeOK
<1>8. CASE DataSet(t)
  <2>1. pc' \in Labels
    BY <1>8, GotoType DEF DataSet, AfterData
  <2>2. QED
    BY <1>8, <2>1 DEF DataSet, TypeOK
<1>9. QED
  BY <1>1, <1>2, <1>3, <1>4, <1>5, <1>6, <1>7, <1>8 DEF Shared

\* A message that is not LINK leads into a procedure of can_task.
LEMMA ProcedureLabels ==
  ASSUME TypeOK, buf[canMsg] # "LINK"
  PROVE  /\ Procedure(buf[canMsg]) \in {"on", "off", "cfg", "pfc", "hb1"}
         /\ Procedure(buf[canMsg]) = "on" => buf[canMsg] = "POWERON"
<1>1. buf[canMsg] \in {"POWERON", "POWEROFF", "CONFIG_DATA", "SEARCH_DATA", "SEARCH_STATE"}
  BY DEF TypeOK, Senders
<1>2. QED
  BY <1>1 DEF Procedure

\* can_task.
LEMMA CanType ==
  ASSUME TypeOK, AttemptsLeft, CanTask
  PROVE  TypeOK'
<1> USE DEF SharedPc, CanPc
<1>1. CASE CanPend
  <2>1. pc' \in Labels
    BY <1>1, GotoType DEF CanPend
  <2>2. canQ' \in Seq(Senders) /\ Len(canQ') <= TASK_CAN_NUM /\ canMsg' \in Senders
    <3>1. CASE canQ = <<>>
      BY <1>1, <3>1 DEF CanPend, TypeOK
    <3>2. CASE canQ # <<>>
      <4>1. canQ \in Seq(Senders) /\ Len(canQ) <= TASK_CAN_NUM /\ TASK_CAN_NUM \in Nat
        BY PowerAssumption DEF TypeOK
      <4>2. Head(canQ) \in Senders /\ Tail(canQ) \in Seq(Senders)
            /\ Len(Tail(canQ)) = Len(canQ) - 1 /\ Len(canQ) \in Nat
        BY <3>2, <4>1
      <4>3. canMsg' = Head(canQ) /\ canQ' = Tail(canQ)
        BY <1>1, <3>2 DEF CanPend
      <4>4. QED
        BY <4>1, <4>2, <4>3
    <3>3. QED
      BY <3>1, <3>2
  <2>3. QED
    BY <1>1, <2>1, <2>2 DEF CanPend, TypeOK
<1>2. CASE CanDispatch
  <2>1. pc' \in Labels
    BY <1>2, ProcedureLabels, GotoType DEF CanDispatch
  <2>2. s_set_statu' \in BOOLEAN
    BY <1>2, Zenon DEF CanDispatch, TypeOK
  <2>3. QED
    BY <1>2, <2>1, <2>2 DEF CanDispatch, TypeOK
<1>3. CASE HeartbeatElse
  <2>1. pc' \in Labels
    BY <1>3, GotoType DEF HeartbeatElse
  <2>2. QED
    BY <1>3, <2>1 DEF HeartbeatElse, TypeOK
<1>4. ASSUME NEW d \in BOOLEAN, Heartbeat(d) PROVE TypeOK'
  <2>1. pc' \in Labels
    BY <1>4, GotoType DEF Heartbeat
  <2>2. asked' \in BOOLEAN
    BY <1>4, Zenon DEF Heartbeat, TypeOK
  <2>3. data0' \in {"none", "STANDBY", "RUNNING", "WARNING", "SHUTDOWN"}
    BY <1>4 DEF Heartbeat, Told, TypeOK
  <2>4. QED
    BY <1>4, <2>1, <2>2, <2>3 DEF Heartbeat, TypeOK
<1>5. ASSUME NEW p \in {"running", "stopped"}, PowerOnTx(p) PROVE TypeOK'
  <2>1. i' \in [can : 0..RETRY, screen : 0..RETRY]
    BY <1>5, PowerAssumption DEF PowerOnTx, Attempt, AttemptsLeft, TxLabels, TypeOK
  <2>2. pc' \in Labels
    BY <1>5, GotoType DEF PowerOnTx
  <2>3. QED
    BY <1>5, <2>1, <2>2 DEF PowerOnTx, TypeOK
<1>6. CASE PowerOnAck
  <2>1. pc' \in Labels
    BY <1>6, GotoType DEF PowerOnAck
  <2>2. QED
    BY <1>6, <2>1 DEF PowerOnAck, TypeOK
<1>7. ASSUME NEW d \in BOOLEAN, ConfigTx(d) PROVE TypeOK'
  <2>1. i' \in [can : 0..RETRY, screen : 0..RETRY]
    BY <1>7, PowerAssumption DEF ConfigTx, Attempt, AttemptsLeft, TxLabels, TypeOK
  <2>2. cfgAsked' \in BOOLEAN
    BY <1>7, Zenon DEF ConfigTx, TypeOK
  <2>3. pc' \in Labels
    BY <1>7, GotoType DEF ConfigTx
  <2>4. QED
    BY <1>7, <2>1, <2>2, <2>3 DEF ConfigTx, TypeOK
<1>8. CASE DataPower
  <2>1. pc' \in Labels
    BY <1>8, GotoType DEF DataPower
  <2>2. QED
    BY <1>8, <2>1 DEF DataPower, TypeOK
<1>9. QED
  BY <1>1, <1>2, <1>3, <1>4, <1>5, <1>6, <1>7, <1>8, SharedType DEF CanTask

\* screen_task, the timers and the environment.
LEMMA ScreenType ==
  ASSUME TypeOK, AttemptsLeft, ScreenTask
  PROVE  TypeOK'
<1> USE DEF SharedPc, ScreenPc
<1>1. CASE ScreenPend
  <2>1. pc' \in Labels
    BY <1>1, GotoType DEF ScreenPend
  <2>2. QED
    BY <1>1, <2>1 DEF ScreenPend, TypeOK
<1>2. CASE \E c \in ScreenCmds : ScreenDispatch(c)
  <2>1. /\ pc' \in Labels
        /\ canQ' \in Seq(Senders) /\ Len(canQ') <= TASK_CAN_NUM
        /\ canMsg' \in Senders
    <3>1. CASE PostThen("screen", "screen", "dly")
      BY <3>1, PostType DEF Senders
    <3>2. CASE (\E l \in {"ack_on", "off", "pfc", "dly"} : Goto("screen", l)) /\ UNCHANGED msgVars
      BY <3>2, GotoType DEF TypeOK
    <3>3. QED
      BY <1>2, <3>1, <3>2 DEF ScreenDispatch
  <2>2. buf' \in Buffers
    BY <1>2 DEF ScreenDispatch, TypeOK
  <2>3. SYSTEM_POWER_' \in {"HOLD", "ON", "RUNING", "OFF"}
    BY <1>2 DEF ScreenDispatch, TypeOK
  <2>4. startReq' \in BOOLEAN
    BY <1>2, Zenon DEF ScreenDispatch, TypeOK
  <2>5. QED
    BY <1>2, <2>1, <2>2, <2>3, <2>4 DEF ScreenDispatch, TypeOK
<1>3. CASE ScreenStart
  <2>1. /\ pc' \in Labels
        /\ canQ' \in Seq(Senders) /\ Len(canQ') <= TASK_CAN_NUM
        /\ canMsg' \in Senders
    BY <1>3, PostType DEF ScreenStart, Senders
  <2>2. buf' \in Buffers
    BY <1>3 DEF ScreenStart, TypeOK
  <2>3. QED
    BY <1>3, <2>1, <2>2 DEF ScreenStart, TypeOK
<1>4. QED
  BY <1>1, <1>2, <1>3, SharedType DEF ScreenTask

LEMMA TimerType ==
  ASSUME TypeOK, tmr1_callback \/ tmr2_callback
  PROVE  TypeOK'
<1>1. PICK b \in {"tmr1", "tmr2"}, msg \in {"SEARCH_DATA", "SEARCH_STATE"} :
         TimerPost(b, msg) /\ (b = "tmr1" <=> msg = "SEARCH_DATA")
  BY DEF tmr1_callback, tmr2_callback
<1>2. /\ pc' \in Labels
      /\ canQ' \in Seq(Senders) /\ Len(canQ') <= TASK_CAN_NUM
      /\ canMsg' \in Senders
  <2>1. pc.scan \in {"read", "decide", "offcheck"}
    BY DEF TypeOK
  <2>2. QED
    BY <1>1, <2>1, PostType DEF TimerPost, Senders
<1>3. buf' \in Buffers
  BY <1>1 DEF TimerPost, TypeOK
<1>4. QED
  BY <1>1, <1>2, <1>3 DEF TimerPost, TypeOK

LEMMA EnvironmentType ==
  ASSUME TypeOK, Environment
  PROVE  TypeOK'
<1>1. ASSUME NEW c \in Cmds, USART2_IRQHandler(c) PROVE TypeOK'
  <2>1. pc' \in Labels
    BY <1>1 DEF USART2_IRQHandler, TypeOK, ScreenPc, SharedPc
  <2>2. QED
    BY <1>1, <2>1 DEF USART2_IRQHandler, TypeOK
<1>2. CASE USART6_IRQHandler
  <2>1. pc' \in Labels
    BY <1>2, GotoType DEF USART6_IRQHandler, ScreenPc
  <2>2. QED
    BY <1>2, <2>1 DEF USART6_IRQHandler, TypeOK
<1>3. CASE StatusArrives
  <2>1. asked' \in BOOLEAN
    BY <1>3, Zenon DEF StatusArrives
  <2>2. QED
    BY <1>3, <2>1 DEF StatusArrives, TypeOK
<1>4. CASE ConfirmArrives
  <2>1. s_set_statu' \in BOOLEAN /\ cfgAsked' \in BOOLEAN
    BY <1>4, Zenon DEF ConfirmArrives
  <2>2. QED
    BY <1>4, <2>1 DEF ConfirmArrives, TypeOK
<1>5. CASE PtcAlarmChanges
  <2>1. ptcAlarm' \subseteq PtcAlarms
    BY <1>5 DEF PtcAlarmChanges, TypeOK
  <2>2. QED
    BY <1>5, <2>1 DEF PtcAlarmChanges, TypeOK
<1>6. QED
  BY <1>1, <1>2, <1>3, <1>4, <1>5 DEF Environment

LEMMA NextType == TypeOK /\ AttemptsLeft /\ Next => TypeOK'
BY ScanType, CanType, ScreenType, TimerType, EnvironmentType DEF Next
-----------------------------------------------------------------------------
(***************************************************************************)
(* The queue holds only buffers that have been written.                    *)
(***************************************************************************)
\* What a step does to the message path: it posts a buffer it has written, it
\* takes the head of the queue, or it leaves the path alone.
LEMMA PostWritten ==
  ASSUME TypeOK, TypeOK', NoUnwrittenMessage, NEW b \in Senders, NEW m, NEW t, NEW l,
         m # "LINK", buf' = [buf EXCEPT ![b] = m], PostThen(b, t, l), t # "can"
  PROVE  NoUnwrittenMessage'
<1>1. buf'[b] = m /\ \A s \in Senders : buf[s] # "LINK" => buf'[s] # "LINK"
  BY DEF TypeOK, Senders
<1>2. canQ \in Seq(Senders) /\ \A n \in 1..Len(canQ) : canQ[n] \in Senders
  BY DEF TypeOK
<1>3. CASE pc.can = "pend"
  BY <1>1, <1>2, <1>3 DEF PostThen, NoUnwrittenMessage
<1>4. CASE pc.can # "pend"
  <2>1. pc'.can = "got" => buf'[canMsg'] # "LINK"
    BY <1>1, <1>4 DEF PostThen, NoUnwrittenMessage, TypeOK
  <2>2. \A n \in 1..Len(canQ) : buf'[canQ[n]] # "LINK"
    BY <1>1, <1>2 DEF NoUnwrittenMessage
  <2>3. CASE canQ' = canQ
    BY <2>1, <2>2, <2>3 DEF NoUnwrittenMessage
  <2>4. CASE canQ' = Append(canQ, b)
    <3>1. \A n \in 1..Len(Append(canQ, b)) :
            (n \in 1..Len(canQ) /\ Append(canQ, b)[n] = canQ[n]) \/ Append(canQ, b)[n] = b
      BY <1>2
    <3>2. \A n \in 1..Len(Append(canQ, b)) : buf'[Append(canQ, b)[n]] # "LINK"
      BY <1>1, <2>2, <3>1
    <3>3. QED
      BY <2>1, <2>4, <3>2 DEF NoUnwrittenMessage
  <2>5. QED
    BY <1>4, <2>3, <2>4 DEF PostThen
<1>5. QED
  BY <1>3, <1>4

LEMMA QuietWritten ==
  ASSUME NoUnwrittenMessage, UNCHANGED <<buf, canQ, canMsg>>,
         pc'.can = "got" => pc.can = "got"
  PROVE  NoUnwrittenMessage'
BY DEF NoUnwrittenMessage

LEMMA PendWritten ==
  ASSUME TypeOK, NoUnwrittenMessage, CanPend
  PROVE  NoUnwrittenMessage'
<1>1. canQ \in Seq(Senders) /\ pc \in Labels
  BY DEF TypeOK
<1>2. CASE canQ = <<>>
  <2>1. pc'.can = "pend"
    BY <1>1, <1>2 DEF CanPend, Goto
  <2>2. QED
    BY <1>2, <2>1 DEF CanPend, NoUnwrittenMessage
<1>3. CASE canQ # <<>>
  <2>1. canMsg' = canQ[1] /\ Len(canQ) \in Nat /\ Len(canQ) >= 1
    BY <1>1, <1>3 DEF CanPend
  <2>2. canQ' = Tail(canQ) /\ buf' = buf
    BY <1>3 DEF CanPend
  <2>3. \A n \in 1..Len(Tail(canQ)) : Tail(canQ)[n] = canQ[n + 1] /\ n + 1 \in 1..Len(canQ)
    BY <1>1, <1>3
  <2>4. buf[canQ[1]] # "LINK"
    BY <2>1 DEF NoUnwrittenMessage
  <2>5. \A n \in 1..Len(Tail(canQ)) : buf[Tail(canQ)[n]] # "LINK"
    BY <2>3 DEF NoUnwrittenMessage
  <2>6. QED
    BY <2>1, <2>2, <2>4, <2>5 DEF NoUnwrittenMessage
<1>4. QED
  BY <1>2, <1>3

\* The shared procedures leave the messages alone; can_task never gets a message
\* by them, and they start the PTC only in the place of an overlapping poweron.
LEMMA SharedQuiet ==
  ASSUME TypeOK, NEW t \in {"can", "screen"}, Shared(t)
  PROVE  /\ UNCHANGED <<buf, canQ, canMsg, SYSTEM_POWER_, startReq>>
         /\ pc'.can = "got" => pc.can = "got"
         /\ Starting' => Starting
         /\ pc'.can = "on" => pc.can = "on"
         /\ pc'.screen = "ack_on" => pc.screen = "ack_on"
         /\ ptc' = ptc \/ ptc' = "stopped" \/ Starting
<1> USE DEF TypeOK, Goto, Starting
<1>1. ASSUME NEW p \in {"running", "stopped"}, PowerOffTx(t, p)
      PROVE  /\ UNCHANGED <<buf, canQ, canMsg, SYSTEM_POWER_, startReq>>
             /\ pc'.can = "got" => pc.can = "got"
             /\ Starting' => Starting
             /\ pc'.can = "on" => pc.can = "on"
             /\ pc'.screen = "ack_on" => pc.screen = "ack_on"
             /\ ptc' = ptc \/ ptc' = "stopped" \/ Starting
  BY <1>1 DEF PowerOffTx, Outcomes, Mixed
<1>2. ASSUME LoopTest(t) \/ LoopIf(t) \/ PowerOffReset(t) \/ DataAlarm(t) \/ DataCheck(t)
             \/ DataTest(t) \/ DataSet(t)
      PROVE  /\ UNCHANGED <<buf, canQ, canMsg, SYSTEM_POWER_, startReq, ptc>>
             /\ pc'.can = "got" => pc.can = "got"
             /\ Starting' => Starting
             /\ pc'.can = "on" => pc.can = "on"
             /\ pc'.screen = "ack_on" => pc.screen = "ack_on"
  <2>1. CASE LoopTest(t)
    BY <2>1 DEF LoopTest, Transmission, BehindLoop
  <2>2. CASE LoopIf(t)
    BY <2>2 DEF LoopIf
  <2>3. CASE PowerOffReset(t)
    BY <2>3 DEF PowerOffReset
  <2>4. CASE DataAlarm(t)
    BY <2>4 DEF DataAlarm
  <2>5. CASE DataCheck(t)
    BY <2>5 DEF DataCheck, AfterData
  <2>6. CASE DataTest(t)
    BY <2>6 DEF DataTest, AfterData
  <2>7. CASE DataSet(t)
    BY <2>7 DEF DataSet, AfterData
  <2>8. QED
    BY <1>2, <2>1, <2>2, <2>3, <2>4, <2>5, <2>6, <2>7
<1>3. QED
  BY <1>1, <1>2 DEF Shared

\* Likewise the steps of can_task other than CanPend and CanDispatch.
LEMMA CanQuiet ==
  ASSUME TypeOK, CanTask
  PROVE  \/ CanPend \/ CanDispatch
         \/ /\ UNCHANGED <<buf, canQ, canMsg, startReq>>
            /\ SYSTEM_POWER_' = SYSTEM_POWER_ \/ SYSTEM_POWER_' = "RUNING"
            /\ pc'.can = "got" => pc.can = "got"
            /\ Starting' => Starting
            /\ pc'.screen = "ack_on" => pc.screen = "ack_on"
            /\ ptc' = ptc \/ ptc' = "stopped" \/ Starting
<1> DEFINE Q == /\ UNCHANGED <<buf, canQ, canMsg, startReq>>
                /\ SYSTEM_POWER_' = SYSTEM_POWER_ \/ SYSTEM_POWER_' = "RUNING"
                /\ pc'.can = "got" => pc.can = "got"
                /\ Starting' => Starting
                /\ pc'.screen = "ack_on" => pc.screen = "ack_on"
                /\ ptc' = ptc \/ ptc' = "stopped" \/ Starting
<1> USE DEF TypeOK, Goto, Starting
<1>1. ASSUME NEW d \in BOOLEAN, Heartbeat(d) PROVE Q
  BY <1>1 DEF Heartbeat
<1>2. CASE HeartbeatElse
  BY <1>2 DEF HeartbeatElse
<1>3. ASSUME NEW p \in {"running", "stopped"}, PowerOnTx(p) PROVE Q
  BY <1>3 DEF PowerOnTx
<1>4. CASE PowerOnAck
  BY <1>4 DEF PowerOnAck
<1>5. ASSUME NEW d \in BOOLEAN, ConfigTx(d) PROVE Q
  BY <1>5 DEF ConfigTx
<1>6. CASE DataPower
  BY <1>6 DEF DataPower
<1>7. CASE Shared("can")
  BY <1>7, SharedQuiet
<1>8. QED
  BY <1>1, <1>2, <1>3, <1>4, <1>5, <1>6, <1>7 DEF CanTask

\* The environment leaves the messages and can_task alone.
LEMMA EnvironmentQuiet ==
  ASSUME TypeOK, Environment
  PROVE  /\ UNCHANGED <<buf, canQ, canMsg, SYSTEM_POWER_, startReq, ptc>>
         /\ pc'.can = pc.can
         /\ pc'.screen = "ack_on" => pc'.screen = pc.screen
<1>1. ASSUME NEW c \in Cmds, USART2_IRQHandler(c)
      PROVE  /\ UNCHANGED <<buf, canQ, canMsg, SYSTEM_POWER_, startReq, ptc>>
             /\ pc'.can = pc.can
             /\ pc'.screen = "ack_on" => pc'.screen = pc.screen
  BY <1>1 DEF USART2_IRQHandler, TypeOK
<1>2. CASE USART6_IRQHandler
  BY <1>2 DEF USART6_IRQHandler, Goto, TypeOK
<1>3. CASE StatusArrives \/ ConfirmArrives \/ PtcAlarmChanges
  BY <1>3 DEF StatusArrives, ConfirmArrives, PtcAlarmChanges
<1>4. QED
  BY <1>1, <1>2, <1>3 DEF Environment

LEMMA NextWritten ==
  ASSUME TypeOK, TypeOK', NoUnwrittenMessage, Next
  PROVE  NoUnwrittenMessage'
<1> USE DEF Senders
<1>1. CASE ScanTask
  <2>1. ASSUME NEW io \in SUBSET Signals, ScanSample(io) PROVE NoUnwrittenMessage'
    <3>1. pc'.can = pc.can
      BY <2>1 DEF ScanSample, Goto, TypeOK
    <3>2. QED
      BY <2>1, <3>1, QuietWritten DEF ScanSample
  <2>2. CASE ScanDecide
    <3>1. CASE \E m \in {"POWERON", "POWEROFF"}, l \in {"read", "offcheck"} :
                 buf' = [buf EXCEPT !["scan"] = m] /\ PostThen("scan", "scan", l)
      BY <3>1, PostWritten
    <3>2. CASE Goto("scan", "read") /\ UNCHANGED <<buf, msgVars>>
      <4>1. pc'.can = pc.can
        BY <3>2 DEF Goto, TypeOK
      <4>2. QED
        BY <3>2, <4>1, QuietWritten
    <3>3. QED
      BY <2>2, <3>1, <3>2 DEF ScanDecide, ScanPost
  <2>3. CASE ScanOffCheck
    <3>1. CASE buf' = [buf EXCEPT !["scan"] = "POWEROFF"] /\ PostThen("scan", "scan", "read")
      BY <3>1, PostWritten
    <3>2. CASE Goto("scan", "read") /\ UNCHANGED <<buf, msgVars>>
      <4>1. pc'.can = pc.can
        BY <3>2 DEF Goto, TypeOK
      <4>2. QED
        BY <3>2, <4>1, QuietWritten
    <3>3. QED
      BY <2>3, <3>1, <3>2 DEF ScanOffCheck
  <2>4. QED
    BY <1>1, <2>1, <2>2, <2>3 DEF ScanTask
<1>2. CASE CanTask
  <2>1. CASE CanDispatch
    <3>1. pc'.can # "got"
      BY <2>1 DEF CanDispatch, Procedure, Goto, TypeOK
    <3>2. QED
      BY <2>1, <3>1, QuietWritten DEF CanDispatch
  <2>2. QED
    BY <1>2, <2>1, CanQuiet, PendWritten, QuietWritten
<1>3. CASE ScreenTask
  <2>1. CASE ScreenPend
    <3>1. pc'.can = pc.can
      BY <2>1 DEF ScreenPend, Goto, TypeOK
    <3>2. QED
      BY <2>1, <3>1, QuietWritten DEF ScreenPend
  <2>2. CASE \E c \in ScreenCmds : ScreenDispatch(c)
    <3>1. CASE buf' = [buf EXCEPT !["screen"] = "CONFIG_DATA"] /\ PostThen("screen", "screen", "dly")
      BY <3>1, PostWritten
    <3>2. CASE (\E l : Goto("screen", l)) /\ UNCHANGED <<buf, msgVars>>
      <4>1. pc'.can = pc.can
        BY <3>2 DEF Goto, TypeOK
      <4>2. QED
        BY <3>2, <4>1, QuietWritten
    <3>3. QED
      BY <2>2, <3>1, <3>2 DEF ScreenDispatch
  <2>3. CASE ScreenStart
    BY <2>3, PostWritten DEF ScreenStart
  <2>4. QED
    BY <1>3, <2>1, <2>2, <2>3, SharedQuiet, QuietWritten DEF ScreenTask
<1>4. CASE tmr1_callback \/ tmr2_callback
  BY <1>4, PostWritten DEF tmr1_callback, tmr2_callback, TimerPost
<1>5. CASE Environment
  BY <1>5, EnvironmentQuiet, QuietWritten
<1>6. QED
  BY <1>1, <1>2, <1>3, <1>4, <1>5 DEF Next
-----------------------------------------------------------------------------
(***************************************************************************)
(* Every start traces back to a request, and a stop decided by scan_task   *)
(* has rewritten its buffer.                                               *)
(***************************************************************************)
\* Posting moves can_task only from its queue to the message it was handed.
LEMMA PostQuiet ==
  ASSUME TypeOK, NEW b, NEW t \in {"scan", "screen"}, NEW l, PostThen(b, t, l), l # "ack_on"
  PROVE  /\ pc'.can = "on" => pc.can = "on"
         /\ Starting' => Starting
         /\ pc'.screen = "ack_on" => pc.screen = "ack_on"
BY DEF PostThen, TypeOK, Starting

Traced == StartTraced /\ StopWritten /\ NoSpontaneousStart

LEMMA NextTraced ==
  ASSUME TypeOK, Traced, Next
  PROVE  Traced'
<1> USE DEF Traced, StartTraced, StopWritten, NoSpontaneousStart, Starting
<1>1. CASE ScanTask
  <2>1. ASSUME NEW io \in SUBSET Signals, ScanSample(io) PROVE Traced'
    BY <2>1 DEF ScanSample, Goto, TypeOK
  <2>2. CASE ScanDecide
    <3>1. ptc' = ptc /\ SYSTEM_POWER_' = PowerAfter(statio)
      BY <2>2 DEF ScanDecide, read_io
    <3>2. startReq => startReq'
      BY <2>2, Zenon DEF ScanDecide, read_io
    <3>3. PowerAfter(statio) = "ON" => startReq'
      BY <2>2, Zenon DEF ScanDecide, read_io
    <3>4. PowerAfter(statio) \in {"HOLD", "ON", "RUNING", "OFF"}
      BY DEF PowerAfter, PowerAfterRun, TypeOK
    <3>5. CASE /\ PowerAfter(statio) = "ON"
               /\ buf' = [buf EXCEPT !["scan"] = "POWERON"]
               /\ PostThen("scan", "scan", "offcheck")
      BY <3>1, <3>2, <3>3, <3>5, PostQuiet DEF TypeOK
    <3>6. CASE /\ PowerAfter(statio) = "OFF"
               /\ buf' = [buf EXCEPT !["scan"] = "POWEROFF"]
               /\ PostThen("scan", "scan", "read")
      BY <3>1, <3>2, <3>6, PostQuiet DEF TypeOK
    <3>7. CASE /\ PowerAfter(statio) \in {"HOLD", "RUNING"}
               /\ Goto("scan", "read")
               /\ UNCHANGED <<buf, msgVars>>
      BY <3>1, <3>2, <3>7 DEF Goto, TypeOK
    <3>8. QED
      BY <2>2, <3>5, <3>6, <3>7 DEF ScanDecide, ScanPost
  <2>3. CASE ScanOffCheck
    <3>1. UNCHANGED <<ptc, SYSTEM_POWER_, startReq>>
      BY <2>3 DEF ScanOffCheck
    <3>2. CASE buf' = [buf EXCEPT !["scan"] = "POWEROFF"] /\ PostThen("scan", "scan", "read")
      BY <3>1, <3>2, PostQuiet DEF TypeOK
    <3>3. CASE Goto("scan", "read") /\ UNCHANGED <<buf, msgVars>>
      BY <3>1, <3>3 DEF Goto, TypeOK
    <3>4. QED
      BY <2>3, <3>2, <3>3 DEF ScanOffCheck
  <2>4. QED
    BY <1>1, <2>1, <2>2, <2>3 DEF ScanTask
<1>2. CASE CanTask
  <2>1. CASE CanPend
    BY <2>1 DEF CanPend, Goto, TypeOK
  <2>2. CASE CanDispatch
    <3>1. buf[canMsg] = "POWERON" => startReq
      BY DEF TypeOK, Senders
    <3>2. Starting' => startReq
      BY <2>2, <3>1, ProcedureLabels DEF CanDispatch, Goto, TypeOK
    <3>3. pc'.screen = pc.screen
      BY <2>2 DEF CanDispatch, Goto, TypeOK
    <3>4. QED
      BY <2>2, <3>2, <3>3 DEF CanDispatch
  <2>3. QED
    BY <1>2, <2>1, <2>2, CanQuiet
<1>3. CASE ScreenTask
  <2>1. CASE ScreenPend
    BY <2>1 DEF ScreenPend, Goto, TypeOK
  <2>2. CASE \E c \in ScreenCmds : ScreenDispatch(c)
    <3>1. ptc' = ptc
      BY <2>2 DEF ScreenDispatch
    <3>2. PICK c \in ScreenCmds : ScreenDispatch(c)
      BY <2>2
    <3>3. CASE c = "ON"
      BY <3>2, <3>3 DEF ScreenDispatch, Goto, TypeOK
    <3>4. CASE c = "OFF"
      <4>1. "OFF" \in Cmds \cup PortCmds
        BY <3>2, <3>4 DEF ScreenDispatch, Handed, TypeOK
      <4>2. QED
        BY <3>2, <3>4, <4>1 DEF ScreenDispatch, Goto, TypeOK
    <3>5. CASE c = "CONFIG"
      <4>1. /\ UNCHANGED <<SYSTEM_POWER_, startReq>>
            /\ buf' = [buf EXCEPT !["screen"] = "CONFIG_DATA"]
            /\ PostThen("screen", "screen", "dly")
        BY <3>2, <3>5 DEF ScreenDispatch
      <4>2. QED
        BY <3>1, <4>1, PostQuiet DEF TypeOK
    <3>6. CASE c \in {"SEEK", "OTHER"}
      BY <3>2, <3>6 DEF ScreenDispatch, Goto, TypeOK
    <3>7. QED
      BY <3>3, <3>4, <3>5, <3>6 DEF ScreenCmds
  <2>3. CASE ScreenStart
    <3>1. UNCHANGED <<ptc, SYSTEM_POWER_, startReq>> /\ startReq
      BY <2>3 DEF ScreenStart
    <3>2. buf' = [buf EXCEPT !["screen"] = "POWERON"] /\ PostThen("screen", "screen", "dly")
      BY <2>3 DEF ScreenStart
    <3>3. QED
      BY <3>1, <3>2, PostQuiet DEF TypeOK
  <2>4. CASE Shared("screen")
    BY <2>4, SharedQuiet
  <2>5. QED
    BY <1>3, <2>1, <2>2, <2>3, <2>4 DEF ScreenTask
<1>4. CASE tmr1_callback \/ tmr2_callback
  <2>1. PICK b \in {"tmr1", "tmr2"}, m \in {"SEARCH_DATA", "SEARCH_STATE"} : TimerPost(b, m)
    BY <1>4 DEF tmr1_callback, tmr2_callback
  <2>2. buf'.scan = buf.scan /\ buf'.screen = buf.screen
    BY <2>1 DEF TimerPost, TypeOK
  <2>3. UNCHANGED <<ptc, SYSTEM_POWER_, startReq>> /\ PostThen(b, "scan", pc.scan)
    BY <2>1 DEF TimerPost
  <2>4. pc.scan # "ack_on"
    BY DEF TypeOK
  <2>5. QED
    BY <2>2, <2>3, <2>4, PostQuiet
<1>5. CASE Environment
  BY <1>5, EnvironmentQuiet
<1>6. QED
  BY <1>1, <1>2, <1>3, <1>4, <1>5 DEF Next
-----------------------------------------------------------------------------
(***************************************************************************)
(* Attempts: only LoopTest begins a transmission.                          *)
(***************************************************************************)
\* A step that leaves the counters alone and begins no transmission.
LEMMA QuietAttempts ==
  ASSUME AttemptsLeft, i' = i,
         \A t \in {"can", "screen"} : pc'[t] \in TxLabels => pc'[t] = pc[t]
  PROVE  AttemptsLeft'
BY DEF AttemptsLeft

LEMMA SharedAttempts ==
  ASSUME TypeOK, AttemptsLeft, NEW t \in {"can", "screen"}, Shared(t)
  PROVE  AttemptsLeft'
<1> USE DEF TxLabels
<1>1. CASE LoopTest(t)
  <2>1. pc[t] \in {"on", "off", "cfg"}
    BY <1>1 DEF LoopTest
  <2>2. Transmission(pc[t]) \in TxLabels /\ BehindLoop(pc[t]) \notin TxLabels
    BY <2>1 DEF Transmission, BehindLoop
  <2>3. CASE i[t] < RETRY /\ Goto(t, Transmission(pc[t])) /\ i' = i
    BY <2>3 DEF Goto, AttemptsLeft, TypeOK
  <2>4. CASE Goto(t, BehindLoop(pc[t])) /\ i' = [i EXCEPT ![t] = 0]
    BY <2>2, <2>4 DEF Goto, AttemptsLeft, TypeOK
  <2>5. QED
    BY <1>1, <2>3, <2>4 DEF LoopTest
<1>2. ASSUME NEW p \in {"running", "stopped"}, PowerOffTx(t, p) PROVE AttemptsLeft'
  BY <1>2 DEF PowerOffTx, Attempt, Goto, AttemptsLeft, TypeOK
<1>3. CASE LoopIf(t) \/ PowerOffReset(t)
  <2>1. i' = i /\ \A u \in {"can", "screen"} : pc'[u] \in TxLabels => pc'[u] = pc[u]
    BY <1>3 DEF LoopIf, PowerOffReset, Goto, TypeOK
  <2>2. QED
    BY <2>1, QuietAttempts
<1>4. CASE DataAlarm(t) \/ DataCheck(t) \/ DataTest(t) \/ DataSet(t)
  <2>1. i' = i /\ \A u \in {"can", "screen"} : pc'[u] \in TxLabels => pc'[u] = pc[u]
    BY <1>4 DEF DataAlarm, DataCheck, DataTest, DataSet, AfterData, Goto, TypeOK
  <2>2. QED
    BY <2>1, QuietAttempts
<1>5. QED
  BY <1>1, <1>2, <1>3, <1>4 DEF Shared

LEMMA NextAttempts ==
  ASSUME TypeOK, AttemptsLeft, Next
  PROVE  AttemptsLeft'
<1> DEFINE Q == i' = i /\ \A t \in {"can", "screen"} : pc'[t] \in TxLabels => pc'[t] = pc[t]
<1>1. ASSUME NEW b, NEW t \in {"scan", "screen"}, NEW l, PostThen(b, t, l), l \notin TxLabels
      PROVE  \A u \in {"can", "screen"} : pc'[u] \in TxLabels => pc'[u] = pc[u]
  BY <1>1 DEF PostThen, TxLabels, TypeOK
<1>2. CASE ScanTask
  <2>1. ASSUME NEW io \in SUBSET Signals, ScanSample(io) PROVE Q
    BY <2>1 DEF ScanSample, Goto, TypeOK
  <2>2. ASSUME ScanDecide \/ ScanOffCheck PROVE Q
    <3>1. i' = i
      BY <2>2 DEF ScanDecide, ScanOffCheck
    <3>2. CASE \E l \in {"read", "offcheck"} : PostThen("scan", "scan", l)
      BY <1>1, <3>1, <3>2 DEF TxLabels
    <3>3. CASE Goto("scan", "read")
      BY <3>1, <3>3 DEF Goto, TypeOK
    <3>4. QED
      BY <2>2, <3>2, <3>3 DEF ScanDecide, ScanPost, ScanOffCheck
  <2>3. Q
    BY <1>2, <2>1, <2>2 DEF ScanTask
  <2>4. QED
    BY <2>3, QuietAttempts
<1>3. CASE CanTask
  <2>1. CASE CanPend \/ CanDispatch \/ HeartbeatElse \/ PowerOnAck \/ DataPower
    <3>1. Q
      <4>1. CASE CanPend \/ HeartbeatElse \/ PowerOnAck \/ DataPower
        BY <4>1 DEF CanPend, HeartbeatElse, PowerOnAck, DataPower, Goto, TypeOK, TxLabels
      <4>2. CASE CanDispatch
        <5>1. Procedure(buf[canMsg]) \in {"on", "off", "cfg", "pfc", "hb1"}
          BY <4>2, ProcedureLabels DEF CanDispatch
        <5>2. QED
          BY <4>2, <5>1 DEF CanDispatch, Goto, TypeOK, TxLabels
      <4>3. QED
        BY <2>1, <4>1, <4>2
    <3>2. QED
      BY <3>1, QuietAttempts
  <2>2. ASSUME NEW d \in BOOLEAN, Heartbeat(d) PROVE AttemptsLeft'
    <3>1. Q
      BY <2>2 DEF Heartbeat, Goto, TypeOK, TxLabels
    <3>2. QED
      BY <3>1, QuietAttempts
  <2>3. ASSUME NEW p \in {"running", "stopped"}, PowerOnTx(p) PROVE AttemptsLeft'
    BY <2>3 DEF PowerOnTx, Attempt, Goto, AttemptsLeft, TxLabels, TypeOK
  <2>4. ASSUME NEW d \in BOOLEAN, ConfigTx(d) PROVE AttemptsLeft'
    BY <2>4 DEF ConfigTx, Attempt, Goto, AttemptsLeft, TxLabels, TypeOK
  <2>5. QED
    BY <1>3, <2>1, <2>2, <2>3, <2>4, SharedAttempts DEF CanTask
<1>4. CASE ScreenTask
  <2>1. CASE ScreenPend \/ (\E c \in ScreenCmds : ScreenDispatch(c)) \/ ScreenStart
    <3>1. i' = i
      BY <2>1 DEF ScreenPend, ScreenDispatch, ScreenStart
    <3>2. CASE PostThen("screen", "screen", "dly")
      BY <1>1, <3>1, <3>2, QuietAttempts DEF TxLabels
    <3>3. CASE \E l \in {"pend", "ack_on", "off", "pfc", "dly"} : Goto("screen", l)
      <4>1. Q
        BY <3>1, <3>3 DEF Goto, TypeOK, TxLabels
      <4>2. QED
        BY <4>1, QuietAttempts
    <3>4. QED
      BY <2>1, <3>2, <3>3 DEF ScreenPend, ScreenDispatch, ScreenStart
  <2>2. QED
    BY <1>4, <2>1, SharedAttempts DEF ScreenTask
<1>5. CASE tmr1_callback \/ tmr2_callback
  <2>1. i' = i /\ \E b : PostThen(b, "scan", pc.scan)
    BY <1>5 DEF tmr1_callback, tmr2_callback, TimerPost
  <2>2. pc.scan \notin TxLabels
    BY DEF TypeOK, TxLabels
  <2>3. QED
    BY <1>1, <2>1, <2>2, QuietAttempts
<1>6. CASE Environment
  <2>1. ASSUME NEW c \in Cmds, USART2_IRQHandler(c) PROVE Q
    BY <2>1 DEF USART2_IRQHandler, TypeOK, TxLabels
  <2>2. ASSUME USART6_IRQHandler PROVE Q
    BY <2>2 DEF USART6_IRQHandler, Goto, TypeOK, TxLabels
  <2>3. ASSUME StatusArrives \/ ConfirmArrives \/ PtcAlarmChanges PROVE Q
    BY <2>3 DEF StatusArrives, ConfirmArrives, PtcAlarmChanges
  <2>4. Q
    BY <1>6, <2>1, <2>2, <2>3 DEF Environment
  <2>5. QED
    BY <2>4, QuietAttempts
<1>7. QED
  BY <1>2, <1>3, <1>4, <1>5, <1>6 DEF Next
-----------------------------------------------------------------------------
(***************************************************************************)
(* The theorems.                                                           *)
(***************************************************************************)
LEMMA InitInv == Init => IInv
<1> SUFFICES ASSUME Init PROVE IInv
  OBVIOUS
<1>1. TypeOK
  BY InitType
<1>2. NoUnwrittenMessage
  BY DEF Init, NoUnwrittenMessage
<1>3. AttemptsLeft /\ StartTraced /\ StopWritten /\ NoSpontaneousStart
  BY DEF Init, AttemptsLeft, TxLabels, StartTraced, StopWritten, NoSpontaneousStart, Starting
<1>4. QED
  BY <1>1, <1>2, <1>3 DEF IInv

LEMMA NextInv == IInv /\ [Next]_vars => IInv'
<1> SUFFICES ASSUME IInv, [Next]_vars PROVE IInv'
  OBVIOUS
<1>1. CASE Next
  <2>1. TypeOK'
    BY <1>1, NextType DEF IInv
  <2>2. NoUnwrittenMessage'
    BY <1>1, <2>1, NextWritten DEF IInv
  <2>3. Traced'
    BY <1>1, NextTraced DEF IInv, Traced
  <2>4. AttemptsLeft'
    BY <1>1, NextAttempts DEF IInv
  <2>5. QED
    BY <2>1, <2>2, <2>3, <2>4 DEF IInv, Traced
<1>2. CASE UNCHANGED vars
  <2>1. TypeOK'
    BY <1>2 DEF IInv, TypeOK, vars
  <2>2. NoUnwrittenMessage'
    BY <1>2 DEF IInv, NoUnwrittenMessage, vars
  <2>3. AttemptsLeft' /\ StartTraced' /\ StopWritten' /\ NoSpontaneousStart'
    BY <1>2 DEF IInv, AttemptsLeft, StartTraced, Starting, StopWritten, NoSpontaneousStart, vars
  <2>4. QED
    BY <2>1, <2>2, <2>3 DEF IInv
<1>3. QED
  BY <1>1, <1>2

\* The strengthened invariant holds in every reachable state of the unit.
THEOREM Inductive == Spec => []IInv
BY InitInv, NextInv, PTL DEF Spec

\* Types: in particular the queue of can_task never exceeds its size and each
\* sender's buffer holds only that sender's commands.
THEOREM PowerTypeOK == Spec => []TypeOK
<1>1. IInv => TypeOK
  BY DEF IInv
<1>2. QED
  BY <1>1, Inductive, PTL

\* The PTC runs only if the run button or the screen has asked for a start: the
\* buffers that poweron is dispatched from are overwritten while they are queued,
\* but never with a start that nobody asked for.
THEOREM StartsAreRequested == Spec => []NoSpontaneousStart
<1>1. IInv => NoSpontaneousStart
  BY DEF IInv
<1>2. QED
  BY <1>1, Inductive, PTL

\* can_task never dispatches a buffer before its sender has written it.
THEOREM MessagesAreWritten == Spec => []NoUnwrittenMessage
<1>1. IInv => NoUnwrittenMessage
  BY DEF IInv
<1>2. QED
  BY <1>1, Inductive, PTL

\* Only CanDispatch takes can_task from a message it was handed into poweron.
LEMMA OnlyDispatchStarts ==
  ASSUME TypeOK, Next, pc.can = "got", pc'.can = "on"
  PROVE  CanDispatch
<1>1. CASE ScanTask
  <2>1. ASSUME NEW io \in SUBSET Signals, ScanSample(io) PROVE FALSE
    BY <2>1 DEF ScanSample, Goto, TypeOK
  <2>2. CASE (\E l \in {"read", "offcheck"} : PostThen("scan", "scan", l)) \/ Goto("scan", "read")
    BY <2>2, PostQuiet DEF Goto, TypeOK
  <2>3. QED
    BY <1>1, <2>1, <2>2 DEF ScanTask, ScanDecide, ScanPost, ScanOffCheck
<1>2. CASE CanTask
  <2>1. CASE CanPend
    BY <2>1 DEF CanPend
  <2>2. QED
    BY <1>2, <2>1, CanQuiet DEF Starting
<1>3. CASE ScreenTask
  <2>1. CASE PostThen("screen", "screen", "dly")
    BY <2>1, PostQuiet
  <2>2. CASE \E l \in {"pend", "ack_on", "off", "pfc", "dly"} : Goto("screen", l)
    BY <2>2 DEF Goto, TypeOK
  <2>3. CASE Shared("screen")
    BY <2>3, SharedQuiet
  <2>4. QED
    BY <1>3, <2>1, <2>2, <2>3 DEF ScreenTask, ScreenPend, ScreenDispatch, ScreenStart
<1>4. CASE tmr1_callback \/ tmr2_callback
  <2>1. PICK b : PostThen(b, "scan", pc.scan)
    BY <1>4 DEF tmr1_callback, tmr2_callback, TimerPost
  <2>2. pc.scan # "ack_on"
    BY DEF TypeOK
  <2>3. QED
    BY <2>1, <2>2, PostQuiet
<1>5. CASE Environment
  BY <1>5, EnvironmentQuiet
<1>6. QED
  BY <1>1, <1>2, <1>3, <1>4, <1>5 DEF Next

\* A start message of scan_task that is still queued when the stop button makes
\* scan_task decide POWER_OFF is never carried out as a start.
THEOREM QueuedStartIsRevoked == Spec => NoStaleStart
<1> DEFINE A == "OFF" \notin Cmds \cup PortCmds /\ pc.can = "got" /\ pc'.can = "on" /\ canMsg = "scan"
                => SYSTEM_POWER_ # "OFF"
<1>1. IInv /\ [Next]_vars => [A]_vars
  <2> SUFFICES ASSUME IInv, Next, "OFF" \notin Cmds \cup PortCmds, pc.can = "got", pc'.can = "on",
                      canMsg = "scan"
               PROVE  SYSTEM_POWER_ # "OFF"
    OBVIOUS
  <2>1. CanDispatch
    BY OnlyDispatchStarts DEF IInv
  <2>2. buf.scan = "POWERON"
    BY <2>1, ProcedureLabels DEF CanDispatch, Goto, IInv, TypeOK
  <2>3. QED
    BY <2>2 DEF IInv, StopWritten
<1>2. QED
  BY <1>1, Inductive, PTL DEF Spec, NoStaleStart
=============================================================================
