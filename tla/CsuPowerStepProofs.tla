------------------------- MODULE CsuPowerStepProofs -------------------------
(***************************************************************************)
(* Proofs of the action properties of CsuPower that say what a step may    *)
(* never undo: a stop, a state that agrees with the PTC's, an emergency    *)
(* stop that has been told, the progress of a call.  They are the safety   *)
(* halves of StopWins, StateConverges, EmoReachesPtc and CanTaskReturns,   *)
(* and hold for every number of retries, every size of the queue and every *)
(* set of signals and commands.  All of them need no more of the reachable *)
(* states than their types.                                                *)
(***************************************************************************)
EXTENDS CsuPowerProofs

USE DEF stateVars, msgVars, ptcVars, cfgVars, Labels, Buffers
-----------------------------------------------------------------------------
(***************************************************************************)
(* The way of a message.                                                   *)
(***************************************************************************)
\* A message of M is queued or has been handed to can_task.
InTransit(M) == \E b \in Senders : buf[b] \in M /\ Waiting(b)

\* Posting makes one buffer wait, the one that is posted.
LEMMA PostWaits ==
  ASSUME TypeOK, NEW b \in Senders, NEW t \in {"scan", "screen"}, NEW l, PostThen(b, t, l),
         NEW s \in Senders, Waiting(s)'
  PROVE  Waiting(s) \/ s = b
<1>1. canQ \in Seq(Senders) /\ pc \in Labels
  BY DEF TypeOK
<1>2. CASE pc.can = "pend"
  BY <1>1, <1>2 DEF PostThen, Waiting
<1>3. CASE pc.can # "pend"
  <2>1. pc'.can = pc.can /\ canMsg' = canMsg
    BY <1>1, <1>3 DEF PostThen
  <2>2. CASE canQ' = canQ
    BY <2>1, <2>2 DEF Waiting
  <2>3. CASE canQ' = Append(canQ, b)
    <3>1. \A n \in 1..Len(Append(canQ, b)) :
            (n \in 1..Len(canQ) /\ Append(canQ, b)[n] = canQ[n]) \/ Append(canQ, b)[n] = b
      BY <1>1
    <3>2. QED
      BY <2>1, <2>3, <3>1 DEF Waiting
  <2>4. QED
    BY <1>3, <2>2, <2>3 DEF PostThen
<1>4. QED
  BY <1>2, <1>3

\* Taking the head of the queue makes nothing wait that did not wait before.
LEMMA PendWaits ==
  ASSUME TypeOK, CanPend, NEW s, Waiting(s)'
  PROVE  Waiting(s)
<1>1. canQ \in Seq(Senders) /\ pc \in Labels
  BY DEF TypeOK
<1>2. CASE canQ = <<>>
  <2>1. pc'.can = "pend" /\ canQ' = canQ
    BY <1>1, <1>2 DEF CanPend, Goto
  <2>2. QED
    BY <2>1 DEF Waiting
<1>3. CASE canQ # <<>>
  <2>1. canMsg' = canQ[1] /\ Len(canQ) \in Nat /\ Len(canQ) >= 1
    BY <1>1, <1>3 DEF CanPend
  <2>2. canQ' = Tail(canQ)
    BY <1>3 DEF CanPend
  <2>3. \A n \in 1..Len(Tail(canQ)) : Tail(canQ)[n] = canQ[n + 1] /\ n + 1 \in 1..Len(canQ)
    BY <1>1, <1>3
  <2>4. QED
    BY <2>1, <2>2, <2>3 DEF Waiting
<1>4. QED
  BY <1>2, <1>3

LEMMA QuietWaits ==
  ASSUME UNCHANGED <<canQ, canMsg>>, pc'.can = "got" => pc.can = "got", NEW s, Waiting(s)'
  PROVE  Waiting(s)
BY DEF Waiting

\* A message of M that gets in transit has just been written by its sender.
LEMMA PostInTransit ==
  ASSUME TypeOK, NEW M, InTransit(M)', ~InTransit(M),
         NEW b \in Senders, NEW m, buf' = [buf EXCEPT ![b] = m],
         NEW t \in {"scan", "screen"}, NEW l, PostThen(b, t, l)
  PROVE  m \in M
<1>1. PICK s \in Senders : buf'[s] \in M /\ Waiting(s)'
  BY DEF InTransit
<1>2. buf'[b] = m /\ (s # b => buf'[s] = buf[s])
  BY DEF TypeOK, Senders
<1>3. CASE s = b
  BY <1>1, <1>2, <1>3
<1>4. CASE s # b
  BY <1>1, <1>2, <1>4, PostWaits DEF InTransit
<1>5. QED
  BY <1>3, <1>4

LEMMA QuietInTransit ==
  ASSUME NEW M, InTransit(M)', buf' = buf, UNCHANGED <<canQ, canMsg>>,
         pc'.can = "got" => pc.can = "got"
  PROVE  InTransit(M)
BY QuietWaits DEF InTransit

\* Who puts a message of M in transit.
LEMMA NewMessage ==
  ASSUME TypeOK, Next, NEW M, InTransit(M)', ~InTransit(M)
  PROVE  \/ "POWERON" \in M /\ SYSTEM_POWER_' = "ON"
         \/ "POWEROFF" \in M /\ SYSTEM_POWER_' = "OFF"
         \/ "POWERON" \in M /\ ScreenStart
         \/ \E m \in {"CONFIG_DATA", "SEARCH_DATA", "SEARCH_STATE"} : m \in M
<1> USE DEF Senders
<1>1. CASE ScanTask
  <2>1. ASSUME NEW io \in SUBSET Signals, ScanSample(io) PROVE FALSE
    <3>1. pc'.can = pc.can
      BY <2>1 DEF ScanSample, Goto, TypeOK
    <3>2. QED
      BY <2>1, <3>1, QuietInTransit DEF ScanSample
  <2>2. CASE Goto("scan", "read") /\ UNCHANGED <<buf, msgVars>>
    <3>1. pc'.can = pc.can
      BY <2>2 DEF Goto, TypeOK
    <3>2. QED
      BY <2>2, <3>1, QuietInTransit
  <2>3. CASE ScanDecide
    <3>1. SYSTEM_POWER_' = PowerAfter(statio)
      BY <2>3 DEF ScanDecide, read_io
    <3>2. CASE /\ PowerAfter(statio) = "ON"
               /\ buf' = [buf EXCEPT !["scan"] = "POWERON"]
               /\ PostThen("scan", "scan", "offcheck")
      BY <3>1, <3>2, PostInTransit
    <3>3. CASE /\ PowerAfter(statio) = "OFF"
               /\ buf' = [buf EXCEPT !["scan"] = "POWEROFF"]
               /\ PostThen("scan", "scan", "read")
      BY <3>1, <3>3, PostInTransit
    <3>4. QED
      BY <2>2, <2>3, <3>2, <3>3 DEF ScanDecide, ScanPost
  <2>4. CASE ScanOffCheck
    <3>1. SYSTEM_POWER_' = SYSTEM_POWER_
      BY <2>4 DEF ScanOffCheck
    <3>2. CASE /\ SYSTEM_POWER_ = "OFF"
               /\ buf' = [buf EXCEPT !["scan"] = "POWEROFF"]
               /\ PostThen("scan", "scan", "read")
      BY <3>1, <3>2, PostInTransit
    <3>3. QED
      BY <2>2, <2>4, <3>2 DEF ScanOffCheck
  <2>5. QED
    BY <1>1, <2>1, <2>3, <2>4 DEF ScanTask
<1>2. CASE CanTask
  <2>1. CASE CanPend
    BY <2>1, PendWaits DEF CanPend, InTransit
  <2>2. CASE CanDispatch
    <3>1. pc'.can # "got"
      BY <2>2, ProcedureLabels DEF CanDispatch, Goto, TypeOK
    <3>2. QED
      BY <2>2, <3>1, QuietInTransit DEF CanDispatch
  <2>3. QED
    BY <1>2, <2>1, <2>2, CanQuiet, QuietInTransit
<1>3. CASE ScreenTask
  <2>1. CASE (\E l : Goto("screen", l)) /\ UNCHANGED <<buf, msgVars>>
    <3>1. pc'.can = pc.can
      BY <2>1 DEF Goto, TypeOK
    <3>2. QED
      BY <2>1, <3>1, QuietInTransit
  <2>2. CASE /\ buf' = [buf EXCEPT !["screen"] = "CONFIG_DATA"]
             /\ PostThen("screen", "screen", "dly")
    BY <2>2, PostInTransit
  <2>3. CASE ScreenStart
    <3>1. /\ buf' = [buf EXCEPT !["screen"] = "POWERON"]
          /\ PostThen("screen", "screen", "dly")
      BY <2>3 DEF ScreenStart
    <3>2. QED
      BY <2>3, <3>1, PostInTransit
  <2>4. CASE Shared("screen")
    BY <2>4, SharedQuiet, QuietInTransit
  <2>5. QED
    BY <1>3, <2>1, <2>2, <2>3, <2>4 DEF ScreenTask, ScreenPend, ScreenDispatch
<1>4. CASE tmr1_callback \/ tmr2_callback
  <2>1. PICK b \in {"tmr1", "tmr2"}, m \in {"SEARCH_DATA", "SEARCH_STATE"} : TimerPost(b, m)
    BY <1>4 DEF tmr1_callback, tmr2_callback
  <2>2. buf' = [buf EXCEPT ![b] = m] /\ PostThen(b, "scan", pc.scan)
    BY <2>1 DEF TimerPost
  <2>3. QED
    BY <2>2, PostInTransit
<1>5. CASE Environment
  BY <1>5, EnvironmentQuiet, QuietInTransit
<1>6. QED
  BY <1>1, <1>2, <1>3, <1>4, <1>5 DEF Next
-----------------------------------------------------------------------------
(***************************************************************************)
(* A stop holds.                                                           *)
(***************************************************************************)
\* Where poweron and the acknowledgement of a start come from.
LEMMA StartOrigin ==
  ASSUME TypeOK, Next
  PROVE  /\ Starting' => Starting \/ CanDispatch
         /\ pc'.screen = "ack_on" => \/ pc.screen = "ack_on"
                                     \/ "ON" \in Handed
         /\ ptc' = "running" => ptc = "running" \/ Starting
<1> USE DEF Starting
<1>1. CASE ScanTask
  <2>1. ptc' = ptc
    BY <1>1 DEF ScanTask, ScanSample, ScanDecide, ScanOffCheck
  <2>2. CASE \E l : Goto("scan", l)
    BY <2>1, <2>2 DEF Goto, TypeOK
  <2>3. CASE \E l \in {"read", "offcheck"} : PostThen("scan", "scan", l)
    BY <2>1, <2>3, PostQuiet
  <2>4. QED
    BY <1>1, <2>2, <2>3 DEF ScanTask, ScanSample, ScanDecide, ScanPost, ScanOffCheck
<1>2. CASE CanTask
  <2>1. CASE CanPend
    BY <2>1 DEF CanPend, Goto, TypeOK
  <2>2. CASE CanDispatch
    BY <2>2 DEF CanDispatch, Goto, TypeOK
  <2>3. QED
    BY <1>2, <2>1, <2>2, CanQuiet
<1>3. CASE ScreenTask
  <2>1. CASE ScreenPend
    BY <2>1 DEF ScreenPend, Goto, TypeOK
  <2>2. CASE \E c \in ScreenCmds : ScreenDispatch(c)
    <3>1. ptc' = ptc
      BY <2>2 DEF ScreenDispatch
    <3>2. CASE PostThen("screen", "screen", "dly")
      BY <3>1, <3>2, PostQuiet
    <3>3. CASE "ON" \in Handed /\ Goto("screen", "ack_on")
      BY <3>1, <3>3 DEF Goto, TypeOK
    <3>4. CASE \E l \in {"off", "pfc", "dly"} : Goto("screen", l)
      BY <3>1, <3>4 DEF Goto, TypeOK
    <3>5. QED
      BY <2>2, <3>2, <3>3, <3>4 DEF ScreenDispatch
  <2>3. CASE ScreenStart
    BY <2>3, PostQuiet DEF ScreenStart
  <2>4. CASE Shared("screen")
    BY <2>4, SharedQuiet
  <2>5. QED
    BY <1>3, <2>1, <2>2, <2>3, <2>4 DEF ScreenTask
<1>4. CASE tmr1_callback \/ tmr2_callback
  <2>1. PICK b : PostThen(b, "scan", pc.scan) /\ ptc' = ptc
    BY <1>4 DEF tmr1_callback, tmr2_callback, TimerPost
  <2>2. pc.scan # "ack_on"
    BY DEF TypeOK
  <2>3. QED
    BY <2>1, <2>2, PostQuiet
<1>5. CASE Environment
  BY <1>5, EnvironmentQuiet
<1>6. QED
  BY <1>1, <1>2, <1>3, <1>4, <1>5 DEF Next

\* Once no start is under way the PTC stays off until somebody decides on a new
\* one: no queued message, retry, mix-up on the bus or reused buffer starts it.
THEOREM PowerStopHolds == Spec => StopHolds
<1> DEFINE A == ~StartUnderWay =>
                  /\ ptc' = "running" => ptc = "running"
                  /\ StartUnderWay' => \/ SYSTEM_POWER_' = "ON" \/ usart2_buf' = "ON"
                                       \/ "ON" \in Handed'
<1>1. TypeOK /\ [Next]_vars => [A]_vars
  <2> SUFFICES ASSUME TypeOK, Next, ~StartUnderWay
               PROVE  /\ ptc' = "running" => ptc = "running"
                      /\ StartUnderWay' => \/ SYSTEM_POWER_' = "ON" \/ usart2_buf' = "ON"
                                       \/ "ON" \in Handed'
    OBVIOUS
  <2>1. ~Starting /\ pc.screen # "ack_on" /\ "ON" \notin Handed
    BY DEF StartUnderWay, Starting
  <2>2. ~InTransit({"POWERON"})
    BY DEF StartUnderWay, InTransit
  <2>3. ptc' = "running" => ptc = "running"
    BY <2>1, StartOrigin
  <2>4. pc'.screen # "ack_on"
    BY <2>1, StartOrigin
  <2>5. ~Starting'
    <3>1. ASSUME CanDispatch, Starting' PROVE FALSE
      <4>1. buf[canMsg] = "POWERON" /\ pc.can = "got" /\ canMsg \in Senders
        BY <3>1, ProcedureLabels DEF CanDispatch, Goto, TypeOK, Starting
      <4>2. QED
        BY <2>2, <4>1 DEF InTransit, Waiting
    <3>2. QED
      BY <2>1, <3>1, StartOrigin
  <2>6. InTransit({"POWERON"})' => SYSTEM_POWER_' = "ON"
    <3>1. ~ScreenStart
      BY <2>1 DEF ScreenStart
    <3>2. QED
      BY <2>2, <3>1, NewMessage
  <2>7. QED
    BY <2>3, <2>4, <2>5, <2>6 DEF StartUnderWay, InTransit, Starting
<1>2. QED
  BY <1>1, PowerTypeOK, PTL DEF Spec, StopHolds
-----------------------------------------------------------------------------
(***************************************************************************)
(* System_State keeps the PTC's state.                                     *)
(***************************************************************************)
\* No temperature signal, no warning.
LEMMA NoWarning ==
  ASSUME NEW io, io \cap Temps = {}
  PROVE  WarningCode(io) = "NULL"
<1>1. {n \in 1..8 : TempOrder[n] \in io} = {}
  BY DEF Temps
<1>2. QED
  BY <1>1 DEF WarningCode

\* Where the test of a loop leads.
LEMMA LoopMoves ==
  ASSUME TypeOK, NEW t \in {"can", "screen"}, LoopTest(t)
  PROVE  /\ pc' = [pc EXCEPT ![t] = pc'[t]]
         /\ \/ pc[t] = "on" /\ pc'[t] \in {"on_tx", "on_if"}
            \/ pc[t] = "off" /\ pc'[t] \in {"off_tx", "off_if"}
            \/ pc[t] = "cfg" /\ pc'[t] \in {"cfg_tx", "dly"}
<1>1. pc[t] \in {"on", "off", "cfg"}
  BY DEF LoopTest
<1>2. \E l \in {Transmission(pc[t]), BehindLoop(pc[t])} : Goto(t, l)
  BY DEF LoopTest
<1>3. PICK l \in {Transmission(pc[t]), BehindLoop(pc[t])} : pc' = [pc EXCEPT ![t] = l]
  BY <1>2 DEF Goto
<1>4. pc'[t] = l
  BY <1>3 DEF TypeOK
<1>5. QED
  BY <1>1, <1>3, <1>4 DEF Transmission, BehindLoop

LEMMA SharedSettled ==
  ASSUME TypeOK, NEW s \in Agreement, Settled(s), NEW t \in {"can", "screen"}, Shared(t), ptc' = ptc
  PROVE  Settled(s)'
<1> USE DEF Settled, Agreement, Goto, TypeOK
<1>1. ASSUME NEW p \in {"running", "stopped"}, PowerOffTx(t, p) PROVE Settled(s)'
  BY <1>1 DEF PowerOffTx
<1>2. CASE LoopTest(t)
  BY <1>2, LoopMoves DEF LoopTest
<1>3. CASE PowerOffReset(t)
  BY <1>3 DEF PowerOffReset
<1>4. CASE DataAlarm(t)
  BY <1>4 DEF DataAlarm
<1>5. CASE DataCheck(t)
  BY <1>5 DEF DataCheck, AfterData
<1>6. CASE DataTest(t)
  BY <1>6 DEF DataTest, AfterData
<1>7. CASE DataSet(t)
  BY <1>7 DEF DataSet, AfterData
<1>8. CASE LoopIf(t)
  BY <1>8 DEF LoopIf
<1>9. QED
  BY <1>1, <1>2, <1>3, <1>4, <1>5, <1>6, <1>7, <1>8 DEF Shared

LEMMA CanSettled ==
  ASSUME TypeOK, NEW s \in Agreement, Settled(s), CanTask, ptc' = ptc
  PROVE  Settled(s)'
<1> USE DEF Settled, Agreement, Goto, TypeOK
<1>1. CASE CanPend
  BY <1>1 DEF CanPend
<1>2. CASE CanDispatch
  BY <1>2, ProcedureLabels DEF CanDispatch
<1>3. CASE HeartbeatElse
  BY <1>3 DEF HeartbeatElse
<1>4. ASSUME NEW d \in BOOLEAN, Heartbeat(d) PROVE Settled(s)'
  BY <1>4 DEF Heartbeat, Told
<1>5. ASSUME NEW p \in {"running", "stopped"}, PowerOnTx(p) PROVE Settled(s)'
  BY <1>5 DEF PowerOnTx
<1>6. CASE PowerOnAck
  BY <1>6 DEF PowerOnAck
<1>7. ASSUME NEW d \in BOOLEAN, ConfigTx(d) PROVE Settled(s)'
  BY <1>7 DEF ConfigTx
<1>8. CASE DataPower
  BY <1>8 DEF DataPower
<1>9. QED
  BY <1>1, <1>2, <1>3, <1>4, <1>5, <1>6, <1>7, <1>8, SharedSettled DEF CanTask

\* The labels that a step of another task or of an interrupt leaves alone, and
\* those a post moves.
LEMMA PostLabels ==
  ASSUME TypeOK, NEW b, NEW t \in {"scan", "screen"}, NEW l, PostThen(b, t, l)
  PROVE  /\ pc'.can = pc.can \/ pc'.can = "got"
         /\ t = "scan" => pc'.screen = pc.screen
         /\ t = "screen" => pc'.screen = l
BY DEF PostThen, TypeOK

LEMMA ScanLabels ==
  ASSUME TypeOK, ScanTask
  PROVE  /\ pc'.can = pc.can \/ pc'.can = "got"
         /\ pc'.screen = pc.screen
<1>1. CASE \E l : Goto("scan", l)
  BY <1>1 DEF Goto, TypeOK
<1>2. CASE \E l : PostThen("scan", "scan", l)
  BY <1>2, PostLabels
<1>3. QED
  BY <1>1, <1>2 DEF ScanTask, ScanSample, ScanDecide, ScanPost, ScanOffCheck

LEMMA ScanSettled ==
  ASSUME TypeOK, NEW s \in Agreement, Settled(s), ScanTask, NoAlarm
  PROVE  Settled(s)'
<1>1. UNCHANGED <<ptc, g_PTC_State, g_alarm>>
  BY DEF ScanTask, ScanSample, ScanDecide, ScanOffCheck
<1>2. System_State' = System_State
  <2>1. CASE ScanDecide
    <3>1. WarningCode(statio) = "NULL"
      BY NoWarning DEF NoAlarm
    <3>2. "emo" \notin statio /\ statio \cap Contactors = {}
      BY DEF NoAlarm
    <3>3. QED
      BY <2>1, <3>1, <3>2 DEF ScanDecide, read_io, StateAfter
  <2>2. QED
    BY <2>1 DEF ScanTask, ScanSample, ScanOffCheck
<1>3. QED
  BY <1>1, <1>2, ScanLabels DEF Settled, Agreement

LEMMA ScreenSettled ==
  ASSUME TypeOK, NEW s \in Agreement, Settled(s), ScreenTask, ptc' = ptc
  PROVE  Settled(s)'
<1> USE DEF Settled, Agreement
<1>1. CASE ScreenPend
  BY <1>1 DEF ScreenPend, Goto, TypeOK
<1>2. CASE \E c \in ScreenCmds : ScreenDispatch(c)
  <2>1. UNCHANGED <<System_State, g_PTC_State, g_alarm>>
    BY <1>2 DEF ScreenDispatch
  <2>2. CASE PostThen("screen", "screen", "dly")
    BY <2>1, <2>2, PostLabels
  <2>3. CASE \E l \in {"ack_on", "off", "pfc", "dly"} : Goto("screen", l)
    BY <2>1, <2>3 DEF Goto, TypeOK
  <2>4. QED
    BY <1>2, <2>2, <2>3 DEF ScreenDispatch
<1>3. CASE ScreenStart
  BY <1>3, PostLabels DEF ScreenStart
<1>4. QED
  BY <1>1, <1>2, <1>3, SharedSettled DEF ScreenTask

LEMMA EnvironmentSettled ==
  ASSUME TypeOK, NEW s \in Agreement, Settled(s), Environment, NoAlarm
  PROVE  Settled(s)'
<1> USE DEF Settled, Agreement
<1>1. ASSUME NEW c \in Cmds, USART2_IRQHandler(c) PROVE Settled(s)'
  BY <1>1 DEF USART2_IRQHandler, TypeOK
<1>2. CASE StatusArrives
  BY <1>2 DEF StatusArrives, NoAlarm
<1>3. CASE ConfirmArrives
  BY <1>3 DEF ConfirmArrives
<1>4. CASE PtcAlarmChanges
  BY <1>4 DEF PtcAlarmChanges
<1>5. CASE USART6_IRQHandler
  BY <1>5 DEF USART6_IRQHandler, Goto, TypeOK
<1>6. QED
  BY <1>1, <1>2, <1>3, <1>4, <1>5 DEF Environment

\* Once System_State, the report and the PTC agree, only an alarm or the PTC
\* itself makes System_State leave the PTC's state.
THEOREM PowerStateStays == Spec => StateStays
<1> DEFINE A == \A s \in Agreement : NoAlarm /\ ptc' = ptc /\ Settled(s) => Settled(s)'
<1>1. TypeOK /\ [Next]_vars => [A]_vars
  <2> SUFFICES ASSUME TypeOK, Next, NEW s \in Agreement, NoAlarm, ptc' = ptc, Settled(s)
               PROVE  Settled(s)'
    OBVIOUS
  <2>1. CASE tmr1_callback \/ tmr2_callback
    <3>1. PICK b : PostThen(b, "scan", pc.scan)
      BY <2>1 DEF tmr1_callback, tmr2_callback, TimerPost
    <3>2. UNCHANGED <<ptc, System_State, g_PTC_State, g_alarm>>
      BY <2>1 DEF tmr1_callback, tmr2_callback, TimerPost
    <3>3. QED
      BY <3>1, <3>2, PostLabels DEF Settled, Agreement
  <2>2. QED
    BY <2>1, ScanSettled, CanSettled, ScreenSettled, EnvironmentSettled DEF Next
<1>2. QED
  BY <1>1, PowerTypeOK, PTL DEF Spec, StateStays
-----------------------------------------------------------------------------
(***************************************************************************)
(* An emergency stop that has been told stays told.                        *)
(***************************************************************************)
\* The calls that write the state or reset the codes.
Writing == {"on", "on_tx", "on_if", "on_ack", "ack_on",
            "off", "off_tx", "off_if", "off_ack", "off_f", "off_s",
            "pfc_w", "pfc_s", "inv_w", "inv_s", "run_t", "run_w", "stby_t", "stby_w"}

\* EmoSettled without its part about the messages.
EmoTold ==
  /\ System_State = "SHUTDOWN" /\ fault_code = "emo" /\ data0 = "SHUTDOWN" /\ g_alarm = {}
  /\ \A t \in {"can", "screen"} : pc[t] \notin Writing

LEMMA EmoParts == EmoSettled <=> EmoTold /\ ~InTransit({"POWERON", "POWEROFF"})
BY DEF EmoSettled, EmoTold, InTransit, Writing

LEMMA SharedTold ==
  ASSUME TypeOK, EmoTold, NEW t \in {"can", "screen"}, Shared(t)
  PROVE  EmoTold'
<1> USE DEF EmoTold, Writing, Goto, TypeOK
<1>1. ASSUME NEW p \in {"running", "stopped"}, PowerOffTx(t, p) PROVE EmoTold'
  BY <1>1 DEF PowerOffTx
<1>2. CASE LoopTest(t)
  BY <1>2, LoopMoves DEF LoopTest
<1>3. CASE PowerOffReset(t)
  BY <1>3 DEF PowerOffReset
<1>4. CASE DataAlarm(t)
  BY <1>4 DEF DataAlarm
<1>5. CASE DataCheck(t)
  BY <1>5 DEF DataCheck, AfterData
<1>6. CASE DataTest(t)
  BY <1>6 DEF DataTest
<1>7. CASE DataSet(t)
  BY <1>7 DEF DataSet
<1>8. CASE LoopIf(t)
  BY <1>8 DEF LoopIf
<1>9. QED
  BY <1>1, <1>2, <1>3, <1>4, <1>5, <1>6, <1>7, <1>8 DEF Shared

LEMMA CanTold ==
  ASSUME TypeOK, EmoTold, ~InTransit({"POWERON", "POWEROFF"}), CanTask
  PROVE  EmoTold'
<1> USE DEF EmoTold, Writing, Goto, TypeOK
<1>1. CASE CanPend
  BY <1>1 DEF CanPend
<1>2. CASE CanDispatch
  <2>1. buf[canMsg] \notin {"POWERON", "POWEROFF"}
    BY <1>2 DEF CanDispatch, InTransit, Waiting
  <2>2. Procedure(buf[canMsg]) \in {"cfg", "pfc", "hb1"}
    BY <1>2, <2>1, ProcedureLabels DEF CanDispatch, Procedure, Senders
  <2>3. QED
    BY <1>2, <2>2 DEF CanDispatch
<1>3. CASE HeartbeatElse
  BY <1>3 DEF HeartbeatElse
<1>4. ASSUME NEW d \in BOOLEAN, Heartbeat(d) PROVE EmoTold'
  BY <1>4 DEF Heartbeat, Told
<1>5. ASSUME NEW p \in {"running", "stopped"}, PowerOnTx(p) PROVE EmoTold'
  BY <1>5 DEF PowerOnTx
<1>6. CASE PowerOnAck
  BY <1>6 DEF PowerOnAck
<1>7. ASSUME NEW d \in BOOLEAN, ConfigTx(d) PROVE EmoTold'
  BY <1>7 DEF ConfigTx
<1>8. CASE DataPower
  BY <1>8 DEF DataPower
<1>9. QED
  BY <1>1, <1>2, <1>3, <1>4, <1>5, <1>6, <1>7, <1>8, SharedTold DEF CanTask

LEMMA ScanTold ==
  ASSUME TypeOK, EmoTold, EmoHeld, ScanTask
  PROVE  EmoTold'
<1>1. data0' = data0 /\ g_alarm' = g_alarm
  BY DEF ScanTask, ScanSample, ScanDecide, ScanOffCheck
<1>2. System_State' = "SHUTDOWN" /\ fault_code' = "emo"
  BY DEF ScanTask, ScanSample, ScanDecide, ScanOffCheck, read_io, StateAfter, FaultCode,
         EmoHeld, EmoTold
<1>3. QED
  BY <1>1, <1>2, ScanLabels DEF EmoTold, Writing

LEMMA ScreenTold ==
  ASSUME TypeOK, EmoTold, EmoHeld, ScreenTask
  PROVE  EmoTold'
<1> USE DEF EmoTold, Writing
<1>1. CASE ScreenPend
  BY <1>1 DEF ScreenPend, Goto, TypeOK
<1>2. CASE \E c \in ScreenCmds : ScreenDispatch(c)
  <2>1. UNCHANGED <<System_State, fault_code, data0, g_alarm>>
    BY <1>2 DEF ScreenDispatch
  <2>2. CASE PostThen("screen", "screen", "dly")
    BY <2>1, <2>2, PostLabels
  <2>3. CASE \E l \in {"pfc", "dly"} : Goto("screen", l)
    BY <2>1, <2>3 DEF Goto, TypeOK
  <2>4. Handed \cap {"ON", "OFF"} = {}
    BY DEF Handed, EmoHeld
  <2>5. QED
    BY <1>2, <2>2, <2>3, <2>4 DEF ScreenDispatch
<1>3. CASE ScreenStart
  BY <1>3 DEF ScreenStart
<1>4. QED
  BY <1>1, <1>2, <1>3, SharedTold DEF ScreenTask

LEMMA EnvironmentTold ==
  ASSUME TypeOK, EmoTold, EmoHeld, Environment
  PROVE  EmoTold'
<1> USE DEF EmoTold, Writing
<1>1. ASSUME NEW c \in Cmds, USART2_IRQHandler(c) PROVE EmoTold'
  BY <1>1 DEF USART2_IRQHandler, TypeOK
<1>2. CASE StatusArrives
  BY <1>2 DEF StatusArrives, EmoHeld
<1>3. CASE ConfirmArrives
  BY <1>3 DEF ConfirmArrives
<1>4. CASE PtcAlarmChanges
  BY <1>4 DEF PtcAlarmChanges
<1>5. CASE USART6_IRQHandler
  BY <1>5 DEF USART6_IRQHandler, Goto, TypeOK
<1>6. QED
  BY <1>1, <1>2, <1>3, <1>4, <1>5 DEF Environment

\* While the emergency stop is held and nobody starts or stops the unit, the
\* shutdown that the heartbeat tells the PTC is not taken back.
THEOREM PowerEmoStays == Spec => EmoStays
<1> DEFINE A == EmoHeld /\ EmoHeld' /\ EmoSettled => EmoSettled'
<1>1. TypeOK /\ [Next]_vars => [A]_vars
  <2> SUFFICES ASSUME TypeOK, Next, EmoHeld, EmoHeld', EmoSettled
               PROVE  EmoSettled'
    OBVIOUS
  <2>1. EmoTold /\ ~InTransit({"POWERON", "POWEROFF"})
    BY EmoParts
  <2>2. ~InTransit({"POWERON", "POWEROFF"})'
    <3>1. ~ScreenStart
      BY <2>1 DEF ScreenStart, EmoTold, Writing
    <3>2. SYSTEM_POWER_' \in {"HOLD", "RUNING"}
      BY DEF EmoHeld
    <3>3. QED
      BY <2>1, <3>1, <3>2, NewMessage
  <2>3. EmoTold'
    <3>1. CASE tmr1_callback \/ tmr2_callback
      <4>1. PICK b : PostThen(b, "scan", pc.scan)
        BY <3>1 DEF tmr1_callback, tmr2_callback, TimerPost
      <4>2. UNCHANGED <<System_State, fault_code, data0, g_alarm>>
        BY <3>1 DEF tmr1_callback, tmr2_callback, TimerPost
      <4>3. QED
        BY <2>1, <4>1, <4>2, PostLabels DEF EmoTold, Writing
    <3>2. QED
      BY <2>1, <3>1, ScanTold, CanTold, ScreenTold, EnvironmentTold DEF Next
  <2>4. QED
    BY <2>2, <2>3 DEF EmoSettled, EmoTold, InTransit, Writing
<1>2. QED
  BY <1>1, PowerTypeOK, PTL DEF Spec, EmoStays
-----------------------------------------------------------------------------
(***************************************************************************)
(* Every call ends.                                                        *)
(***************************************************************************)
\* What a step leaves of a task that it does not belong to.
LEMMA WorkKept ==
  ASSUME NEW t, pc'[t] = pc[t], i'[t] = i[t]
  PROVE  Work(t)' = Work(t)
BY DEF Work

\* The bound is a natural number.
LEMMA WorkRange ==
  ASSUME TypeOK, NEW t \in {"can", "screen"}
  PROVE  Work(t) \in Nat
<1>1. RETRY \in Nat /\ i[t] \in 0..RETRY
  BY PowerAssumption DEF TypeOK
<1>2. QED
  BY <1>1 DEF Work

LEMMA SharedWork ==
  ASSUME TypeOK, NEW t \in {"can", "screen"}, Shared(t)
  PROVE  Work(t)' < Work(t)
<1> USE DEF TypeOK, Goto
<1>1. ASSUME NEW p \in {"running", "stopped"}, PowerOffTx(t, p) PROVE Work(t)' < Work(t)
  BY <1>1, PowerAssumption DEF PowerOffTx, Attempt, Work
<1>2. CASE LoopTest(t)
  <2>1. i'[t] = i[t] \/ pc'[t] \in {"on_if", "off_if", "dly"}
    <3>1. CASE Goto(t, BehindLoop(pc[t])) /\ pc[t] \in {"on", "off", "cfg"}
      BY <3>1 DEF BehindLoop
    <3>2. QED
      BY <1>2, <3>1 DEF LoopTest
  <2>2. RETRY \in Nat /\ i[t] \in 0..RETRY
    BY PowerAssumption
  <2>3. CASE pc[t] = "on" /\ pc'[t] \in {"on_tx", "on_if"}
    BY <2>1, <2>2, <2>3 DEF Work
  <2>4. CASE pc[t] = "off" /\ pc'[t] \in {"off_tx", "off_if"}
    BY <2>1, <2>2, <2>4 DEF Work
  <2>5. CASE pc[t] = "cfg" /\ pc'[t] \in {"cfg_tx", "dly"}
    BY <2>1, <2>2, <2>5 DEF Work
  <2>6. QED
    BY <1>2, <2>3, <2>4, <2>5, LoopMoves
<1>3. CASE PowerOffReset(t)
  BY <1>3 DEF PowerOffReset, Work
<1>4. CASE DataAlarm(t)
  BY <1>4 DEF DataAlarm, Work
<1>5. CASE DataCheck(t)
  BY <1>5 DEF DataCheck, AfterData, Work
<1>6. CASE DataTest(t)
  BY <1>6 DEF DataTest, AfterData, Work
<1>7. CASE DataSet(t)
  BY <1>7 DEF DataSet, AfterData, Work
<1>8. CASE LoopIf(t)
  BY <1>8 DEF LoopIf, Work
<1>9. QED
  BY <1>1, <1>2, <1>3, <1>4, <1>5, <1>6, <1>7, <1>8 DEF Shared

LEMMA CanWork ==
  ASSUME TypeOK, CanTask, pc.can # "dly"
  PROVE  Work("can")' < Work("can")
<1> USE DEF TypeOK, Goto, Work
<1>1. CASE CanPend
  BY <1>1 DEF CanPend
<1>2. CASE CanDispatch
  <2>1. pc.can = "got" /\ pc'.can \in {"on", "off", "cfg", "pfc", "hb1"} /\ i' = i
    BY <1>2, ProcedureLabels DEF CanDispatch
  <2>2. RETRY \in Nat /\ i.can \in 0..RETRY
    BY PowerAssumption
  <2>3. Work("can") = 2 * RETRY + 15
    BY <2>1
  <2>4. CASE pc'.can \in {"on", "off", "cfg"}
    BY <2>1, <2>2, <2>3, <2>4
  <2>5. CASE pc'.can \in {"pfc", "hb1"}
    BY <2>1, <2>2, <2>3, <2>5
  <2>6. QED
    BY <2>1, <2>4, <2>5
<1>3. CASE HeartbeatElse
  BY <1>3 DEF HeartbeatElse
<1>4. ASSUME NEW d \in BOOLEAN, Heartbeat(d) PROVE Work("can")' < Work("can")
  BY <1>4 DEF Heartbeat
<1>5. ASSUME NEW p \in {"running", "stopped"}, PowerOnTx(p) PROVE Work("can")' < Work("can")
  BY <1>5, PowerAssumption DEF PowerOnTx, Attempt
<1>6. CASE PowerOnAck
  BY <1>6 DEF PowerOnAck
<1>7. ASSUME NEW d \in BOOLEAN, ConfigTx(d) PROVE Work("can")' < Work("can")
  BY <1>7, PowerAssumption DEF ConfigTx, Attempt
<1>8. CASE DataPower
  BY <1>8 DEF DataPower
<1>9. QED
  BY <1>1, <1>2, <1>3, <1>4, <1>5, <1>6, <1>7, <1>8, SharedWork DEF CanTask

LEMMA ScreenWork ==
  ASSUME TypeOK, ScreenTask, pc.screen \notin {"init", "dly"}
  PROVE  Work("screen")' < Work("screen")
<1> USE DEF TypeOK, Work
<1>1. CASE ScreenPend
  BY <1>1 DEF ScreenPend
<1>2. CASE \E c \in ScreenCmds : ScreenDispatch(c)
  <2>1. i' = i
    BY <1>2 DEF ScreenDispatch
  <2>2. pc.screen \in {"got", "got_other"} /\ pc'.screen \in {"ack_on", "off", "pfc", "dly"}
    <3>1. pc.screen \in {"got", "got_other"}
      BY <1>2 DEF ScreenDispatch, Handed
    <3>2. CASE PostThen("screen", "screen", "dly")
      BY <3>1, <3>2, PostLabels
    <3>3. CASE \E l \in {"ack_on", "off", "pfc", "dly"} : Goto("screen", l)
      BY <3>1, <3>3 DEF Goto
    <3>4. QED
      BY <1>2, <3>2, <3>3 DEF ScreenDispatch
  <2>3. QED
    BY <2>1, <2>2, PowerAssumption
<1>3. CASE ScreenStart
  <2>1. pc.screen = "ack_on" /\ pc'.screen = "dly"
    BY <1>3, PostLabels DEF ScreenStart
  <2>2. QED
    BY <2>1
<1>4. QED
  BY <1>1, <1>2, <1>3, SharedWork DEF ScreenTask

\* What the tasks do to each other: nothing but hand a message to a can_task
\* that pends, or a command to a screen_task that pends.
LEMMA OthersKeep ==
  ASSUME TypeOK, Next
  PROVE  /\ ~CanTask => i'.can = i.can /\ (pc.can # "pend" => pc'.can = pc.can)
         /\ ~ScreenTask => i'.screen = i.screen /\ (pc.screen # "pend" => pc'.screen = pc.screen)
<1> DEFINE Can == i'.can = i.can /\ (pc.can # "pend" => pc'.can = pc.can)
           Screen == i'.screen = i.screen /\ (pc.screen # "pend" => pc'.screen = pc.screen)
<1> USE DEF TypeOK
<1>1. ASSUME NEW b, NEW l, PostThen(b, "scan", l), i' = i PROVE Can /\ Screen
  BY <1>1 DEF PostThen
<1>2. ASSUME NEW l, Goto("scan", l), i' = i PROVE Can /\ Screen
  BY <1>2 DEF Goto
<1>3. CASE ScanTask
  <2>1. i' = i
    BY <1>3 DEF ScanTask, ScanSample, ScanDecide, ScanOffCheck
  <2>2. QED
    BY <1>1, <1>2, <1>3, <2>1 DEF ScanTask, ScanSample, ScanDecide, ScanPost, ScanOffCheck
<1>4. CASE tmr1_callback \/ tmr2_callback
  BY <1>1, <1>4 DEF tmr1_callback, tmr2_callback, TimerPost
<1>5. CASE Environment
  <2>1. ASSUME NEW c \in Cmds, USART2_IRQHandler(c) PROVE Can /\ Screen
    BY <2>1 DEF USART2_IRQHandler
  <2>2. CASE StatusArrives \/ ConfirmArrives \/ PtcAlarmChanges
    BY <2>2 DEF StatusArrives, ConfirmArrives, PtcAlarmChanges
  <2>3. CASE USART6_IRQHandler
    BY <2>3 DEF USART6_IRQHandler, Goto
  <2>4. QED
    BY <1>5, <2>1, <2>2, <2>3 DEF Environment
<1>6. ASSUME Shared("can") PROVE Screen
  BY <1>6 DEF Shared, LoopTest, PowerOffTx, Attempt, LoopIf, PowerOffReset, DataAlarm, DataCheck,
              DataTest, DataSet, Goto
<1>7. ASSUME Shared("screen") PROVE Can
  BY <1>7 DEF Shared, LoopTest, PowerOffTx, Attempt, LoopIf, PowerOffReset, DataAlarm, DataCheck,
              DataTest, DataSet, Goto
<1>8. ASSUME CanTask PROVE Screen
  <2>1. CASE CanPend \/ CanDispatch \/ HeartbeatElse \/ PowerOnAck \/ DataPower
    BY <2>1 DEF CanPend, CanDispatch, HeartbeatElse, PowerOnAck, DataPower, Goto
  <2>2. ASSUME NEW d \in BOOLEAN, Heartbeat(d) \/ ConfigTx(d) PROVE Screen
    BY <2>2 DEF Heartbeat, ConfigTx, Attempt, Goto
  <2>3. ASSUME NEW p \in {"running", "stopped"}, PowerOnTx(p) PROVE Screen
    BY <2>3 DEF PowerOnTx, Attempt, Goto
  <2>4. QED
    BY <1>6, <1>8, <2>1, <2>2, <2>3 DEF CanTask
<1>9. ASSUME ScreenTask PROVE Can
  <2>1. CASE ScreenPend
    BY <2>1 DEF ScreenPend, Goto
  <2>2. CASE (\E c \in ScreenCmds : ScreenDispatch(c)) \/ ScreenStart
    BY <2>2 DEF ScreenDispatch, ScreenStart, PostThen, Goto
  <2>3. QED
    BY <1>7, <1>9, <2>1, <2>2 DEF ScreenTask
<1>10. QED
  BY <1>3, <1>4, <1>5, <1>8, <1>9 DEF Next

\* A message or a command is served within a bounded number of steps of its
\* task, with a dead PTC too, and no other actor puts the end off.
THEOREM PowerCallsEnd == Spec => CallsEnd
<1> DEFINE A == /\ \A t \in {"can", "screen"} :
                     pc[t] \notin {"init", "pend", "dly"} => Work(t)' <= Work(t)
                /\ CanTask /\ pc.can # "dly" => Work("can")' < Work("can")
                /\ ScreenTask /\ pc.screen \notin {"init", "dly"}
                     => Work("screen")' < Work("screen")
<1>1. TypeOK /\ TypeOK' /\ [Next]_vars => [A]_vars
  <2> SUFFICES ASSUME TypeOK, TypeOK', Next PROVE A
    OBVIOUS
  <2>1. \A t \in {"can", "screen"} : Work(t) \in Int /\ Work(t)' \in Int
    <3>1. ASSUME NEW t \in {"can", "screen"} PROVE Work(t) \in Int
      BY <3>1, WorkRange
    <3>2. ASSUME NEW t \in {"can", "screen"} PROVE Work(t)' \in Int
      <4>1. RETRY \in Nat /\ i'[t] \in 0..RETRY
        BY PowerAssumption DEF TypeOK
      <4>2. QED
        BY <4>1 DEF Work
    <3>3. QED
      BY <3>1, <3>2
  <2>2. CanTask /\ pc.can # "dly" => Work("can")' < Work("can")
    BY CanWork
  <2>3. ScreenTask /\ pc.screen \notin {"init", "dly"} => Work("screen")' < Work("screen")
    BY ScreenWork
  <2>4. pc.can \notin {"init", "pend", "dly"} => Work("can")' <= Work("can")
    BY <2>1, <2>2, OthersKeep, WorkKept
  <2>5. pc.screen \notin {"init", "pend", "dly"} => Work("screen")' <= Work("screen")
    BY <2>1, <2>3, OthersKeep, WorkKept
  <2>6. QED
    BY <2>2, <2>3, <2>4, <2>5
<1>2. QED
  BY <1>1, PowerTypeOK, PTL DEF Spec, CallsEnd
=============================================================================
