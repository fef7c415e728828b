------------------------------ MODULE CsuPower ------------------------------
(***************************************************************************)
(* Power control of the charging supply unit (USER/main.c,                 *)
(* HARDWARE/IO/io.c, HARDWARE/USART/usart.c, HARDWARE/ALARM/alarm.c).      *)
(*                                                                         *)
(* Three uC/OS-III tasks share the state of the unit without a lock:       *)
(*   scan_task   (priority 14) samples the cabinet's signals;              *)
(*   can_task    (priority 16) talks to the power converter (PTC);         *)
(*   screen_task (priority 17) serves the touch screen.                    *)
(* A step of a task ends where the task blocks, and between two accesses   *)
(* to state that a task of higher priority or an interrupt may change in   *)
(* the meantime: a test of such state and a write that depends on it are   *)
(* two steps.                                                              *)
(*                                                                         *)
(* Messages to can_task carry a POINTER to the sender's buffer: the queue  *)
(* holds names of buffers, and the command is read when it is dispatched.  *)
(***************************************************************************)
EXTENDS Integers, Sequences, FiniteSets

CONSTANTS
  RETRY,         \* attempts of poweron, poweroff and Set_ptcdata (10)
  TASK_CAN_NUM,  \* size of can_task's message queue (10)
  Signals,       \* the cabinet signals that may be asserted
  Cmds,          \* the commands the screen may send
  PortCmds,      \* the commands that may arrive at the other serial ports
  PtcAlarms      \* the alarm flags the PTC may raise

\* The temperature and smoke signals, in the order in which read_io tests them.
TempOrder == <<"extohd", "intohd", "smoke", "fan", "th3", "th7", "th60", "th80">>

Temps == {TempOrder[n] : n \in 1..8}

\* Byte 1 of statio.  "remote" stands for remote_run, remote_stop, ext_reset.
Byte1 == {"remote", "emo", "run", "stop"}

\* The contactors and the fuse of byte 2 that read_io turns into faults.
Contactors == {"mfuse", "mc2", "mc1"}

\* "OTHER": a frame without the screen's header, or with an order of which no
\* state depends (UART_TEST, the default branch).
ScreenCmds == {"ON", "OFF", "CONFIG", "SEEK", "OTHER"}

\* The alarm bits of g_pfc_State and g_inv_State.
Flags == {"pfc", "inv"}

ASSUME PowerAssumption ==
  /\ RETRY \in Nat \ {0}
  /\ TASK_CAN_NUM \in Nat \ {0}
  /\ Signals \subseteq Temps \cup Byte1 \cup Contactors
  /\ Cmds \subseteq ScreenCmds
  /\ PortCmds \subseteq ScreenCmds
  /\ PtcAlarms \subseteq Flags

VARIABLES
  System_State, warning_code, fault_code, SYSTEM_POWER_,  \* alarm.c
  statio,        \* the signals asserted when last sampled
  pc,            \* where each task is
  i,             \* the retry counters of the calls, 0 outside of a call
  buf,           \* byte 0 of the message buffer of each sender
  canQ,          \* can_task's queue: the buffers posted
  canMsg,        \* the buffer can_task was handed
  usart2_buf,    \* the command last received from the screen
  s_set_statu,   \* SetPTCData.s_set_statu: configuration confirmed
  data0,         \* data[0] of can_task: the state told to the PTC
  g_PTC_State,   \* the PTC state last reported
  g_alarm,       \* the PTC alarm flags last reported
  ptc, ptcAlarm, \* the PTC itself
  asked,         \* the PTC has a heartbeat to answer
  cfgAsked,      \* the PTC has a configuration to confirm
  startReq       \* somebody has asked for a start

stateVars == <<System_State, warning_code, fault_code>>
msgVars   == <<canQ, canMsg>>
ptcVars   == <<g_PTC_State, g_alarm, ptc, ptcAlarm, asked>>
cfgVars   == <<s_set_statu, cfgAsked>>
vars      == <<stateVars, SYSTEM_POWER_, statio, pc, i, buf, msgVars,
               usart2_buf, cfgVars, data0, ptcVars, startReq>>

Senders == {"scan", "screen", "tmr1", "tmr2"}

Init ==
  /\ System_State = "STANDBY" /\ warning_code = "NULL" /\ fault_code = "NULL"
  /\ SYSTEM_POWER_ = "HOLD"
  /\ statio = Signals \ {"th3", "th7"}    \* all bits 0: asserted, but for two
  /\ pc = [scan |-> "read", can |-> "pend", screen |-> "init"]
  /\ i = [can |-> 0, screen |-> 0]
  /\ buf = [scan |-> "LINK", screen |-> "LINK", tmr1 |-> "LINK", tmr2 |-> "LINK"]
  /\ canQ = <<>> /\ canMsg = "scan"
  /\ usart2_buf = "none"
  /\ s_set_statu = FALSE /\ cfgAsked = FALSE
  /\ data0 = "none"
  /\ g_PTC_State = "none" /\ g_alarm = {}
  /\ ptc = "stopped" /\ ptcAlarm = {}
  /\ asked = FALSE
  /\ startReq = FALSE
-----------------------------------------------------------------------------
(***************************************************************************)
(* OSTaskQPost(&CanTaskTCB, b): a pending can_task is handed the message   *)
(* and made ready, else the message is queued, and dropped when the queue  *)
(* is full (no caller looks at the error).  The task named t moves to l.   *)
(***************************************************************************)
PostThenUnbounded(b, t, l) ==    \* mutant: no test for a full queue
  /\ pc' = [pc EXCEPT ![t] = l, !["can"] = IF @ = "pend" THEN "got" ELSE @]
  /\ canMsg' = IF pc.can = "pend" THEN b ELSE canMsg
  /\ canQ' = IF pc.can = "pend" THEN canQ ELSE Append(canQ, b)

PostThen(b, t, l) ==
  IF pc.can = "pend"
  THEN /\ pc' = [pc EXCEPT ![t] = l, !["can"] = "got"]
       /\ canMsg' = b
       /\ canQ' = canQ
  ELSE /\ pc' = [pc EXCEPT ![t] = l]
       /\ canMsg' = canMsg
       /\ canQ' = IF Len(canQ) < TASK_CAN_NUM THEN Append(canQ, b) ELSE canQ

Goto(t, l) == pc' = [pc EXCEPT ![t] = l]

\* The loops while(... && i < 10) { send; delay; i++; }: the retry counter
\* after an attempt.
AttemptForever(t) == i' = i      \* mutant: no i++

Attempt(t) == i' = [i EXCEPT ![t] = @ + 1]

\* can_task has lent the processor: it pends, sits in a delay or waits between
\* two frames of a message.
CanBlocked == \/ pc.can \in {"pend", "dly", "on_tx", "off_tx", "cfg_tx", "on_ack", "off_ack"}
              \/ pc.can \in {"on", "off", "cfg"} /\ i.can > 0

\* The task t may take a step: screen_task only while can_task is blocked.
Runs(t) == t = "screen" => CanBlocked
-----------------------------------------------------------------------------
(***************************************************************************)
(* scan_task.  read_io samples the signals one after the other, with       *)
(* delays; a signal that bounces keeps its old value.  Any set of signals  *)
(* can result.                                                             *)
(***************************************************************************)
ScanSample(io) ==
  /\ pc.scan = "read"
  /\ statio' = io
  /\ Goto("scan", "decide")
  /\ UNCHANGED <<stateVars, SYSTEM_POWER_, i, buf, msgVars, usart2_buf, cfgVars,
                 data0, ptcVars, startReq>>

\* The last of the temperature tests that fires gives the code.
WarningCode(io) ==
  LET fired == {n \in 1..8 : TempOrder[n] \in io} IN
  IF fired = {} THEN "NULL"
  ELSE TempOrder[CHOOSE n \in fired : \A m \in fired : m <= n]

\* The contactors are looked at only if byte 1 differs from 0x2f, the value
\* with nothing but the (inverted) stop signal asserted.
FaultGate(io) == io \cap Byte1 # {"stop"}

FaultCodeNoEmo(io) ==            \* mutant: the emergency stop leaves no code
  IF FaultGate(io) /\ io \cap Contactors # {}
  THEN CHOOSE c \in io \cap Contactors : TRUE ELSE fault_code

FaultCode(io) ==
  CASE "emo" \in io -> "emo"
    [] "emo" \notin io /\ FaultGate(io) /\ "mc1" \in io -> "mc1"
    [] "emo" \notin io /\ FaultGate(io) /\ "mc1" \notin io /\ "mc2" \in io -> "mc2"
    [] "emo" \notin io /\ FaultGate(io) /\ io \cap Contactors = {"mfuse"} -> "mfuse"
    [] OTHER -> fault_code

\* The 60 degree warning is reported with the unit shown as running.
StateAfter(io) ==
  IF "emo" \in io THEN "SHUTDOWN"
  ELSE IF FaultGate(io) /\ io \cap Contactors # {} THEN "FAULT"
  ELSE IF WarningCode(io) = "th60" THEN "RUNNING"
  ELSE IF WarningCode(io) # "NULL" THEN "WARNING"
  ELSE System_State

\* The run button, then the stop button.
PowerAfterRun(io) ==
  IF "run" \notin io THEN SYSTEM_POWER_
  ELSE IF SYSTEM_POWER_ \in {"HOLD", "OFF"} THEN "ON"
  ELSE IF SYSTEM_POWER_ = "ON" THEN "RUNING"
  ELSE SYSTEM_POWER_

PowerAfterOnOnly(io) ==          \* mutant: a running unit ignores the button
  IF "stop" \in io /\ PowerAfterRun(io) = "ON" THEN "OFF" ELSE PowerAfterRun(io)

PowerAfter(io) ==
  IF "stop" \in io /\ PowerAfterRun(io) \in {"RUNING", "ON"}
  THEN "OFF" ELSE PowerAfterRun(io)

\* The rest of read_io decides without blocking.
read_ioKeepsWarning ==           \* mutant: the warning is never taken back
  /\ warning_code' = IF WarningCode(statio) = "NULL" THEN warning_code ELSE WarningCode(statio)
  /\ fault_code' = FaultCode(statio)
  /\ System_State' = StateAfter(statio)
  /\ SYSTEM_POWER_' = PowerAfter(statio)
  /\ startReq' = (startReq \/ PowerAfter(statio) = "ON")

read_io ==
  /\ warning_code' = WarningCode(statio)
  /\ fault_code' = FaultCode(statio)
  /\ System_State' = StateAfter(statio)
  /\ SYSTEM_POWER_' = PowerAfter(statio)
  /\ startReq' = (startReq \/ PowerAfter(statio) = "ON")

ScanPostKeepsBuffer ==           \* mutant: the stop does not rewrite the buffer
  \/ /\ PowerAfter(statio) = "ON"
     /\ buf' = [buf EXCEPT !["scan"] = "POWERON"]
     /\ PostThen("scan", "scan", "offcheck")
  \/ /\ PowerAfter(statio) = "OFF"
     /\ buf' = IF buf["scan"] = "POWERON" THEN buf ELSE [buf EXCEPT !["scan"] = "POWEROFF"]
     /\ PostThen("scan", "scan", "read")
  \/ /\ PowerAfter(statio) \in {"HOLD", "RUNING"}
     /\ Goto("scan", "read")
     /\ UNCHANGED <<buf, msgVars>>

ScanPostOnce ==                  \* mutant: the stop is posted once, not in each scan
  \/ /\ PowerAfter(statio) = "ON"
     /\ buf' = [buf EXCEPT !["scan"] = "POWERON"]
     /\ PostThen("scan", "scan", "offcheck")
  \/ /\ PowerAfter(statio) = "OFF" /\ SYSTEM_POWER_ # "OFF"
     /\ buf' = [buf EXCEPT !["scan"] = "POWEROFF"]
     /\ PostThen("scan", "scan", "read")
  \/ /\ PowerAfter(statio) \in {"HOLD", "RUNING"} \/ PowerAfter(statio) = SYSTEM_POWER_
     /\ PowerAfter(statio) # "ON"
     /\ Goto("scan", "read")
     /\ UNCHANGED <<buf, msgVars>>

\* scan_task tells can_task, in each scan while POWER_ON or POWER_OFF lasts.
ScanPost ==
  \/ /\ PowerAfter(statio) = "ON"
     /\ buf' = [buf EXCEPT !["scan"] = "POWERON"]
     /\ PostThen("scan", "scan", "offcheck")
  \/ /\ PowerAfter(statio) = "OFF"
     /\ buf' = [buf EXCEPT !["scan"] = "POWEROFF"]
     /\ PostThen("scan", "scan", "read")
  \/ /\ PowerAfter(statio) \in {"HOLD", "RUNING"}
     /\ Goto("scan", "read")
     /\ UNCHANGED <<buf, msgVars>>

ScanDecide ==
  /\ pc.scan = "decide"
  /\ read_io
  /\ ScanPost
  /\ UNCHANGED <<statio, i, usart2_buf, cfgVars, data0, ptcVars>>

\* After the delay that follows a start message: the test for POWER_OFF.
ScanOffCheck ==
  /\ pc.scan = "offcheck"
  /\ \/ /\ SYSTEM_POWER_ = "OFF"
        /\ buf' = [buf EXCEPT !["scan"] = "POWEROFF"]
        /\ PostThen("scan", "scan", "read")
     \/ /\ SYSTEM_POWER_ # "OFF"
        /\ Goto("scan", "read")
        /\ UNCHANGED <<buf, msgVars>>
  /\ UNCHANGED <<stateVars, SYSTEM_POWER_, statio, i, usart2_buf, cfgVars,
                 data0, ptcVars, startReq>>
-----------------------------------------------------------------------------
(***************************************************************************)
(* can_task.                                                               *)
(***************************************************************************)
\* OSTaskQPend at the head of the loop.
CanPend ==
  /\ pc.can = "dly"
  /\ IF canQ = <<>>
     THEN Goto("can", "pend") /\ UNCHANGED msgVars
     ELSE /\ Goto("can", "got")
          /\ canMsg' = Head(canQ)
          /\ canQ' = Tail(canQ)
  /\ UNCHANGED <<stateVars, SYSTEM_POWER_, statio, i, buf, usart2_buf, cfgVars,
                 data0, ptcVars, startReq>>

\* switch(p[0]): the procedures.  Nobody posts LINK, SEARCH or CONFIG_NUM, the
\* remaining cases of the switch.
ProcedureSwapped(m) ==           \* mutant: POWEROFF runs into poweron
  CASE m = "POWERON" -> "on"
    [] m = "POWEROFF" -> "on"
    [] m = "CONFIG_DATA" -> "cfg"
    [] m = "SEARCH_DATA" -> "pfc"
    [] m = "SEARCH_STATE" -> "hb1"

Procedure(m) ==
  CASE m = "POWERON" -> "on"
    [] m = "POWEROFF" -> "off"
    [] m = "CONFIG_DATA" -> "cfg"
    [] m = "SEARCH_DATA" -> "pfc"
    [] m = "SEARCH_STATE" -> "hb1"

CanDispatch ==
  /\ pc.can = "got"
  /\ buf[canMsg] # "LINK"
  /\ Goto("can", Procedure(buf[canMsg]))
  /\ s_set_statu' = (s_set_statu /\ buf[canMsg] # "CONFIG_DATA")
  /\ UNCHANGED <<stateVars, SYSTEM_POWER_, statio, i, buf, msgVars, usart2_buf,
                 cfgAsked, data0, ptcVars, startReq>>

(***************************************************************************)
(* The heartbeat: if(System_State == STANDBY) ... else if(...) ..., which  *)
(* reads System_State anew in each of its four tests.  When none holds     *)
(* (FAULT) data[0] keeps its previous value.                               *)
(***************************************************************************)
Told(l) == CASE l = "hb1" -> "STANDBY" [] l = "hb2" -> "RUNNING"
             [] l = "hb3" -> "WARNING" [] l = "hb4" -> "SHUTDOWN"

HeartbeatElse ==
  /\ pc.can \in {"hb1", "hb2", "hb3"}
  /\ System_State # Told(pc.can)
  /\ Goto("can", CASE pc.can = "hb1" -> "hb2" [] pc.can = "hb2" -> "hb3" [] pc.can = "hb3" -> "hb4")
  /\ UNCHANGED <<stateVars, SYSTEM_POWER_, statio, i, buf, msgVars, usart2_buf,
                 cfgVars, data0, ptcVars, startReq>>

\* The state is told; the PTC gets the message or the bus loses it.
Heartbeat(delivered) ==
  /\ pc.can \in {"hb1", "hb2", "hb3", "hb4"}
  /\ pc.can = "hb4" \/ System_State = Told(pc.can)
  /\ data0' = IF System_State = Told(pc.can) THEN System_State ELSE data0
  /\ asked' = (asked \/ delivered)
  /\ Goto("can", "dly")
  /\ UNCHANGED <<stateVars, SYSTEM_POWER_, statio, i, buf, msgVars, usart2_buf,
                 cfgVars, g_PTC_State, g_alarm, ptc, ptcAlarm, startReq>>

(***************************************************************************)
(* What becomes of the PTC when a command is sent: the command arrives or  *)
(* the bus loses it.  can_task and screen_task pack into the same          *)
(* can2_tbuf and block between two frames, so when a start of the one      *)
(* overlaps a stop of the other, either may go out as the other.           *)
(***************************************************************************)
Mixed == pc.can \in {"on", "on_tx"} /\ pc.screen \in {"off", "off_tx"}

Outcomes(cmd) == {ptc, cmd} \cup (IF Mixed THEN {"running", "stopped"} ELSE {})

(***************************************************************************)
(* poweron, poweroff and Set_ptcdata.  Each loop has two labels: its test  *)
(* ("on", "off", "cfg") and the transmission ("on_tx", "off_tx",           *)
(* "cfg_tx").  poweroff is called by can_task and by screen_task.          *)
(***************************************************************************)
\* What the loop waits for.
Confirmed(l) == CASE l = "on" -> g_PTC_State = "running"
                  [] l = "off" -> g_PTC_State = "stopped"
                  [] l = "cfg" -> s_set_statu

Transmission(l) == CASE l = "on" -> "on_tx" [] l = "off" -> "off_tx" [] l = "cfg" -> "cfg_tx"

\* Behind the loop the report is read a second time.  Set_ptcdata goes on to
\* its acknowledgements, confirmed or not.
BehindLoop(l) == CASE l = "on" -> "on_if" [] l = "off" -> "off_if" [] l = "cfg" -> "dly"

LoopTest(t) ==
  /\ pc[t] \in {"on", "off", "cfg"} /\ Runs(t)
  /\ \/ /\ ~Confirmed(pc[t]) /\ i[t] < RETRY
        /\ Goto(t, Transmission(pc[t]))
        /\ i' = i
     \/ /\ Confirmed(pc[t]) \/ i[t] >= RETRY
        /\ Goto(t, BehindLoop(pc[t]))
        /\ i' = [i EXCEPT ![t] = 0]
  /\ UNCHANGED <<stateVars, SYSTEM_POWER_, statio, buf, msgVars, usart2_buf,
                 cfgVars, data0, ptcVars, startReq>>

\* The transmissions; p is what becomes of the PTC.
PowerOnTx(p) ==
  /\ pc.can = "on_tx"
  /\ p \in Outcomes("running") /\ ptc' = p
  /\ Attempt("can")
  /\ Goto("can", "on")
  /\ UNCHANGED <<stateVars, SYSTEM_POWER_, statio, buf, msgVars, usart2_buf,
                 cfgVars, data0, g_PTC_State, g_alarm, ptcAlarm, asked, startReq>>

PowerOffTx(t, p) ==
  /\ pc[t] = "off_tx" /\ Runs(t)
  /\ p \in Outcomes("stopped") /\ ptc' = p
  /\ Attempt(t)
  /\ Goto(t, "off")
  /\ UNCHANGED <<stateVars, SYSTEM_POWER_, statio, buf, msgVars, usart2_buf,
                 cfgVars, data0, g_PTC_State, g_alarm, ptcAlarm, asked, startReq>>

ConfigTx(delivered) ==
  /\ pc.can = "cfg_tx"
  /\ cfgAsked' = (cfgAsked \/ delivered)
  /\ Attempt("can")
  /\ Goto("can", "cfg")
  /\ UNCHANGED <<stateVars, SYSTEM_POWER_, statio, buf, msgVars, usart2_buf,
                 s_set_statu, data0, ptcVars, startReq>>

\* The if behind the loop of poweron and poweroff.
LoopIf(t) ==
  /\ pc[t] \in {"on_if", "off_if"} /\ Runs(t)
  /\ \/ /\ pc[t] = "on_if"
        /\ Goto(t, IF g_PTC_State = "running" THEN "on_ack" ELSE "dly")
     \/ /\ pc[t] = "off_if"
        /\ Goto(t, IF g_PTC_State = "stopped" THEN "off_ack" ELSE "dly")
  /\ UNCHANGED <<stateVars, SYSTEM_POWER_, statio, i, buf, msgVars, usart2_buf,
                 cfgVars, data0, ptcVars, startReq>>

\* poweron: the acknowledgement to the screen and its delays are over.
PowerOnAck ==
  /\ pc.can = "on_ack"
  /\ System_State' = "RUNNING"
  /\ Goto("can", "dly")
  /\ UNCHANGED <<warning_code, fault_code, SYSTEM_POWER_, statio, i, buf, msgVars,
                 usart2_buf, cfgVars, data0, ptcVars, startReq>>

\* poweroff: after the acknowledgement the codes and the state are reset one by
\* one.
PowerOffReset(t) ==
  /\ pc[t] \in {"off_ack", "off_f", "off_s"} /\ Runs(t)
  /\ \/ /\ pc[t] = "off_ack"
        /\ warning_code' = "NULL"
        /\ Goto(t, "off_f")
        /\ UNCHANGED <<fault_code, System_State>>
     \/ /\ pc[t] = "off_f"
        /\ fault_code' = "NULL"
        /\ Goto(t, "off_s")
        /\ UNCHANGED <<warning_code, System_State>>
     \/ /\ pc[t] = "off_s"
        /\ System_State' = "STANDBY"
        /\ Goto(t, "dly")
        /\ UNCHANGED <<warning_code, fault_code>>
  /\ UNCHANGED <<SYSTEM_POWER_, statio, i, buf, msgVars, usart2_buf, cfgVars,
                 data0, ptcVars, startReq>>

(***************************************************************************)
(* screen_datasend, called by can_task (SEARCH_DATA) and screen_task       *)
(* (SEEK): the report, the PTC's alarm flags, and the automatic update of  *)
(* System_State.  can_task then turns POWER_ON into POWER_RUNING.          *)
(***************************************************************************)
AfterData(t) == IF t = "can" THEN "data_pow" ELSE "dly"

\* Two ifs with the same body: the test of a flag, then two writes.
DataAlarm(t) ==
  /\ pc[t] \in {"pfc", "pfc_w", "pfc_s", "inv", "inv_w", "inv_s"} /\ Runs(t)
  /\ \/ /\ pc[t] = "pfc"
        /\ Goto(t, IF "pfc" \in g_alarm THEN "pfc_w" ELSE "inv")
        /\ UNCHANGED <<warning_code, System_State>>
     \/ /\ pc[t] = "inv"
        /\ Goto(t, IF "inv" \in g_alarm THEN "inv_w" ELSE "chk_w")
        /\ UNCHANGED <<warning_code, System_State>>
     \/ /\ pc[t] \in {"pfc_w", "inv_w"}
        /\ warning_code' = "RETAIN"
        /\ Goto(t, IF pc[t] = "pfc_w" THEN "pfc_s" ELSE "inv_s")
        /\ UNCHANGED System_State
     \/ /\ pc[t] \in {"pfc_s", "inv_s"}
        /\ System_State' = "FAULT"
        /\ Goto(t, IF pc[t] = "pfc_s" THEN "inv" ELSE "chk_w")
        /\ UNCHANGED warning_code
  /\ UNCHANGED <<fault_code, SYSTEM_POWER_, statio, i, buf, msgVars, usart2_buf,
                 cfgVars, data0, ptcVars, startReq>>

\* if(warning_code == ALARM_CODE_NULL && fault_code == ERROR_CODE_NULL).
DataCheckWarningOnly(t) ==       \* mutant: the fault code is not looked at
  /\ pc[t] \in {"chk_w", "chk_f"} /\ Runs(t)
  /\ Goto(t, IF warning_code = "NULL" THEN "run_t" ELSE AfterData(t))
  /\ UNCHANGED <<stateVars, SYSTEM_POWER_, statio, i, buf, msgVars, usart2_buf,
                 cfgVars, data0, ptcVars, startReq>>

DataCheck(t) ==
  /\ pc[t] \in {"chk_w", "chk_f"} /\ Runs(t)
  /\ \/ /\ pc[t] = "chk_w"
        /\ Goto(t, IF warning_code = "NULL" THEN "chk_f" ELSE AfterData(t))
     \/ /\ pc[t] = "chk_f"
        /\ Goto(t, IF fault_code = "NULL" THEN "run_t" ELSE AfterData(t))
  /\ UNCHANGED <<stateVars, SYSTEM_POWER_, statio, i, buf, msgVars, usart2_buf,
                 cfgVars, data0, ptcVars, startReq>>

\* Two ifs again: the test of the report, then the write.
DataTestSwapped(t) ==            \* mutant: the masks of the two states are swapped
  /\ pc[t] \in {"run_t", "stby_t"} /\ Runs(t)
  /\ \/ /\ pc[t] = "run_t"
        /\ Goto(t, IF g_PTC_State = "stopped" THEN "run_w" ELSE "stby_t")
     \/ /\ pc[t] = "stby_t"
        /\ Goto(t, IF g_PTC_State = "running" THEN "stby_w" ELSE AfterData(t))
  /\ UNCHANGED <<stateVars, SYSTEM_POWER_, statio, i, buf, msgVars, usart2_buf,
                 cfgVars, data0, ptcVars, startReq>>

DataTestRunningOnly(t) ==        \* mutant: the stop bit is not looked at
  /\ pc[t] \in {"run_t", "stby_t"} /\ Runs(t)
  /\ Goto(t, IF pc[t] = "run_t" /\ g_PTC_State = "running" THEN "run_w" ELSE AfterData(t))
  /\ UNCHANGED <<stateVars, SYSTEM_POWER_, statio, i, buf, msgVars, usart2_buf,
                 cfgVars, data0, ptcVars, startReq>>

DataTest(t) ==
  /\ pc[t] \in {"run_t", "stby_t"} /\ Runs(t)
  /\ \/ /\ pc[t] = "run_t"
        /\ Goto(t, IF g_PTC_State = "running" THEN "run_w" ELSE "stby_t")
     \/ /\ pc[t] = "stby_t"
        /\ Goto(t, IF g_PTC_State = "stopped" THEN "stby_w" ELSE AfterData(t))
  /\ UNCHANGED <<stateVars, SYSTEM_POWER_, statio, i, buf, msgVars, usart2_buf,
                 cfgVars, data0, ptcVars, startReq>>

DataSet(t) ==
  /\ pc[t] \in {"run_w", "stby_w"} /\ Runs(t)
  /\ \/ /\ pc[t] = "run_w"
        /\ System_State' = "RUNNING"
        /\ Goto(t, "stby_t")
     \/ /\ pc[t] = "stby_w"
        /\ System_State' = "STANDBY"
        /\ Goto(t, AfterData(t))
  /\ UNCHANGED <<warning_code, fault_code, SYSTEM_POWER_, statio, i, buf, msgVars,
                 usart2_buf, cfgVars, data0, ptcVars, startReq>>

\* if(SYSTEM_POWER_==POWER_ON) SYSTEM_POWER_=POWER_RUNING: a test, then a write.
DataPower ==
  /\ pc.can \in {"data_pow", "data_run"}
  /\ \/ /\ pc.can = "data_pow"
        /\ Goto("can", IF SYSTEM_POWER_ = "ON" THEN "data_run" ELSE "dly")
        /\ UNCHANGED SYSTEM_POWER_
     \/ /\ pc.can = "data_run"
        /\ SYSTEM_POWER_' = "RUNING"
        /\ Goto("can", "dly")
  /\ UNCHANGED <<stateVars, statio, i, buf, msgVars, usart2_buf, cfgVars, data0,
                 ptcVars, startReq>>

-----------------------------------------------------------------------------
(***************************************************************************)
(* screen_task and its receive interrupts.                                 *)
(***************************************************************************)
\* The timers are started, then screen_task pends; so does it after its delay.
ScreenPend ==
  /\ pc.screen \in {"init", "dly"} /\ Runs("screen")
  /\ Goto("screen", "pend")
  /\ UNCHANGED <<stateVars, SYSTEM_POWER_, statio, i, buf, msgVars, usart2_buf,
                 cfgVars, data0, ptcVars, startReq>>

\* USART2_IRQHandler copies the command over the buffer it has already handed
\* out, and posts it: with a queue of size 0 only a pending task gets it.
USART2_IRQHandler(c) ==
  /\ usart2_buf' = c
  /\ pc' = IF pc.screen = "pend" THEN [pc EXCEPT !["screen"] = "got"] ELSE pc
  /\ UNCHANGED <<stateVars, SYSTEM_POWER_, statio, i, buf, msgVars, cfgVars,
                 data0, ptcVars, startReq>>

\* The handlers of the meter's port, and alike of the failover port (USART3) and
\* of the external one (UART4), post to screen_task too, each in a buffer of its
\* own, which later frames overwrite.
USART6_IRQHandler ==
  /\ PortCmds # {}
  /\ pc.screen = "pend"
  /\ Goto("screen", "got_other")
  /\ UNCHANGED <<stateVars, SYSTEM_POWER_, statio, i, buf, msgVars, usart2_buf,
                 cfgVars, data0, ptcVars, startReq>>

\* The commands screen_task may find in the buffer that it was handed.
Handed == CASE pc.screen = "got" -> {usart2_buf}
            [] pc.screen = "got_other" -> PortCmds
            [] OTHER -> {}

\* The test of the header, and switch(p[4]).
ScreenDispatch(c) ==
  /\ c \in Handed /\ Runs("screen")
  /\ \/ /\ c = "OTHER"
        /\ Goto("screen", "dly")
        /\ UNCHANGED <<SYSTEM_POWER_, buf, msgVars, startReq>>
     \/ /\ c = "ON"
        /\ Goto("screen", "ack_on")
        /\ startReq' = TRUE
        /\ UNCHANGED <<SYSTEM_POWER_, buf, msgVars>>
     \/ /\ c = "OFF"
        /\ SYSTEM_POWER_' = "OFF"
        /\ Goto("screen", "off")
        /\ UNCHANGED <<buf, msgVars, startReq>>
     \/ /\ c = "CONFIG"
        /\ buf' = [buf EXCEPT !["screen"] = "CONFIG_DATA"]
        /\ PostThen("screen", "screen", "dly")
        /\ UNCHANGED <<SYSTEM_POWER_, startReq>>
     \/ /\ c = "SEEK"
        /\ Goto("screen", "pfc")
        /\ UNCHANGED <<SYSTEM_POWER_, buf, msgVars, startReq>>
  /\ UNCHANGED <<stateVars, statio, i, usart2_buf, cfgVars, data0, ptcVars>>

\* The start command has been acknowledged; now it is passed on.
ScreenStartUnwritten ==          \* mutant: posts without writing the command
  /\ pc.screen = "ack_on" /\ Runs("screen")
  /\ PostThen("screen", "screen", "dly")
  /\ UNCHANGED <<stateVars, SYSTEM_POWER_, statio, i, buf, usart2_buf, cfgVars, data0,
                 ptcVars, startReq>>

ScreenStart ==
  /\ pc.screen = "ack_on" /\ Runs("screen")
  /\ buf' = [buf EXCEPT !["screen"] = "POWERON"]
  /\ PostThen("screen", "screen", "dly")
  /\ UNCHANGED <<stateVars, SYSTEM_POWER_, statio, i, usart2_buf, cfgVars, data0,
                 ptcVars, startReq>>
-----------------------------------------------------------------------------
\* The two periodic timers, running once screen_task has started them.
TimerPost(b, msg) ==
  /\ pc.screen # "init"
  /\ buf' = [buf EXCEPT ![b] = msg]
  /\ PostThen(b, "scan", pc.scan)
  /\ UNCHANGED <<stateVars, SYSTEM_POWER_, statio, i, usart2_buf, cfgVars, data0,
                 ptcVars, startReq>>

tmr1_callback == TimerPost("tmr1", "SEARCH_DATA")

tmr2_callback == TimerPost("tmr2", "SEARCH_STATE")
-----------------------------------------------------------------------------
(***************************************************************************)
(* The PTC.  It answers a heartbeat with its state and alarm flags; the    *)
(* receive path is module CanRx.  It raises and drops its flags by itself. *)
(***************************************************************************)
StatusArrives ==
  /\ asked
  /\ asked' = FALSE
  /\ g_PTC_State' = ptc
  /\ g_alarm' = ptcAlarm
  /\ UNCHANGED <<stateVars, SYSTEM_POWER_, statio, pc, i, buf, msgVars, usart2_buf,
                 cfgVars, data0, ptc, ptcAlarm, startReq>>

ConfirmArrives ==
  /\ cfgAsked
  /\ cfgAsked' = FALSE
  /\ s_set_statu' = TRUE
  /\ UNCHANGED <<stateVars, SYSTEM_POWER_, statio, pc, i, buf, msgVars, usart2_buf,
                 data0, ptcVars, startReq>>

PtcAlarmChanges ==
  /\ \E f \in PtcAlarms :
       ptcAlarm' = IF f \in ptcAlarm THEN ptcAlarm \ {f} ELSE ptcAlarm \cup {f}
  /\ UNCHANGED <<stateVars, SYSTEM_POWER_, statio, pc, i, buf, msgVars, usart2_buf,
                 cfgVars, data0, g_PTC_State, g_alarm, ptc, asked, startReq>>
-----------------------------------------------------------------------------
ScanTask == (\E io \in SUBSET Signals : ScanSample(io)) \/ ScanDecide \/ ScanOffCheck

\* The procedures that can_task and screen_task share.
Shared(t) ==
  \/ LoopTest(t)
  \/ \E p \in {"running", "stopped"} : PowerOffTx(t, p)
  \/ LoopIf(t)
  \/ PowerOffReset(t)
  \/ DataAlarm(t)
  \/ DataCheck(t)
  \/ DataTest(t)
  \/ DataSet(t)

CanTask ==
  \/ CanPend
  \/ CanDispatch
  \/ HeartbeatElse
  \/ \E d \in BOOLEAN : Heartbeat(d)
  \/ \E p \in {"running", "stopped"} : PowerOnTx(p)
  \/ PowerOnAck
  \/ \E d \in BOOLEAN : ConfigTx(d)
  \/ DataPower
  \/ Shared("can")

ScreenTask ==
  \/ ScreenPend
  \/ \E c \in ScreenCmds : ScreenDispatch(c)
  \/ ScreenStart
  \/ Shared("screen")

Environment ==
  \/ \E c \in Cmds : USART2_IRQHandler(c)
  \/ USART6_IRQHandler
  \/ StatusArrives
  \/ ConfirmArrives
  \/ PtcAlarmChanges

Next == ScanTask \/ CanTask \/ ScreenTask \/ tmr1_callback \/ tmr2_callback
        \/ Environment

Spec == Init /\ [][Next]_vars

(***************************************************************************)
(* Fairness.  Every task blocks in each round of its loop, so all of them  *)
(* get the processor.  The bus and the PTC are not dead for ever: of the   *)
(* attempts that are repeated for ever some arrive.  No sender finds the   *)
(* queue full each time it posts; that scan_task and the timers go on is   *)
(* part of that.                                                           *)
(***************************************************************************)
TaskFairness == WF_vars(CanTask) /\ SF_vars(ScreenTask)

BusFairness ==
  /\ WF_vars(StatusArrives)
  /\ SF_vars(Heartbeat(TRUE))
  /\ SF_vars(\E t \in {"can", "screen"} : PowerOffTx(t, "stopped"))

Room == pc.can = "pend" \/ Len(canQ) < TASK_CAN_NUM

PostFairness ==
  /\ []<><<Room /\ ScanDecide>>_vars
  /\ []<><<Room /\ tmr1_callback>>_vars
  /\ []<><<Room /\ tmr2_callback>>_vars

\* The PTC may be dead and the bus cut; one timer goes on.
TaskSpec == Spec /\ TaskFairness /\ WF_vars(tmr1_callback)

FairSpec == Spec /\ TaskFairness /\ BusFairness /\ PostFairness
-----------------------------------------------------------------------------
(***************************************************************************)
(* Properties.                                                             *)
(***************************************************************************)
SharedPc == {"off", "off_tx", "off_if", "off_ack", "off_f", "off_s",
             "pfc", "pfc_w", "pfc_s", "inv", "inv_w", "inv_s", "chk_w", "chk_f",
             "run_t", "run_w", "stby_t", "stby_w", "dly", "pend", "got"}

CanPc == SharedPc \cup {"on", "on_tx", "on_if", "on_ack", "cfg", "cfg_tx",
                        "hb1", "hb2", "hb3", "hb4", "data_pow", "data_run"}

ScreenPc == SharedPc \cup {"init", "ack_on", "got_other"}

Labels == [scan : {"read", "decide", "offcheck"}, can : CanPc, screen : ScreenPc]

Buffers == [scan : {"LINK", "POWERON", "POWEROFF"},
            screen : {"LINK", "POWERON", "CONFIG_DATA"},
            tmr1 : {"LINK", "SEARCH_DATA"},
            tmr2 : {"LINK", "SEARCH_STATE"}]

Codes == Signals \cup {"NULL"}

\* Types; each sender's buffer only ever holds that sender's commands.
TypeOK ==
  /\ System_State \in {"STANDBY", "RUNNING", "WARNING", "FAULT", "SHUTDOWN"}
  /\ warning_code \in Codes \cup {"RETAIN"}
  /\ fault_code \in Codes
  /\ SYSTEM_POWER_ \in {"HOLD", "ON", "RUNING", "OFF"}
  /\ statio \subseteq Signals
  /\ pc \in Labels
  /\ i \in [can : 0..RETRY, screen : 0..RETRY]
  /\ buf \in Buffers
  /\ canQ \in Seq(Senders) /\ Len(canQ) <= TASK_CAN_NUM
  /\ canMsg \in Senders
  /\ usart2_buf \in Cmds \cup {"none"}
  /\ s_set_statu \in BOOLEAN /\ cfgAsked \in BOOLEAN
  /\ data0 \in {"none", "STANDBY", "RUNNING", "WARNING", "SHUTDOWN"}
  /\ g_PTC_State \in {"none", "running", "stopped"} /\ g_alarm \subseteq PtcAlarms
  /\ ptc \in {"running", "stopped"} /\ ptcAlarm \subseteq PtcAlarms
  /\ asked \in BOOLEAN
  /\ startReq \in BOOLEAN

\* The PTC runs only if the run button or the screen has asked for it.  The
\* queue holds pointers to buffers that are overwritten while they are queued;
\* still no stop, configuration or query ever turns into a start.
NoSpontaneousStart == ptc = "running" => startReq

\* Once the stop button has made scan_task decide POWER_OFF, no start message
\* of scan_task that is still queued is carried out: its buffer has become a
\* stop message.  (The screen's stop does not overwrite that buffer.)
NoStaleStart ==
  [][/\ "OFF" \notin Cmds \cup PortCmds
     /\ pc.can = "got" /\ pc'.can = "on" /\ canMsg = "scan"
     => SYSTEM_POWER_ # "OFF"]_vars

\* A buffer that is queued or handed to can_task has been written by its sender:
\* can_task never dispatches the initial 0, the code of MSG_CAN_LINK.
NoUnwrittenMessage ==
  /\ \A n \in 1..Len(canQ) : buf[canQ[n]] # "LINK"
  /\ pc.can = "got" => buf[canMsg] # "LINK"

\* can_task finishes every message, with a dead PTC too: the loops of poweron,
\* poweroff and Set_ptcdata are bounded, and some case takes the message.
CanTaskReturns == []<>(pc.can = "dly")

\* screen_task comes back to its queue for ever and takes the next command.
ScreenTaskReturns == []<>(pc.screen = "pend")

\* A bound on the steps the task t still takes before the delay that ends the
\* round of its loop.
Work(t) ==
  LET attempts == RETRY - i[t] IN
  CASE pc[t] = "got" -> 2 * RETRY + 15
    [] pc[t] = "got_other" -> 2 * RETRY + 15
    [] pc[t] = "on" -> 2 * attempts + 3
    [] pc[t] = "on_tx" -> 2 * attempts + 2
    [] pc[t] = "off" -> 2 * attempts + 5
    [] pc[t] = "off_tx" -> 2 * attempts + 4
    [] pc[t] = "cfg" -> 2 * attempts + 1
    [] pc[t] = "cfg_tx" -> 2 * attempts
    [] pc[t] = "pfc" -> 14
    [] pc[t] = "pfc_w" -> 13
    [] pc[t] = "pfc_s" -> 12
    [] pc[t] = "inv" -> 11
    [] pc[t] = "inv_w" -> 10
    [] pc[t] = "inv_s" -> 9
    [] pc[t] = "chk_w" -> 8
    [] pc[t] = "chk_f" -> 7
    [] pc[t] = "run_t" -> 6
    [] pc[t] = "run_w" -> 5
    [] pc[t] \in {"stby_t", "off_if", "hb1"} -> 4
    [] pc[t] \in {"stby_w", "off_ack", "hb2"} -> 3
    [] pc[t] \in {"data_pow", "on_if", "off_f", "hb3"} -> 2
    [] pc[t] \in {"data_run", "on_ack", "off_s", "hb4", "ack_on"} -> 1
    [] OTHER -> 0

\* A message or a command is served within Work steps of the task that has it,
\* whatever the PTC, the other tasks and the interrupts do in between: each step
\* of the task brings the end nearer, and nobody else puts it off, although the
\* loops wait for flags that others write.
CallsEnd ==
  [][/\ \A t \in {"can", "screen"} :
          pc[t] \notin {"init", "pend", "dly"} => Work(t)' <= Work(t)
     /\ CanTask /\ pc.can # "dly" => Work("can")' < Work("can")
     /\ ScreenTask /\ pc.screen \notin {"init", "dly"}
          => Work("screen")' < Work("screen")]_vars

\* A stop that is not revoked stops the PTC for good, although poweroff sends
\* nothing while the reported state is a stale "stopped", and although posts,
\* commands and heartbeats get lost.
StopWins ==
  "ON" \notin PortCmds =>
    (<>[](SYSTEM_POWER_ = "OFF" /\ usart2_buf # "ON") => <>[](ptc = "stopped"))

\* The stop button is kept pressed, the run button is not, and the screen has
\* not asked for a start since.
StopHeld == "stop" \in statio /\ "run" \notin statio /\ usart2_buf # "ON"

\* In a unit that is not started from the screen a stop button that is kept
\* pressed stops the PTC, although can_task may write POWER_RUNING over the
\* POWER_OFF that the button has just caused, and although posts get lost.
HeldStopWins == "ON" \notin Cmds \cup PortCmds => (<>[]StopHeld => <>[](ptc = "stopped"))

\* The buffer b is queued or has been handed to can_task.
Waiting(b) == (\E n \in 1..Len(canQ) : canQ[n] = b) \/ (pc.can = "got" /\ canMsg = b)

\* A start that can still reach the PTC, at any of its stations.
StartUnderWay ==
  \/ "ON" \in Handed
  \/ pc.screen = "ack_on"
  \/ \E b \in Senders : buf[b] = "POWERON" /\ Waiting(b)
  \/ pc.can \in {"on", "on_tx"}

\* When no start is under way the PTC is not started, whatever is queued, and a
\* start gets under way only while POWER_ON lasts (scan_task posts it anew in
\* each scan), while the screen's last command is a start, or while screen_task
\* holds a start from another port: no retry, late message or reused buffer
\* revives one that has been revoked.
StopHolds ==
  [][~StartUnderWay => /\ ptc' = "running" => ptc = "running"
                       /\ StartUnderWay' => \/ SYSTEM_POWER_' = "ON" \/ usart2_buf' = "ON"
                                            \/ "ON" \in Handed']_vars

NoAlarm == /\ fault_code = "NULL"
           /\ ptcAlarm = {}
           /\ statio \cap (Temps \cup Contactors \cup {"emo"}) = {}

\* The states of the PTC with the system states that stand for them.
Agreement == {<<"running", "RUNNING">>, <<"stopped", "STANDBY">>}

\* Once the alarms are over and the PTC keeps its state, System_State settles
\* on that state, although poweron, poweroff, screen_datasend and read_io write
\* it without synchronisation and the PTC's alarm leaves RETAIN_WARNING behind.
StateConverges ==
  \A s \in Agreement :
    <>[](NoAlarm /\ ptc = s[1]) => <>[](System_State = s[2])

\* System_State, the report and the PTC agree, and no call that is about to
\* write another state has passed its test of the report.
Settled(s) ==
  /\ ptc = s[1] /\ g_PTC_State = s[1] /\ g_alarm = {} /\ System_State = s[2]
  /\ \A t \in {"can", "screen"} :
       pc[t] \notin (IF s[1] = "running" THEN {"stby_w", "off_ack", "off_f", "off_s"}
                                         ELSE {"run_w", "on_ack"})
                   \cup {"pfc_w", "pfc_s", "inv_w", "inv_s"}

\* System_State leaves the PTC's state only after an alarm or after the PTC has
\* changed: no stop, start or report that races with it moves it, whatever
\* message is queued and whichever flag a task has read.
StateStays ==
  [][\A s \in Agreement :
       NoAlarm /\ ptc' = ptc /\ Settled(s) => Settled(s)']_vars

EmoHeld == /\ "emo" \in statio
           /\ SYSTEM_POWER_ \in {"HOLD", "RUNING"} /\ usart2_buf \notin {"ON", "OFF"}
           /\ PortCmds \cap {"ON", "OFF"} = {}
           /\ ptcAlarm = {}

\* An emergency stop that is kept pressed while nobody starts or stops the unit
\* any more is what the heartbeat tells the PTC, from some time on: also when a
\* poweron, a poweroff or a report that is still under way writes another state.
EmoReachesPtc == <>[]EmoHeld => <>[](data0 = "SHUTDOWN")

\* The emergency stop has been noticed and told, and no call is left that
\* started before it and resets the codes or writes another state.
EmoSettled ==
  /\ System_State = "SHUTDOWN" /\ fault_code = "emo" /\ data0 = "SHUTDOWN" /\ g_alarm = {}
  /\ \A t \in {"can", "screen"} :
       pc[t] \notin {"on", "on_tx", "on_if", "on_ack", "ack_on",
                     "off", "off_tx", "off_if", "off_ack", "off_f", "off_s",
                     "pfc_w", "pfc_s", "inv_w", "inv_s",
                     "run_t", "run_w", "stby_t", "stby_w"}
  /\ \A b \in Senders : Waiting(b) => buf[b] \notin {"POWERON", "POWEROFF"}

\* While the emergency stop is held, what the heartbeat tells does not change
\* back: the code that read_io left keeps every report from overwriting it.
EmoStays == [][EmoHeld /\ EmoHeld' /\ EmoSettled => EmoSettled']_vars
-----------------------------------------------------------------------------
(***************************************************************************)
(* What comments of the code say and the code does not do.                 *)
(***************************************************************************)
\* poweroff: the branch behind the loop is commented "stop succeeded": the PTC
\* should be stopped when it is taken.
OffAckMeansStopped ==
  [][\A t \in {"can", "screen"} :
       pc[t] = "off_if" /\ pc'[t] = "off_ack" => ptc = "stopped"]_vars

\* read_io: the stop button is commented "stop button pressed ... power off": a
\* stop button that is kept pressed should stop the PTC.
StopButtonStops == <>[]StopHeld => <>[](ptc = "stopped")
=============================================================================
