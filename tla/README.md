# Verification of the 30 kW charging supply unit (CSU)

The repository is the firmware of a charging supply unit: an STM32F4 running
uC/OS-III that drives a power converter (PTC) over CAN, watches the signals of
the cabinet, serves a touch screen over RS-485 and keeps a log on an SD card. This directory holds TLA+
models of its control logic, TLC configurations and TLAPS proofs.

## 1. Inventory

| Part | Source | State it keeps | Operations |
|---|---|---|---|
| CAN reception | `HARDWARE/CAN/can.c` | `can_temp`, `revframe_pos`, `flag_canrev`, `PTCElectData`, `SetPTCData.s_set_statu` | `CAN1_RX0_IRQHandler`, `Can_ReadData`, `Candata_analysis` |
| CAN transmission | `HARDWARE/CAN/can.c` | `can2_tbuf` | `can2_data_packet`, `Can2Send_MultiMessages`, `CAN1Send_Msg` |
| `can_task` (prio 16) | `USER/main.c` | its queue of `TASK_CAN_NUM` messages, `data[0]` | `poweron`, `poweroff`, `Set_ptcdata`, report, heartbeat |
| `scan_task` (prio 14) | `USER/main.c`, `HARDWARE/IO/io.c` | `statio`, `SYSTEM_POWER_`, `System_State`, `warning_code`, `fault_code` | `read_io`, posts of start and stop |
| `screen_task` (prio 17) | `USER/main.c`, `HARDWARE/USART/usart.c` | `usart2_buf`, its message buffer | the commands ON, OFF, CONFIG, SEEK, TEST |
| screen transmission | `HARDWARE/USART/usart.c`, callers in `USER/main.c` | `mcgs_buf`, `sendbuff`, the DMA stream, the RS-485 direction pin | `screen_ack`, `screen_datasend`, `uart_send_dma`, `SCREEN_485_TX/RX`, `delay_ms` |
| timers | `USER/main.c` | `tmr1_txbuf`, `tmr2_txbuf` | `tmr1_callback` (report), `tmr2_callback` (heartbeat) |
| start | `USER/main.c` | `systemFixedData`, `First_Start` | `sys_init`, `Variable_Eeprom` |
| EEPROM | `HARDWARE/24CXX/24cxx.c` | the cells of an M24256 | `AT24CXX_Check`, `eeprom_buffer_read`, `eeprom_buffer_write` |
| clock | `HARDWARE/bq32000` | the clock chip, `CSUtime` | `Get_CSU_time`, `Set_CSU_time` |
| log | `USER/main.c`, `HARDWARE/SDIO`, `FATFS` | a file on the card | `Write_Log`, `Write_TFCard` |
| `handle_task` | `HARDWARE/ALARM/alarm.c` | none | lamps as a function of `System_State` |
| heap | `HARDWARE/MALLOC/malloc.c` | allocation table | `mymalloc`, `myfree` |
| `plc_task`, `meter_task` | `USER/main.c` | none | receive and discard |
| other serial ports | `HARDWARE/USART/usart.c` | `usart3_buf`, `uart4_buf`, `usart6_buf` | post their frames of 8 bytes to `screen_task` |
| Ethernet, Wi-Fi | `HARDWARE/ETHERNET`, `HARDWARE/WIFI` | | compiled out |
| third party | `UCOSIII`, `LWIP`, `FATFS`, `FWLIB`, `USMART` | | |

**Interaction.** The tasks share all of the unit's state through global
variables and take no lock. `scan_task`, `screen_task` and both timers post
messages to `can_task`; a message is a *pointer* to a buffer that the sender
goes on using, so a queued command changes when its sender writes the next one.
`can_task` and `screen_task` both execute `poweroff` and `screen_datasend`, and so
share `can2_tbuf`, `mcgs_buf`, `sendbuff`, the DMA stream and the direction pin. The
PTC's answers arrive in an interrupt that writes `PTCElectData` under the tasks.

**What is hard.** Buffers overwritten while they are queued; queues that drop
silently (the screen's queue has size 0); state tested and then written while a
task of higher priority changes it; decisions on a PTC state that was reported
before the last command; retry loops against a PTC that may be dead; frames
lost on the bus (`CAN_NART`: no retransmission) and a reassembly without
sequence check; messages packed by two tasks in one buffer; a DMA transfer that
only the caller's delay waits for, and a delay that is shorter when the caller
is late; a clock that runs on while it is read, and whose missing answers
nobody notices. `PROJECT.json` lists these hazards with their lines.

**What correctness means**, per component:

* reception: copies stay inside the buffer; what is taken over comes from the
  reply that has just ended; after losses the next whole reply is applied;
* power control: the PTC is started only on request; a stop prevails; the tasks
  never hang; the displayed state and the state told to the PTC follow the
  facts;
* CAN transmission: what the PTC takes was packed by somebody, a start only if a
  start was packed, and an undisturbed command arrives;
* screen transmission: the unit goes back to listening; an undisturbed
  acknowledgement leaves whole;
* start: it ends, whatever of EEPROM, clock and card answers;
* clock and log: time stamps are not ahead of the clock, and the log is in order,
  as far as the clock chip answers.

## 2. Plan

1. `CanRx`, `MCCanRx`, `CanRxProofs`: reception. **Done.**
2. `CsuPower`, `CsuPowerProofs`, `CsuPowerStepProofs`: the three tasks, the timers, the queue and the
   PTC. **Done.**
3. `CanLink`, `CanTx`, `MCCanTx`, `CanTxProofs`, `CanTxAloneProofs`: the
   transmission, and the abstract link it implements. **Done.**
4. `Startup`, `MCStartup`, `StartupProofs`: start, EEPROM, clock, log, resets.
   **Done.**
5. `ScreenTx`, `ScreenTxProofs`: the way back to the screen. **Done.**
6. `TaskQueue`: the uC/OS task queue (pend list, message pool) as a
   detailed specification that implements the bounded hand-over queue
   `CsuPower` uses.
7. `ReadIo`: the debouncing of each signal, implementing `ScanSample`.

How the modules fit together: `CanTx` implements `CanLink` (checked and proved);
`CsuPower` takes from `CanLink` what a transmission can do to the PTC
(`Outcomes`: the command, nothing, or, when calls overlap, a mixture);
`CanRx` is the opposite direction and yields the `g_PTC_State` that `CsuPower`
decides on; `ScreenTx` details the sections that are single steps in `CsuPower`;
`Startup` ends where the others begin.

## 3. Modules

### `CanRx`

A reply is a member of `Reply` with a function code `Func[m]` and a number of
frames `Frames[m]`; a payload of seven bytes is its provenance `<<m, k>>`, so
`can_temp` is a function from slots of seven bytes to provenances. `Can_ReadData`
keeps the code's two copies: the closing frame is copied once by the first
branch and once more, one slot further, before the analysis. A copy to slot 7
or beyond leaves the 50 bytes of `can_temp`; the linker puts `can2_tbuf` behind
it (`tbufHit`). `CrcOk` abstracts the CRC to what it decides here: the five
slots are the frames of one reply in their order (collisions of the CRC are
left out). No property rests on it alone: `OneReply` also covers the replies
whose CRC nobody tests. `Deliver` and `Lose` are the bus; the constant `BurstLoss` allows
two consecutive losses. Frames are not reordered, as on any CAN bus.

| Definition | Code |
|---|---|
| `FirstPos`, `FirstTemp`, `Can_ReadData` | `Can_ReadData`, can.c 333-359 |
| `Candata_analysis`, `CrcOk` | can.c 252-320, 399-418 |
| `CAN1_RX0_IRQHandler` | can.c 121-139 (`flag_canrev` drops the very first frame) |
| `ClearSetStatu` | `Set_ptcdata`, main.c 892 |

### `CsuPower`

One program counter per task. A step of a task ends where the task blocks and
between two accesses to state that a task of higher priority *or an interrupt*
may change in between, so that a test and the write that depends on it are two
steps. In `screen_datasend` these are the test of each alarm flag and its two
writes (`pfc`, `pfc_w`, `pfc_s`, then the same for `inv`), the two conjuncts of the
condition at line 979 (`chk_w`, `chk_f`), and the test and the write of each state
(`run_t`, `run_w`, `stby_t`, `stby_w`). The loops of poweron, poweroff and Set_ptcdata
test at one label and transmit at the next (`on`, `on_tx`); the `if` behind a loop
reads the report a second time (`on_if`). poweroff clears in three steps, the
heartbeat reads `System_State` in up to four (`hb1` to `hb4`), and can_task's change
from POWER_ON to POWER_RUNING is a test and a write (`data_pow`, `data_run`).
`screen_task` has the lowest priority and moves only while `can_task` is blocked
(`CanBlocked`); `scan_task` has the highest and is never interrupted by the others
between its delays, and no interrupt writes what it reads.

* Queue: `canQ` holds *names of buffers*; `buf` holds byte 0 of each. `PostThen`
  is `OSTaskQPost`: hand-over to a pending task, else append, else drop.
* Signals: `statio` is the set of asserted signals, whatever their polarity.
  "stop" is asserted when `SPARE2_DSC_STAT` is 0, as read_io tests it. `WarningCode`
  is the last test that fires, `FaultGate` the comparison of byte 1 with 0x2f.
* PTC: `ptc` is its true state, `g_PTC_State` the one last reported. Commands and
  heartbeats arrive or get lost; a heartbeat that arrived is answered some time
  later with the state of that moment. `can_task` and `screen_task` pack into the
  same `can2_tbuf`, the CRC is computed over whatever the buffer then holds, and
  both block 20 ms between two frames: when poweron of the one overlaps
  poweroff of the other, either command may go out as the other (`Outcomes`).
* Screen: the order of a frame is read once, in the step that takes it up, before
  the receive interrupt's next copy or after it; a frame with another header, with
  UART_TEST or with an order of the default branch is `OTHER`.
* Other ports: the receive interrupts of USART3 (failover), UART4 (external RS-485)
  and USART6 (meter) post to `screen_task` too, each in a buffer of its own, and the
  task cannot tell them from the screen. `USART6_IRQHandler` stands for the three;
  `PortCmds` is what may arrive there, and since later frames overwrite those buffers
  as well, `Handed` leaves open which of them the task finds. What devices are on
  these ports is not in the repository: the theorems hold for every `PortCmds`; the
  properties about stops say what they need of it.
* `startReq` is a history variable: somebody has asked for a start.

| Definition | Code |
|---|---|
| `ScanSample`, `read_io`, `PowerAfter`, `ScanPost` | `read_io`, io.c 96-693; `scan_task`, main.c 512-553 |
| `CanPend`, `CanDispatch`, `HeartbeatElse`, `Heartbeat`, `DataPower` | `can_task`, main.c 370-508 |
| `LoopTest`, `PowerOnTx`, `PowerOffTx`, `ConfigTx`, `LoopIf`, `PowerOnAck`, `PowerOffReset` | `poweron`, `poweroff`, `Set_ptcdata`, main.c 798-929 |
| `DataAlarm`, `DataCheck`, `DataTest`, `DataSet` | `screen_datasend`, usart.c 963-989 |
| `ScreenDispatch`, `ScreenStart`, `USART2_IRQHandler`, `USART6_IRQHandler` | `screen_task`, main.c 254-367; usart.c 207-234, 339-364, 468-493, 728-754 |
| `PostThen`, `tmr1_callback`, `tmr2_callback` | `OSTaskQPost`; main.c 616-643 |

Left out: the bytes of reports and acknowledgements, the frames that UART_TEST sends
(see `ScreenTx`), frames of other lengths than the screen's commands, the log, the watchdog (its
initialisation is commented out), the values of a configuration.

### `CanLink` and `CanTx`

`CanLink` is what the transmission promises: calls begin and end, and in between
the PTC may take a message that is a *mixture* of the commands of the present
busy period, a period in which some call is always under way. With one command
in the period, the mixture is that command. The model of `CsuPower` rests on
exactly this.

`CanTx` is the code. A frame is its segment byte and two parts of payload,
written at different moments. `can_task` packs in one step (only `screen_task`
packs as well, and it has the lower priority); `screen_task` clears the buffer,
writes it field by field (`HeadFields`, `BodyFields` are the order of the
assignments, several bytes of one part of a frame at a time: a part in which
bytes of two commands meet is a mixture, which the model reaches through the
parts), computes the CRC over what the buffer holds *then*, and stores it.
`SendFrame` copies a frame from the buffer as it is by now and delays; a frame
may get lost. The PTC collects frames from an opening to a closing one and
tests the CRC (`Collect`, `CrcRight`, external).

| Definition | Code |
|---|---|
| `DataLen`, `PreProcess_CanOrder` | `PreProcess_CanOrder`, can.c 617-662 |
| `Plain`, `HeadCode`, `Segment`, `Packet` | `can2_data_packet`, can.c 427-583 |
| `Digest`, `Covered` | `CRC16_XMODEM` over `crc_table`, can.c 399-418, 506-508 |
| `CanPack`, `ScreenClear`, `ScreenWrite`, `ScreenCrc`, `ScreenSeal` | `can2_data_packet` in the two tasks |
| `SendFrame`, `Return` | `Can2Send_MultiMessages`, can.c 591-607 |

The model shows what makes the mixtures possible: when `can_task` packs while
`screen_task` is between two of its writes, the CRC is computed over both and
vouches for a message nobody packed. `RefinesLink` is therefore the strongest
statement of its kind that holds.

### `Startup`

`sys_init` line by line with one program counter: link requests, `AT24CXX_Check`,
`Variable_Eeprom`, `Get_CSU_time`, the loop over `SD_Init`, `Write_Log`; afterwards the
heartbeat's `Write_Log`. `Reset` may come between any two steps and keeps the
EEPROM, the clock and the log; `Tick` is a second of the clock chip, with real
month lengths and carries. The EEPROM is blank or holds data of an earlier
firmware, and may be mute. `AT24CXX_WriteOneByte` stores only if the driver sends
as many address bytes as the M24256 takes: with `EE_TYPE` = AT24C04 it does not, so
`mem` never changes and no property is stated about stored data except the one
that shows this (`FirstStartOnce`). The clock chip may leave a read unanswered
(`bq32000_ReadOneByte`): the driver looks at no acknowledge and decodes the 255
that the idle bus yields, the year 165 for instance; `gaps` records that a reading
has such a field.
The clock's registers are BCD with the century bits above the hours; `Decode` is
the masks of bq32000.c.

| Definition | Code |
|---|---|
| `Link`, `SdInit`, `Step` | `sys_init`, main.c 645-714 |
| `LoadData`, `FirstStart`, `SaveByte` | `Variable_Eeprom`, main.c 779-795; `eeprom_buffer_write`, 24cxx.c 116-171 |
| `AT24CXX_Check`, `AT24CXX_WriteOneByte`, `W24256_Byte_Read` | 24cxx.c 86-98, 34-50, 334-391 |
| `Get_CSU_time`, `bq32000_ReadOneByte`, `Order`, `Tens`, `Decode` | bq32000.c 221-229, 12-28, 47-134 |
| `Write_TFCard`, `Heartbeat` | main.c 715-767, 493-496 |

### `ScreenTx`

A procedure is the sequence of operations by which it concerns the screen:
switch to sending, delay, send, delay, switch to listening (`Section`, `Acks`,
`Body`). Time passes in ticks of the operating system (5 ms), text in blocks of
four characters (a tick carries 4.8 at 9600 baud). A buffer is represented by
the message whose characters it holds, in two parts because `screen_task` can be
preempted between them. `uart_send_dma` stops the stream, sets it and starts it;
`dma.left` counts down with time, and `dma.whole` records whether every block was
read from the right contents with the driver sending. `delay_ms` is
`OSTimeDly` with `OS_OPT_TIME_PERIODIC`: `OS_TickListInsert` counts from the end of
the task's previous delay (`age` is the distance), so that a late task waits
less. `clean` records that nobody disturbed a section and that its task was at
most `Slack` ticks late.

| Definition | Code |
|---|---|
| `Section`, `AckOn`, `Body`, `Acks` | main.c 277-360, 812-851, 901-927 |
| `CanSend`, `Pack`, `ScreenPack` | `screen_ack`, `screen_datasend`, usart.c 893-1018 |
| `ScreenStopDma`, `ScreenStartDma`, `Cut`, `Transfer` | `uart_send_dma`, usart.c 756-770 |
| `delay_ms`, `OS_TickListInsert` | delay.c 152-163; os_tick.c 246-261 |

## 4. Runs

| Run | Checks | Bounds |
|---|---|---|
| `canrx` | `TypeOK`, `RxInBounds`, `OneReply`, `CleanReplyApplied` | two status replies, a measurement, a confirmation, a link answer; single losses |
| `cabinet` | `TypeOK`, `NoSpontaneousStart`, `NoStaleStart`, `StopWins`, `HeldStopWins`, `StateConverges`, `StateStays` | both buttons, 1 retry, queue of 2, fair |
| `screen_live` | `CanTaskReturns`, `ScreenTaskReturns`, `CallsEnd` | OFF, CONFIG, SEEK; 2 retries; PTC may be dead |
| `screen_stop` | `NoSpontaneousStart`, `NoUnwrittenMessage`, `StopWins`, `StopHolds` | ON, OFF and other frames from the screen, OFF from another port; queue of 1; fair |
| `alarm` | `StateConverges`, `StateStays` | 60 degrees, main contactor, both alarm flags of the PTC, fair |
| `emo` | `EmoReachesPtc`, `EmoStays` | emergency stop with both buttons, fair |
| `cantx` | `TypeOK`, `RefinesLink`, `StartIsMeant`, `AloneArrives` | start, heartbeat, configuration (3, 4, 5 frames) against a stop; one lost frame |
| `startup` | `TypeOK`, `TimeNotAhead`, `LogInOrder`, `StartEnds`, `StartProgress` | 3 bytes, 2 tries; 3 seconds, 1 unanswered read, 2 resets; times in front of each carry |
| `screentx` | `TypeOK`, `IdleListens`, `AckOnWhole`, `ListensAgain`, `SectionEnds` | report, configuration, start against start, stop, test; tasks up to 6 ticks late; 50 ms for the delays of 500 ms |

**Why the bounds are enough.** The code's 10 retries and 10 queue places only
repeat what 1 or 2 do: a loop that ends by success or exhaustion, a queue that
is empty, in between, or full. A queue of 2 allows two pointers to the same
buffer and pointers of two senders. Signals and commands are checked in groups
that act on the same state. In `cantx` one lost frame is enough to leave the PTC
with a fragment, and the commands cover every frame count that carries data.
In `startup` two resets cut a start and the one that follows, three seconds
put a carry into a reading, in front of it and behind it, and one unanswered read
gives readings with and without a gap in one log; 3 bytes and 2 tries stand for 21
and 10 (`first_start` has the code's). In `screentx` a lateness
of 6 ticks exceeds the slack and both branches of `OS_TickListInsert` for the
short delays; a long delay of 50 ms still outlasts every acknowledgement. The
proofs cover the safety properties for all
values.

**Fairness.** `TaskFairness`: every task blocks in each round of its loop, so
each gets the processor (weak fairness of `can_task`, strong fairness for
`screen_task`, which runs only in the gaps of `can_task`). `BusFairness`: a command
or heartbeat that is repeated for ever arrives sometimes, and a PTC that was asked
answers. `PostFairness`: `scan_task` and the timers go on, and none of them finds the
queue full at every one of its posts; posts and the rounds of `can_task` are of
similar rate (a scan takes seconds because of its debouncing delays). `screen_live`
uses `TaskSpec`: `TaskFairness` and one timer that goes on, nothing of the bus or the
PTC. `Startup`: the processor goes on (weak fairness of `Step`); card and EEPROM may
fail for ever, and `StartEnds` needs only that the resets cease. `ScreenTx`: time goes
on, `can_task` goes on, and `screen_task` gets the processor sooner or later (strong
fairness), as `can_task` delays in every round.

**What the liveness properties do not say.** They have the form "if from some time
on ... then from some time on ...": `StopWins` (the stop is not revoked),
`HeldStopWins` (the button is kept pressed, no start from a serial port),
`StateConverges` (no alarm, the PTC keeps its state), `EmoReachesPtc` (the button stays
pressed). Three hazards lie outside these premises, because the code does nothing
about them:

* a stop that is dropped at every post (main.c 535): `OSTaskQPost`'s error is ignored,
  and `PostFairness` assumes this away. Single drops are covered, since `scan_task`
  posts the stop in every scan;
* a POWER_OFF that can_task overwrites with POWER_RUNING (main.c 454-456).
  `StopWins` presupposes that POWER_OFF lasts; `HeldStopWins` does not, and shows that
  the next scan repairs it *if the button is still pressed*;
* an OFF of the screen that is dropped because `screen_task` is busy, be it with a
  frame of another port (main.c 223, usart.c 356, 485, 745). `ScreenTaskReturns` says only that the
  task takes a later one.

**Steps behind the liveness.** Each liveness property comes with an action
property that says, without any fairness, what a single step of any actor may
do to it. They are of two kinds.

* *Nothing undoes it.* `StopHolds`: while no start is under way at any of its
  stations (the screen's buffer and acknowledgement, a queued or delivered
  message, poweron itself) no step starts the PTC, and a start gets under way only
  while POWER_ON lasts, while the screen's last command is a start, or while
  `screen_task` holds one from another port. `StateStays`: a state that agrees with the PTC and its report
  is left only after an alarm or a change of the PTC. `EmoStays`: an emergency stop
  that has been told is told as long as it is held. The conditions `StartUnderWay`,
  `Settled` and `EmoSettled` list the calls that passed their test too early (a task at
  `stby_w` has seen a stop bit that the interrupt may have replaced since, one at
  `pfc_w` an alarm that may be over), which is what the hazards of this code come
  down to.
* *It comes nearer.* `CallsEnd`, `StartProgress` and `SectionEnds` bound the steps
  (`Work`, `Left`) or the ticks (`Due`) that are left: each step of the actor concerned
  lowers the bound and no other actor raises it, so that a fair scheduler is all
  that `CanTaskReturns`, `StartEnds` and `ListensAgain` still need. `Due` gives a section of
  the screen its longest duration, two delays and three times the lateness.

**What the start shows.** `TimeNotAhead` depends on the order of the reads, years
first: a carry leaves a stamp behind the clock, by up to a year, never ahead. It
and `LogInOrder` speak of readings whose six reads were all answered, for an
unanswered one goes into the stamp unnoticed; `TypeOK` gives the values that this
leaves. The first-start flag is written before the data it announces (main.c
786-790). As the code stands this has no effect, since nothing is stored; whoever
repairs the address length should also write the flag last.

**What the reports to the screen show.** `AckOnWhole` speaks of sections that nobody
disturbs (`clean`). When both tasks send at once the text may be garbled (usart.c 763,
899); what holds then is that both sections end and the unit listens again.

**Disagreements between comments and code**, each a run that ends in a
counterexample:

* `off_ack`: the branch commented "stop succeeded" (main.c 853) is taken on the
  state last reported, which may be older than the start.
* `stop_button`: "stop button pressed ... power off" (io.c 660-664) does nothing
  after a start from the screen, which leaves `SYSTEM_POWER_` at `POWER_HOLD`.
* `first_start`: the writes to the M24256 send one address byte (24cxx.c 42, 24cxx.h
  21) and store nothing, so that every power-up is a "first power-up" (main.h 17)
  and writes again (against 24cxx.c 89).

Others are plain from the code and have no run: the CRC test of a measurement
reply is commented out (can.c 282) and the reply applied anyway; the
acknowledgement of a configuration says "configured" whatever happened (usart.c
1013, main.c 916-927); "main fuse open: fault" (io.c 547) is only looked at when
byte 1 of the signals is not 0x2f (io.c 539); `uart_send_dma` does not "wait for
the end of the transfer" (usart.c 766-769), and the 10 ms behind the
acknowledgement of a stop (main.c 850) and behind the report of SEEK (main.c 315)
are shorter than the transfers; `Set_CSU_time` is there because "the time is wrong
at the first power-up" (main.c 685) but sets no time (bq32000.c 211-220).

## 5. Proofs

TLAPS proves the following for every value of the constants that satisfies the
named assumptions `ReplyAssumption`, `PowerAssumption`, `TxAssumption`,
`StartAssumption` and `ScreenTxAssumption`.

* `CanRxProofs`: `RxTypeOK`, `RxStaysInBounds`, `RxOneReply`,
  `CleanReplyIsApplied`. The inductive invariant relates `revframe_pos` to the
  frame on the bus: while the current reply has arrived whole, `can_temp` holds
  exactly its frames (`InStep`); after isolated losses `revframe_pos` is bounded
  by what can have been appended since the last opening or closing frame that
  arrived (`Ahead`): two lost frames are never adjacent, so of a closing frame
  and the next opening frame one arrives and resets the position. `RxOneReply` needs
  in addition that the slots filled belong to the reply on the bus (`Owned`), which
  the same argument gives.
* `CsuPowerProofs`: `PowerTypeOK`, `StartsAreRequested`, `MessagesAreWritten`,
  `QueuedStartIsRevoked`. `NoSpontaneousStart` alone is not inductive: `StartTraced`
  adds that every place a start can come from (the two buffers that may hold
  POWERON, the screen's acknowledgement, poweron itself) goes back to a request,
  and needs the types of the buffers: a timer's buffer never holds a start.
  `StopWritten` adds that a stop decided by `scan_task` has rewritten its buffer.
* `CsuPowerStepProofs`: `PowerStopHolds`, `PowerStateStays`, `PowerEmoStays`,
  `PowerCallsEnd`. The conditions of these properties are closed under the steps of
  all actors, so that the types are the only invariant they need; the proofs go
  through the stations a message passes (`PostWaits`, `PendWaits`, `NewMessage`,
  `StartOrigin`) and through the tests each task makes before it writes
  (`SharedSettled`, `CanSettled`, `NoWarning`). `PowerCallsEnd` compares `Work` before and
  after each step of a task (`PostLabels`, `ScanLabels`, `LoopMoves`) and shows that the
  steps of the others leave it alone (`OthersKeep`); it needs that a call that
  transmits has an attempt left (`AttemptsLeft`).
* `CanTxProofs`: `TxRefinesLink`, `TxStartIsMeant`, `TxTypeOK`. The refinement maps the
  variables by name; `Begin` and `Return` are the abstract calls, the delivery of a
  closing frame with a right CRC is `Take`, all else stutters. The key is what the
  CRCs vouch for: while a call is under way, every CRC in the buffer (`Sealed`) or in
  `screen_task`'s `crc` (`Computed`) was computed over a mixture of the commands of
  the busy period, because each byte that it covers is one of theirs, or a zero
  that `screen_task` has still to overwrite or to leave (`Packing`). A message is taken
  only if it equals what its CRC was computed over, so nothing need be known of
  the fragments the PTC has collected before.
* `CanTxAloneProofs`: `TxAloneArrives`. The invariant `Alone` follows a call that
  nobody overlaps: the fields written so far stand in the buffer and zeros in all
  other places (`Begun`), then the packet without and with its CRC (`Holds`), and
  the PTC has collected exactly the frames sent so far (`Arriving`), because the
  opening frame discards whatever it held. That the finished packet is whole
  needs that each place the code does not write is zero in it (`LeftOut`), and
  that the PTC takes it at the right frame needs that only the last one carries
  the closing mark (`PacketSeg`).
* `StartupProofs`: `StartTimeNotAhead`, `StartLogInOrder`,
  `StartProgresses`, `StartTypeOK`. The clock only goes forward (`Tick` is proved to yield a later,
  real date); the fields read so far are, in the order of years to seconds, not
  ahead of it (`Behind`); the log is not ahead of the beginning of the reading under
  way, and the reading not behind that beginning unless it was torn (`Ordered`), all
  of this for readings without a gap. `FieldRead` and `Silent` give the value of a
  field that was answered or not. `StartProgresses` needs the ranges of
  the counter in each phase and that the unit runs only after a start (`OnTheWay`).
* `ScreenTxProofs`: `ScreenIdleListens`, `ScreenAckOnWhole`, `ScreenSectionEnds`,
  `ScreenTypeOK`. `IdleListens` is inductive with the pin's history (`Listens`,
  `CleanIn`); `AckOnWhole` needs that, in a clean section, no more blocks are left
  than ticks remain of the delay that runs (`Sent`), whatever the lateness took
  from it. `SectionEnds` goes through the kinds of steps: a tick uses up one tick
  (`TickUses`), a delay takes no more than was set aside for it (`DelayUses`, by both
  branches of `OS_TickListInsert`), the task's own steps use up steps (`OwnUses`) and
  the other task's touch neither bound (`OtherKeeps`).

Only model-checked: liveness (`StopWins`, `HeldStopWins`, `StateConverges`, `EmoReachesPtc`,
`CanTaskReturns`, `ScreenTaskReturns`, `StartEnds`, `ListensAgain`), which rests on
fairness and so on ENABLED, beyond this prover. Every invariant and every action
property of the passing runs has its theorem.

## 6. Not modelled

The lamps are a function of `System_State`. The heap is the board vendor's, and
only one thread calls it. `plc_task` and `meter_task` discard what they receive.
FatFs and the card are reduced to success or failure, the I2C bus to bytes that
are taken or not. Ethernet and Wi-Fi are compiled out.

Nearly all lines of the repository are third-party code taken as given: the
kernel and libraries of uC/OS-III, lwIP, FatFs with its code pages, the STM32
peripheral library and headers, USMART. Of uC/OS-III only what the unit relies
on is modelled: the task queue and the tick list. The firmware's own logic is a
few thousand lines in `USER` and `HARDWARE`; the mapped share of the whole
repository is therefore small and cannot become large without modelling code
that is not this program's.
