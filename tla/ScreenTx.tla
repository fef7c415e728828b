------------------------------ MODULE ScreenTx ------------------------------
(***************************************************************************)
(* The unit's messages to the touch screen (HARDWARE/USART/usart.c and     *)
(* their callers in USER/main.c): screen_ack and screen_datasend lay a     *)
(* message out in mcgs_buf, HexToAscii converts it into sendbuff, and      *)
(* uart_send_dma starts a transfer from there and returns at once.  A pin  *)
(* decides whether the RS-485 driver sends or listens; delays around the   *)
(* call are all that keeps it sending until the transfer is over.          *)
(*                                                                         *)
(* can_task and screen_task use buffers, transfer and pin without a lock.  *)
(* can_task has the higher priority: its calls are not interrupted, and    *)
(* screen_task moves only while can_task is blocked.                       *)
(*                                                                         *)
(* Time passes in ticks of the operating system (5 ms), text in blocks of  *)
(* four characters: at 9600 baud a tick takes 4.8 of them.                 *)
(***************************************************************************)
EXTENDS Integers, Sequences

CONSTANTS
  CanCalls,     \* what can_task executes: a subset of CanScripts
  ScreenCalls,  \* what screen_task executes: a subset of ScreenScripts
  LongDelay,    \* the delay in poweron and at the end of both loops, 500 ms in the code
  Slack,        \* the ticks by which a task may be late and still count as on time
  MaxLate       \* bound: the ticks by which a task may be late

Tasks == {"can", "screen"}

CanScripts == {"report", "config", "config_ok", "on", "off"}

ScreenScripts == {"ack_on", "off", "seek", "test"}

ASSUME ScreenTxAssumption ==
  /\ CanCalls \subseteq CanScripts /\ ScreenCalls \subseteq ScreenScripts
  /\ LongDelay \in Nat /\ LongDelay >= 50
  /\ MaxLate \in Nat
  /\ Slack \in 0..5

VARIABLES
  call,      \* the procedure each task executes, or "none"
  pos,       \* its next operation
  age,       \* OSTickCtr - TickCtrPrev of each task; negative: it is delayed
  at,        \* screen_task: its progress inside screen_ack or screen_datasend
  mcgs_buf,  \* the message as it is laid out
  sendbuff,  \* the message in ASCII
  dma,       \* the transfer on DMA1_Stream6
  dir,       \* the direction of the RS-485 driver
  clean      \* history: the section of each task was undisturbed and on time

vars == <<call, pos, age, at, mcgs_buf, sendbuff, dma, dir, clean>>
-----------------------------------------------------------------------------
(***************************************************************************)
(* The procedures, as far as they concern the screen.                      *)
(***************************************************************************)
TX       == [op |-> "tx", ms |-> 0, order |-> "none"]
RX       == [op |-> "rx", ms |-> 0, order |-> "none"]
Delay(d) == [op |-> "dly", ms |-> d, order |-> "none"]
Send(o)  == [op |-> "send", ms |-> 0, order |-> o]

\* The sections that switch the driver: SCREEN_485_TX ... SCREEN_485_RX.
SectionDeaf(o, d) == <<TX, Delay(10), Send(o), Delay(d)>>      \* mutant: no SCREEN_485_RX

Section(o, d) == <<TX, Delay(10), Send(o), Delay(d), RX>>

\* Set_ptcdata: six acknowledgements with growing delays.
Ack(d) == <<Delay(d), Send("ACKCONFIG")>>

Acks == Ack(10) \o Ack(12) \o Ack(14) \o Ack(16) \o Ack(18) \o Ack(20)

AckOnShort(d) == Section("ACKON", 10) \o <<Delay(d)>>          \* mutant

AckOn(d) == Section("ACKON", 50) \o <<Delay(d)>>

Body(c) == CASE c = "report"    -> <<Send("ACKDATA")>>
             [] c = "config"    -> Acks
             [] c = "config_ok" -> Acks \o Acks
             [] c = "on"        -> Section("ACKON", LongDelay) \o <<Delay(10)>>
             [] c = "off"       -> Section("ACKOFF", 10)
             [] c = "ack_on"    -> AckOn(50)
             [] c = "seek"      -> Section("ACKDATA", 10)
             [] c = "test"      -> Section("test_buf", 50)
             [] c = "none"      -> <<>>

\* The loops of both tasks end with a delay.
Script(c) == Body(c) \o <<Delay(LongDelay)>>

Op(t) == Script(call[t])[pos[t]]

\* Task t is between its SCREEN_485_TX and its SCREEN_485_RX.
InSection(t) ==
  LET ops == Script(call[t]) IN
  /\ call[t] # "none"
  /\ \E i \in 1..(pos[t] - 1) : ops[i] = TX
  /\ \A i \in 1..(pos[t] - 1) : ops[i] # RX
-----------------------------------------------------------------------------
(***************************************************************************)
(* delay_ms: OSTimeDly with OS_OPT_TIME_PERIODIC counts from the end of    *)
(* the task's previous delay, so that a late caller waits less.            *)
(***************************************************************************)
Ticks(ms) == ms \div 5

TickListInsertLater(t, n) == n + age[t]        \* mutant: a late caller waits more

OS_TickListInsert(t, n) == IF age[t] < n THEN n - age[t] ELSE n

Blocked(t) == call[t] = "none" \/ age[t] < 0

Runs(t) == age[t] >= 0 /\ (t = "screen" => Blocked("can"))

Other(t) == IF t = "can" THEN "screen" ELSE "can"

\* The history of the sections: t changes buffers, transfer or pin.
Disturbs(t) == [clean EXCEPT ![Other(t)] = FALSE]

Advance(t) ==
  IF pos[t] < Len(Script(call[t]))
    THEN pos' = [pos EXCEPT ![t] = @ + 1] /\ UNCHANGED call
    ELSE pos' = [pos EXCEPT ![t] = 1] /\ call' = [call EXCEPT ![t] = "none"]

\* A message arrives; the task has waited for it since any number of ticks, and
\* has perhaps delayed for the CAN bus meanwhile.
Begin(t, c) ==
  /\ call[t] = "none" /\ Runs(t)
  /\ call' = [call EXCEPT ![t] = c]
  /\ pos' = [pos EXCEPT ![t] = 1]
  /\ \E a \in 0..MaxLate : age' = [age EXCEPT ![t] = a]
  /\ UNCHANGED <<at, mcgs_buf, sendbuff, dma, dir, clean>>

SCREEN_485_TX(t) ==
  /\ call[t] # "none" /\ Runs(t) /\ Op(t).op = "tx"
  /\ dir' = "TX"
  /\ clean' = [Disturbs(t) EXCEPT ![t] = TRUE]
  /\ Advance(t)
  /\ UNCHANGED <<age, at, mcgs_buf, sendbuff, dma>>

SCREEN_485_RX(t) ==
  /\ call[t] # "none" /\ Runs(t) /\ Op(t).op = "rx"
  /\ dir' = "RX"
  /\ clean' = [Disturbs(t) EXCEPT ![t] = FALSE]
  /\ Advance(t)
  /\ UNCHANGED <<age, at, mcgs_buf, sendbuff, dma>>

delay_ms(t) ==
  /\ call[t] # "none" /\ Runs(t) /\ Op(t).op = "dly"
  /\ age' = [age EXCEPT ![t] = - OS_TickListInsert(t, Ticks(Op(t).ms))]
  /\ clean' = [clean EXCEPT ![t] = @ /\ (pos[t] = 2 \/ age[t] <= Slack)]
  /\ Advance(t)
  /\ UNCHANGED <<at, mcgs_buf, sendbuff, dma, dir>>
-----------------------------------------------------------------------------
(***************************************************************************)
(* The messages and their transfer.                                        *)
(***************************************************************************)
\* The contents of a buffer: the bytes up to the order, and those behind it.  In
\* sendbuff HexToAscii has turned each byte into two characters (see Blocks).
Empty == [order |-> "0", body |-> "0"]

Image(o) == [order |-> o, body |-> o]

\* The blocks of a message: 16 characters, 114 for a report, 10 for test_buf.
Blocks(o) == CASE o = "ACKDATA" -> 29 [] o = "test_buf" -> 3 [] OTHER -> 4

Transfer(o) == [order |-> o, left |-> Blocks(o), fresh |-> TRUE, whole |-> TRUE]

\* DMA_Cmd(DISABLE): what has not been sent is not sent any more.
Cut == [dma EXCEPT !.left = 0, !.whole = @ /\ dma.left = 0]

\* screen_ack and screen_datasend in can_task.
CanSend ==
  /\ call["can"] # "none" /\ Runs("can") /\ Op("can").op = "send"
  /\ mcgs_buf' = Image(Op("can").order) /\ sendbuff' = mcgs_buf'
  /\ dma' = Transfer(Op("can").order)
  /\ clean' = Disturbs("can")
  /\ Advance("can")
  /\ UNCHANGED <<age, at, dir>>

\* In screen_task: clear, lay out the order and the body, convert, ...
Pack ==
  \/ at = 0 /\ mcgs_buf' = Empty /\ sendbuff' = Empty
  \/ at = 1 /\ mcgs_buf' = [mcgs_buf EXCEPT !.order = Op("screen").order] /\ UNCHANGED sendbuff
  \/ at = 2 /\ mcgs_buf' = [mcgs_buf EXCEPT !.body = Op("screen").order] /\ UNCHANGED sendbuff
  \/ at = 3 /\ sendbuff' = mcgs_buf /\ UNCHANGED mcgs_buf

ScreenPack ==
  /\ call["screen"] # "none" /\ Runs("screen") /\ Op("screen").op = "send"
  /\ Op("screen").order # "test_buf"
  /\ Pack
  /\ at' = at + 1
  /\ clean' = Disturbs("screen")
  /\ UNCHANGED <<call, pos, age, dma, dir>>

\* ... then uart_send_dma: stop the stream ...
ScreenStopDma ==
  /\ call["screen"] # "none" /\ Runs("screen") /\ Op("screen").op = "send"
  /\ at = IF Op("screen").order = "test_buf" THEN 0 ELSE 4
  /\ dma' = Cut
  /\ at' = 5
  /\ clean' = Disturbs("screen")
  /\ UNCHANGED <<call, pos, age, mcgs_buf, sendbuff, dir>>

\* ... and start it.  The registers of a stream that can_task has started in
\* between do not take the new values.
ScreenStartDmaWaits ==           \* mutant: a busy stream is stopped once more
  /\ call["screen"] # "none" /\ Runs("screen") /\ Op("screen").op = "send"
  /\ at = 5
  /\ clean' = Disturbs("screen")
  /\ IF dma.left = 0
       THEN dma' = Transfer(Op("screen").order) /\ at' = 0 /\ Advance("screen")
       ELSE at' = (IF Op("screen").order = "test_buf" THEN 0 ELSE 4) /\ UNCHANGED <<dma, call, pos>>
  /\ UNCHANGED <<age, mcgs_buf, sendbuff, dir>>

ScreenStartDma ==
  /\ call["screen"] # "none" /\ Runs("screen") /\ Op("screen").op = "send"
  /\ at = 5
  /\ dma' = IF dma.left = 0 THEN Transfer(Op("screen").order) ELSE dma
  /\ at' = 0
  /\ clean' = Disturbs("screen")
  /\ Advance("screen")
  /\ UNCHANGED <<age, mcgs_buf, sendbuff, dir>>

\* What is on the line now is what the message should be, and the driver sends.
Right == dir = "TX" /\ (dma.order = "test_buf" \/ sendbuff = Image(dma.order))

\* A tick: at least four characters, in the first, incomplete one perhaps none.
Tick ==
  /\ \A t \in Tasks : ~Blocked(t) => age[t] < MaxLate
  /\ age' = [t \in Tasks |-> IF call[t] = "none" /\ age[t] >= 0 THEN 0 ELSE age[t] + 1]
  /\ \E k \in (IF dma.fresh THEN 0 ELSE 1)..2 :
       dma' = [dma EXCEPT !.left = IF @ > k THEN @ - k ELSE 0,
                          !.fresh = FALSE,
                          !.whole = @ /\ (k > 0 /\ dma.left > 0 => Right)]
  /\ UNCHANGED <<call, pos, at, mcgs_buf, sendbuff, dir, clean>>
-----------------------------------------------------------------------------
Init ==
  /\ call = [t \in Tasks |-> "none"] /\ pos = [t \in Tasks |-> 1]
  /\ age = [t \in Tasks |-> 0] /\ at = 0
  /\ mcgs_buf = Empty /\ sendbuff = Empty
  /\ dma = [order |-> "none", left |-> 0, fresh |-> FALSE, whole |-> FALSE]
  /\ dir = "RX"
  /\ clean = [t \in Tasks |-> FALSE]

CanStep ==
  \/ CanSend
  \/ SCREEN_485_TX("can") \/ SCREEN_485_RX("can") \/ delay_ms("can")

ScreenStep ==
  \/ ScreenPack \/ ScreenStopDma \/ ScreenStartDma
  \/ SCREEN_485_TX("screen") \/ SCREEN_485_RX("screen") \/ delay_ms("screen")

Next ==
  \/ \E c \in CanCalls : Begin("can", c)
  \/ \E c \in ScreenCalls : Begin("screen", c)
  \/ CanStep \/ ScreenStep \/ Tick

\* can_task spends most of its time blocked, so that screen_task gets its turn.
Spec == Init /\ [][Next]_vars /\ WF_vars(CanStep) /\ SF_vars(ScreenStep) /\ WF_vars(Tick)
-----------------------------------------------------------------------------
(***************************************************************************)
(* Properties.                                                             *)
(***************************************************************************)
TypeOK ==
  /\ call["can"] \in CanCalls \cup {"none"} /\ call["screen"] \in ScreenCalls \cup {"none"}
  /\ \A t \in Tasks : pos[t] \in 1..Len(Script(call[t]))
  /\ \A t \in Tasks : age[t] \in (- Ticks(LongDelay))..MaxLate
  /\ at \in 0..5
  /\ dma.left \in 0..29
  /\ dir \in {"RX", "TX"}

\* Whatever the interleaving of the two tasks: while neither is inside a section,
\* the driver listens, or no command of the screen, no stop either, would be heard.
IdleListens == dir = "TX" => \E t \in Tasks : InSection(t)

\* An acknowledgement of a start, or a test, whose section was not disturbed by
\* the other task and whose task was on time, reaches the screen whole, although
\* uart_send_dma does not wait.  (The 10 ms of poweroff and of SCREEN_SEEK are
\* too short for that.)
AckOnWhole ==
  [][\A t \in Tasks :
       /\ call[t] \in {"on", "ack_on", "test"} /\ Op(t) = RX /\ pos'[t] # pos[t]
       /\ clean[t]
       => dma.left = 0 /\ dma.whole /\ dma.order = Script(call[t])[3].order]_vars

\* The driver never sends for ever.
ListensAgain == dir = "TX" ~> dir = "RX"

\* Bounds for a task between SCREEN_485_TX and SCREEN_485_RX: the ticks that may
\* still pass (two delays, and three times the lateness), and the steps that the
\* task still takes.
Due(t) ==
  LET rest(k) == IF pos[t] <= k THEN Ticks(Script(call[t])[k].ms) + MaxLate ELSE 0
  IN  (MaxLate - age[t]) + rest(2) + rest(4)

Left(t) == 6 * (6 - pos[t]) - (IF t = "screen" THEN at ELSE 0)

\* The driver sends for a bounded time in each section, whatever the other task
\* does to buffers, transfer and pin: every tick and every step of the task itself
\* use up the bounds, and nobody extends them, because delay_ms makes a late caller
\* wait less and uart_send_dma never waits for a stream that is busy.
SectionEnds ==
  [][\A t \in Tasks : InSection(t) =>
       /\ Due(t) >= 0 /\ Left(t) > 0
       /\ Due(t)' <= Due(t) /\ Left(t)' <= Left(t)
       /\ Tick => Due(t)' < Due(t)
       /\ (t = "can" /\ CanStep) \/ (t = "screen" /\ ScreenStep) => Left(t)' < Left(t)]_vars
=============================================================================
