------------------------------ MODULE Startup ------------------------------
(***************************************************************************)
(* The start of the unit (sys_init in USER/main.c), with the EEPROM that   *)
(* holds the fixed data (HARDWARE/24CXX), the clock chip (HARDWARE/bq32000)*)
(* and the log on the SD card, which the heartbeat goes on writing.        *)
(*                                                                         *)
(* A reset may cut it anywhere: RAM is cleared, the EEPROM, the card and   *)
(* the running clock stay.  Nothing else runs before the operating system  *)
(* is started, and only can_task calls Write_Log afterwards.               *)
(***************************************************************************)
EXTENDS Integers, Sequences

CONSTANTS
  Instants,   \* the times at which the unit may be powered up
  DataLen,    \* sizeof(systemFixedData), 21 in the code
  SdTries,    \* the bound of the loop over SD_Init, 10 in the code
  MaxTicks,   \* bound: the seconds that pass
  MaxMisses,  \* bound: the reads that the clock chip does not answer
  MaxResets   \* bound: the resets

\* A time: years, month, date, hours, minutes, seconds.
Low == <<0, 1, 1, 0, 0, 0>>

Days(y, m) == CASE m = 2 -> IF y % 4 = 0 THEN 29 ELSE 28
                [] m \in {4, 6, 9, 11} -> 30
                [] OTHER -> 31

High(t) == <<99, 12, Days(t[1], t[2]), 23, 59, 59>>

IsTime(t) == /\ t \in [1..6 -> Nat]
             /\ \A k \in 1..6 : t[k] \in Low[k]..High(t)[k]

ASSUME StartAssumption ==
  /\ \A t \in Instants : IsTime(t)
  /\ DataLen \in Nat \ {0} /\ SdTries \in Nat
  /\ MaxTicks \in Nat /\ MaxMisses \in Nat /\ MaxResets \in Nat

VARIABLES
  pc,               \* where the processor is
  n,                \* the counter of the loop it is in
  systemFixedData,  \* RAM: the bytes of the fixed data
  CSUtime,          \* RAM: the time read last, field by field
  booted,           \* sys_init has returned since the last reset
  mem,              \* the EEPROM
  chip,             \* whether the EEPROM answers
  clock,            \* the clock chip
  logged,           \* the last entry of the log, if any: its stamp and its gaps
  ticks, resets,    \* the numbers of seconds and of resets so far
  misses,           \* the number of reads that the clock chip has not answered
  started,          \* history: the clock when the last reading began
  torn,             \* history: a minute or more was carried during that reading
  gaps,             \* history: whether the clock chip missed a read of that reading
  done              \* history: some start has been completed

ram  == <<systemFixedData, CSUtime>>
hist == <<started, torn, gaps, done>>
vars == <<pc, n, ram, booted, mem, chip, clock, logged, ticks, resets, misses, hist>>
-----------------------------------------------------------------------------
(***************************************************************************)
(* The EEPROM.  The chip is an M24256: it takes two address bytes and then *)
(* data.  The driver of 24cxx.c sends one address byte for chips up to the *)
(* AT24C16; the reading functions of the same file always send two.        *)
(***************************************************************************)
AT24C16 == 2047

EE_TYPE == 511

\* A byte: its value, and which byte of the fixed data it is.
FIRST_START_FLAG == <<"AA", 0>>

Erased == <<"FF", 0>>

Default == [k \in 1..DataLen |-> <<"default", k>>]

\* What an earlier firmware may have left in the chip.
Old == [k \in 1..DataLen |-> <<"old", k>>]

Cells == (0..DataLen) \cup {255}

Blank == [a \in Cells |-> Erased]

Programmed == [a \in Cells |-> IF a = 0 THEN FIRST_START_FLAG
                               ELSE IF a \in 1..DataLen THEN Old[a] ELSE Erased]

\* The chip takes a single address byte for the upper half of the address and
\* the data byte for the lower half: nothing is stored.
AT24CXX_WriteOneByte(a, v) ==
  mem' = IF EE_TYPE > AT24C16 /\ chip = "answers" THEN [mem EXCEPT ![a] = v] ELSE mem

\* Without an answer the bus reads as ones.
W24256_Byte_Read(a) == IF chip = "answers" THEN mem[a] ELSE Erased
-----------------------------------------------------------------------------
(***************************************************************************)
(* The clock chip keeps each field in BCD, with bits of its own above it.  *)
(***************************************************************************)
\* CENT_EN and CENT in the register of the hours.
Flags == <<0, 0, 0, 192, 0, 0>>

Register(k) == Flags[k] + (clock[k] \div 10) * 16 + (clock[k] % 10)

\* bq32000_ReadOneByte looks at no acknowledge: without one the bus reads as ones.
bq32000_ReadOneByte(k, answers) == IF answers THEN Register(k) ELSE 255

\* The masks of the tens: 0x0f, 0x01, 0x03, 0x03, 0x07, 0x07.
Tens == <<16, 2, 4, 4, 8, 8>>

DecodeUnmasked(k, r) == (r \div 16) * 10 + (r % 16)            \* mutant

DecodeUnits(k, r) == ((r \div 16) % Tens[k]) + (r % 16)        \* mutant: tens not times ten

Decode(k, r) == ((r \div 16) % Tens[k]) * 10 + (r % 16)

\* The order in which Get_CSU_time reads the fields.
SecondsFirst == <<6, 5, 4, 3, 2, 1>>      \* mutant

Order == <<1, 2, 3, 4, 5, 6>>

\* The next second: the last field that is not full is counted up, those behind
\* it start again.
Tick ==
  /\ ticks < MaxTicks
  /\ \E k \in 1..6 :
       /\ clock[k] < High(clock)[k]
       /\ \A j \in (k + 1)..6 : clock[j] = High(clock)[j]
       /\ clock' = [j \in 1..6 |-> IF j < k THEN clock[j]
                                   ELSE IF j = k THEN clock[j] + 1 ELSE Low[j]]
  /\ ticks' = ticks + 1
  /\ UNCHANGED <<pc, n, ram, booted, mem, chip, logged, resets, misses, hist>>
-----------------------------------------------------------------------------
(***************************************************************************)
(* sys_init, step by step.                                                 *)
(***************************************************************************)
outside == <<chip, clock, ticks, resets, misses>>

Goto(l) == pc' = l /\ n' = 0

\* Three link requests to the PTC.
Link ==
  /\ pc = "link"
  /\ IF n < 2 THEN pc' = pc /\ n' = n + 1 ELSE Goto("check")
  /\ UNCHANGED <<ram, booted, mem, outside, logged, hist>>

\* AT24CXX_Check: the byte it reads through one address byte may be any; its
\* result is not used.
AT24CXX_Check(present) ==
  /\ pc = "check"
  /\ IF present THEN UNCHANGED mem ELSE AT24CXX_WriteOneByte(255, <<"55", 0>>)
  /\ Goto("flag")
  /\ UNCHANGED <<ram, booted, outside, logged, hist>>

\* Variable_Eeprom: with the flag set the data are read, ...
LoadData ==
  /\ pc = "flag" /\ W24256_Byte_Read(0) = FIRST_START_FLAG
  /\ systemFixedData' = [k \in 1..DataLen |-> W24256_Byte_Read(k)]
  /\ Goto("clock")
  /\ UNCHANGED <<CSUtime, booted, mem, outside, logged, hist>>

\* ... without it the flag is written first ...
FirstStart ==
  /\ pc = "flag" /\ W24256_Byte_Read(0) # FIRST_START_FLAG
  /\ AT24CXX_WriteOneByte(0, FIRST_START_FLAG)
  /\ systemFixedData' = Default
  /\ Goto("save")
  /\ UNCHANGED <<CSUtime, booted, outside, logged, hist>>

\* ... and then the default data, byte by byte.
SaveByte ==
  /\ pc = "save"
  /\ AT24CXX_WriteOneByte(n + 1, systemFixedData[n + 1])
  /\ IF n + 1 < DataLen THEN pc' = pc /\ n' = n + 1 ELSE Goto("clock")
  /\ UNCHANGED <<ram, booted, outside, logged, hist>>

\* Get_CSU_time, in sys_init itself and in Write_Log: one field.
Get_CSU_time(answers) ==
  /\ pc \in {"clock", "stamp"}
  /\ answers \/ misses < MaxMisses
  /\ LET k == Order[n + 1] IN
     CSUtime' = [CSUtime EXCEPT ![k] = Decode(k, bq32000_ReadOneByte(k, answers))]
  /\ misses' = IF answers THEN misses ELSE misses + 1
  /\ started' = IF n = 0 THEN clock ELSE started
  /\ torn' = (n > 0 /\ \E k \in 1..5 : started[k] # clock[k])
  /\ gaps' = IF answers /\ (n = 0 \/ gaps = "none") THEN "none" ELSE "some"
  /\ IF n < 5 THEN pc' = pc /\ n' = n + 1
              ELSE Goto(IF pc = "clock" THEN "sd" ELSE "write")
  /\ UNCHANGED <<systemFixedData, booted, mem, chip, clock, ticks, resets, logged, done>>

SdForEver(ok) ==                \* mutant: at the bound the counter starts again
  /\ pc = "sd"
  /\ IF ok THEN Goto("stamp") ELSE pc' = pc /\ n' = (n + 1) % (SdTries + 1)
  /\ UNCHANGED <<ram, booted, mem, outside, logged, hist>>

\* One round of the loop over SD_Init.
SdInit(ok) ==
  /\ pc = "sd"
  /\ IF ok \/ n + 1 > SdTries THEN Goto("stamp") ELSE pc' = pc /\ n' = n + 1
  /\ UNCHANGED <<ram, booted, mem, outside, logged, hist>>

\* Write_TFCard: mount, open, write and close; any of them may fail, the result
\* is not used.  In sys_init the tasks are started next.
Write_TFCard(ok) ==
  /\ pc = "write"
  /\ logged' = IF ok THEN <<CSUtime, gaps>> ELSE logged
  /\ booted' = TRUE
  /\ done' = TRUE
  /\ Goto("run")
  /\ UNCHANGED <<ram, mem, outside, started, torn, gaps>>

\* The heartbeat of can_task ends with Write_Log.
Heartbeat ==
  /\ pc = "run"
  /\ Goto("stamp")
  /\ UNCHANGED <<ram, booted, mem, outside, logged, hist>>

Step ==
  \/ Link
  \/ \E present \in BOOLEAN : AT24CXX_Check(present)
  \/ LoadData
  \/ FirstStart
  \/ SaveByte
  \/ \E answers \in BOOLEAN : Get_CSU_time(answers)
  \/ \E ok \in BOOLEAN : SdInit(ok)
  \/ \E ok \in BOOLEAN : Write_TFCard(ok)
  \/ Heartbeat

NoData == [k \in 1..DataLen |-> <<"0", k>>]

NoTime == <<0, 0, 0, 0, 0, 0>>

Reset ==
  /\ resets < MaxResets
  /\ resets' = resets + 1
  /\ Goto("link")
  /\ systemFixedData' = NoData /\ CSUtime' = NoTime
  /\ booted' = FALSE
  /\ UNCHANGED <<mem, chip, clock, logged, ticks, misses, hist>>

Init ==
  /\ pc = "link" /\ n = 0
  /\ systemFixedData = NoData /\ CSUtime = NoTime
  /\ booted = FALSE
  /\ mem \in {Blank, Programmed}
  /\ chip \in {"answers", "mute"}
  /\ clock \in Instants
  /\ logged = <<>>
  /\ ticks = 0 /\ resets = 0 /\ misses = 0
  /\ started = clock /\ torn = FALSE /\ gaps = "none" /\ done = FALSE

Next == Step \/ Tick \/ Reset

\* The processor goes on; the loops of the drivers are all bounded.
Spec == Init /\ [][Next]_vars /\ WF_vars(Step)
-----------------------------------------------------------------------------
(***************************************************************************)
(* Properties.                                                             *)
(***************************************************************************)
Labels == {"link", "check", "flag", "save", "clock", "sd", "stamp", "write", "run"}

\* A field of the time is in its range, CENT_EN and CENT never get into the
\* hours; only a clock chip that does not answer leaves a value outside.
TypeOK ==
  /\ pc \in Labels /\ n \in 0..(DataLen + SdTries + 6)
  /\ DOMAIN systemFixedData = 1..DataLen
  /\ \A k \in 1..6 : \/ CSUtime[k] \in 0..<<99, 12, 31, 23, 59, 59>>[k]
                     \/ misses > 0 /\ CSUtime[k] = <<165, 25, 45, 45, 85, 85>>[k]
  /\ booted \in BOOLEAN
  /\ DOMAIN mem = Cells /\ chip \in {"answers", "mute"}
  /\ IsTime(clock)
  /\ ticks \in 0..MaxTicks /\ resets \in 0..MaxResets /\ misses \in 0..MaxMisses
  /\ gaps \in {"none", "some"}

Earlier(s, t) == \E k \in 1..6 : s[k] < t[k] /\ \A j \in 1..(k - 1) : s[j] = t[j]

\* The fields are read one after the other while the clock runs: a time stamp
\* may be behind the clock by up to a year, but it is never ahead of it, unless
\* the clock chip has left one of the six reads unanswered.
TimeNotAhead == pc = "write" /\ gaps = "none" => ~Earlier(clock, CSUtime)

\* Of two successive entries of the log that were read from an answering clock
\* the later one goes back in time only where a carry beyond the seconds has torn
\* its reading, also across resets.
LogInOrder ==
  [][/\ logged # <<>> /\ logged' # logged
     /\ logged[2] = "none" /\ logged'[2] = "none"
     /\ Earlier(logged'[1], logged[1])
     => torn]_vars

\* The start ends, with or without EEPROM, clock chip and card, once the resets
\* cease.
StartEnds == <>[]booted

\* A bound on the steps that are left before the processor has written the next
\* log entry, and so before the start ends.
Left ==
  LET fromStamp == 7
      fromSd    == SdTries + 1 + fromStamp
      fromClock == 6 + fromSd
      fromFlag  == 1 + DataLen + fromClock IN
  CASE pc = "link"  -> (3 - n) + 1 + fromFlag
    [] pc = "check" -> 1 + fromFlag
    [] pc = "flag"  -> fromFlag
    [] pc = "save"  -> (DataLen - n) + fromClock
    [] pc = "clock" -> fromClock - n
    [] pc = "sd"    -> fromSd - n
    [] pc = "stamp" -> fromStamp - n
    [] pc = "write" -> 1
    [] OTHER        -> 0

\* The start is over after at most Left more steps, whichever of the EEPROM, the
\* clock chip and the card answer: each step brings the end nearer, and only a
\* reset puts it off.
StartProgress ==
  [][/\ ~booted => Left > 0
     /\ pc # "run" => /\ Step => Left' < Left
                      /\ resets' = resets => Left' <= Left]_vars
-----------------------------------------------------------------------------
\* FIRST_START_FLAG is the "first power-up flag", and AT24CXX_Check wants to
\* "avoid writing the AT24CXX at every power-up": after a completed start no
\* further start should be a first one.
FirstStartOnce == [][pc = "flag" /\ pc' = "save" => ~(done /\ chip = "answers")]_vars
=============================================================================
